----------------------------- MODULE HistoryPage ------------------------------
(***************************************************************************)
(* The history page: updateAll of history.js, which polls /api/stats/all   *)
(* every second whether or not the last answer has come, and the sample    *)
(* the daemon takes for each answer (get_cpu_stats, handle_all_stats).     *)
(*                                                                         *)
(* Answers fail, and arrive in any order.  updateAll is one callback from  *)
(* its await on; where it throws, the charts it has reached keep their new *)
(* point and the others do not get one.  Download and upload, and read and *)
(* write, are treated alike by the code, so one counter stands for both.   *)
(* There is one network interface.                                         *)
(*                                                                         *)
(* The counters are unsigned longs of bytes and sectors; what the daemon   *)
(* sends are floats of megabytes.  Here a counter counts the finest unit,  *)
(* and a float is the number of those that it stands for.                  *)
(*                                                                         *)
(* A chart is the sequence of its last Points points.  For each point the  *)
(* model also records what it was computed from.                           *)
(***************************************************************************)
EXTENDS Integers, FiniteSets, FiniteSetsExt, Functions, Bags

CONSTANTS
    Disks,         \* disks, in the order in which the daemon lists them
    Cores,         \* CPUs of the machine
    NumCores,      \* NUM_CORES of the page: core charts it has
    Points,        \* MAX_POINTS
    Precision,     \* significands of a float: 2^24 in the code
    Boot,          \* what network and disks have counted before
    None,          \* null, undefined, and a point that has not been drawn
    MaxNet,        \* bound: what the network interfaces count up to
    MaxIo,         \* bound: what the disks count up to together
    MaxWork,       \* bound: clock ticks the CPUs work
    MaxPlugs,      \* bound: disks and CPUs that come or go
    MaxInFlight,   \* bound: requests under way
    MaxFailures    \* bound: requests that fail

ASSUME DisksAssumption  == Disks \subseteq Nat /\ IsFiniteSet(Disks)
ASSUME ChartsAssumption == Points \in Nat \ {0} /\ {Cores, NumCores} \subseteq Nat \ {0}
ASSUME FloatAssumption  == Precision \in Nat \ {0}
ASSUME NoneAssumption   == /\ None \notin Int
                           /\ \A ds \in SUBSET Disks : None # ds /\ None \notin [ds -> Nat]
ASSUME BoundsAssumption == /\ {MaxNet, MaxIo, MaxWork, MaxPlugs, MaxInFlight, MaxFailures}
                             \subseteq Nat
                           /\ Boot \in 0 .. MaxNet /\ Boot \in 0 .. MaxIo

VARIABLES
    net, io, work,   \* counters: bytes, sectors of each disk, ticks
    plugged, online, \* the disks there are, and how many CPUs
    plugs,           \* disks and CPUs that came or went so far
    before_gs,       \* ticks in the daemon's last sample, None if there is none
    sameMs,          \* no millisecond has passed since that sample
    lastNet,         \* page: network counter of the last answer
    lastDiskStats,   \* page: disk counters of the last answer, by disk
    lastTotal,       \* page: their total in that answer
    diskDevices,     \* page: disks found in the first answer
    netSeries, diskSeries, totalSeries, avgSeries, coreSeries, memSeries,   \* page: charts
    inflight,        \* bag of the requests under way
    failures,        \* requests that failed so far
    strange,         \* history: an answer had other disks than the first one
    fewest           \* history: the smallest number of CPUs in an answer

machine == <<net, io, work, plugged, online, plugs>>
daemon  == <<before_gs, sameMs>>
charts  == <<netSeries, diskSeries, totalSeries, avgSeries, coreSeries, memSeries>>
page    == <<lastNet, lastDiskStats, lastTotal, diskDevices, charts, strange, fewest>>
vars    == <<machine, daemon, page, inflight, failures>>

Counters(ds) == [ds -> 0 .. MaxIo]

(* Floats are this far apart at n, a power of two: a significand has       *)
(* Precision values, and small numbers of the finest unit are all floats.  *)
Spacing[n \in Nat] ==
    LET most == (2 * n) \div Precision
    IN  Max({1} \cup ({2 ^ i : i \in 1 .. most} \cap 1 .. most))

(* Rounded to a multiple of the gap, and to an even one if n is between two.*)
Rounded[gap \in Nat \ {0}] ==
    [n \in Nat |->
       LET q == n \div gap
           r == n % gap
       IN  gap * (IF 2 * r > gap \/ (2 * r = gap /\ q % 2 = 1) THEN q + 1 ELSE q)]

Float[n \in Nat] == Rounded[Spacing[n]][n]

(* A point: its value, the figure it was computed from, and the network    *)
(* counter of the answer it belongs to.                                    *)
Point(v, at, of) == [v |-> v, at |-> at, of |-> of]
Empty            == [k \in 1 .. Points |-> Point(0, None, None)]
Series           == [1 .. Points -> [v : Int, at : Int \cup {None}, of : Int \cup {None}]]

pushTrim(arr, p) == [k \in 1 .. Points |-> IF k = Points THEN p ELSE arr[k + 1]]

Sent == [phase |-> "sent"]

TypeOK ==
    /\ net \in 0 .. MaxNet /\ work \in 0 .. MaxWork /\ io \in Counters(Disks)
    /\ plugged \subseteq Disks /\ online \in 1 .. Cores /\ plugs \in 0 .. MaxPlugs
    /\ before_gs \in 0 .. MaxWork \cup {None} /\ sameMs \in BOOLEAN
    /\ lastNet \in Nat \cup {None}
    /\ diskDevices \in (SUBSET Disks) \cup {None}
    /\ lastDiskStats = None \/ diskDevices \subseteq DOMAIN lastDiskStats
    /\ \A s \in {netSeries, avgSeries, memSeries} : s \in Series
    /\ DOMAIN totalSeries = 1 .. Points
    /\ coreSeries \in [1 .. NumCores -> Series]
    /\ \A d \in DOMAIN diskSeries : diskSeries[d] \in Series
    /\ DOMAIN diskSeries = IF diskDevices = None THEN {} ELSE diskDevices
    /\ strange \in BOOLEAN /\ fewest \in 1 .. Cores
    /\ IsABag(inflight) /\ failures \in 0 .. MaxFailures
    /\ \A m \in DOMAIN inflight : m.phase \in {"sent", "served"}

(* The page has been loaded: updateAll has sent its first request, and the *)
(* interval runs.                                                          *)
Init ==
    /\ net = Boot /\ work = 0 /\ io = [d \in Disks |-> Boot]
    /\ plugged = Disks /\ online = Cores /\ plugs = 0
    /\ before_gs = None /\ sameMs = FALSE
    /\ lastNet = None /\ lastDiskStats = None /\ lastTotal = None /\ diskDevices = None
    /\ netSeries = Empty /\ totalSeries = Empty /\ avgSeries = Empty /\ memSeries = Empty
    /\ diskSeries = [d \in {} |-> Empty] /\ coreSeries = [i \in 1 .. NumCores |-> Empty]
    /\ inflight = SetToBag({Sent}) /\ failures = 0 /\ strange = FALSE /\ fewest = Cores

-----------------------------------------------------------------------------
(* The machine. *)

Traffic  == /\ net < MaxNet /\ net' = net + 1
            /\ UNCHANGED <<io, work, plugged, online, plugs, daemon, page, inflight, failures>>
Transfer == /\ SumFunction(io) < MaxIo
            /\ \E d \in plugged : io' = [io EXCEPT ![d] = @ + 1]
            /\ UNCHANGED <<net, work, plugged, online, plugs, daemon, page, inflight, failures>>
Work     == /\ work < MaxWork /\ work' = work + 1
            /\ UNCHANGED <<net, io, plugged, online, plugs, daemon, page, inflight, failures>>
Tick     == /\ sameMs /\ sameMs' = FALSE
            /\ UNCHANGED <<machine, before_gs, page, inflight, failures>>

(* A disk that comes back counts from zero. *)
Plug ==
    /\ plugs < MaxPlugs /\ plugs' = plugs + 1
    /\ \E d \in Disks :
          \/ d \in plugged /\ plugged' = plugged \ {d} /\ UNCHANGED io
          \/ d \notin plugged /\ plugged' = plugged \cup {d} /\ io' = [io EXCEPT ![d] = 0]
    /\ UNCHANGED <<net, work, online, daemon, page, inflight, failures>>

(* A CPU is taken offline or brought back. *)
Hotplug ==
    /\ plugs < MaxPlugs /\ plugs' = plugs + 1
    /\ online' \in {online - 1, online + 1} \cap 1 .. Cores
    /\ UNCHANGED <<net, io, work, plugged, daemon, page, inflight, failures>>

-----------------------------------------------------------------------------
(* The daemon. *)

(* total_cpu_utilization_percent: work in an interval of no milliseconds   *)
(* is infinite, which cJSON writes as null.                                *)
CpuUtil ==
    IF before_gs = None \/ before_gs = work THEN "zero"
    ELSE IF sameMs THEN None ELSE "positive"

(* get_cpu_stats: the sample becomes the baseline of every client. *)
TakeSample == before_gs' = work /\ sameMs' = TRUE

(* The total is a float, too: every addition rounds (gs.total_disk_read_MB *)
(* += gs.disk[i].read_MB).                                                 *)
MegaBytes(d) == Float[io[d]]

FloatTotal ==
    LET sum[ds \in SUBSET plugged] ==
          IF ds = {} THEN 0 ELSE LET d == Max(ds) IN Float[sum[ds \ {d}] + MegaBytes(d)]
    IN  sum[plugged]

Answer == [phase |-> "served", of |-> net, net |-> Float[net],
           disks |-> [d \in plugged |-> MegaBytes(d)], total |-> FloatTotal,
           cores |-> online, util |-> CpuUtil]

(* handle_all_stats, through fetchAllStats and getAllStats. *)
Serve ==
    /\ Sent \in DOMAIN inflight
    /\ TakeSample
    /\ UNCHANGED <<machine, page, failures>>
    /\ inflight' = (inflight (-) SetToBag({Sent})) (+) SetToBag({Answer})

(* Another client asks for statistics. *)
ServeOther ==
    /\ TakeSample
    /\ UNCHANGED <<machine, page, inflight, failures>>

-----------------------------------------------------------------------------
(* The page. *)

(* The interval runs out: updateAll up to its await. *)
Poll ==
    /\ BagCardinality(inflight) < MaxInFlight
    /\ inflight' = inflight (+) SetToBag({Sent})
    /\ UNCHANGED <<machine, daemon, page, failures>>

(* A request fails, before or after it is served, and updateAll throws.    *)
Fail ==
    /\ failures < MaxFailures /\ failures' = failures + 1
    /\ \E m \in DOMAIN inflight : inflight' = inflight (-) SetToBag({m})
    /\ UNCHANGED <<machine, daemon, page>>

(* The metadata boxes come first: null.toFixed throws before any chart is  *)
(* touched.                                                                *)
HasMetadataTruthy(m) == m.util = "positive"  \* mutant: 0 is taken for a missing value

HasMetadata(m) == m.util # None

UpdateNetEager(m) ==  \* mutant: lastNet keeps the first answer
    /\ lastNet' = IF lastNet = None THEN m.net ELSE lastNet
    /\ netSeries' = IF lastNet = None THEN netSeries
                    ELSE pushTrim(netSeries, Point(m.net - lastNet, m.net, m.of))

(* Network deltas, from the second answer on. *)
UpdateNet(m) ==
    /\ lastNet' = m.net
    /\ netSeries' = IF lastNet = None THEN netSeries
                    ELSE pushTrim(netSeries, Point(m.net - lastNet, m.net, m.of))

(* The first answer tells which disks the page knows. *)
Known(m) == IF diskDevices = None THEN DOMAIN m.disks ELSE diskDevices

CompleteAlways(m) == TRUE  \* mutant: missing disks are skipped

(* The loop over the known disks throws at the first one that is missing.  *)
Complete(m) == lastDiskStats = None \/ Known(m) \subseteq DOMAIN m.disks

Reached(m) == {d \in Known(m) : \A e \in Known(m) : e <= d => e \in DOMAIN m.disks}

UpdateDisks(m) ==
    /\ diskDevices' = Known(m)
    /\ diskSeries' =
         [d \in Known(m) |->
            IF lastDiskStats = None THEN Empty
            ELSE IF d \in Reached(m)
                 THEN pushTrim(diskSeries[d],
                               Point(m.disks[d] - lastDiskStats[d], m.disks[d], m.of))
                 ELSE diskSeries[d]]

(* The total has a point for every disk there is, known or not; it comes   *)
(* after the loop.                                                         *)
TotalDeltaFirst(m) == m.total  \* mutant: the last answer is not subtracted

TotalDelta(m) == m.total - lastTotal

UpdateTotalIfBusy(m) ==  \* mutant: an interval without traffic has no point
    /\ lastDiskStats' = m.disks /\ lastTotal' = m.total
    /\ totalSeries' = IF lastDiskStats = None \/ m.disks = lastDiskStats THEN totalSeries
                      ELSE pushTrim(totalSeries, Point(TotalDelta(m), m.total, m.of))

UpdateTotal(m) ==
    /\ lastDiskStats' = m.disks /\ lastTotal' = m.total
    /\ totalSeries' = IF lastDiskStats = None THEN totalSeries
                      ELSE pushTrim(totalSeries, Point(TotalDelta(m), m.total, m.of))

(* The CPUs of the answer are drawn in the first charts; there are         *)
(* NumCores of them, and one CPU more throws.  Memory comes last.          *)
UpdateCpuAndMemory(m) ==
    /\ avgSeries' = pushTrim(avgSeries, Point(0, None, m.of))
    /\ coreSeries' = [i \in 1 .. NumCores |->
                        IF i <= m.cores THEN pushTrim(coreSeries[i], Point(0, None, m.of))
                        ELSE coreSeries[i]]
    /\ memSeries' = IF m.cores > NumCores THEN memSeries
                    ELSE pushTrim(memSeries, Point(0, None, m.of))

(* updateAll from its await on. *)
Update(m) ==
    /\ UpdateNet(m)
    /\ UpdateDisks(m)
    /\ strange' = (strange \/ Known(m) # DOMAIN m.disks)
    /\ fewest' = IF m.cores < fewest THEN m.cores ELSE fewest
    /\ \/ Complete(m) /\ UpdateTotal(m) /\ UpdateCpuAndMemory(m)
       \/ /\ ~Complete(m)
          /\ UNCHANGED <<lastDiskStats, lastTotal, totalSeries, avgSeries, coreSeries, memSeries>>

Deliver ==
    /\ \E m \in DOMAIN inflight :
          /\ m.phase = "served"
          /\ inflight' = inflight (-) SetToBag({m})
          /\ \/ HasMetadata(m) /\ Update(m)
             \/ ~HasMetadata(m) /\ UNCHANGED page
    /\ UNCHANGED <<machine, daemon, failures>>

-----------------------------------------------------------------------------
Next ==
    \/ Traffic \/ Transfer \/ Work \/ Tick \/ Plug \/ Hotplug
    \/ Serve \/ ServeOther
    \/ Poll \/ Fail \/ Deliver

Spec == Init /\ [][Next]_vars

(* The daemon answers and the page handles answers; the interval fires for *)
(* ever, as soon as the bound MaxInFlight lets it.                         *)
Fairness == WF_vars(Serve) /\ WF_vars(Deliver) /\ SF_vars(Poll)

FairSpec == Spec /\ Fairness

-----------------------------------------------------------------------------
(* The points of a chart are the differences of the figures of one answer  *)
(* and the one applied before it. *)
Deltas(s) ==
    \A k \in 2 .. Points :
        (s[k].at # None /\ s[k - 1].at # None) => s[k].v = s[k].at - s[k - 1].at

(* So no traffic is drawn twice or left out, whatever answers fail, are    *)
(* null or overtake each other (history.js:144-149); the same is true of   *)
(* the disks as long as they stay the same.                                *)
TrafficDrawnOnce ==
    /\ Deltas(netSeries)
    /\ ~strange => Deltas(totalSeries) /\ \A d \in DOMAIN diskSeries : Deltas(diskSeries[d])

(* A column of the page is one answer in all its charts, if the disks stay:*)
(* an answer that cannot be used is rejected before the first chart        *)
(* changes (history.js:126-141), and the loop over the disks completes.    *)
(* The chart of a core keeps step as long as its CPU is in every answer    *)
(* (history.js:229-231), and memory if there are no more cores than charts.*)
ColumnsAligned ==
    ~strange =>
        \A k \in 1 .. Points :
            /\ netSeries[k].of \in {None, avgSeries[k].of}
            /\ totalSeries[k].of = netSeries[k].of
            /\ \A d \in DOMAIN diskSeries : diskSeries[d][k].of = netSeries[k].of
            /\ \A i \in 1 .. NumCores : i <= fewest => coreSeries[i][k].of = avgSeries[k].of
            /\ Cores <= NumCores => memSeries[k].of = avgSeries[k].of

(* The total that is drawn is near the sum of the disks that are drawn, as *)
(* long as the disks stay the same: floats are added up anew for every     *)
(* answer (stats_routes.c:213-228), each addition may be off by half the   *)
(* spacing of the total, and the page subtracts two of the totals          *)
(* (history.js:211-223).  Lost and overtaken answers add nothing to that.  *)
TotalNearDisks ==
    (~strange /\ diskDevices \notin {None, {}}) =>
        \A k \in 2 .. Points :
            LET all  == totalSeries[k]
                prev == totalSeries[k - 1]
                off  == all.v - SumFunction([d \in diskDevices |-> diskSeries[d][k].v])
                most == (Cardinality(diskDevices) - 1) * (Spacing[all.at] + Spacing[prev.at])
            IN  (None \notin {all.at, prev.at}) => -most <= 2 * off /\ 2 * off <= most

(* The network chart comes to show all traffic, up to a float's precision, *)
(* though other clients can make answers null and disks can disappear: only*)
(* work makes them null, and the network comes before the disks.           *)
NetCatchesUp == <>[](lastNet = Float[net])

-----------------------------------------------------------------------------
(* What the comments say, and the code does not do. *)

(* history.js:209: "per-disk delta".  When a known disk disappears, the    *)
(* loop throws before lastDiskStats is set, so the disks before it are     *)
(* drawn with ever more of what has been drawn already.                    *)
DiskDeltas == \A d \in DOMAIN diskSeries : Deltas(diskSeries[d])
=============================================================================
