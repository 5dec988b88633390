-------------------------- MODULE HistoryPageProofs ---------------------------
(***************************************************************************)
(* The history page, for every number of points, disks and requests under  *)
(* way, and every precision of floats: no traffic is drawn twice or left   *)
(* out, and the charts stay in step.                                       *)
(***************************************************************************)
EXTENDS HistoryPage, SumTheorems, TLAPS

(* Points. *)
LEMMA EmptyPoints ==
    ASSUME NEW k \in 1 .. Points
    PROVE  Empty[k].at = None /\ Empty[k].of = None
BY DEF Empty, Point

LEMMA PushedPoints ==
    ASSUME NEW s, NEW p
    PROVE  /\ pushTrim(s, p)[Points] = p
           /\ \A k \in 1 .. Points : k # Points => pushTrim(s, p)[k] = s[k + 1]
BY ChartsAssumption DEF pushTrim

LEMMA PointParts ==
    ASSUME NEW v, NEW at, NEW of
    PROVE  Point(v, at, of).v = v /\ Point(v, at, of).at = at /\ Point(v, at, of).of = of
BY DEF Point

(* A chart whose newest point was computed from the counter c, if from any,*)
(* can take the difference of the next counter and c.                      *)
LEMMA EmptyDeltas == Deltas(Empty) /\ Empty[Points].at = None
BY EmptyPoints, ChartsAssumption DEF Deltas

LEMMA PushDelta ==
    ASSUME NEW s, NEW c, NEW new, NEW of, Deltas(s), s[Points].at \in {None, c}
    PROVE  /\ Deltas(pushTrim(s, Point(new - c, new, of)))
           /\ pushTrim(s, Point(new - c, new, of))[Points].at = new
<1> DEFINE p == Point(new - c, new, of)
           t == pushTrim(s, p)
<1>1. /\ t[Points] = p /\ p.v = new - c /\ p.at = new
      /\ \A k \in 1 .. Points : k # Points => t[k] = s[k + 1]
  BY PushedPoints, PointParts
<1> HIDE DEF p, t
<1>2. ASSUME NEW k \in 2 .. Points, t[k].at # None, t[k - 1].at # None
      PROVE  t[k].v = t[k].at - t[k - 1].at
  <2>1. k - 1 \in 1 .. Points /\ k - 1 # Points /\ (k - 1) + 1 = k /\ k \in 1 .. Points
    BY ChartsAssumption
  <2>2. t[k - 1] = s[k]
    BY <1>1, <2>1
  <2>3. CASE k = Points
    BY <1>1, <1>2, <2>2, <2>3
  <2>4. CASE k # Points
    <3>1. t[k] = s[k + 1] /\ k + 1 \in 2 .. Points /\ (k + 1) - 1 = k
      BY <1>1, <2>1, <2>4, ChartsAssumption
    <3>2. s[k + 1].v = s[k + 1].at - s[k].at
      BY <1>2, <2>2, <3>1 DEF Deltas
    <3> QED BY <2>2, <3>1, <3>2
  <2> QED BY <2>3, <2>4
<1> QED BY <1>1, <1>2 DEF Deltas, p, t

-----------------------------------------------------------------------------
(* What the machine and the daemon keep.                                   *)
LEMMA Bounds ==
    /\ MaxNet \in Nat /\ MaxIo \in Nat /\ MaxWork \in Nat
    /\ MaxPlugs \in Nat /\ MaxFailures \in Nat
    /\ Cores \in Nat \ {0} /\ NumCores \in Nat \ {0}
    /\ Boot \in 0 .. MaxNet /\ Boot \in 0 .. MaxIo
BY BoundsAssumption, ChartsAssumption

MachineTyped ==
    /\ net \in 0 .. MaxNet /\ work \in 0 .. MaxWork /\ io \in Counters(Disks)
    /\ plugged \subseteq Disks /\ online \in 1 .. Cores /\ plugs \in 0 .. MaxPlugs
    /\ before_gs \in 0 .. MaxWork \cup {None} /\ sameMs \in BOOLEAN

LEMMA InitMachine == Init => MachineTyped
<1> SUFFICES ASSUME Init PROVE MachineTyped
  OBVIOUS
<1>1. io \in Counters(Disks)
  BY Bounds DEF Init, Counters
<1>2. /\ net = Boot /\ work = 0 /\ plugged = Disks /\ online = Cores /\ plugs = 0
      /\ before_gs = None
  BY DEF Init
<1>3. sameMs \in BOOLEAN
  BY DEF Init
<1> QED BY <1>1, <1>2, <1>3, Bounds DEF MachineTyped

(* A disk counts no further than all of them together. *)
LEMMA MachineTypes == MachineTyped /\ [Next]_vars => MachineTyped'
<1> SUFFICES ASSUME MachineTyped, [Next]_vars PROVE MachineTyped'
  OBVIOUS
<1> USE Bounds DEF MachineTyped
<1>1. CASE Traffic
  BY <1>1 DEF Traffic, daemon
<1>2. CASE Transfer
  <2>1. PICK d \in plugged : io' = [io EXCEPT ![d] = @ + 1]
    BY <1>2 DEF Transfer
  <2>2. d \in Disks /\ DOMAIN io = Disks /\ \A x \in Disks : io[x] \in Nat
    BY DEF Counters
  <2>3. SumFunctionOnSet(io, Disks) < MaxIo
    BY <1>2, <2>2 DEF Transfer, SumFunction
  <2>4. SumFunctionOnSet(io, Disks) = io[d] + SumFunctionOnSet(io, Disks \ {d})
    <3>1. IsFiniteSet(Disks) /\ \A x \in Disks : io[x] \in Int
      BY <2>2, DisksAssumption
    <3> QED BY <2>2, <3>1, SumTake
  <2>5. SumFunctionOnSet(io, Disks \ {d}) \in Nat
    BY <2>2, DisksAssumption, FS_Subset, SumNat
  <2>6. io[d] + 1 \in 0 .. MaxIo
    BY <2>2, <2>3, <2>4, <2>5
  <2>7. io' \in Counters(Disks)
    BY <2>1, <2>6 DEF Counters
  <2> QED BY <1>2, <2>7 DEF Transfer, daemon
<1>3. CASE Work
  BY <1>3 DEF Work, daemon
<1>4. CASE Tick
  BY <1>4 DEF Tick, machine
<1>5. CASE Plug
  <2>1. io' \in Counters(Disks) /\ plugged' \subseteq Disks
    BY <1>5 DEF Plug, Counters
  <2> QED BY <1>5, <2>1 DEF Plug, daemon
<1>8. CASE Hotplug
  BY <1>8 DEF Hotplug, daemon
<1>6. CASE Serve \/ ServeOther
  BY <1>6 DEF Serve, ServeOther, TakeSample, machine
<1>7. CASE Poll \/ Fail \/ Deliver \/ UNCHANGED vars
  BY <1>7 DEF Poll, Fail, Deliver, vars, machine, daemon
<1> QED BY <1>1, <1>2, <1>3, <1>4, <1>5, <1>6, <1>7, <1>8 DEF Next

-----------------------------------------------------------------------------
(* Floats.  There is a power of two that is their spacing, and rounding    *)
(* gives a natural number.                                                 *)
LEMMA MaxIn ==
    ASSUME NEW S \in SUBSET Nat, IsFiniteSet(S), S # {}
    PROVE  Max(S) \in S
<1>1. PICK last \in S : \A n \in S : n <= last
  BY LastNumber
<1>2. \E x \in S : \A y \in S : x >= y
  BY <1>1
<1> QED BY <1>2, Zenon DEF Max

LEMMA SpacingTyped == ASSUME NEW n \in Nat PROVE Spacing[n] \in Nat \ {0}
<1> DEFINE most == (2 * n) \div Precision
           gaps == {1} \cup ({2 ^ i : i \in 1 .. most} \cap 1 .. most)
<1>1. Spacing[n] = Max(gaps)
  BY DEF Spacing
<1>2. most \in Nat
  BY FloatAssumption
<1> HIDE DEF most
<1>3. gaps \subseteq Nat \ {0} /\ gaps \subseteq {1} \cup 1 .. most /\ gaps # {}
  BY <1>2
<1>4. IsFiniteSet({1} \cup 1 .. most)
  <2>1. IsFiniteSet(1 .. most)
    BY <1>2, FS_Interval
  <2>2. IsFiniteSet({1})
    BY FS_Singleton
  <2> QED BY <2>1, <2>2, FS_Union
<1> HIDE DEF gaps
<1>5. IsFiniteSet(gaps)
  BY <1>3, <1>4, FS_Subset
<1>6. gaps \in SUBSET Nat
  BY <1>3
<1> QED BY <1>1, <1>3, <1>5, <1>6, MaxIn

LEMMA RoundedTyped ==
    ASSUME NEW n \in Nat, NEW gap \in Nat \ {0}
    PROVE  Rounded[gap][n] \in Nat
<1> DEFINE q  == n \div gap
           r  == n % gap
           up == IF 2 * r > gap \/ (2 * r = gap /\ q % 2 = 1) THEN q + 1 ELSE q
<1>1. Rounded[gap][n] = gap * up
  BY DEF Rounded
<1>2. q \in Nat
  OBVIOUS
<1> HIDE DEF q, r
<1>3. up \in Nat
  BY <1>2
<1> HIDE DEF up
<1>4. gap * up \in Nat
  BY <1>3
<1> QED BY <1>1, <1>4

LEMMA FloatTyped == ASSUME NEW n \in Nat PROVE Float[n] \in Nat
<1>1. Float[n] = Rounded[Spacing[n]][n]
  BY DEF Float
<1> QED BY <1>1, SpacingTyped, RoundedTyped

-----------------------------------------------------------------------------
(* What the page has been given. *)
AnswersTyped ==
    \A m \in DOMAIN inflight :
        m.phase = "served" =>
            /\ m.net \in Nat /\ m.of \in Nat /\ m.cores \in 1 .. Cores
            /\ \E ds \in SUBSET Disks : m.disks \in [ds -> Nat]

LEMMA MessageAdded ==
    ASSUME NEW B, NEW x
    PROVE  DOMAIN (B (+) SetToBag({x})) = DOMAIN B \cup {x}
BY DEF (+), SetToBag

LEMMA MessageRemoved ==
    ASSUME NEW B, NEW x
    PROVE  DOMAIN (B (-) SetToBag({x})) \subseteq DOMAIN B
BY DEF (-), SetToBag

LEMMA InitAnswers == Init => AnswersTyped
BY DEF Init, AnswersTyped, SetToBag, Sent

LEMMA AnswerTyped ==
    ASSUME MachineTyped
    PROVE  /\ Answer.phase = "served" /\ Answer.net \in Nat /\ Answer.of \in Nat
           /\ Answer.cores \in 1 .. Cores /\ Answer.disks \in [plugged -> Nat]
<1>1. Float[net] \in Nat
  BY FloatTyped, Bounds DEF MachineTyped
<1>2. ASSUME NEW d \in plugged PROVE MegaBytes(d) \in Nat
  <2>1. io[d] \in Nat
    BY Bounds DEF MachineTyped, Counters
  <2> QED BY <2>1, FloatTyped DEF MegaBytes
<1> QED BY <1>1, <1>2, Bounds DEF Answer, MachineTyped

LEMMA NextAnswers == MachineTyped /\ AnswersTyped /\ [Next]_vars => AnswersTyped'
<1> SUFFICES ASSUME MachineTyped, AnswersTyped, [Next]_vars PROVE AnswersTyped'
  OBVIOUS
<1> USE DEF AnswersTyped
<1>1. CASE Traffic \/ Transfer \/ Work \/ Tick \/ Plug \/ Hotplug \/ ServeOther \/ UNCHANGED vars
  BY <1>1 DEF Traffic, Transfer, Work, Tick, Plug, Hotplug, ServeOther, vars
<1>2. CASE Serve
  <2>1. DOMAIN inflight' \subseteq DOMAIN inflight \cup {Answer}
    <3>1. inflight' = (inflight (-) SetToBag({Sent})) (+) SetToBag({Answer})
      BY <1>2 DEF Serve
    <3>2. DOMAIN inflight' = DOMAIN (inflight (-) SetToBag({Sent})) \cup {Answer}
      BY <3>1, MessageAdded
    <3> QED BY <3>2, MessageRemoved
  <2>2. plugged \in SUBSET Disks
    BY DEF MachineTyped
  <2> QED BY <2>1, <2>2, AnswerTyped
<1>3. CASE Poll
  <2>1. DOMAIN inflight' = DOMAIN inflight \cup {Sent}
    BY <1>3, MessageAdded DEF Poll
  <2>2. Sent.phase # "served"
    BY DEF Sent
  <2> QED BY <2>1, <2>2
<1>4. CASE Fail \/ Deliver
  <2>1. DOMAIN inflight' \subseteq DOMAIN inflight
    BY <1>4, MessageRemoved DEF Fail, Deliver
  <2> QED BY <2>1
<1> QED BY <1>1, <1>2, <1>3, <1>4 DEF Next

-----------------------------------------------------------------------------
(* The charts.  The first answer sets all that the page remembers, and     *)
(* from then on the newest point of a chart comes from the counter that    *)
(* the page remembers; the disks only as long as they stay the same.       *)
Remembered ==
    /\ lastNet = None <=> lastDiskStats = None
    /\ diskDevices = None <=> lastDiskStats = None
    /\ diskDevices = None \/ DOMAIN diskSeries = diskDevices
    /\ lastDiskStats = None => netSeries = Empty /\ totalSeries = Empty
    /\ fewest \in Nat /\ DOMAIN coreSeries = 1 .. NumCores

NetDrawn  == Deltas(netSeries) /\ netSeries[Points].at \in {None, lastNet}
TotalDrawn == Deltas(totalSeries) /\ totalSeries[Points].at \in {None, lastTotal}
DisksDrawn ==
    \A d \in DOMAIN diskSeries :
        Deltas(diskSeries[d]) /\ diskSeries[d][Points].at \in {None, lastDiskStats[d]}

ChartsInv ==
    /\ MachineTyped /\ AnswersTyped /\ Remembered
    /\ NetDrawn
    /\ ~strange => TotalDrawn /\ DisksDrawn

LEMMA InitCharts == Init => ChartsInv /\ ColumnsAligned
<1> SUFFICES ASSUME Init PROVE ChartsInv /\ ColumnsAligned
  OBVIOUS
<1>1. /\ lastNet = None /\ lastDiskStats = None /\ diskDevices = None
      /\ netSeries = Empty /\ totalSeries = Empty /\ avgSeries = Empty /\ memSeries = Empty
      /\ DOMAIN diskSeries = {} /\ coreSeries = [i \in 1 .. NumCores |-> Empty]
      /\ fewest = Cores
  BY DEF Init
<1>2. Remembered
  BY <1>1, Bounds DEF Remembered
<1>3. NetDrawn /\ TotalDrawn /\ DisksDrawn
  BY <1>1, EmptyDeltas DEF NetDrawn, TotalDrawn, DisksDrawn
<1>4. ColumnsAligned
  BY <1>1, EmptyPoints DEF ColumnsAligned
<1> QED BY <1>2, <1>3, <1>4, InitMachine, InitAnswers DEF ChartsInv

(* What an answer is that updateAll can use. *)
LEMMA Usable ==
    ASSUME AnswersTyped, NEW m \in DOMAIN inflight, m.phase = "served"
    PROVE  m.net # None /\ m.disks # None /\ DOMAIN m.disks # None
           /\ m.cores \in Nat /\ m.cores \in 1 .. Cores
<1>1. PICK ds \in SUBSET Disks : m.disks \in [ds -> Nat]
  BY DEF AnswersTyped
<1>2. m.disks # None /\ DOMAIN m.disks # None
  BY <1>1, NoneAssumption
<1>3. m.net # None
  BY NoneAssumption DEF AnswersTyped
<1>4. m.cores \in Nat /\ m.cores \in 1 .. Cores
  BY Bounds DEF AnswersTyped
<1> QED BY <1>2, <1>3, <1>4

LEMMA UpdateRemembers ==
    ASSUME Remembered, NEW m, m.net # None, m.disks # None, DOMAIN m.disks # None,
           m.cores \in Nat, Update(m)
    PROVE  Remembered'
<1>1. lastNet' = m.net /\ diskDevices' = Known(m) /\ DOMAIN diskSeries' = Known(m)
  BY DEF Update, UpdateNet, UpdateDisks
<1>2. Known(m) # None
  BY DEF Known
<1>3. lastDiskStats' = m.disks \/ (lastDiskStats # None /\ lastDiskStats' = lastDiskStats)
  BY DEF Update, UpdateTotal, Complete
<1>4. fewest' \in Nat /\ DOMAIN coreSeries' = 1 .. NumCores
  BY DEF Remembered, Update, UpdateCpuAndMemory
<1> QED BY <1>1, <1>2, <1>3, <1>4 DEF Remembered

LEMMA UpdateDraws ==
    ASSUME Remembered, NetDrawn, NEW m, Update(m)
    PROVE  NetDrawn'
<1>1. lastNet' = m.net
  BY DEF Update, UpdateNet
<1>2. CASE lastNet = None
  <2>1. netSeries' = Empty
    BY <1>2 DEF Update, UpdateNet, Remembered
  <2> QED BY <2>1, EmptyDeltas DEF NetDrawn
<1>3. CASE lastNet # None
  <2>1. netSeries' = pushTrim(netSeries, Point(m.net - lastNet, m.net, m.of))
    BY <1>3 DEF Update, UpdateNet
  <2>2. Deltas(netSeries') /\ netSeries'[Points].at = m.net
    BY <2>1, PushDelta DEF NetDrawn
  <2> QED BY <1>1, <2>2 DEF NetDrawn
<1> QED BY <1>2, <1>3

LEMMA UpdateDrawsDisks ==
    ASSUME Remembered, TotalDrawn, DisksDrawn, NEW m, Update(m), Known(m) = DOMAIN m.disks
    PROVE  (TotalDrawn /\ DisksDrawn)'
<1>1. Complete(m) /\ Reached(m) = Known(m)
  BY DEF Complete, Reached
<1>2. lastDiskStats' = m.disks /\ lastTotal' = m.total
  BY <1>1 DEF Update, UpdateTotal
<1>3. DOMAIN diskSeries' = Known(m)
  BY DEF Update, UpdateDisks
<1>4. CASE lastDiskStats = None
  <2>1. totalSeries' = Empty /\ \A d \in Known(m) : diskSeries'[d] = Empty
    BY <1>1, <1>4 DEF Update, UpdateTotal, UpdateDisks, Remembered
  <2> QED BY <1>3, <2>1, EmptyDeltas DEF TotalDrawn, DisksDrawn
<1>5. CASE lastDiskStats # None
  <2>1. totalSeries' = pushTrim(totalSeries, Point(TotalDelta(m), m.total, m.of))
    BY <1>1, <1>5 DEF Update, UpdateTotal
  <2>2. Deltas(totalSeries') /\ totalSeries'[Points].at = m.total
    BY <2>1, PushDelta DEF TotalDrawn, TotalDelta
  <2>3. ASSUME NEW d \in Known(m)
        PROVE  Deltas(diskSeries'[d]) /\ diskSeries'[d][Points].at = m.disks[d]
    <3>1. d \in DOMAIN diskSeries
      BY <1>5, <2>3 DEF Remembered, Known
    <3>2. diskSeries'[d] = pushTrim(diskSeries[d],
                             Point(m.disks[d] - lastDiskStats[d], m.disks[d], m.of))
      BY <1>1, <1>5, <2>3 DEF Update, UpdateDisks
    <3> QED BY <3>1, <3>2, PushDelta DEF DisksDrawn
  <2>4. TotalDrawn'
    BY <1>2, <2>2 DEF TotalDrawn
  <2>5. DisksDrawn'
    BY <1>2, <1>3, <2>3 DEF DisksDrawn
  <2> QED BY <2>4, <2>5
<1> QED BY <1>4, <1>5

(* Two charts that were in step stay so when both get the same answer.     *)
LEMMA BothPushed ==
    ASSUME NEW s, NEW t, NEW p, NEW q, p.of = q.of, NEW k \in 1 .. Points,
           k # Points => s[k + 1].of = t[k + 1].of
    PROVE  pushTrim(s, p)[k].of = pushTrim(t, q)[k].of
BY PushedPoints

LEMMA UpdateAligns ==
    ASSUME Remembered, ColumnsAligned, ~strange, NEW m, m.cores \in 1 .. Cores, Update(m),
           Known(m) = DOMAIN m.disks
    PROVE  ColumnsAligned'
<1> SUFFICES ASSUME NEW k \in 1 .. Points
             PROVE  /\ netSeries'[k].of \in {None, avgSeries'[k].of}
                    /\ totalSeries'[k].of = netSeries'[k].of
                    /\ \A d \in DOMAIN diskSeries' : diskSeries'[d][k].of = netSeries'[k].of
                    /\ \A i \in 1 .. NumCores : i <= fewest'
                          => coreSeries'[i][k].of = avgSeries'[k].of
                    /\ Cores <= NumCores => memSeries'[k].of = avgSeries'[k].of
  BY DEF ColumnsAligned
<1> DEFINE p == Point(0, None, m.of)
<1>1. Complete(m) /\ Reached(m) = Known(m)
  BY DEF Complete, Reached
<1>2. k # Points => k + 1 \in 1 .. Points
  BY ChartsAssumption
<1>3. avgSeries' = pushTrim(avgSeries, p) /\ p.of = m.of
  BY <1>1, PointParts DEF Update, UpdateCpuAndMemory
<1>4. ASSUME NEW i \in 1 .. NumCores, i <= fewest'
      PROVE  coreSeries'[i][k].of = avgSeries'[k].of
  <2>1. i <= m.cores /\ i <= fewest
    BY <1>4 DEF Update, Remembered
  <2>2. coreSeries'[i] = pushTrim(coreSeries[i], p)
    BY <1>1, <2>1 DEF Update, UpdateCpuAndMemory
  <2>3. k # Points => coreSeries[i][k + 1].of = avgSeries[k + 1].of
    BY <1>2, <2>1 DEF ColumnsAligned
  <2> QED BY <1>3, <2>2, <2>3, BothPushed
<1>5. ASSUME Cores <= NumCores PROVE memSeries'[k].of = avgSeries'[k].of
  <2>1. ~(m.cores > NumCores)
    BY <1>5, Bounds
  <2>2. memSeries' = pushTrim(memSeries, p)
    BY <1>1, <2>1 DEF Update, UpdateCpuAndMemory
  <2>3. k # Points => memSeries[k + 1].of = avgSeries[k + 1].of
    BY <1>2, <1>5 DEF ColumnsAligned
  <2> QED BY <1>3, <2>2, <2>3, BothPushed
<1>6. /\ netSeries'[k].of \in {None, avgSeries'[k].of}
      /\ totalSeries'[k].of = netSeries'[k].of
      /\ \A d \in DOMAIN diskSeries' : diskSeries'[d][k].of = netSeries'[k].of
  <2>1. DOMAIN diskSeries' = Known(m)
    BY DEF Update, UpdateDisks
  <2>2. CASE lastDiskStats = None
    <3>1. netSeries' = Empty /\ totalSeries' = Empty
      BY <1>1, <2>2 DEF Update, UpdateNet, UpdateTotal, Remembered
    <3>2. \A d \in Known(m) : diskSeries'[d] = Empty
      BY <2>2 DEF Update, UpdateDisks
    <3> QED BY <2>1, <3>1, <3>2, EmptyPoints
  <2>3. CASE lastDiskStats # None
    <3>1. PICK q : q.of = m.of /\ netSeries' = pushTrim(netSeries, q)
      BY <2>3, PointParts DEF Update, UpdateNet, Remembered
    <3>2. PICK r : r.of = m.of /\ totalSeries' = pushTrim(totalSeries, r)
      BY <1>1, <2>3, PointParts DEF Update, UpdateTotal
    <3>3. totalSeries'[k].of = netSeries'[k].of
      <4>1. k # Points => totalSeries[k + 1].of = netSeries[k + 1].of
        BY <1>2 DEF ColumnsAligned
      <4> QED BY <3>1, <3>2, <4>1, BothPushed
    <3>4. netSeries'[k].of \in {None, avgSeries'[k].of}
      <4>1. CASE k = Points
        BY <1>3, <3>1, <4>1, PushedPoints
      <4>2. CASE k # Points
        <5>1. netSeries[k + 1].of \in {None, avgSeries[k + 1].of}
          BY <1>2, <4>2 DEF ColumnsAligned
        <5> QED BY <1>3, <3>1, <4>2, <5>1, PushedPoints
      <4> QED BY <4>1, <4>2
    <3>5. ASSUME NEW d \in Known(m)
          PROVE  diskSeries'[d][k].of = netSeries'[k].of
      <4>1. d \in DOMAIN diskSeries
        BY <2>3, <3>5 DEF Remembered, Known
      <4>2. PICK t : t.of = m.of /\ diskSeries'[d] = pushTrim(diskSeries[d], t)
        BY <1>1, <2>3, <3>5, PointParts DEF Update, UpdateDisks
      <4>3. k # Points => diskSeries[d][k + 1].of = netSeries[k + 1].of
        BY <1>2, <4>1 DEF ColumnsAligned
      <4> QED BY <3>1, <4>2, <4>3, BothPushed
    <3> QED BY <2>1, <3>3, <3>4, <3>5
  <2> QED BY <2>2, <2>3
<1> QED BY <1>4, <1>5, <1>6

LEMMA NextCharts == ChartsInv /\ ColumnsAligned /\ [Next]_vars => (ChartsInv /\ ColumnsAligned)'
<1> SUFFICES ASSUME ChartsInv, ColumnsAligned, [Next]_vars PROVE (ChartsInv /\ ColumnsAligned)'
  OBVIOUS
<1>1. MachineTyped' /\ AnswersTyped'
  BY MachineTypes, NextAnswers DEF ChartsInv
<1>2. CASE UNCHANGED page
  <2>1. Remembered' /\ NetDrawn' /\ (~strange => TotalDrawn /\ DisksDrawn)'
    BY <1>2 DEF page, charts, ChartsInv, Remembered, NetDrawn, TotalDrawn, DisksDrawn
  <2>2. ColumnsAligned'
    BY <1>2 DEF page, charts, ColumnsAligned
  <2> QED BY <1>1, <2>1, <2>2 DEF ChartsInv
<1>3. CASE Deliver /\ ~UNCHANGED page
  <2>1. PICK m \in DOMAIN inflight : m.phase = "served" /\ Update(m)
    BY <1>3 DEF Deliver
  <2>2. Remembered'
    BY <2>1, Usable, UpdateRemembers DEF ChartsInv
  <2>3. NetDrawn'
    BY <2>1, UpdateDraws DEF ChartsInv
  <2>4. ~strange' => ~strange /\ Known(m) = DOMAIN m.disks
    BY <2>1 DEF Update
  <2>5. (~strange => TotalDrawn /\ DisksDrawn)'
    BY <2>1, <2>4, UpdateDrawsDisks DEF ChartsInv
  <2>6. ColumnsAligned'
    <3>1. CASE strange'
      BY <3>1 DEF ColumnsAligned
    <3>2. CASE ~strange'
      BY <2>1, <2>4, <3>2, Usable, UpdateAligns DEF ChartsInv
    <3> QED BY <3>1, <3>2
  <2> QED BY <1>1, <2>2, <2>3, <2>5, <2>6 DEF ChartsInv
<1>4. Traffic \/ Transfer \/ Work \/ Tick \/ Plug \/ Hotplug \/ Serve \/ ServeOther \/ Poll \/ Fail
        \/ UNCHANGED vars => UNCHANGED page
  BY DEF Traffic, Transfer, Work, Tick, Plug, Hotplug, Serve, ServeOther, Poll, Fail, vars
<1> QED BY <1>2, <1>3, <1>4 DEF Next

(* Whatever answers fail, are null or overtake each other, the points of   *)
(* the charts add up to what was counted (history.js:144-149, 208-224).    *)
THEOREM TrafficCorrect == Spec => []TrafficDrawnOnce
<1>1. ChartsInv => TrafficDrawnOnce
  BY DEF ChartsInv, NetDrawn, TotalDrawn, DisksDrawn, TrafficDrawnOnce
<1> QED BY <1>1, InitCharts, NextCharts, PTL DEF Spec

(* A column is one answer in all charts, as long as the disks stay the     *)
(* same; the chart of a core, as long as its CPU is in every answer, and   *)
(* memory, if every core has a chart (history.js:126-243).                 *)
THEOREM ColumnsCorrect == Spec => []ColumnsAligned
BY InitCharts, NextCharts, PTL DEF Spec

-----------------------------------------------------------------------------
(* Types.  A bag stays one when a request is sent, answered or dropped. *)
LEMMA BagTypes ==
    ASSUME NEW B, IsABag(B), NEW x
    PROVE  IsABag(B (+) SetToBag({x})) /\ IsABag(B (-) SetToBag({x}))
BY DEF IsABag, (+), (-), SetToBag

LEMMA BagOfOne == ASSUME NEW x PROVE IsABag(SetToBag({x})) /\ DOMAIN SetToBag({x}) = {x}
BY DEF IsABag, SetToBag

(* A point of integers makes a chart of a chart. *)
LEMMA SeriesTypes ==
    /\ Empty \in Series
    /\ \A s \in Series, v \in Int, at \in Int \cup {None}, of \in Int \cup {None} :
          pushTrim(s, Point(v, at, of)) \in Series
<1>1. Empty \in Series
  BY DEF Empty, Series, Point
<1>2. ASSUME NEW s \in Series, NEW v \in Int, NEW at \in Int \cup {None}, NEW of \in Int \cup {None}
      PROVE  pushTrim(s, Point(v, at, of)) \in Series
  <2>1. \A k \in 1 .. Points : k # Points => k + 1 \in 1 .. Points
    BY ChartsAssumption
  <2> QED BY <2>1 DEF pushTrim, Series, Point
<1> QED BY <1>1, <1>2

(* What the machine and the daemon keep, and what the page keeps: the disk *)
(* counters it remembers are those of an answer, and cover every chart.    *)
RequestsTyped ==
    /\ IsABag(inflight) /\ failures \in 0 .. MaxFailures
    /\ \A m \in DOMAIN inflight : m.phase \in {"sent", "served"}
PageTyped ==
    /\ lastNet \in Nat \cup {None}
    /\ diskDevices \in (SUBSET Disks) \cup {None}
    /\ lastDiskStats = None \/ \E ds \in SUBSET Disks : lastDiskStats \in [ds -> Nat]
    /\ lastDiskStats = None \/ diskDevices \subseteq DOMAIN lastDiskStats
    /\ netSeries \in Series /\ avgSeries \in Series /\ memSeries \in Series
    /\ coreSeries \in [1 .. NumCores -> Series] /\ DOMAIN totalSeries = 1 .. Points
    /\ \A d \in DOMAIN diskSeries : diskSeries[d] \in Series
    /\ DOMAIN diskSeries = IF diskDevices = None THEN {} ELSE diskDevices
    /\ strange \in BOOLEAN /\ fewest \in 1 .. Cores

TypesInv == RequestsTyped /\ PageTyped

LEMMA TypesIs == MachineTyped /\ TypesInv => TypeOK
BY DEF TypesInv, MachineTyped, RequestsTyped, PageTyped, TypeOK

LEMMA InitTypes == Init => TypesInv
<1> SUFFICES ASSUME Init PROVE TypesInv
  OBVIOUS
<1>1. RequestsTyped
  <2>1. inflight = SetToBag({Sent}) /\ failures = 0
    BY DEF Init
  <2>2. IsABag(inflight) /\ DOMAIN inflight = {Sent}
    BY <2>1, BagOfOne
  <2>3. Sent.phase = "sent"
    BY DEF Sent
  <2> QED BY <2>1, <2>2, <2>3, Bounds DEF RequestsTyped
<1>2. PageTyped
  <2>1. /\ lastNet = None /\ lastDiskStats = None /\ diskDevices = None
        /\ netSeries = Empty /\ totalSeries = Empty /\ avgSeries = Empty /\ memSeries = Empty
        /\ DOMAIN diskSeries = {} /\ coreSeries = [i \in 1 .. NumCores |-> Empty]
    BY DEF Init
  <2>2. strange \in BOOLEAN /\ fewest \in 1 .. Cores
    <3>1. strange \in BOOLEAN /\ fewest = Cores
      BY DEF Init
    <3>2. fewest \in 1 .. Cores
      BY <3>1, Bounds
    <3> QED BY <3>1, <3>2
  <2>3. DOMAIN Empty = 1 .. Points
    BY DEF Empty
  <2>4. coreSeries \in [1 .. NumCores -> Series]
    BY <2>1, SeriesTypes
  <2>5. diskDevices \in (SUBSET Disks) \cup {None} /\ lastNet \in Nat \cup {None}
    BY <2>1
  <2> QED BY <2>1, <2>2, <2>3, <2>4, <2>5, SeriesTypes DEF PageTyped
<1> QED BY <1>1, <1>2 DEF TypesInv

LEMMA RequestTypes == RequestsTyped /\ [Next]_vars => RequestsTyped'
<1> SUFFICES ASSUME RequestsTyped, [Next]_vars PROVE RequestsTyped'
  OBVIOUS
<1>1. CASE Serve
  <2>1. inflight' = (inflight (-) SetToBag({Sent})) (+) SetToBag({Answer}) /\ failures' = failures
    BY <1>1 DEF Serve
  <2>2. IsABag(inflight')
    BY <2>1, BagTypes DEF RequestsTyped
  <2>3. DOMAIN inflight' \subseteq DOMAIN inflight \cup {Answer}
    <3>1. DOMAIN inflight' = DOMAIN (inflight (-) SetToBag({Sent})) \cup {Answer}
      BY <2>1, MessageAdded
    <3> QED BY <3>1, MessageRemoved
  <2>4. Answer.phase = "served"
    BY DEF Answer
  <2> QED BY <2>1, <2>2, <2>3, <2>4 DEF RequestsTyped
<1>2. CASE Poll
  <2>1. inflight' = inflight (+) SetToBag({Sent}) /\ failures' = failures
    BY <1>2 DEF Poll
  <2>2. IsABag(inflight') /\ DOMAIN inflight' = DOMAIN inflight \cup {Sent}
    BY <2>1, BagTypes, MessageAdded DEF RequestsTyped
  <2>3. Sent.phase = "sent"
    BY DEF Sent
  <2> QED BY <2>1, <2>2, <2>3 DEF RequestsTyped
<1>3. CASE Fail \/ Deliver
  <2>1. PICK m : inflight' = inflight (-) SetToBag({m})
    BY <1>3 DEF Fail, Deliver
  <2>2. IsABag(inflight') /\ DOMAIN inflight' \subseteq DOMAIN inflight
    BY <2>1, BagTypes, MessageRemoved DEF RequestsTyped
  <2>3. failures' \in 0 .. MaxFailures
    BY <1>3, Bounds DEF Fail, Deliver, RequestsTyped
  <2> QED BY <2>2, <2>3 DEF RequestsTyped
<1>4. CASE Traffic \/ Transfer \/ Work \/ Tick \/ Plug \/ Hotplug \/ ServeOther \/ UNCHANGED vars
  BY <1>4 DEF Traffic, Transfer, Work, Tick, Plug, Hotplug, ServeOther, vars, RequestsTyped
<1> QED BY <1>1, <1>2, <1>3, <1>4 DEF Next

(* Every difference that updateAll draws is one of two counters. *)
LEMMA UpdateTypes ==
    ASSUME Remembered, PageTyped, NEW m, Update(m),
           m.net \in Nat, m.of \in Nat, m.cores \in 1 .. Cores,
           NEW ds \in SUBSET Disks, m.disks \in [ds -> Nat]
    PROVE  PageTyped'
<1> USE DEF PageTyped
<1>1. lastNet' = m.net /\ m.net \in Int /\ m.of \in Int
  BY DEF Update, UpdateNet
<1>2. netSeries' \in Series
  <2>1. CASE lastNet = None
    BY <2>1 DEF Update, UpdateNet
  <2>2. CASE lastNet # None
    <3>1. m.net - lastNet \in Int
      BY <1>1, <2>2
    <3> QED BY <1>1, <2>2, <3>1, SeriesTypes DEF Update, UpdateNet
  <2> QED BY <2>1, <2>2
<1>3. diskDevices' = Known(m) /\ DOMAIN diskSeries' = Known(m)
  BY DEF Update, UpdateDisks
<1>4. Known(m) \in SUBSET Disks /\ Known(m) # None
  <2>1. DOMAIN m.disks = ds /\ \A es \in SUBSET Disks : es # None
    BY NoneAssumption
  <2>2. Known(m) = ds \/ (Known(m) = diskDevices /\ diskDevices # None)
    BY <2>1 DEF Known
  <2> QED BY <2>1, <2>2
<1>5. ASSUME NEW d \in Known(m) PROVE diskSeries'[d] \in Series
  <2>1. CASE lastDiskStats = None
    BY <1>5, <2>1, SeriesTypes DEF Update, UpdateDisks
  <2>2. CASE lastDiskStats # None
    <3>1. diskDevices # None /\ d \in DOMAIN diskSeries /\ d \in DOMAIN lastDiskStats
      BY <1>5, <2>2 DEF Remembered, Known
    <3>2. CASE d \in Reached(m)
      <4>1. d \in ds
        <5>1. d \in Nat
          BY <1>4, <1>5, DisksAssumption
        <5>2. d <= d
          BY <5>1
        <5>3. d \in DOMAIN m.disks
          BY <1>5, <3>2, <5>2 DEF Reached
        <5> QED BY <5>3
      <4>2. m.disks[d] \in Int /\ m.disks[d] - lastDiskStats[d] \in Int
        BY <2>2, <3>1, <4>1
      <4>3. diskSeries'[d] = pushTrim(diskSeries[d],
                               Point(m.disks[d] - lastDiskStats[d], m.disks[d], m.of))
        BY <1>5, <2>2, <3>2 DEF Update, UpdateDisks
      <4>4. diskSeries[d] \in Series /\ m.of \in Int \cup {None}
        BY <1>1, <3>1
      <4> HIDE DEF PageTyped
      <4> QED BY <4>2, <4>3, <4>4, SeriesTypes
    <3>3. CASE d \notin Reached(m)
      BY <1>5, <2>2, <3>1, <3>3 DEF Update, UpdateDisks
    <3> QED BY <3>2, <3>3
  <2> QED BY <2>1, <2>2
<1>6. CASE Complete(m)
  <2>1. lastDiskStats' = m.disks /\ Known(m) \subseteq ds
    BY <1>6 DEF Update, UpdateTotal, Complete, Known, Remembered
  <2>2. DOMAIN totalSeries' = 1 .. Points
    BY <1>6 DEF Update, UpdateTotal, pushTrim
  <2>3. /\ avgSeries' \in Series /\ memSeries' \in Series
        /\ coreSeries' \in [1 .. NumCores -> Series]
    <3> DEFINE p == Point(0, None, m.of)
    <3>1. /\ avgSeries' = pushTrim(avgSeries, p)
          /\ memSeries' = memSeries \/ memSeries' = pushTrim(memSeries, p)
          /\ coreSeries' = [i \in 1 .. NumCores |->
                              IF i <= m.cores THEN pushTrim(coreSeries[i], p)
                              ELSE coreSeries[i]]
      BY <1>6 DEF Update, UpdateCpuAndMemory
    <3>2. /\ avgSeries \in Series /\ memSeries \in Series /\ m.of \in Int \cup {None}
          /\ \A i \in 1 .. NumCores : coreSeries[i] \in Series
      BY <1>1
    <3> HIDE DEF PageTyped
    <3>3. \A s \in Series : pushTrim(s, p) \in Series
      <4>1. 0 \in Int /\ None \in Int \cup {None}
        OBVIOUS
      <4> QED BY <3>2, <4>1, SeriesTypes, Zenon
    <3> HIDE DEF p
    <3> QED BY <3>1, <3>2, <3>3
  <2>4. strange' \in BOOLEAN /\ fewest' \in 1 .. Cores
    BY DEF Update
  <2> QED BY <1>1, <1>2, <1>3, <1>4, <1>5, <2>1, <2>2, <2>3, <2>4
<1>7. CASE ~Complete(m)
  <2>1. /\ UNCHANGED <<lastDiskStats, totalSeries, avgSeries, coreSeries, memSeries>>
        /\ strange' \in BOOLEAN /\ fewest' \in 1 .. Cores
    BY <1>7 DEF Update
  <2>2. lastDiskStats # None /\ diskDevices # None /\ Known(m) = diskDevices
    BY <1>7 DEF Complete, Remembered, Known
  <2> QED BY <1>1, <1>2, <1>3, <1>4, <1>5, <2>1, <2>2
<1> QED BY <1>6, <1>7

LEMMA PageTypes ==
    AnswersTyped /\ Remembered /\ RequestsTyped /\ PageTyped /\ [Next]_vars => PageTyped'
<1> SUFFICES ASSUME AnswersTyped, Remembered, RequestsTyped, PageTyped, [Next]_vars
             PROVE  PageTyped'
  OBVIOUS
<1>1. CASE UNCHANGED page
  BY <1>1 DEF page, charts, PageTyped
<1>2. CASE Deliver /\ ~UNCHANGED page
  <2>1. PICK m \in DOMAIN inflight : m.phase = "served" /\ Update(m)
    BY <1>2 DEF Deliver
  <2>2. PICK ds \in SUBSET Disks : m.disks \in [ds -> Nat]
    BY <2>1 DEF AnswersTyped
  <2>3. m.net \in Nat /\ m.of \in Nat /\ m.cores \in 1 .. Cores
    BY <2>1 DEF AnswersTyped
  <2> QED BY <2>1, <2>2, <2>3, UpdateTypes
<1>3. Traffic \/ Transfer \/ Work \/ Tick \/ Plug \/ Hotplug \/ Serve \/ ServeOther \/ Poll \/ Fail
        \/ UNCHANGED vars => UNCHANGED page
  BY DEF Traffic, Transfer, Work, Tick, Plug, Hotplug, Serve, ServeOther, Poll, Fail, vars
<1> QED BY <1>1, <1>2, <1>3 DEF Next

LEMMA NextTypes == ChartsInv /\ TypesInv /\ [Next]_vars => TypesInv'
BY RequestTypes, PageTypes DEF TypesInv, ChartsInv

(* Every chart holds Points points, each the difference of two counters or *)
(* empty, and there is a chart for each disk the page knows; the disk      *)
(* counters it remembers cover them all (history.js:20-28, 195-227).       *)
THEOREM TypeCorrect == Spec => []TypeOK
<1>1. ChartsInv /\ TypesInv => TypeOK
  BY TypesIs DEF ChartsInv
<1> QED BY <1>1, InitCharts, NextCharts, InitTypes, NextTypes, PTL DEF Spec

=============================================================================
