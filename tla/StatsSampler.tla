---------------------------- MODULE StatsSampler -----------------------------
(***************************************************************************)
(* The system-wide statistics of c-core and the endpoints of c-daemon that *)
(* show them: get_cpu_stats (core_interface.c) reads /proc/stat and        *)
(* /proc/diskstats (general_stat_query.c), compares the sample with the    *)
(* one before (cpu_usage.c) and keeps it in before_gs, the one baseline of *)
(* all endpoints (process_routes.c, stats_routes.c) and all clients.       *)
(*                                                                         *)
(* Around it: CPUs that work, go offline and come back, and disks that     *)
(* transfer sectors.  The two steps of a sample are the read of /proc/stat *)
(* and the rest, because disks and a GPU tool are queried in between.      *)
(***************************************************************************)
EXTENDS Integers, Sequences, FiniteSets, Functions

CONSTANTS
    NumCpus,    \* CPUs 0 .. NumCpus - 1 of the machine
    Devices,    \* block devices, in the order of /proc/diskstats: see Device
    MaxDisk,    \* entries of the array disk[] (32 in the code)
    Int32,      \* number of values of int (2^32 in the code)
    Word,       \* number of values of uint64_t (2^64 in the code)
    MaxTicks,   \* bound: ticks charged to CPUs
    MaxSectors  \* bound: sectors transferred

Cpus   == 0 .. NumCpus - 1
(* A device, with what is_valid_disk looks at in its name: how it starts,  *)
(* whether it ends with a letter, and whether there is a 'p' in it.  "on"  *)
(* is the index of the disk a partition is on, 0 for a disk.               *)
Device == [prefix : {"sd", "nvme", "other"}, alpha : BOOLEAN, hasP : BOOLEAN, on : Nat]

ASSUME CpusAssumption    == NumCpus \in Nat \ {0}
ASSUME DevicesAssumption == /\ Devices \in Seq(Device)
                            /\ \A d \in DOMAIN Devices : Devices[d].on < d
(* Partitions are on disks.  The kernel's names of disks end with a letter *)
(* (sda) or have no 'p' in them (nvme0n1).                                 *)
ASSUME NamesAssumption ==
    \A d \in DOMAIN Devices :
        /\ Devices[d].on # 0 => Devices[Devices[d].on].on = 0
        /\ Devices[d].on = 0 => /\ Devices[d].prefix = "sd" => Devices[d].alpha
                                /\ Devices[d].prefix = "nvme" => ~Devices[d].hasP
ASSUME DiskAssumption    == MaxDisk \in Nat \ {0}
ASSUME NumbersAssumption == /\ Int32 \in Nat \ {0} /\ Int32 % 2 = 0
                            /\ Word \in Nat \ {0} /\ Word % Int32 = 0
                            /\ Word >= 2 * Int32
ASSUME BoundsAssumption  == MaxTicks \in Nat /\ MaxSectors \in Nat

VARIABLES
    (* The machine. *)
    ticks,      \* ticks[c]: the columns "user" and "system" of CPU c
    online,     \* CPUs that have a line in /proc/stat
    sectors,    \* sectors[d]: read from device d since it was attached
    (* The sampler. *)
    pc,         \* "idle" or "read"
    now_gs,     \* the sample being taken
    before_gs,  \* the previous one, NoSample before the first
    (* The answer. *)
    answer,     \* what the last request was told, until the next one comes
    (* History. *)
    base,       \* busy time of the machine at the first sample
    reported    \* sum of the total usage computed since then

vars == <<ticks, online, sectors, pc, now_gs, before_gs, answer, base, reported>>

-----------------------------------------------------------------------------
(* Numbers.  atoi keeps the low 32 bits as a signed int; the assignment to *)
(* a uint64_t field extends the sign (set_cpu_field).                      *)
Atoi(v) == LET r == v % Int32
           IN  IF r < Int32 \div 2 THEN r ELSE Word - Int32 + r

UAdd(a, b) == (a + b) % Word
USub(a, b) == (a - b) % Word

-----------------------------------------------------------------------------
(* A line of /proc/stat, and a sample.  Lines are kept as printed and      *)
(* parsed where a number is used.                                          *)
Cpu  == [user : Nat, system : Nat]
Core == [name : Cpus \cup {-1}, user : Nat, system : Nat]

NoCpu    == [user |-> 0, system |-> 0]
NoCore   == [name |-> -1, user |-> 0, system |-> 0]
NoSample == [timestamp |-> 0, cpu |-> NoCpu, cores |-> <<>>]

(* cores[i - 1] of a general_stat, which is all zero beyond num_cpus. *)
CoreAt(gs, i) == IF i <= Len(gs.cores) THEN gs.cores[i] ELSE NoCore

(* system + user of a parsed line (cpu_usage.c:33, 64). *)
Busy(line) == UAdd(Atoi(line.system), Atoi(line.user))

(* /proc/stat: the machine's line adds up all CPUs, and only those online  *)
(* have one of their own, in the order of their numbers.                   *)
Machine   == [user   |-> SumFunction([c \in Cpus |-> ticks[c].user]),
              system |-> SumFunction([c \in Cpus |-> ticks[c].system])]
InOrder(S) == {s \in [1 .. Cardinality(S) -> S] : \A i, j \in DOMAIN s : i < j => s[i] < s[j]}
CoreLines(cpus) == [i \in DOMAIN cpus |->
                      [name   |-> cpus[i],
                       user   |-> ticks[cpus[i]].user,
                       system |-> ticks[cpus[i]].system]]

(* A mutant of is_valid_disk without the tests for partitions. *)
IsDiskLike(d) == Devices[d].prefix \in {"sd", "nvme"}

(* is_valid_disk. *)
IsValidDisk(d) ==
    \/ Devices[d].prefix = "sd" /\ ~Devices[d].alpha
    \/ Devices[d].prefix = "nvme" /\ Devices[d].hasP

(* The valid ones among the devices up to d. *)
ValidUpTo(d) == {e \in DOMAIN Devices : e <= d /\ IsValidDisk(e)}

(* read_disk_stats: the devices it lists, no more than the array holds. *)
DisksOneMore ==  \* mutant: the array is checked one entry late
    {d \in DOMAIN Devices : IsValidDisk(d) /\ Cardinality(ValidUpTo(d)) <= MaxDisk + 1}

Disks ==
    {d \in DOMAIN Devices : IsValidDisk(d) /\ Cardinality(ValidUpTo(d)) <= MaxDisk}

-----------------------------------------------------------------------------
Endpoints == {"cpu_mem", "general", "disk", "all", "other"}
Shown     == [delta : Nat, is : Core, was : Core]
Answer    == [endpoint : Endpoints, cores : Seq(Shown), total : Nat, disks : SUBSET Nat,
              disk_total : Nat]
NoAnswer  == [endpoint |-> "other", cores |-> <<>>, total |-> 0, disks |-> {},
              disk_total |-> 0]

Sample == [timestamp : {0, 1}, cpu : Cpu, cores : Seq(Core)]

TypeOK ==
    /\ ticks \in [Cpus -> Cpu]
    /\ online \subseteq Cpus
    /\ sectors \in [DOMAIN Devices -> Nat]
    /\ pc \in {"idle", "read"}
    /\ now_gs \in Sample
    /\ before_gs \in Sample
    /\ answer \in Answer
    /\ Len(now_gs.cores) <= NumCpus /\ Len(before_gs.cores) <= NumCpus
    /\ Cardinality(answer.disks) <= MaxDisk
    /\ base \in Nat
    /\ reported \in 0 .. Word - 1

Init ==
    /\ ticks = [c \in Cpus |-> NoCpu]
    /\ online = Cpus
    /\ sectors = [d \in DOMAIN Devices |-> 0]
    /\ pc = "idle"
    /\ now_gs = NoSample
    /\ before_gs = NoSample
    /\ answer = NoAnswer
    /\ base = 0
    /\ reported = 0

-----------------------------------------------------------------------------
(* The machine. *)

Work(c, col) ==
    /\ c \in online
    /\ Machine.user + Machine.system < MaxTicks
    /\ ticks' = [ticks EXCEPT ![c][col] = @ + 1]
    /\ UNCHANGED <<online, sectors, pc, now_gs, before_gs, answer, base, reported>>

(* A CPU is unplugged or comes back; the last one stays. *)
Hotplug(c) ==
    /\ online' = IF c \in online THEN online \ {c} ELSE online \cup {c}
    /\ online' # {}
    /\ UNCHANGED <<ticks, sectors, pc, now_gs, before_gs, answer, base, reported>>

(* What goes to a partition is counted for its disk as well. *)
Transfer(d) ==
    /\ SumFunction(sectors) < MaxSectors
    /\ sectors' = [e \in DOMAIN Devices |->
                     IF e \in {d, Devices[d].on} THEN sectors[e] + 1 ELSE sectors[e]]
    /\ UNCHANGED <<ticks, online, pc, now_gs, before_gs, answer, base, reported>>

-----------------------------------------------------------------------------
(* get_cpu_stats and the endpoints that call it. *)

(* read_general_stat and the part of split_general_stat_string that parses it. *)
ReadProcStat ==
    /\ pc = "idle"
    /\ pc' = "read"
    /\ \E cpus \in InOrder(online) :
          now_gs' = [timestamp |-> 0, cpu |-> Machine, cores |-> CoreLines(cpus)]
    /\ answer' = NoAnswer
    /\ UNCHANGED <<ticks, online, sectors, before_gs, base, reported>>

(* Usage is computed from the second sample on. *)
HasBefore == before_gs.timestamp > 0

(* calculate_normalized_core_cpu_usage compares the cores by their index. *)
CoreDeltaMachine(i) ==  \* mutant: the baseline is the machine's line
    IF HasBefore THEN USub(Busy(now_gs.cores[i]), Busy(before_gs.cpu)) ELSE 0

CoreDelta(i) ==
    IF HasBefore THEN USub(Busy(now_gs.cores[i]), Busy(CoreAt(before_gs, i))) ELSE 0

(* calculate_normalized_general_cpu_usage. *)
TotalDeltaUser ==  \* mutant: "system" is left out
    IF HasBefore THEN USub(Atoi(now_gs.cpu.user), Atoi(before_gs.cpu.user)) ELSE 0

TotalDelta == IF HasBefore THEN USub(Busy(now_gs.cpu), Busy(before_gs.cpu)) ELSE 0

(* What /api/cpu_mem and /api/stats/all show of the cores, by their index. *)
ShownCores ==
    [i \in 1 .. Len(now_gs.cores) |->
       [delta |-> CoreDelta(i), is |-> now_gs.cores[i], was |-> CoreAt(before_gs, i)]]

(* Only /api/stats/all adds up the disks.  Counted in whole sectors here:   *)
(* HistoryPage has the floats of the sum.                                  *)
DiskTotal == SumFunctionOnSet(sectors, Disks)

(* The rest of get_cpu_stats: disks are read, usage is computed, and the   *)
(* sample becomes the baseline; then the endpoint answers.                 *)
Respond(e) ==
    /\ pc = "read"
    /\ pc' = "idle"
    /\ before_gs' = [now_gs EXCEPT !.timestamp = 1]
    /\ answer' = [endpoint   |-> e,
                  cores      |-> IF e \in {"cpu_mem", "all"} THEN ShownCores ELSE <<>>,
                  total      |-> IF e \in {"general", "all"} THEN TotalDelta ELSE 0,
                  disks      |-> IF e = "all" THEN Disks ELSE {},
                  disk_total |-> IF e = "all" THEN DiskTotal ELSE 0]
    /\ reported' = UAdd(reported, TotalDelta)
    /\ base' = IF HasBefore THEN base ELSE now_gs.cpu.user + now_gs.cpu.system
    /\ now_gs' = NoSample
    /\ UNCHANGED <<ticks, online, sectors>>

-----------------------------------------------------------------------------
Next ==
    \/ \E c \in Cpus, col \in {"user", "system"} : Work(c, col)
    \/ \E c \in Cpus : Hotplug(c)
    \/ \E d \in DOMAIN Devices : Transfer(d)
    \/ ReadProcStat
    \/ \E e \in Endpoints : Respond(e)

Spec == Init /\ [][Next]_vars

-----------------------------------------------------------------------------
(* A counter that does not pass 2^31 (modulo 2^32) is not torn by atoi. *)
SameHalf(v, w) == (v + Int32 \div 2) \div Int32 = (w + Int32 \div 2) \div Int32

(* The usage shown for a core is the time it was busy between two reads of *)
(* /proc/stat, when both samples had this core at this place and its       *)
(* counters did not cross 2^31 (cpu_usage.c:61-75).                        *)
CoreUsageHonest ==
    \A i \in DOMAIN answer.cores :
        LET r == answer.cores[i]
        IN  (/\ r.is.name = r.was.name
             /\ SameHalf(r.was.user, r.is.user)
             /\ SameHalf(r.was.system, r.is.system))
              => r.delta = (r.is.user - r.was.user) + (r.is.system - r.was.system)

(* No busy time of the machine is counted twice or lost between requests,  *)
(* whichever endpoints and clients they come from: the total usages        *)
(* computed so far add up to what the machine did since the first sample,  *)
(* up to the 2^32 that atoi loses (core_interface.c:79-84).                *)
UsageConserved ==
    HasBefore =>
        reported % Int32 = (before_gs.cpu.user + before_gs.cpu.system - base) % Int32

(* The total of /api/stats/all counts no sector twice: it never lists both *)
(* a disk and a partition of it (general_stat_query.c:269, and the sum of  *)
(* stats_routes.c:226).                                                    *)
DisksCountedOnce ==
    answer.endpoint = "all" =>
        answer.disk_total <= SumFunctionOnSet(sectors, {d \in DOMAIN Devices : Devices[d].on = 0})

-----------------------------------------------------------------------------
(* What the comments say, and the code does not do. *)

(* general_stat_query.c:268: "Filter only full disks (e.g., "sda", "sdb",  *)
(* "nvme0n1"), exclude loops/partitions".  The two tests are inverted.     *)
OnlyFullDisks == \A d \in answer.disks : Devices[d].on = 0
=============================================================================
