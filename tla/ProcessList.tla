----------------------------- MODULE ProcessList -----------------------------
(***************************************************************************)
(* The process sampler of c-core: get_process_list (core_interface.c), the *)
(* CPU-usage difference it computes (cpu_usage.c), the sleeper heuristic   *)
(* it calls for every row (trimmed_info.c, sleeper_detection.c), and the   *)
(* kernel whose process table changes while the scan of /proc is running.  *)
(*                                                                         *)
(* One scan is one HTTP request handled by the daemon's only thread.  The  *)
(* steps of a scan are the points at which it looks at /proc: the listing, *)
(* the fopen that tests a stat file, the read of that file, and the moment *)
(* the snapshot is stamped and filed in the table.  Processes run, start   *)
(* and exit between any two of them.                                       *)
(***************************************************************************)
EXTENDS Integers, Sequences, FiniteSets

CONSTANTS
    Pids,             \* process ids the kernel may use
    MaxProcess,       \* slots of before_list and now_list (2048 in the code)
    Word,             \* modulus of uint64_t arithmetic (2^64 in the code)
    SleepAfter,       \* idle time after which a process may be a sleeper
    DefaultInterval,  \* down_time of a slot that carries no time stamp
    StackCpu,         \* CPU times a buffer nobody wrote to may read as
    MaxNow,           \* bound: the clock stops here
    MaxStarts         \* bound: processes started in a behaviour

ASSUME PidsAssumption       == Pids \subseteq Nat \ {0}
ASSUME MaxProcessAssumption == MaxProcess \in Nat
ASSUME WordAssumption       == Word \in Nat \ {0}
ASSUME TimingAssumption     == SleepAfter \in Nat /\ DefaultInterval \in 0 .. Word - 1
ASSUME StackAssumption      == StackCpu \subseteq 0 .. MaxNow
ASSUME BoundsAssumption     == MaxNow \in 1 .. Word - 1 /\ MaxStarts \in Nat

VARIABLES
    (* The kernel. *)
    proc,         \* proc[p]: the process with id p; starttime 0 when there is none
    now,          \* the clock
    born,         \* processes started so far
    (* Globals of the daemon. *)
    before_list,  \* the snapshot of each slot that the next sample is compared with
    now_list,     \* the newest snapshot of each slot
    proc_count,   \* slots handed out
    process_map,  \* what the sleeper heuristic remembers of each pid
    (* Locals of get_process_list. *)
    pc,           \* "idle", "readdir", "opened" or "parsed"
    entries,      \* directory entries not visited yet
    entry,        \* the pid of the entry being visited
    file_data,    \* the buffer for a line of /proc/<pid>/stat
    arr,          \* the rows of the answer so far
    (* History. *)
    listed,       \* the processes the scan found in the directory
    exited        \* those of them that have exited since

kernelVars == <<proc, now, born>>
tableVars  == <<before_list, now_list, proc_count, process_map>>
historyVars == <<listed, exited>>
vars == <<proc, now, born, before_list, now_list, proc_count, process_map,
          pc, entries, entry, file_data, arr, listed, exited>>

Slots == 0 .. MaxProcess - 1

-----------------------------------------------------------------------------
(* A process, and what the daemon knows of one.  A process is identified   *)
(* by its pid and its starttime; a pid alone is used again after an exit.  *)
(* The birth order stands for the start time.  "cpu" is utime + stime and  *)
(* "ran", which no code reads, is the last time the process was charged.   *)

NoProcess == [starttime |-> 0, cpu |-> 0, ran |-> 0]
Alive     == {p \in Pids : proc[p].starttime # 0}

(* The line the kernel prints for p in /proc/<p>/stat. *)
StatLine(p) == [pid |-> p, starttime |-> proc[p].starttime,
                cpu |-> proc[p].cpu, ran |-> proc[p].ran]

(* A buffer without a stat line holds whatever the stack left there.  No   *)
(* pid is read from it, and some number where a line has its CPU times.    *)
Garbage == [pid : {0}, starttime : {0}, cpu : StackCpu, ran : {0}]

(* Of the many, the one that parses as zeros. *)
Junk == [pid |-> 0, starttime |-> 0, cpu |-> 0, ran |-> 0]

(* split_PID_stat_string, then the time stamp get_process_list adds. *)
ParsedAt(line, t) ==
    [pid |-> line.pid, starttime |-> line.starttime, cpu |-> line.cpu,
     ran |-> line.ran, timestamp_ms |-> t]

(* A slot after memset. *)
Zero == ParsedAt(Junk, 0)

SameProcess(s, t) == s.pid = t.pid /\ s.starttime = t.starttime

(* The record the sleeper map has no entry for. *)
NoInfo == [owner |-> 0, last_active |-> 0, last_cpu_time |-> 0]

(* Subtraction of uint64_t values, both of them below Word. *)
USub(a, b) == IF a >= b THEN a - b ELSE Word + a - b

(* calculate_normalized_cpu_usage: the ticks between two samples.          *)
UsageSwapped(b, s) == USub(b.cpu, s.cpu)  \* mutant
Usage(b, s)        == USub(s.cpu, b.cpu)

-----------------------------------------------------------------------------
Time     == 0 .. MaxNow
UInt64   == 0 .. Word - 1
Process  == [starttime : Nat, cpu : Time, ran : Time]
Line     == [pid : Pids \cup {0}, starttime : Nat, cpu : Time, ran : Time]
Snapshot == [pid : Pids \cup {0}, starttime : Nat, cpu : Time, ran : Time,
             timestamp_ms : Time]
Info     == [owner : Nat, last_active : Time, last_cpu_time : Time]
Row      == [after : Snapshot, before : Snapshot, delta : UInt64, down_time : UInt64,
             is_sleeper : BOOLEAN, owner : Nat]

(* No slot outside the tables, and no number that leaves uint64_t. *)
TypeOK ==
    /\ proc \in [Pids -> Process]
    /\ \A p \in Pids : proc[p].cpu <= proc[p].ran /\ proc[p].ran <= now
    /\ now \in Time \ {0}
    /\ born \in Nat
    /\ before_list \in [Slots -> Snapshot]
    /\ now_list \in [Slots -> Snapshot]
    /\ proc_count \in 0 .. MaxProcess
    /\ process_map \in [Pids \cup {0} -> Info]
    /\ pc \in {"idle", "readdir", "opened", "parsed"}
    /\ entries \subseteq Pids
    /\ entry \in Pids \cup {0}
    /\ pc \in {"opened", "parsed"} => entry \in Pids
    /\ file_data \in Line
    /\ arr \in Seq(Row)
    /\ listed \subseteq Pids
    /\ exited \subseteq listed

Init ==
    /\ proc = [p \in Pids |-> NoProcess]
    /\ now = 1
    /\ born = 0
    /\ before_list = [i \in Slots |-> Zero]
    /\ now_list = [i \in Slots |-> Zero]
    /\ proc_count = 0
    /\ process_map = [p \in Pids \cup {0} |-> NoInfo]
    /\ pc = "idle"
    /\ entries = {}
    /\ entry = 0
    /\ file_data = Junk
    /\ arr = <<>>
    /\ listed = {}
    /\ exited = {}

-----------------------------------------------------------------------------
(* The kernel. *)

daemonVars == <<before_list, now_list, proc_count, process_map,
                pc, entries, entry, file_data, arr>>

Fork(p) ==
    /\ p \notin Alive
    /\ born < MaxStarts
    /\ born' = born + 1
    /\ proc' = [proc EXCEPT ![p] = [starttime |-> born + 1, cpu |-> 0, ran |-> now]]
    /\ UNCHANGED <<now, historyVars, daemonVars>>

Exit(p) ==
    /\ p \in Alive
    /\ proc' = [proc EXCEPT ![p] = NoProcess]
    /\ exited' = exited \cup ({p} \cap listed)
    /\ UNCHANGED <<now, born, listed, daemonVars>>

(* p is charged one tick of CPU time, at most one for each tick of the clock. *)
Run(p) ==
    /\ p \in Alive
    /\ proc[p].ran < now
    /\ proc' = [proc EXCEPT ![p] = [starttime |-> @.starttime, cpu |-> @.cpu + 1, ran |-> now]]
    /\ UNCHANGED <<now, born, historyVars, daemonVars>>

Tick ==
    /\ now < MaxNow
    /\ now' = now + 1
    /\ UNCHANGED <<proc, born, historyVars, daemonVars>>

-----------------------------------------------------------------------------
(* get_process_list. *)

(* opendir succeeds.  Entries are visited in ascending order, and only the *)
(* processes that exist when the directory is read are listed.             *)
BeginScan ==
    /\ pc = "idle"
    /\ pc' = "readdir"
    /\ entries' = Alive
    /\ listed' = Alive
    /\ exited' = {}
    /\ arr' = <<>>
    /\ UNCHANGED <<kernelVars, tableVars, entry, file_data>>

(* readdir gives the next pid, and fopen tests that it still exists. *)
CheckEntry(p) ==
    /\ pc = "readdir"
    /\ p \in entries
    /\ \A q \in entries : p <= q
    /\ entries' = entries \ {p}
    /\ IF p \in Alive
       THEN pc' = "opened" /\ entry' = p
       ELSE UNCHANGED <<pc, entry>>
    /\ UNCHANGED <<kernelVars, tableVars, file_data, arr, historyVars>>

(* read_stat opens the file a second time.  When the process is gone by    *)
(* then, nothing is written to file_data, a local array of the loop body:  *)
(* it holds the line of an earlier entry, or what the stack left there.    *)
ReadStat ==
    /\ pc = "opened"
    /\ pc' = "parsed"
    /\ IF entry \in Alive
       THEN file_data' = StatLine(entry)
       ELSE file_data' \in {file_data} \cup Garbage
    /\ UNCHANGED <<kernelVars, tableVars, entries, entry, arr, historyVars>>

(* The slot the linear search stops at. *)
FirstMatch(i) ==
    /\ before_list[i].pid = entry
    /\ \A j \in Slots : j < i => before_list[j].pid # entry

KnownEntry == \E i \in Slots : before_list[i].pid = entry

HasFreeSlotOffByOne == proc_count <= MaxProcess     \* mutant
HasFreeSlotButLast  == proc_count < MaxProcess - 1  \* mutant
HasFreeSlot         == proc_count < MaxProcess

(* A mutant that forgets to note the time of the activity. *)
InfoAfterStale(s) ==
    LET p == process_map[s.pid]
    IN  IF p.last_active = 0
        THEN [owner |-> s.starttime, last_active |-> now, last_cpu_time |-> s.cpu]
        ELSE [owner |-> s.starttime, last_active |-> p.last_active, last_cpu_time |-> s.cpu]

(* update_sleeper_process: the record of the pid of s after the call. *)
InfoAfter(s) ==
    LET p == process_map[s.pid]
    IN  IF p.last_active = 0 \/ s.cpu > p.last_cpu_time
        THEN [owner |-> s.starttime, last_active |-> now, last_cpu_time |-> s.cpu]
        ELSE p

IsIdle(s) == now - InfoAfter(s).last_active > SleepAfter

(* convert_to_trimmed_info and the append to arr.  The command line is read *)
(* now, and is empty when no process has the pid any more.  "hog" is        *)
(* whether the process holds more than 1 % of the memory; "owner", which is *)
(* not in the answer, is the process whose record decided.                  *)
AppendRow(s, b, d, t) ==
    /\ \E hog \in BOOLEAN :
         arr' = Append(arr, [after |-> s, before |-> b, delta |-> d, down_time |-> t,
                             is_sleeper |-> IsIdle(s) /\ hog /\ s.pid \in Alive,
                             owner |-> InfoAfter(s).owner])
    /\ process_map' = [process_map EXCEPT ![s.pid] = InfoAfter(s)]

(* The entry has a slot: the usage since that slot's snapshot is computed. *)
UpdateSlot(i) ==
    /\ pc = "parsed"
    /\ FirstMatch(i)
    /\ LET s == ParsedAt(file_data, now)
           b == before_list[i]
       IN  /\ now_list' = [now_list EXCEPT ![i] = s]
           /\ AppendRow(s, b, Usage(b, s),
                        IF b.timestamp_ms > 0 THEN USub(s.timestamp_ms, b.timestamp_ms)
                                              ELSE DefaultInterval)
    /\ pc' = "readdir"
    /\ UNCHANGED <<kernelVars, before_list, proc_count, entries, entry, file_data, historyVars>>

(* The entry has none and one is free: usage starts at 0. *)
AddSlot ==
    /\ pc = "parsed"
    /\ ~KnownEntry
    /\ HasFreeSlot
    /\ LET s == ParsedAt(file_data, now)
       IN  /\ before_list' = [before_list EXCEPT ![proc_count] = s]
           /\ now_list' = [now_list EXCEPT ![proc_count] = s]
           /\ AppendRow(s, s, 0, 0)
    /\ proc_count' = proc_count + 1
    /\ pc' = "readdir"
    /\ UNCHANGED <<kernelVars, entries, entry, file_data, historyVars>>

(* The entry has none and the table is full: no row. *)
DropEntry ==
    /\ pc = "parsed"
    /\ ~KnownEntry
    /\ ~HasFreeSlot
    /\ pc' = "readdir"
    /\ UNCHANGED <<kernelVars, tableVars, entries, entry, file_data, arr, historyVars>>

(* Every slot handed out keeps its newest snapshot as the next baseline. *)
BaselineOffByOne(i) == IF i < proc_count - 1 THEN now_list[i] ELSE Zero  \* mutant
Baseline(i)         == IF i < proc_count THEN now_list[i] ELSE Zero

EndScan ==
    /\ pc = "readdir"
    /\ entries = {}
    /\ before_list' = [i \in Slots |-> Baseline(i)]
    /\ pc' = "idle"
    /\ arr' = <<>>
    /\ UNCHANGED <<kernelVars, now_list, proc_count, process_map, entries, entry,
                   file_data, historyVars>>

-----------------------------------------------------------------------------
Kernel == Tick \/ \E p \in Pids : Fork(p) \/ Exit(p) \/ Run(p)

Daemon ==
    \/ BeginScan
    \/ \E p \in Pids : CheckEntry(p)
    \/ ReadStat
    \/ \E i \in Slots : UpdateSlot(i)
    \/ AddSlot
    \/ DropEntry
    \/ EndScan

Next == Kernel \/ Daemon

Spec == Init /\ [][Next]_vars

-----------------------------------------------------------------------------
ScanDone == pc = "readdir" /\ entries = {}
Rows     == {arr[k] : k \in 1 .. Len(arr)}

(* Slots are handed out in order and always carry a time stamp; the others *)
(* are zero.  So the slot after the last one is free, and the fallback of  *)
(* 200 ms (core_interface.c:130) is never taken.                           *)
SlotsInOrder ==
    /\ \A i \in Slots :
         IF i < proc_count
         THEN before_list[i].timestamp_ms > 0 /\ now_list[i].timestamp_ms > 0
         ELSE before_list[i] = Zero /\ now_list[i] = Zero
    /\ \A k \in 1 .. Len(arr) : arr[k].before.timestamp_ms > 0

(* When both ends of a row's usage are samples of one process (and not of  *)
(* a buffer without a line, which has no pid), the                         *)
(* unsigned difference of cpu_usage.c:14 is the CPU time the process used  *)
(* between them: it never wraps, although a failed read files a line of    *)
(* another entry, or of an earlier scan, in the slot.                      *)
HonestUsage ==
    \A k \in 1 .. Len(arr) :
        LET r == arr[k]
        IN  r.after.pid # 0 /\ SameProcess(r.before, r.after)
              => r.after.cpu = r.before.cpu + r.delta

(* A process that exists from the listing to the end of the scan has a row *)
(* (core_interface.c:102-154), unless every slot has been handed out.  And *)
(* while no listed process exits, the rows are one for each of them: slots *)
(* that earlier scans left to dead processes or filed under a wrong pid    *)
(* give no row of their own.                                               *)
SteadyListed ==
    ScanDone =>
        /\ proc_count < MaxProcess =>
             \A p \in listed \ exited : \E r \in Rows : r.after.pid = p
        /\ exited = {} =>
             \A j, k \in 1 .. Len(arr) :
                 /\ arr[j].after.pid \in listed
                 /\ arr[j].after.pid = arr[k].after.pid => j = k

(* A process flagged as a sleeper, by a record that is about itself, had   *)
(* used no CPU for more than SleepAfter when it was sampled                *)
(* (sleeper_detection.c:21-26), however scans and misreads interleave.     *)
SleeperIdle ==
    \A k \in 1 .. Len(arr) :
        LET r == arr[k]
        IN  (r.is_sleeper /\ r.owner = r.after.starttime)
              => r.after.timestamp_ms - r.after.ran > SleepAfter

-----------------------------------------------------------------------------
(* What the documentation says, and the code does not do: each of these is *)
(* checked on its own, and TLC finds it violated.                          *)

(* ProcessDTO.java:21: a row's usage is the "CPU usage (%) since last      *)
(* snapshot", so it cannot exceed what the process has used in its life.   *)
(* A pid used again makes the difference wrap.                             *)
UsageWithinLifetime ==
    \A k \in 1 .. Len(arr) :
        arr[k].before.pid = arr[k].after.pid => arr[k].delta <= arr[k].after.cpu

(* process_routes.c:48: the answer holds an object "for each process".     *)
(* Slots are never reclaimed, so a table larger than the number of         *)
(* processes fills up with dead ones and drops live ones.                  *)
EveryProcessListed ==
    ScanDone /\ Cardinality(listed) <= MaxProcess =>
        \A p \in listed \ exited : \E r \in Rows : r.after.pid = p
=============================================================================
