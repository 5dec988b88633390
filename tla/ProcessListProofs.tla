-------------------------- MODULE ProcessListProofs --------------------------
(***************************************************************************)
(* Theorems about ProcessList, for every set of pids, table size, word     *)
(* size and clock bound.                                                   *)
(*                                                                         *)
(* The argument.  A stat line only grows while its process lives, and the  *)
(* buffer file_data always holds the newest line anyone has read.  So, of  *)
(* one process, every snapshot in the table is behind the buffer, and the  *)
(* buffer is behind the kernel (Behind).  A pid that is used again comes   *)
(* with a starttime nobody has seen (StartsKnown).  HonestUsage follows    *)
(* when a slot is compared with the buffer, and SleeperIdle from the same  *)
(* relation between the sleeper's record and the buffer (RecordBehind).    *)
(***************************************************************************)
EXTENDS ProcessList, TLAPS

USE DEF NoProcess, Junk, Garbage, Zero, NoInfo

(* What every sample satisfies: pid 0 is a buffer without a line, of which *)
(* nothing is known.                                                       *)
WellFormed(s) ==
    /\ s.starttime <= born
    /\ s.ran <= now
    /\ s.pid # 0 => s.starttime > 0

(* s is not ahead of the kernel, if its process still lives. *)
BehindKernel(s) ==
    s.pid \in Pids /\ proc[s.pid].starttime = s.starttime => s.cpu <= proc[s.pid].cpu

(* s is not ahead of the buffer, if they are of one process. *)
BehindBuffer(s) == s.pid # 0 /\ SameProcess(s, file_data) => s.cpu <= file_data.cpu

Behind(s) == WellFormed(s) /\ BehindKernel(s) /\ BehindBuffer(s)

StartsKnown == \A p \in Pids : proc[p].starttime <= born /\ proc[p].ran <= now

(* The record of pid q against a line of pid q. *)
NotMissed(q, start, cpu, ran) ==
    process_map[q].owner = start =>
        /\ process_map[q].last_cpu_time <= cpu
        /\ cpu = process_map[q].last_cpu_time => ran <= process_map[q].last_active

RecordBehind ==
    \A q \in Pids :
        process_map[q].last_active > 0 =>
            /\ process_map[q].owner \in 1 .. born
            /\ process_map[q].last_active <= now
            /\ q = file_data.pid =>
                 NotMissed(q, file_data.starttime, file_data.cpu, file_data.ran)
            /\ NotMissed(q, proc[q].starttime, proc[q].cpu, proc[q].ran)

UsageInv ==
    /\ StartsKnown
    /\ Behind(file_data)
    /\ \A i \in Slots : Behind(before_list[i]) /\ Behind(now_list[i])

-----------------------------------------------------------------------------
(* Unsigned subtraction stays in range, and is exact when it does not borrow. *)
LEMMA USubRange ==
  ASSUME NEW a \in UInt64, NEW b \in UInt64
  PROVE  USub(a, b) \in UInt64 /\ (b <= a => a = b + USub(a, b))
BY WordAssumption DEF USub, UInt64

(* What filing a well-typed line does to the answer and to the sleeper map. *)
LEMMA AppendRowType ==
  ASSUME TypeOK,
         NEW b \in Snapshot, NEW d \in UInt64, NEW t \in UInt64,
         AppendRow(ParsedAt(file_data, now), b, d, t)
  PROVE  /\ arr' \in Seq(Row)
         /\ process_map' \in [Pids \cup {0} -> Info]
<1> DEFINE s == ParsedAt(file_data, now)
<1>1. s \in Snapshot /\ InfoAfter(s) \in Info /\ s.pid \in Pids \cup {0}
  BY DEF TypeOK, ParsedAt, Line, Snapshot, InfoAfter, Info, Time
<1>2. PICK hog \in BOOLEAN :
        arr' = Append(arr, [after |-> s, before |-> b, delta |-> d, down_time |-> t,
                            is_sleeper |-> IsIdle(s) /\ hog /\ s.pid \in Alive,
                            owner |-> InfoAfter(s).owner])
  BY DEF AppendRow
<1>3. (IsIdle(s) /\ hog /\ s.pid \in Alive) \in BOOLEAN
  BY DEF IsIdle
<1> HIDE DEF s
<1>4. arr' \in Seq(Row)
  BY <1>1, <1>2, <1>3 DEF Row, Info, TypeOK
<1>5. process_map' \in [Pids \cup {0} -> Info]
  BY <1>1 DEF AppendRow, TypeOK, s
<1> QED BY <1>4, <1>5

-----------------------------------------------------------------------------
(* TypeOK is an invariant: no slot outside the tables is written, however  *)
(* many processes come and go (core_interface.c:138), and every difference *)
(* is an uint64_t (cpu_usage.c:14).                                        *)
THEOREM TypeCorrect == Spec => []TypeOK
<1> USE PidsAssumption, MaxProcessAssumption, BoundsAssumption, TimingAssumption,
        WordAssumption
<1>1. Init => TypeOK
  BY DEF Init, TypeOK, Snapshot, Line, Info, Row, Process, ParsedAt, Slots, Time
<1>2. TypeOK /\ [Next]_vars => TypeOK'
  <2> SUFFICES ASSUME TypeOK, [Next]_vars PROVE TypeOK'
    OBVIOUS
  <2>1. CASE UNCHANGED vars
    BY <2>1 DEF vars, TypeOK
  <2>2. CASE Tick
    BY <2>2 DEF TypeOK, Tick, daemonVars, historyVars, Time, Process
  <2>3. ASSUME NEW p \in Pids, Fork(p) PROVE TypeOK'
    <3>1. [starttime |-> born + 1, cpu |-> 0, ran |-> now] \in Process
      BY DEF TypeOK, Process, Time
    <3>2. /\ proc' \in [Pids -> Process]
          /\ \A q \in Pids : proc'[q].cpu <= proc'[q].ran /\ proc'[q].ran <= now
      BY <2>3, <3>1 DEF TypeOK, Fork, Time
    <3> QED BY <2>3, <3>2 DEF TypeOK, Fork, daemonVars, historyVars
  <2>4. ASSUME NEW p \in Pids, Exit(p) PROVE TypeOK'
    BY <2>4 DEF TypeOK, Exit, daemonVars, Time, Process
  <2>5. ASSUME NEW p \in Pids, Run(p) PROVE TypeOK'
    <3> DEFINE new == [starttime |-> proc[p].starttime, cpu |-> proc[p].cpu + 1, ran |-> now]
    <3>1. new \in Process /\ new.cpu <= new.ran /\ new.ran = now
      BY <2>5 DEF TypeOK, Run, Process, Time
    <3>2. proc' = [proc EXCEPT ![p] = new]
      BY <2>5 DEF Run
    <3> HIDE DEF new
    <3>3. /\ proc' \in [Pids -> Process]
          /\ \A q \in Pids : proc'[q].cpu <= proc'[q].ran /\ proc'[q].ran <= now
      BY <3>1, <3>2 DEF TypeOK, Time
    <3> QED BY <2>5, <3>3 DEF TypeOK, Run, daemonVars, historyVars
  <2>6. CASE BeginScan
    BY <2>6 DEF TypeOK, BeginScan, Alive, kernelVars, tableVars
  <2>7. ASSUME NEW p \in Pids, CheckEntry(p) PROVE TypeOK'
    BY <2>7 DEF TypeOK, CheckEntry, kernelVars, tableVars, historyVars
  <2>8. CASE ReadStat
    <3>1. ASSUME NEW g \in Garbage PROVE g \in Line
      <4>1. g.cpu \in Time
        BY StackAssumption DEF Time
      <4>2. g = [pid |-> 0, starttime |-> 0, cpu |-> g.cpu, ran |-> 0]
        OBVIOUS
      <4>3. 0 \in Time
        BY DEF Time
      <4> QED BY <4>1, <4>2, <4>3 DEF Line
    <3>2. entry \in Pids => StatLine(entry) \in Line
      BY DEF TypeOK, StatLine, Line, Process
    <3>3. file_data' \in Line
      BY <3>1, <3>2, <2>8 DEF TypeOK, ReadStat
    <3> QED BY <3>3, <2>8 DEF TypeOK, ReadStat, kernelVars, tableVars, historyVars
  <2>9. ParsedAt(file_data, now) \in Snapshot
    BY DEF TypeOK, ParsedAt, Line, Snapshot, Time
  <2>10. ASSUME NEW i \in Slots, UpdateSlot(i) PROVE TypeOK'
    <3> DEFINE s == ParsedAt(file_data, now)
               b == before_list[i]
               d == USub(s.cpu, b.cpu)
               t == IF b.timestamp_ms > 0 THEN USub(s.timestamp_ms, b.timestamp_ms)
                                          ELSE DefaultInterval
    <3>1. b \in Snapshot
      BY DEF TypeOK
    <3>2. d \in UInt64 /\ t \in UInt64
      <4>1. /\ s.cpu \in UInt64 /\ b.cpu \in UInt64
            /\ s.timestamp_ms \in UInt64 /\ b.timestamp_ms \in UInt64
        BY <3>1, <2>9 DEF Snapshot, Time, UInt64
      <4>2. d \in UInt64 /\ USub(s.timestamp_ms, b.timestamp_ms) \in UInt64
        BY <4>1, USubRange
      <4> QED BY <4>2 DEF UInt64
    <3>3. AppendRow(s, b, d, t) /\ now_list' = [now_list EXCEPT ![i] = s]
      BY <2>10 DEF UpdateSlot, Usage
    <3>4. arr' \in Seq(Row) /\ process_map' \in [Pids \cup {0} -> Info]
      BY <3>1, <3>2, <3>3, AppendRowType
    <3>5. now_list' \in [Slots -> Snapshot]
      BY <3>3, <2>9 DEF TypeOK
    <3> QED BY <3>4, <3>5, <2>10 DEF TypeOK, UpdateSlot, kernelVars, historyVars
  <2>11. CASE AddSlot
    <3> DEFINE s == ParsedAt(file_data, now)
    <3>1. AppendRow(s, s, 0, 0)
      BY <2>11 DEF AddSlot
    <3>2. arr' \in Seq(Row) /\ process_map' \in [Pids \cup {0} -> Info]
      BY <3>1, <2>9, AppendRowType DEF UInt64
    <3>3. before_list' \in [Slots -> Snapshot] /\ now_list' \in [Slots -> Snapshot]
      BY <2>9, <2>11 DEF TypeOK, AddSlot
    <3>4. proc_count' \in 0 .. MaxProcess
      BY <2>11 DEF TypeOK, AddSlot, HasFreeSlot
    <3> QED BY <3>2, <3>3, <3>4, <2>11 DEF TypeOK, AddSlot, kernelVars, historyVars
  <2>12. CASE DropEntry
    BY <2>12 DEF TypeOK, DropEntry, kernelVars, tableVars, historyVars
  <2>13. CASE EndScan
    <3>1. Zero \in Snapshot
      BY DEF Snapshot, ParsedAt, Time
    <3>2. before_list' \in [Slots -> Snapshot]
      BY <3>1, <2>13 DEF TypeOK, EndScan, Baseline
    <3> QED BY <3>2, <2>13 DEF TypeOK, EndScan, kernelVars, historyVars
  <2> QED BY <2>1, <2>2, <2>3, <2>4, <2>5, <2>6, <2>7, <2>8, <2>10, <2>11, <2>12,
             <2>13 DEF Next, Kernel, Daemon
<1> QED BY <1>1, <1>2, PTL DEF Spec

-----------------------------------------------------------------------------
(* Slots are handed out in order, carry a time stamp from then on, and the *)
(* fallback interval is never used (core_interface.c:127-144).             *)
LEMMA SlotsStep == TypeOK /\ SlotsInOrder /\ [Next]_vars => SlotsInOrder'
<1> SUFFICES ASSUME TypeOK, SlotsInOrder, [Next]_vars PROVE SlotsInOrder'
  OBVIOUS
<1> USE PidsAssumption, MaxProcessAssumption
<1>1. CASE UNCHANGED <<before_list, now_list, proc_count, arr>>
  BY <1>1 DEF SlotsInOrder
<1>2. ASSUME UNCHANGED <<before_list, now_list, proc_count>>, arr' = <<>> PROVE SlotsInOrder'
  BY <1>2 DEF SlotsInOrder
<1>3. ASSUME NEW s, NEW b \in Snapshot, NEW d, NEW t, AppendRow(s, b, d, t),
             b.timestamp_ms > 0
      PROVE  \A k \in 1 .. Len(arr') : arr'[k].before.timestamp_ms > 0
  <2>1. PICK r : arr' = Append(arr, r) /\ r.before = b
    BY <1>3 DEF AppendRow
  <2> QED BY <2>1, <1>3 DEF SlotsInOrder, TypeOK
<1>4. ParsedAt(file_data, now).timestamp_ms > 0 /\ ParsedAt(file_data, now) \in Snapshot
  BY DEF ParsedAt, TypeOK, Time, Line, Snapshot
<1>5. ASSUME NEW i \in Slots, UpdateSlot(i) PROVE SlotsInOrder'
  <2>1. before_list[i].pid # 0
    BY <1>5 DEF UpdateSlot, FirstMatch, TypeOK
  <2>2. i < proc_count
    BY <2>1 DEF SlotsInOrder, ParsedAt
  <2>3. before_list[i] \in Snapshot /\ before_list[i].timestamp_ms > 0
    BY <2>2 DEF SlotsInOrder, TypeOK
  <2>4. \A k \in 1 .. Len(arr') : arr'[k].before.timestamp_ms > 0
    BY <1>3, <1>5, <2>3 DEF UpdateSlot
  <2>5. now_list' = [now_list EXCEPT ![i] = ParsedAt(file_data, now)]
    BY <1>5 DEF UpdateSlot
  <2> QED BY <1>4, <1>5, <2>2, <2>4, <2>5 DEF SlotsInOrder, UpdateSlot, TypeOK
<1>6. CASE AddSlot
  <2>1. \A k \in 1 .. Len(arr') : arr'[k].before.timestamp_ms > 0
    BY <1>3, <1>4, <1>6 DEF AddSlot
  <2>2. /\ proc_count' = proc_count + 1
        /\ before_list' = [before_list EXCEPT ![proc_count] = ParsedAt(file_data, now)]
        /\ now_list' = [now_list EXCEPT ![proc_count] = ParsedAt(file_data, now)]
    BY <1>6 DEF AddSlot
  <2> QED BY <1>4, <2>1, <2>2 DEF SlotsInOrder, TypeOK, Slots
<1>7. CASE EndScan
  BY <1>7 DEF EndScan, Baseline, SlotsInOrder, TypeOK
<1> QED BY <1>1, <1>2, <1>5, <1>6, <1>7
        DEF Next, Kernel, Daemon, vars, kernelVars, tableVars, historyVars, daemonVars,
            Tick, Fork, Exit, Run, BeginScan, CheckEntry, ReadStat, DropEntry

(* Slots are handed out in order and always carry a time stamp             *)
(* (core_interface.c:138-160).                                             *)
THEOREM SlotsOrdered == Spec => []SlotsInOrder
<1>1. Init => SlotsInOrder
  BY MaxProcessAssumption DEF Init, SlotsInOrder, Slots
<1> QED BY <1>1, SlotsStep, TypeCorrect, PTL DEF Spec

-----------------------------------------------------------------------------
(* Nobody's sample runs ahead: UsageInv is inductive.                      *)
LEMMA UsageInit == Init => UsageInv
BY PidsAssumption
   DEF Init, UsageInv, StartsKnown, Behind, WellFormed, BehindKernel, BehindBuffer,
       SameProcess, ParsedAt

(* No step of the kernel or of a scan puts a sample ahead.                 *)
LEMMA UsageStep == TypeOK /\ UsageInv /\ [Next]_vars => UsageInv'
<1> SUFFICES ASSUME TypeOK, UsageInv, [Next]_vars PROVE UsageInv'
  OBVIOUS
<1> USE PidsAssumption, MaxProcessAssumption
<1> DEFINE Sample == Line \cup Snapshot
<1>1. /\ file_data \in Sample
      /\ \A i \in Slots : before_list[i] \in Sample /\ now_list[i] \in Sample
  BY DEF TypeOK
<1>2. ASSUME UNCHANGED <<before_list, now_list, file_data>>,
             StartsKnown',
             \A s \in Sample : Behind(s) => Behind(s)'
      PROVE  UsageInv'
  BY <1>1, <1>2 DEF UsageInv
<1>3. CASE UNCHANGED <<proc, now, born, before_list, now_list, file_data>>
  BY <1>3 DEF UsageInv, StartsKnown, Behind, WellFormed, BehindKernel, BehindBuffer
<1>4. CASE Tick
  <2>1. StartsKnown'
    BY <1>4 DEF Tick, UsageInv, StartsKnown, TypeOK, Time, Process
  <2>2. \A s \in Sample : Behind(s) => Behind(s)'
    BY <1>4 DEF Tick, daemonVars, Behind, WellFormed, BehindKernel, BehindBuffer, TypeOK,
                Time, Line, Snapshot
  <2> QED BY <1>2, <1>4, <2>1, <2>2 DEF Tick, daemonVars
<1>5. ASSUME NEW p \in Pids, Fork(p) PROVE UsageInv'
  <2>1. proc' = [proc EXCEPT ![p] = [starttime |-> born + 1, cpu |-> 0, ran |-> now]]
        /\ born' = born + 1 /\ UNCHANGED <<now, before_list, now_list, file_data>>
    BY <1>5 DEF Fork, daemonVars
  <2>2. StartsKnown'
    BY <2>1 DEF UsageInv, StartsKnown, TypeOK, Time, Process
  <2>3. \A s \in Sample : Behind(s) => Behind(s)'
    BY <2>1 DEF Behind, WellFormed, BehindKernel, BehindBuffer, TypeOK, Time, Line, Snapshot
  <2> QED BY <1>2, <2>1, <2>2, <2>3
<1>6. ASSUME NEW p \in Pids, Exit(p) PROVE UsageInv'
  <2>1. proc' = [proc EXCEPT ![p] = NoProcess]
        /\ UNCHANGED <<born, now, before_list, now_list, file_data>>
    BY <1>6 DEF Exit, daemonVars
  <2>2. StartsKnown'
    BY <2>1 DEF UsageInv, StartsKnown, TypeOK, Time, Process
  <2>3. \A s \in Sample : Behind(s) => Behind(s)'
    BY <2>1 DEF Behind, WellFormed, BehindKernel, BehindBuffer, TypeOK, Time, Line, Snapshot
  <2> QED BY <1>2, <2>1, <2>2, <2>3
<1>7. ASSUME NEW p \in Pids, Run(p) PROVE UsageInv'
  <2> DEFINE q == proc[p]
  <2>1. proc' = [proc EXCEPT ![p] = [starttime |-> q.starttime, cpu |-> q.cpu + 1,
                                     ran |-> now]]
        /\ UNCHANGED <<born, now, before_list, now_list, file_data>>
    BY <1>7 DEF Run, daemonVars
  <2>2. StartsKnown'
    BY <2>1 DEF UsageInv, StartsKnown, TypeOK, Time, Process
  <2>3. \A s \in Sample : Behind(s) => Behind(s)'
    BY <2>1 DEF Behind, WellFormed, BehindKernel, BehindBuffer, TypeOK, Time, Line, Snapshot,
                Process
  <2> QED BY <1>2, <2>1, <2>2, <2>3
<1>8. CASE ReadStat
  <2>1. UNCHANGED <<proc, now, born, before_list, now_list>> /\ entry \in Pids
    BY <1>8 DEF ReadStat, kernelVars, tableVars, TypeOK
  <2>2. CASE file_data' = file_data
    BY <1>3, <2>1, <2>2
  <2>3. CASE file_data' \in Garbage
    <3>1. \A s \in Sample : Behind(s) => Behind(s)'
      BY <2>1, <2>3 DEF Behind, WellFormed, BehindKernel, BehindBuffer, SameProcess,
                        Time, Line, Snapshot
    <3>2. Behind(file_data)'
      BY <2>1, <2>3 DEF Behind, WellFormed, BehindKernel, BehindBuffer, TypeOK, Time
    <3> QED BY <1>1, <2>1, <2>3, <3>1, <3>2 DEF UsageInv, StartsKnown
  <2>4. ASSUME entry \in Alive, file_data' = StatLine(entry) PROVE UsageInv'
    <3>1. \A s \in Sample : Behind(s) => Behind(s)'
      BY <2>1, <2>4 DEF Behind, WellFormed, BehindKernel, BehindBuffer, SameProcess, StatLine
    <3>2. Behind(file_data)'
      BY <2>1, <2>4 DEF Behind, WellFormed, BehindKernel, BehindBuffer, StatLine, TypeOK,
                        Time, Process, Alive, UsageInv, StartsKnown
    <3> QED BY <1>1, <2>1, <3>1, <3>2 DEF UsageInv, StartsKnown
  <2> QED BY <1>8, <2>2, <2>3, <2>4 DEF ReadStat
<1>9. Behind(ParsedAt(file_data, now))
  BY DEF UsageInv, Behind, WellFormed, BehindKernel, BehindBuffer, SameProcess, ParsedAt
<1>10. ASSUME UNCHANGED <<proc, now, born, file_data>>,
              \A i \in Slots :
                 /\ before_list'[i] \in {before_list[i], now_list[i], Zero,
                                         ParsedAt(file_data, now)}
                 /\ now_list'[i] \in {now_list[i], ParsedAt(file_data, now)}
       PROVE  UsageInv'
  <2>1. Behind(Zero)
    BY DEF Behind, WellFormed, BehindKernel, BehindBuffer, SameProcess, ParsedAt, TypeOK,
           Time, Line
  <2>2. \A i \in Slots : Behind(before_list'[i]) /\ Behind(now_list'[i])
    BY <1>9, <1>10, <2>1 DEF UsageInv
  <2>3. \A i \in Slots : Behind(before_list[i])' /\ Behind(now_list[i])'
    BY <1>10, <2>2 DEF Behind, WellFormed, BehindKernel, BehindBuffer
  <2> QED BY <1>10, <2>3 DEF UsageInv, StartsKnown, Behind, WellFormed, BehindKernel,
                             BehindBuffer
<1>11. ASSUME NEW i \in Slots, UpdateSlot(i) PROVE UsageInv'
  BY <1>10, <1>11 DEF UpdateSlot, kernelVars, TypeOK
<1>12. CASE AddSlot
  BY <1>10, <1>12 DEF AddSlot, kernelVars, TypeOK
<1>13. CASE EndScan
  BY <1>10, <1>13 DEF EndScan, Baseline, kernelVars
<1> QED BY <1>3, <1>4, <1>5, <1>6, <1>7, <1>8, <1>11, <1>12, <1>13
        DEF Next, Kernel, Daemon, vars, kernelVars, tableVars, BeginScan, CheckEntry,
            DropEntry

-----------------------------------------------------------------------------
(* The usage of a row whose two samples are of one process is what the     *)
(* process used between them (core_interface.c:132, cpu_usage.c:14).       *)
LEMMA HonestStep == TypeOK /\ UsageInv /\ HonestUsage /\ [Next]_vars => HonestUsage'
<1> SUFFICES ASSUME TypeOK, UsageInv, HonestUsage, [Next]_vars PROVE HonestUsage'
  OBVIOUS
<1> DEFINE Honest(r) == r.after.pid # 0 /\ SameProcess(r.before, r.after)
                          => r.after.cpu = r.before.cpu + r.delta
<1>1. CASE UNCHANGED arr
  BY <1>1 DEF HonestUsage
<1>2. CASE arr' = <<>>
  BY <1>2 DEF HonestUsage
<1>3. ASSUME NEW r, arr' = Append(arr, r), Honest(r) PROVE HonestUsage'
  BY <1>3 DEF HonestUsage, TypeOK
<1> DEFINE s == ParsedAt(file_data, now)
<1>4. s \in Snapshot /\ s.pid = file_data.pid /\ s.starttime = file_data.starttime
      /\ s.cpu = file_data.cpu
  BY DEF ParsedAt, TypeOK, Line, Snapshot, Time
<1> HIDE DEF s
<1>5. ASSUME NEW i \in Slots, UpdateSlot(i) PROVE HonestUsage'
  <2> DEFINE b == before_list[i]
             d == USub(s.cpu, b.cpu)
  <2>1. PICK r : arr' = Append(arr, r) /\ r.after = s /\ r.before = b /\ r.delta = d
    BY <1>5 DEF UpdateSlot, AppendRow, Usage, s
  <2>2. b \in Snapshot /\ BehindBuffer(b)
    BY DEF TypeOK, UsageInv, Behind
  <2>3. s.cpu \in UInt64 /\ b.cpu \in UInt64
    BY <1>4, <2>2, BoundsAssumption, WordAssumption DEF Snapshot, Time, UInt64
  <2>4. s.pid # 0 /\ SameProcess(b, s) => b.cpu <= s.cpu
    BY <1>4, <2>2 DEF BehindBuffer, SameProcess
  <2>5. s.pid # 0 /\ SameProcess(b, s) => s.cpu = b.cpu + d
    BY <2>3, <2>4, USubRange
  <2> QED BY <1>3, <2>1, <2>5
<1>6. CASE AddSlot
  <2>1. PICK r : arr' = Append(arr, r) /\ r.after = s /\ r.before = s /\ r.delta = 0
    BY <1>6 DEF AddSlot, AppendRow, s
  <2>2. s.cpu = s.cpu + 0
    BY <1>4 DEF Snapshot, Time
  <2> QED BY <1>3, <2>1, <2>2
<1> QED BY <1>1, <1>2, <1>5, <1>6
        DEF Next, Kernel, Daemon, vars, kernelVars, tableVars, historyVars, daemonVars,
            Tick, Fork, Exit, Run, BeginScan, CheckEntry, ReadStat, DropEntry, EndScan

(* So usage is honest in every state (core_interface.c:132).               *)
THEOREM UsageHonest == Spec => []HonestUsage
<1>1. Init => HonestUsage
  BY DEF Init, HonestUsage
<1> QED BY <1>1, UsageInit, UsageStep, HonestStep, TypeCorrect, PTL DEF Spec

-----------------------------------------------------------------------------
(* The sleeper's record of a process never misses a line already read.     *)
LEMMA RecordStep == TypeOK /\ UsageInv /\ RecordBehind /\ [Next]_vars => RecordBehind'
<1> SUFFICES ASSUME TypeOK, UsageInv, RecordBehind, [Next]_vars PROVE RecordBehind'
  OBVIOUS
<1> USE PidsAssumption
<1> DEFINE Q == Pids \cup {0}
<1>1. process_map \in [Q -> Info] /\ file_data \in Line /\ proc \in [Pids -> Process]
      /\ now \in Time /\ born \in Nat
  BY DEF TypeOK
<1>2. CASE UNCHANGED <<proc, now, born, process_map, file_data>>
  BY <1>2 DEF RecordBehind, NotMissed
<1>3. CASE Tick
  <2>1. now' = now + 1 /\ UNCHANGED <<proc, born, process_map, file_data>>
    BY <1>3 DEF Tick, daemonVars
  <2> QED BY <1>1, <2>1 DEF RecordBehind, NotMissed, Info, Time
<1>4. ASSUME NEW p \in Pids, Fork(p) PROVE RecordBehind'
  <2>1. proc' = [proc EXCEPT ![p] = [starttime |-> born + 1, cpu |-> 0, ran |-> now]]
        /\ born' = born + 1 /\ UNCHANGED <<now, process_map, file_data>>
    BY <1>4 DEF Fork, daemonVars
  <2> QED BY <1>1, <2>1 DEF RecordBehind, NotMissed, Info, Time
<1>5. ASSUME NEW p \in Pids, Exit(p) PROVE RecordBehind'
  <2>1. proc' = [proc EXCEPT ![p] = NoProcess]
        /\ UNCHANGED <<born, now, process_map, file_data>>
    BY <1>5 DEF Exit, daemonVars
  <2> QED BY <1>1, <2>1 DEF RecordBehind, NotMissed, Info, Time
<1>6. ASSUME NEW p \in Pids, Run(p) PROVE RecordBehind'
  <2> DEFINE q == proc[p]
  <2>1. proc' = [proc EXCEPT ![p] = [starttime |-> q.starttime, cpu |-> q.cpu + 1,
                                     ran |-> now]]
        /\ UNCHANGED <<born, now, process_map, file_data>>
    BY <1>6 DEF Run, daemonVars
  <2> QED BY <1>1, <2>1 DEF RecordBehind, NotMissed, Info, Time, Process
<1>7. CASE ReadStat
  <2>1. UNCHANGED <<proc, now, born, process_map>> /\ entry \in Pids
    BY <1>7 DEF ReadStat, kernelVars, tableVars, TypeOK
  <2>2. CASE file_data' = file_data
    BY <1>2, <2>1, <2>2
  <2>3. CASE file_data' \in Garbage
    BY <1>1, <2>1, <2>3 DEF RecordBehind, NotMissed, Info, Time
  <2>4. CASE file_data' = StatLine(entry)
    BY <1>1, <2>1, <2>4 DEF RecordBehind, NotMissed, StatLine, Info, Time
  <2> QED BY <1>7, <2>2, <2>3, <2>4 DEF ReadStat
<1> DEFINE s == ParsedAt(file_data, now)
<1>8. ASSUME UNCHANGED <<proc, now, born, file_data>>,
             process_map' = [process_map EXCEPT ![s.pid] = InfoAfter(s)]
      PROVE  RecordBehind'
  <2> DEFINE p == process_map[s.pid]
             new == [owner |-> s.starttime, last_active |-> now, last_cpu_time |-> s.cpu]
  <2>1. s.pid \in Q /\ s.pid = file_data.pid /\ s.starttime = file_data.starttime
        /\ s.cpu = file_data.cpu
    BY <1>1 DEF ParsedAt, Line
  <2>2. CASE InfoAfter(s) = p
    <3>1. process_map' = process_map
      BY <1>1, <1>8, <2>1, <2>2
    <3> QED BY <1>2, <1>8, <3>1
  <2>3. CASE InfoAfter(s) = new
    <3>1. process_map' = [process_map EXCEPT ![file_data.pid]
                = [owner |-> file_data.starttime, last_active |-> now,
                   last_cpu_time |-> file_data.cpu]]
      BY <1>8, <2>1, <2>3
    <3>2. Behind(file_data) /\ StartsKnown
      BY DEF UsageInv
    <3> HIDE DEF new, p, s
    <3> QED BY <1>1, <1>8, <2>1, <3>1, <3>2
            DEF RecordBehind, NotMissed, Behind, WellFormed, BehindKernel, StartsKnown,
                Line, Process, Info, Time
  <2> QED BY <2>2, <2>3 DEF InfoAfter
<1>9. ASSUME NEW i \in Slots, UpdateSlot(i) PROVE RecordBehind'
  BY <1>8, <1>9 DEF UpdateSlot, AppendRow, kernelVars
<1>10. CASE AddSlot
  BY <1>8, <1>10 DEF AddSlot, AppendRow, kernelVars
<1> QED BY <1>2, <1>3, <1>4, <1>5, <1>6, <1>7, <1>9, <1>10
        DEF Next, Kernel, Daemon, vars, kernelVars, tableVars, BeginScan, CheckEntry,
            DropEntry, EndScan

(* A process its own record calls a sleeper had been idle when sampled     *)
(* (sleeper_detection.c:21-26).                                            *)
LEMMA SleeperStep ==
    TypeOK /\ UsageInv /\ RecordBehind /\ SleeperIdle /\ [Next]_vars => SleeperIdle'
<1> SUFFICES ASSUME TypeOK, UsageInv, RecordBehind, SleeperIdle, [Next]_vars
             PROVE  SleeperIdle'
  OBVIOUS
<1> USE PidsAssumption
<1> DEFINE Idle(r) == r.is_sleeper /\ r.owner = r.after.starttime
                        => r.after.timestamp_ms - r.after.ran > SleepAfter
<1>1. CASE UNCHANGED arr
  BY <1>1 DEF SleeperIdle
<1>2. CASE arr' = <<>>
  BY <1>2 DEF SleeperIdle
<1>3. ASSUME NEW r, arr' = Append(arr, r), Idle(r) PROVE SleeperIdle'
  BY <1>3 DEF SleeperIdle, TypeOK
<1> DEFINE s == ParsedAt(file_data, now)
<1>4. ASSUME IsIdle(s), InfoAfter(s).owner = s.starttime, s.pid \in Alive
      PROVE  s.timestamp_ms - s.ran > SleepAfter
  <2> DEFINE p == process_map[file_data.pid]
  <2>1. file_data \in Line /\ file_data.pid \in Pids /\ p \in Info /\ now \in Time
    BY <1>4 DEF TypeOK, Line, ParsedAt, Alive
  <2>2. InfoAfter(s) = IF p.last_active = 0 \/ file_data.cpu > p.last_cpu_time
                       THEN [owner |-> file_data.starttime, last_active |-> now,
                             last_cpu_time |-> file_data.cpu]
                       ELSE p
    BY DEF InfoAfter, ParsedAt
  <2>3. now - InfoAfter(s).last_active > SleepAfter
    BY <1>4 DEF IsIdle
  <2>4. p.last_active # 0 /\ file_data.cpu <= p.last_cpu_time /\ InfoAfter(s) = p
    BY <2>1, <2>2, <2>3, TimingAssumption DEF Line, Info, Time
  <2>5. p.owner = file_data.starttime
    BY <1>4, <2>4 DEF ParsedAt
  <2>6. p.last_cpu_time <= file_data.cpu
        /\ (file_data.cpu = p.last_cpu_time => file_data.ran <= p.last_active)
    BY <2>1, <2>4, <2>5 DEF RecordBehind, NotMissed, Line, Info, Time
  <2>7. file_data.ran <= p.last_active
    BY <2>1, <2>4, <2>6 DEF Line, Info, Time
  <2>8. now - file_data.ran > SleepAfter
    BY <2>1, <2>3, <2>4, <2>7, TimingAssumption DEF Line, Info, Time
  <2> QED BY <2>8 DEF ParsedAt
<1>5. ASSUME NEW b, NEW d, NEW t, AppendRow(s, b, d, t) PROVE SleeperIdle'
  <2>1. PICK hog \in BOOLEAN :
          arr' = Append(arr, [after |-> s, before |-> b, delta |-> d, down_time |-> t,
                              is_sleeper |-> IsIdle(s) /\ hog /\ s.pid \in Alive,
                              owner |-> InfoAfter(s).owner])
    BY <1>5 DEF AppendRow
  <2> DEFINE r == [after |-> s, before |-> b, delta |-> d, down_time |-> t,
                   is_sleeper |-> IsIdle(s) /\ hog /\ s.pid \in Alive,
                   owner |-> InfoAfter(s).owner]
  <2>2. r.after = s /\ (r.is_sleeper => IsIdle(s) /\ s.pid \in Alive) /\ r.owner = InfoAfter(s).owner
    OBVIOUS
  <2>3. arr' = Append(arr, r)
    BY <2>1
  <2> HIDE DEF s, r
  <2>4. Idle(r)
    BY <1>4, <2>2
  <2> QED BY <1>3, <2>3, <2>4
<1>6. ASSUME NEW i \in Slots, UpdateSlot(i) PROVE SleeperIdle'
  BY <1>5, <1>6 DEF UpdateSlot
<1>7. CASE AddSlot
  BY <1>5, <1>7 DEF AddSlot
<1> QED BY <1>1, <1>2, <1>6, <1>7
        DEF Next, Kernel, Daemon, vars, kernelVars, tableVars, historyVars, daemonVars,
            Tick, Fork, Exit, Run, BeginScan, CheckEntry, ReadStat, DropEntry, EndScan

(* So a sleeper has been idle in every state (sleeper_detection.c:26).     *)
THEOREM SleepersIdle == Spec => []SleeperIdle
<1>1. Init => RecordBehind /\ SleeperIdle
  BY DEF Init, RecordBehind, SleeperIdle
<1> QED BY <1>1, UsageInit, UsageStep, RecordStep, SleeperStep, TypeCorrect, PTL DEF Spec
-----------------------------------------------------------------------------
(* A scan has dealt with a listed process once its entry was visited: it   *)
(* has a row, or has exited, or found the table full.                      *)
Visiting  == pc \in {"opened", "parsed"}
HasRow(p) == \E k \in 1 .. Len(arr) : arr[k].after.pid = p

ScanInv ==
    /\ entries \subseteq listed
    /\ Visiting => entry \in listed \ entries
    /\ pc # "idle" => listed \ exited \subseteq Alive
    /\ pc = "parsed" /\ entry \notin exited => file_data.pid = entry
    /\ pc # "idle" /\ proc_count < MaxProcess =>
         \A p \in listed \ exited : p \in entries \/ (Visiting /\ p = entry) \/ HasRow(p)
    /\ exited = {} =>
         \A j, k \in 1 .. Len(arr) :
             /\ arr[j].after.pid \in listed \ entries
             /\ Visiting => arr[j].after.pid # entry
             /\ arr[j].after.pid = arr[k].after.pid => j = k

(* The row of the entry that has been visited. *)
LEMMA RowAppended ==
  ASSUME TypeOK, ScanInv, pc = "parsed", pc' = "readdir",
         UNCHANGED <<entries, entry, listed, exited, proc>>, proc_count' >= proc_count,
         NEW b, NEW d, NEW t, AppendRow(ParsedAt(file_data, now), b, d, t),
         proc_count' \in Nat
  PROVE  ScanInv'
<1>1. PICK r : arr' = Append(arr, r) /\ r.after.pid = file_data.pid
  BY DEF AppendRow, ParsedAt
<1>2. /\ Len(arr') = Len(arr) + 1 /\ Len(arr) \in Nat
      /\ arr'[Len(arr) + 1] = r
      /\ \A k \in 1 .. Len(arr) : arr'[k] = arr[k]
  BY <1>1 DEF TypeOK
<1>3. entry \in listed \ entries /\ (entry \notin exited => file_data.pid = entry)
  BY DEF ScanInv, Visiting
<1>4. \A p : HasRow(p) => HasRow(p)'
  BY <1>2 DEF HasRow
<1>5. entry \notin exited => HasRow(entry)'
  BY <1>1, <1>2, <1>3 DEF HasRow
<1>6. pc' # "idle" /\ proc_count' < MaxProcess =>
        \A p \in listed' \ exited' : p \in entries' \/ HasRow(p)'
  <2>1. proc_count < MaxProcess \/ ~(proc_count' < MaxProcess)
    BY MaxProcessAssumption DEF TypeOK
  <2> QED BY <1>4, <1>5, <2>1 DEF ScanInv
<1>7. ASSUME exited = {}, NEW j \in 1 .. Len(arr'), NEW k \in 1 .. Len(arr')
      PROVE  /\ arr'[j].after.pid \in listed \ entries
             /\ arr'[j].after.pid = arr'[k].after.pid => j = k
  <2>1. \A i \in 1 .. Len(arr) : arr[i].after.pid # entry
    BY <1>7 DEF ScanInv, Visiting
  <2>2. arr'[Len(arr) + 1].after.pid = entry
    BY <1>1, <1>2, <1>3, <1>7
  <2> QED BY <1>2, <1>3, <1>7, <2>1, <2>2 DEF ScanInv
<1>8. ~Visiting'
  BY DEF Visiting
<1>9. Alive' = Alive
  BY DEF Alive
<1> QED BY <1>6, <1>7, <1>8, <1>9 DEF ScanInv

LEMMA ScanStep == TypeOK /\ ScanInv /\ [Next]_vars => ScanInv'
<1> SUFFICES ASSUME TypeOK, ScanInv, [Next]_vars PROVE ScanInv'
  OBVIOUS
<1> USE DEF HasRow, Visiting
<1>1. CASE Tick \/ UNCHANGED vars
  BY <1>1 DEF Tick, vars, daemonVars, historyVars, ScanInv, Alive
<1>2. ASSUME NEW p \in Pids, Fork(p) \/ Run(p) PROVE ScanInv'
  <2>1. UNCHANGED <<historyVars, daemonVars>>
    BY <1>2 DEF Fork, Run
  <2>2. Alive \subseteq Alive'
    <3>1. CASE Fork(p)
      BY <3>1 DEF Fork, Alive, TypeOK
    <3>2. CASE Run(p)
      BY <3>2 DEF Run, Alive, TypeOK
    <3> QED BY <1>2, <3>1, <3>2
  <2> QED BY <2>1, <2>2 DEF ScanInv, historyVars, daemonVars
<1>3. ASSUME NEW p \in Pids, Exit(p) PROVE ScanInv'
  <2>1. UNCHANGED <<listed, daemonVars>> /\ exited' = exited \cup ({p} \cap listed)
    BY <1>3 DEF Exit
  <2>2. Alive' = Alive \ {p}
    BY <1>3 DEF Exit, Alive, TypeOK
  <2> QED BY <2>1, <2>2 DEF ScanInv, daemonVars
<1>4. CASE BeginScan
  <2>1. /\ pc' = "readdir" /\ entries' = Alive /\ listed' = Alive /\ exited' = {}
        /\ arr' = <<>> /\ proc' = proc
    BY <1>4 DEF BeginScan, kernelVars
  <2> QED BY <2>1 DEF ScanInv, Alive
<1>5. ASSUME NEW p \in Pids, CheckEntry(p) PROVE ScanInv'
  <2>1. /\ pc = "readdir" /\ p \in entries /\ entries' = entries \ {p}
        /\ UNCHANGED <<proc, proc_count, file_data, arr, listed, exited>>
        /\ IF p \in Alive THEN pc' = "opened" /\ entry' = p ELSE UNCHANGED <<pc, entry>>
    BY <1>5 DEF CheckEntry, kernelVars, tableVars, historyVars
  <2>2. Alive' = Alive
    BY <2>1 DEF Alive
  <2> QED BY <2>1, <2>2 DEF ScanInv
<1>6. CASE ReadStat
  <2>1. /\ pc = "opened" /\ pc' = "parsed"
        /\ UNCHANGED <<proc, proc_count, entries, entry, arr, listed, exited>>
    BY <1>6 DEF ReadStat, kernelVars, tableVars, historyVars
  <2>2. entry \in Alive => file_data'.pid = entry
    BY <1>6 DEF ReadStat, StatLine
  <2>3. Alive' = Alive
    BY <2>1 DEF Alive
  <2> QED BY <2>1, <2>2, <2>3 DEF ScanInv
<1>7. ASSUME NEW i \in Slots, UpdateSlot(i) PROVE ScanInv'
  <2>1. proc_count' = proc_count /\ proc_count \in Nat
    BY <1>7, MaxProcessAssumption DEF UpdateSlot, TypeOK
  <2>2. PICK b, d, t : AppendRow(ParsedAt(file_data, now), b, d, t)
    BY <1>7 DEF UpdateSlot
  <2> QED BY <1>7, <2>1, <2>2, RowAppended DEF UpdateSlot, kernelVars, historyVars
<1>8. CASE AddSlot
  <2>1. proc_count' = proc_count + 1 /\ proc_count \in Nat
    BY <1>8, MaxProcessAssumption DEF AddSlot, TypeOK
  <2>2. PICK b, d, t : AppendRow(ParsedAt(file_data, now), b, d, t)
    BY <1>8 DEF AddSlot
  <2> QED BY <1>8, <2>1, <2>2, RowAppended DEF AddSlot, kernelVars, historyVars
<1>9. CASE DropEntry
  <2>1. /\ pc = "parsed" /\ pc' = "readdir" /\ ~(proc_count < MaxProcess)
        /\ UNCHANGED <<proc, proc_count, entries, entry, file_data, arr, listed, exited>>
    BY <1>9 DEF DropEntry, HasFreeSlot, kernelVars, tableVars, historyVars
  <2>2. Alive' = Alive
    BY <2>1 DEF Alive
  <2> QED BY <2>1, <2>2 DEF ScanInv
<1>10. CASE EndScan
  <2>1. /\ pc' = "idle" /\ arr' = <<>> /\ entries = {}
        /\ UNCHANGED <<entries, listed, exited>>
    BY <1>10 DEF EndScan, kernelVars, historyVars
  <2> QED BY <2>1 DEF ScanInv
<1> QED BY <1>1, <1>2, <1>3, <1>4, <1>5, <1>6, <1>7, <1>8, <1>9, <1>10
        DEF Next, Kernel, Daemon

(* Every listed process that does not exit has a row, unless the table is  *)
(* full, and if none exits there is one row for each                       *)
(* (core_interface.c:102-154).                                             *)
THEOREM ProcessesListed == Spec => []SteadyListed
<1>1. Init => ScanInv
  BY DEF Init, ScanInv, Visiting
<1>2. ScanInv => SteadyListed
  <2> SUFFICES ASSUME ScanInv, ScanDone PROVE SteadyListed
    BY DEF SteadyListed
  <2>1. pc = "readdir" /\ entries = {} /\ ~Visiting
    BY DEF ScanDone, Visiting
  <2>2. \A p : HasRow(p) => \E r \in Rows : r.after.pid = p
    BY DEF HasRow, Rows
  <2> QED BY <2>1, <2>2 DEF ScanInv, SteadyListed
<1>3. Spec => []TypeOK
  BY TypeCorrect
<1> QED BY <1>1, <1>2, <1>3, ScanStep, PTL DEF Spec
=============================================================================
