------------------------- MODULE StatsSamplerProofs --------------------------
(***************************************************************************)
(* The statistics sampler, for every number of CPUs, disks and partitions  *)
(* and every width of int and uint64_t.                                    *)
(*                                                                         *)
(* 1. The usage shown for a core is the time the core was busy: the detour *)
(*    of the counters through atoi does not change their differences, and  *)
(*    SamplesInv says what the two samples of the daemon have to do with   *)
(*    the counters.                                                        *)
(* 2. Types: the disk array is not overrun, and numbers stay in a word.    *)
(* 3. The total usages handed out add up, modulo 2^32, to what the machine *)
(*    did: ConservedInv.                                                   *)
(* 4. No sector is counted twice: SectorsInv, and the names of partitions. *)
(***************************************************************************)
EXTENDS StatsSampler, SumTheorems, SequenceTheorems, TLAPS

(* The numbers an int can hold from 0 up. *)
Half == Int32 \div 2

(* An int has as many negative numbers as others. *)
LEMMA HalfIs == Half \in Nat \ {0} /\ Int32 = 2 * Half
  BY NumbersAssumption DEF Half

(* The quotient and the rest of a division. *)
LEMMA DivMod ==
    ASSUME NEW n \in Nat, NEW w \in Nat \ {0}
    PROVE  /\ n \div w \in Nat /\ n % w \in 0 .. w - 1
           /\ n = w * (n \div w) + (n % w)
  OBVIOUS

(* The same for a negative number. *)
LEMMA DivModInt ==
    ASSUME NEW n \in Int, NEW w \in Nat \ {0}
    PROVE  /\ n \div w \in Int /\ n % w \in 0 .. w - 1
           /\ n = w * (n \div w) + (n % w)
  OBVIOUS

(* A number is the rest of itself and any multiple of the divisor. *)
LEMMA ModIs ==
    ASSUME NEW w \in Nat \ {0}, NEW m \in Int, NEW r \in 0 .. w - 1
    PROVE  (w * m + r) % w = r
  OBVIOUS

(* Of a sum or difference of two words, the word size is subtracted or     *)
(* added at most once.                                                     *)
LEMMA NearMod ==
    ASSUME NEW w \in Nat \ {0}, NEW x \in Int, 0 - w <= x, x < 2 * w
    PROVE  x % w = IF x < 0 THEN x + w ELSE IF x < w THEN x ELSE x - w
  OBVIOUS

(* Atoi of a counter is its distance to the nearest multiple of Int32,     *)
(* negative below it, in a word.                                           *)
Distance(v) == ((v + Half) % Int32) - Half

(* What atoi makes of any counter, so also of one beyond an int            *)
(* (general_stat_query.c:70-85).                                           *)
LEMMA AtoiOf ==
    ASSUME NEW v \in Nat
    PROVE  /\ Distance(v) \in 0 - Half .. Half - 1
           /\ Atoi(v) = IF Distance(v) >= 0 THEN Distance(v) ELSE Word + Distance(v)
<1> DEFINE k == (v + Half) \div Int32
           r == (v + Half) % Int32
<1>1. k \in Nat /\ r \in 0 .. Int32 - 1 /\ v + Half = Int32 * k + r
  <2>1. v + Half \in Nat /\ Int32 \in Nat \ {0}
    BY HalfIs, NumbersAssumption
  <2> QED BY <2>1, DivMod, Zenon
<1>2. Distance(v) = r - Half
  BY DEF Distance
<1> HIDE DEF k, r
<1>3. Int32 \in Nat \ {0}
  BY NumbersAssumption
<1>4. CASE r >= Half
  <2>1. v = Int32 * k + (r - Half) /\ r - Half \in 0 .. Int32 - 1 /\ r - Half < Half
    BY <1>1, <1>4, HalfIs
  <2>2. k \in Int
    BY <1>1
  <2>3. v % Int32 = r - Half
    <3>1. (Int32 * k + (r - Half)) % Int32 = r - Half
      BY <1>3, <2>1, <2>2, ModIs, Zenon
    <3> QED BY <2>1, <3>1, Zenon
  <2>4. Atoi(v) = r - Half
    BY <2>1, <2>3 DEF Atoi, Half
  <2> QED BY <1>1, <1>2, <1>4, <2>4, HalfIs
<1>5. CASE r < Half
  <2>1. Int32 * (k - 1) = Int32 * k - Int32
    BY <1>1, NumbersAssumption
  <2>2. v = Int32 * (k - 1) + (r + Half) /\ r + Half \in 0 .. Int32 - 1 /\ ~(r + Half < Half)
    BY <1>1, <1>5, <2>1, HalfIs
  <2>3. k - 1 \in Int
    BY <1>1
  <2>4. v % Int32 = r + Half
    <3>1. (Int32 * (k - 1) + (r + Half)) % Int32 = r + Half
      BY <1>3, <2>2, <2>3, ModIs, Zenon
    <3> QED BY <2>2, <3>1, Zenon
  <2>5. Atoi(v) = Word - Int32 + (r + Half)
    BY <2>2, <2>4 DEF Atoi, Half
  <2> QED BY <1>1, <1>2, <1>5, <2>5, HalfIs, NumbersAssumption
<1> QED BY <1>1, <1>4, <1>5, HalfIs

(* A counter that stays in its half moves as its distance does. *)
LEMMA SameHalfMoves ==
    ASSUME NEW v \in Nat, NEW u \in Nat, SameHalf(v, u)
    PROVE  Distance(u) - Distance(v) = u - v
<1>1. v + Half \in Nat /\ u + Half \in Nat /\ Int32 \in Nat \ {0}
  BY HalfIs, NumbersAssumption
<1> DEFINE k == (v + Half) \div Int32
<1>2. /\ k \in Nat /\ (v + Half) % Int32 \in 0 .. Int32 - 1
      /\ v + Half = Int32 * k + ((v + Half) % Int32)
  BY <1>1, DivMod, Zenon
<1>3. (u + Half) \div Int32 = k
  BY Zenon DEF SameHalf, Half
<1>4. /\ (u + Half) % Int32 \in 0 .. Int32 - 1
      /\ u + Half = Int32 * ((u + Half) \div Int32) + ((u + Half) % Int32)
  BY <1>1, DivMod, Zenon
<1> HIDE DEF k
<1>5. Int32 * k \in Nat
  BY <1>1, <1>2
<1>6. u + Half = Int32 * k + ((u + Half) % Int32)
  BY <1>3, <1>4
<1> QED BY <1>1, <1>2, <1>4, <1>5, <1>6, HalfIs DEF Distance

(* The busy time of a line, likewise. *)
Offset(line) == Distance(line.system) + Distance(line.user)

(* The sum of a line is its offset in a word (cpu_usage.c:61-66). *)
LEMMA BusyOf ==
    ASSUME NEW line, line.user \in Nat, line.system \in Nat
    PROVE  /\ Offset(line) \in 0 - Int32 .. Int32 - 2
           /\ Busy(line) = IF Offset(line) >= 0 THEN Offset(line) ELSE Word + Offset(line)
<1> DEFINE a == Distance(line.system)
           b == Distance(line.user)
           x == Atoi(line.system)
           y == Atoi(line.user)
<1>1. a \in 0 - Half .. Half - 1 /\ x = IF a >= 0 THEN a ELSE Word + a
  BY AtoiOf
<1>2. b \in 0 - Half .. Half - 1 /\ y = IF b >= 0 THEN b ELSE Word + b
  BY AtoiOf
<1> DEFINE z == x + y
<1>3. Offset(line) = a + b /\ Busy(line) = z % Word
  BY DEF Offset, Busy, UAdd
<1> HIDE DEF a, b, x, y
<1>4. Word \in Nat \ {0} /\ Word >= 2 * Int32 /\ Int32 = 2 * Half /\ Half \in Nat \ {0}
  BY NumbersAssumption, HalfIs
<1>5. z = x + y /\ z \in Int /\ 0 - Word <= z /\ z < 2 * Word
  BY <1>1, <1>2, <1>4
<1> HIDE DEF z
<1>6. z % Word = IF z < 0 THEN z + Word ELSE IF z < Word THEN z ELSE z - Word
  BY <1>4, <1>5, NearMod, Zenon
<1> QED BY <1>1, <1>2, <1>3, <1>4, <1>5, <1>6

(* The difference of two lines of one CPU, the first read first. *)
LEMMA DifferenceHonest ==
    ASSUME NEW was, was.user \in Nat, was.system \in Nat,
           NEW is, is.user \in Nat, is.system \in Nat,
           was.user <= is.user, was.system <= is.system,
           SameHalf(was.user, is.user), SameHalf(was.system, is.system)
    PROVE  USub(Busy(is), Busy(was)) = (is.user - was.user) + (is.system - was.system)
<1> DEFINE m == (is.user - was.user) + (is.system - was.system)
           x == Busy(is) - Busy(was)
<1>1. /\ Offset(is) \in 0 - Int32 .. Int32 - 2 /\ Offset(was) \in 0 - Int32 .. Int32 - 2
      /\ Busy(is) = IF Offset(is) >= 0 THEN Offset(is) ELSE Word + Offset(is)
      /\ Busy(was) = IF Offset(was) >= 0 THEN Offset(was) ELSE Word + Offset(was)
  BY BusyOf
<1>2. Offset(is) - Offset(was) = m /\ m \in Nat
  <2>1. /\ Distance(is.system) - Distance(was.system) = is.system - was.system
        /\ Distance(is.user) - Distance(was.user) = is.user - was.user
    BY SameHalfMoves
  <2>2. /\ Distance(is.system) \in Int /\ Distance(was.system) \in Int
        /\ Distance(is.user) \in Int /\ Distance(was.user) \in Int
    BY AtoiOf, HalfIs
  <2> QED BY <2>1, <2>2 DEF Offset
<1> HIDE DEF m
<1>3. Word \in Nat \ {0} /\ Word >= 2 * Int32 /\ Int32 \in Nat
  BY NumbersAssumption
<1>4. m < Word /\ (x = m \/ x = m - Word)
  BY <1>1, <1>2, <1>3
<1> HIDE DEF x
<1>5. x \in Int /\ 0 - Word <= x /\ x < 2 * Word
  BY <1>2, <1>3, <1>4
<1>6. x % Word = IF x < 0 THEN x + Word ELSE IF x < Word THEN x ELSE x - Word
  BY <1>3, <1>5, NearMod, Zenon
<1>7. x % Word = m
  BY <1>2, <1>3, <1>4, <1>6
<1> QED BY <1>7 DEF USub, m, x
-----------------------------------------------------------------------------
(* The samples.  Every line the daemon holds is of a CPU, and no further   *)
(* than that CPU is now; the lines of a sample under way are no earlier    *)
(* than those of the baseline, which is empty before the first sample.     *)
Earlier(p, q) == p.user <= q.user /\ p.system <= q.system

Lines(cores) ==
    /\ cores \in Seq(Core)
    /\ \A i \in 1 .. Len(cores) : cores[i].name \in Cpus /\ Earlier(cores[i], ticks[cores[i].name])

SamplesInv ==
    /\ ticks \in [Cpus -> Cpu] /\ online \subseteq Cpus
    /\ now_gs = [timestamp |-> now_gs.timestamp, cpu |-> now_gs.cpu, cores |-> now_gs.cores]
    /\ before_gs.timestamp \in {0, 1}
    /\ before_gs.timestamp = 0 => before_gs.cores = <<>>
    /\ Lines(now_gs.cores) /\ Lines(before_gs.cores)
    /\ \A i \in 1 .. Len(before_gs.cores), j \in 1 .. Len(now_gs.cores) :
         before_gs.cores[i].name = now_gs.cores[j].name
           => Earlier(before_gs.cores[i], now_gs.cores[j])

(* The empty sample of a restarted daemon (core_interface.c:27). *)
LEMMA NoLines == Lines(<<>>)
  BY DEF Lines

(* Nothing has been read or answered at the start. *)
LEMMA InitSamples == Init => SamplesInv /\ CoreUsageHonest
<1> SUFFICES ASSUME Init PROVE SamplesInv /\ CoreUsageHonest
  OBVIOUS
<1>1. ticks \in [Cpus -> Cpu] /\ online \subseteq Cpus
  BY DEF Init, NoCpu, Cpu
<1>2. now_gs = NoSample /\ before_gs = NoSample /\ answer = NoAnswer
  BY DEF Init
<1>3. NoSample.timestamp = 0 /\ NoSample.cores = <<>> /\ DOMAIN NoAnswer.cores = {}
  BY DEF NoSample, NoAnswer
<1>4. NoSample = [timestamp |-> NoSample.timestamp, cpu |-> NoSample.cpu, cores |-> NoSample.cores]
  BY DEF NoSample
<1>5. CoreUsageHonest
  BY <1>2, <1>3 DEF CoreUsageHonest
<1> QED BY <1>1, <1>2, <1>3, <1>4, <1>5, NoLines DEF SamplesInv

(* Work only raises counters. *)
LEMMA WorkRaises ==
    ASSUME ticks \in [Cpus -> Cpu], NEW c \in Cpus, NEW col \in {"user", "system"}, Work(c, col)
    PROVE  ticks' \in [Cpus -> Cpu] /\ \A d \in Cpus : Earlier(ticks[d], ticks'[d])
<1>1. CASE col = "user"
  <2>1. ticks' = [ticks EXCEPT ![c] = [ticks[c] EXCEPT !.user = ticks[c].user + 1]]
    BY <1>1 DEF Work
  <2> QED BY <2>1 DEF Cpu, Earlier
<1>2. CASE col = "system"
  <2>1. ticks' = [ticks EXCEPT ![c] = [ticks[c] EXCEPT !.system = ticks[c].system + 1]]
    BY <1>2 DEF Work
  <2> QED BY <2>1 DEF Cpu, Earlier
<1> QED BY <1>1, <1>2

(* So a line read earlier stays behind its CPU. *)
LEMMA LinesStay ==
    ASSUME ticks \in [Cpus -> Cpu], ticks' \in [Cpus -> Cpu],
           \A d \in Cpus : Earlier(ticks[d], ticks'[d]),
           NEW cores, Lines(cores)
    PROVE  /\ cores \in Seq(Core)
           /\ \A i \in 1 .. Len(cores) :
                cores[i].name \in Cpus /\ Earlier(cores[i], ticks'[cores[i].name])
<1>1. cores \in Seq(Core)
  BY DEF Lines
<1>2. ASSUME NEW i \in 1 .. Len(cores)
      PROVE  cores[i].name \in Cpus /\ Earlier(cores[i], ticks'[cores[i].name])
  <2>1. cores[i] \in Core /\ cores[i].name \in Cpus /\ Earlier(cores[i], ticks[cores[i].name])
    BY <1>1, <1>2 DEF Lines
  <2> QED BY <2>1 DEF Earlier, Core, Cpu
<1> QED BY <1>1, <1>2

(* What is read now is no earlier than what was read before. *)
LEMMA LinesRead ==
    ASSUME SamplesInv, NEW cpus \in InOrder(online)
    PROVE  /\ Lines(CoreLines(cpus))
           /\ \A i \in 1 .. Len(before_gs.cores), j \in 1 .. Len(CoreLines(cpus)) :
                before_gs.cores[i].name = CoreLines(cpus)[j].name
                  => Earlier(before_gs.cores[i], CoreLines(cpus)[j])
<1> DEFINE n == Cardinality(online)
           read == CoreLines(cpus)
<1>1. n \in Nat
  <2>1. IsFiniteSet(Cpus)
    BY FS_Interval, CpusAssumption DEF Cpus
  <2> QED BY <2>1, FS_Subset, FS_CardinalityType DEF SamplesInv
<1>2. cpus \in [1 .. n -> online] /\ online \subseteq Cpus
  BY DEF InOrder, SamplesInv
<1> HIDE DEF n
<1>3. read = [i \in 1 .. n |-> [name   |-> cpus[i],
                                user   |-> ticks[cpus[i]].user,
                                system |-> ticks[cpus[i]].system]]
  BY <1>2 DEF CoreLines
<1>4. \A i \in 1 .. n : cpus[i] \in Cpus /\ ticks[cpus[i]] \in Cpu
  BY <1>2 DEF SamplesInv
<1>5. \A i \in 1 .. n :
        /\ read[i] \in Core /\ read[i].name \in Cpus
        /\ read[i].user = ticks[read[i].name].user /\ read[i].system = ticks[read[i].name].system
  BY <1>3, <1>4 DEF Core, Cpu
<1>6. read \in [1 .. n -> Core]
  BY <1>3, <1>5
<1> HIDE DEF read
<1>7. read \in Seq(Core) /\ Len(read) = n
  BY <1>1, <1>6
<1>8. Lines(read)
  BY <1>4, <1>5, <1>7 DEF Lines, Earlier, Core
<1>9. ASSUME NEW i \in 1 .. Len(before_gs.cores), NEW j \in 1 .. Len(read),
             before_gs.cores[i].name = read[j].name
      PROVE  Earlier(before_gs.cores[i], read[j])
  BY <1>5, <1>7, <1>9 DEF SamplesInv, Lines, Earlier
<1> QED BY <1>8, <1>9 DEF read

(* The inductive step, for each action. *)
LEMMA NextSamples == SamplesInv /\ [Next]_vars => SamplesInv'
<1> SUFFICES ASSUME SamplesInv, [Next]_vars PROVE SamplesInv'
  OBVIOUS
<1>1. ASSUME NEW c \in Cpus, NEW col \in {"user", "system"}, Work(c, col)
      PROVE  SamplesInv'
  <2>1. ticks \in [Cpus -> Cpu] /\ Lines(now_gs.cores) /\ Lines(before_gs.cores)
    BY DEF SamplesInv
  <2>2. ticks' \in [Cpus -> Cpu] /\ \A d \in Cpus : Earlier(ticks[d], ticks'[d])
    BY <1>1, <2>1, WorkRaises
  <2>3. UNCHANGED <<online, now_gs, before_gs>>
    BY <1>1 DEF Work
  <2>4. Lines(now_gs.cores)' /\ Lines(before_gs.cores)'
    BY <2>1, <2>2, <2>3, LinesStay DEF Lines
  <2> QED BY <2>2, <2>3, <2>4 DEF SamplesInv, Earlier
<1>2. CASE \/ \E c \in Cpus : Hotplug(c)
           \/ \E d \in DOMAIN Devices : Transfer(d)
           \/ UNCHANGED vars
  <2>1. UNCHANGED <<ticks, now_gs, before_gs>> /\ online' \subseteq Cpus
    BY <1>2 DEF Hotplug, Transfer, vars, SamplesInv
  <2> QED BY <2>1 DEF SamplesInv, Lines, Earlier
<1>3. CASE ReadProcStat
  <2>1. UNCHANGED <<ticks, online, before_gs>>
    BY <1>3 DEF ReadProcStat
  <2>2. PICK cpus \in InOrder(online) :
          now_gs' = [timestamp |-> 0, cpu |-> Machine, cores |-> CoreLines(cpus)]
    BY <1>3 DEF ReadProcStat
  <2>3. /\ now_gs'.cores = CoreLines(cpus)
        /\ now_gs' = [timestamp |-> now_gs'.timestamp, cpu |-> now_gs'.cpu, cores |-> now_gs'.cores]
    BY <2>2
  <2>4. Lines(now_gs.cores)' /\ Lines(before_gs.cores)'
    BY <2>1, <2>3, LinesRead DEF Lines, SamplesInv
  <2>5. \A i \in 1 .. Len(before_gs'.cores), j \in 1 .. Len(now_gs'.cores) :
          before_gs'.cores[i].name = now_gs'.cores[j].name
            => Earlier(before_gs'.cores[i], now_gs'.cores[j])
    BY <2>1, <2>3, LinesRead
  <2> QED BY <2>1, <2>3, <2>4, <2>5 DEF SamplesInv, Earlier
<1>4. ASSUME NEW e \in Endpoints, Respond(e)
      PROVE  SamplesInv'
  <2>1. UNCHANGED <<ticks, online>> /\ now_gs' = NoSample
    BY <1>4 DEF Respond
  <2>2. before_gs'.timestamp = 1 /\ before_gs'.cores = now_gs.cores
    BY <1>4 DEF Respond, SamplesInv
  <2>3. now_gs'.cores = <<>>
    BY <2>1 DEF NoSample
  <2>4. now_gs' = [timestamp |-> now_gs'.timestamp, cpu |-> now_gs'.cpu, cores |-> now_gs'.cores]
    BY <2>1 DEF NoSample
  <2>5. Lines(now_gs.cores)' /\ Lines(before_gs.cores)'
    BY <2>1, <2>2, <2>3, NoLines DEF Lines, SamplesInv
  <2> QED BY <2>1, <2>2, <2>3, <2>4, <2>5 DEF SamplesInv
<1> QED BY <1>1, <1>2, <1>3, <1>4 DEF Next

(* A core with its own line as the baseline. *)
LEMMA CoreHonest ==
    ASSUME SamplesInv, NEW i \in 1 .. Len(now_gs.cores),
           now_gs.cores[i].name = CoreAt(before_gs, i).name,
           SameHalf(CoreAt(before_gs, i).user, now_gs.cores[i].user),
           SameHalf(CoreAt(before_gs, i).system, now_gs.cores[i].system)
    PROVE  CoreDelta(i) = (now_gs.cores[i].user - CoreAt(before_gs, i).user)
                            + (now_gs.cores[i].system - CoreAt(before_gs, i).system)
<1> DEFINE is == now_gs.cores[i]
           was == CoreAt(before_gs, i)
<1>1. is \in Core /\ is.name \in Cpus
  BY DEF SamplesInv, Lines
<1>2. i <= Len(before_gs.cores)
  BY <1>1 DEF CoreAt, NoCore, Cpus
<1>3. Len(before_gs.cores) \in Nat /\ i \in 1 .. Len(before_gs.cores)
  BY <1>2 DEF SamplesInv, Lines
<1>4. was = before_gs.cores[i] /\ was \in Core /\ Earlier(was, is)
  BY <1>2, <1>3 DEF CoreAt, SamplesInv, Lines
<1>5. HasBefore
  BY <1>3 DEF HasBefore, SamplesInv
<1>6. USub(Busy(is), Busy(was)) = (is.user - was.user) + (is.system - was.system)
  BY <1>1, <1>4, DifferenceHonest DEF Core, Earlier
<1> QED BY <1>5, <1>6 DEF CoreDelta

(* Only Respond computes an answer, from lines that SamplesInv describes. *)
LEMMA NextHonest == SamplesInv /\ CoreUsageHonest /\ [Next]_vars => CoreUsageHonest'
<1> SUFFICES ASSUME SamplesInv, CoreUsageHonest, [Next]_vars PROVE CoreUsageHonest'
  OBVIOUS
<1>1. CASE UNCHANGED answer
  BY <1>1 DEF CoreUsageHonest
<1>2. CASE ReadProcStat
  <2>1. DOMAIN answer'.cores = {}
    BY <1>2 DEF ReadProcStat, NoAnswer
  <2> QED BY <2>1 DEF CoreUsageHonest
<1>3. ASSUME NEW e \in Endpoints, Respond(e)
      PROVE  CoreUsageHonest'
  <2>1. answer'.cores = <<>> \/ answer'.cores = ShownCores
    BY <1>3 DEF Respond
  <2>2. CASE answer'.cores = <<>>
    BY <2>2 DEF CoreUsageHonest
  <2>3. CASE answer'.cores = ShownCores
    <3> SUFFICES ASSUME NEW i \in 1 .. Len(now_gs.cores),
                        ShownCores[i].is.name = ShownCores[i].was.name,
                        SameHalf(ShownCores[i].was.user, ShownCores[i].is.user),
                        SameHalf(ShownCores[i].was.system, ShownCores[i].is.system)
                 PROVE  ShownCores[i].delta
                          = (ShownCores[i].is.user - ShownCores[i].was.user)
                              + (ShownCores[i].is.system - ShownCores[i].was.system)
      BY <2>3 DEF CoreUsageHonest, ShownCores
    <3>1. /\ ShownCores[i].is = now_gs.cores[i] /\ ShownCores[i].was = CoreAt(before_gs, i)
          /\ ShownCores[i].delta = CoreDelta(i)
      BY DEF ShownCores
    <3> QED BY <3>1, CoreHonest
  <2> QED BY <2>1, <2>2, <2>3
<1>4. (\E c \in Cpus, col \in {"user", "system"} : Work(c, col)) \/ (\E c \in Cpus : Hotplug(c))
        \/ (\E d \in DOMAIN Devices : Transfer(d)) \/ UNCHANGED vars => UNCHANGED answer
  BY DEF Work, Hotplug, Transfer, vars
<1> QED BY <1>1, <1>2, <1>3, <1>4 DEF Next

(* The usage of a core that kept its place is the time it was busy between *)
(* two samples, for any width of int and uint64_t and any number of CPUs   *)
(* (general_stat_query.c:70-85, cpu_usage.c:61-75).                        *)
THEOREM CoresHonest == Spec => []CoreUsageHonest
<1> QED BY InitSamples, NextSamples, NextHonest, PTL DEF Spec

-----------------------------------------------------------------------------
(* The sums of the machine are numbers (/proc/stat has no fractions). *)
LEMMA MachineIsCpu ==
    ASSUME ticks \in [Cpus -> Cpu]
    PROVE  Machine \in Cpu
<1> DEFINE u == [c \in Cpus |-> ticks[c].user]
           s == [c \in Cpus |-> ticks[c].system]
<1>1. IsFiniteSet(Cpus)
  BY FS_Interval, CpusAssumption DEF Cpus
<1>2. (\A c \in Cpus : u[c] \in Nat /\ s[c] \in Nat) /\ DOMAIN u = Cpus /\ DOMAIN s = Cpus
  BY DEF Cpu
<1> HIDE DEF u, s
<1>3. SumFunction(u) \in Nat /\ SumFunction(s) \in Nat
  BY <1>1, <1>2, SumNat DEF SumFunction
<1>4. Machine = [user |-> SumFunction(u), system |-> SumFunction(s)]
  BY Zenon DEF Machine, u, s
<1> QED BY <1>3, <1>4 DEF Cpu

(* The array disk[] is never overrun: among the devices listed there is a  *)
(* last one, and no more than MaxDisk are valid up to it                   *)
(* (general_stat_query.c:289-292).                                         *)
LEMMA DisksFit ==
    /\ IsFiniteSet(DOMAIN Devices) /\ DOMAIN Devices \subseteq Nat
    /\ Disks \subseteq DOMAIN Devices
    /\ Cardinality(Disks) <= MaxDisk
<1>1. DOMAIN Devices = 1 .. Len(Devices) /\ Len(Devices) \in Nat
  BY DevicesAssumption
<1>2. IsFiniteSet(DOMAIN Devices) /\ DOMAIN Devices \subseteq Nat
  BY <1>1, FS_Interval
<1>3. Disks \subseteq DOMAIN Devices /\ IsFiniteSet(Disks)
  BY <1>2, FS_Subset DEF Disks
<1>4. CASE Disks = {}
  BY <1>2, <1>3, <1>4, FS_EmptySet, DiskAssumption
<1>5. CASE Disks # {}
  <2>1. PICK last \in Disks : \A d \in Disks : d <= last
    BY <1>2, <1>3, <1>5, LastNumber
  <2>2. Disks \subseteq ValidUpTo(last)
    BY <2>1, <1>3 DEF Disks, ValidUpTo
  <2>3. IsFiniteSet(ValidUpTo(last)) /\ Cardinality(ValidUpTo(last)) <= MaxDisk
    BY <1>2, FS_Subset DEF Disks, ValidUpTo
  <2>4. Cardinality(Disks) <= Cardinality(ValidUpTo(last))
    BY <2>2, <2>3, FS_Subset
  <2>5. Cardinality(Disks) \in Nat /\ Cardinality(ValidUpTo(last)) \in Nat
    BY <1>3, <2>3, FS_CardinalityType
  <2> QED BY <1>2, <1>3, <2>3, <2>4, <2>5, DiskAssumption
<1> QED BY <1>4, <1>5

(* No difference leaves uint64_t. *)
LEMMA UsageIsWord ==
    ASSUME NEW a \in Cpu \cup Core, NEW b \in Cpu \cup Core
    PROVE  USub(Busy(a), Busy(b)) \in 0 .. Word - 1
<1>1. /\ a.user \in Nat /\ a.system \in Nat
      /\ b.user \in Nat /\ b.system \in Nat
  BY DEF Cpu, Core
<1>2. Busy(a) \in Int /\ Busy(b) \in Int
  BY <1>1, BusyOf, NumbersAssumption
<1>3. \A n \in Int : n % Word \in 0 .. Word - 1
  BY NumbersAssumption
<1> QED BY <1>2, <1>3 DEF USub

(* The two samples are empty, and no disk has moved a sector. *)
LEMMA TypeInit == Init => TypeOK
<1> SUFFICES ASSUME Init PROVE TypeOK
  OBVIOUS
<1>1. NoSample \in Sample /\ Len(NoSample.cores) = 0
  BY DEF NoSample, Sample, NoCpu, Cpu
<1>2. NoAnswer \in Answer /\ NoAnswer.disks = {}
  BY DEF NoAnswer, Answer, Endpoints
<1>3. NoCpu \in Cpu
  BY DEF NoCpu, Cpu
<1>4. Cardinality({}) = 0
  BY FS_EmptySet
<1> QED BY <1>1, <1>2, <1>3, <1>4, CpusAssumption, DiskAssumption, NumbersAssumption
        DEF Init, TypeOK

(* A sample has a line for each CPU online, in words. *)
LEMMA TypeRead == TypeOK /\ ReadProcStat => TypeOK'
<1> SUFFICES ASSUME TypeOK, ReadProcStat PROVE TypeOK'
  OBVIOUS
<1>1. PICK cpus \in InOrder(online) :
        now_gs' = [timestamp |-> 0, cpu |-> Machine, cores |-> CoreLines(cpus)]
  BY DEF ReadProcStat
<1> DEFINE n == Cardinality(online)
<1>2. n \in Nat /\ n <= NumCpus
  <2>1. IsFiniteSet(Cpus) /\ Cardinality(Cpus) = NumCpus
    BY FS_Interval, CpusAssumption DEF Cpus
  <2>2. IsFiniteSet(online) /\ Cardinality(online) <= Cardinality(Cpus)
    BY <2>1, FS_Subset DEF TypeOK
  <2> QED BY <2>1, <2>2, FS_CardinalityType
<1>3. cpus \in [1 .. n -> online]
  BY DEF InOrder
<1> HIDE DEF n
<1>4. CoreLines(cpus) \in [1 .. n -> Core]
  <2>1. \A i \in 1 .. n : cpus[i] \in Cpus /\ ticks[cpus[i]] \in Cpu
    BY <1>3 DEF TypeOK
  <2> QED BY <1>3, <2>1 DEF CoreLines, Core, Cpu
<1>5. CoreLines(cpus) \in Seq(Core) /\ Len(CoreLines(cpus)) <= NumCpus
  BY <1>2, <1>4
<1>6. Machine \in Cpu
  BY MachineIsCpu DEF TypeOK
<1>7. now_gs' \in Sample /\ now_gs'.cores = CoreLines(cpus)
  BY <1>1, <1>5, <1>6 DEF Sample
<1>8. NoAnswer \in Answer /\ NoAnswer.disks = {} /\ Cardinality({}) = 0
  BY FS_EmptySet DEF NoAnswer, Answer, Endpoints
<1>9. answer' \in Answer /\ Cardinality(answer'.disks) <= MaxDisk
  BY <1>8, DiskAssumption DEF ReadProcStat
<1> QED BY <1>5, <1>7, <1>9 DEF ReadProcStat, TypeOK

(* The numbers of an answer. *)
LEMMA AnswerTypes ==
    ASSUME TypeOK
    PROVE  /\ TotalDelta \in 0 .. Word - 1
           /\ ShownCores \in Seq(Shown)
           /\ DiskTotal \in Nat
<1>1. TotalDelta \in 0 .. Word - 1
  <2>1. now_gs.cpu \in Cpu /\ before_gs.cpu \in Cpu
    BY DEF TypeOK, Sample
  <2> QED BY <2>1, UsageIsWord, NumbersAssumption DEF TotalDelta
<1>2. ShownCores \in Seq(Shown)
  <2> DEFINE n == Len(now_gs.cores)
  <2>1. n \in Nat /\ now_gs.cores \in Seq(Core) /\ before_gs.cores \in Seq(Core)
    BY DEF TypeOK, Sample
  <2>2. ASSUME NEW i \in 1 .. n
        PROVE  now_gs.cores[i] \in Core /\ CoreAt(before_gs, i) \in Core /\ CoreDelta(i) \in Nat
    <3>1. now_gs.cores[i] \in Core
      BY <2>1
    <3>2. CoreAt(before_gs, i) \in Core
      <4>1. NoCore \in Core
        BY DEF NoCore, Core
      <4> QED BY <2>1, <4>1 DEF CoreAt
    <3>3. USub(Busy(now_gs.cores[i]), Busy(CoreAt(before_gs, i))) \in Nat
      BY <3>1, <3>2, UsageIsWord
    <3> QED BY <3>1, <3>2, <3>3 DEF CoreDelta
  <2>3. ShownCores \in [1 .. n -> Shown]
    BY <2>2 DEF ShownCores, Shown
  <2> HIDE DEF n
  <2> QED BY <2>1, <2>3
<1>3. DiskTotal \in Nat
  <2>1. IsFiniteSet(Disks) /\ \A d \in Disks : sectors[d] \in Nat
    BY DisksFit, FS_Subset DEF TypeOK
  <2> QED BY <2>1, SumNat DEF DiskTotal
<1> QED BY <1>1, <1>2, <1>3

LEMMA TypeRespond == ASSUME TypeOK, NEW e \in Endpoints, Respond(e) PROVE TypeOK'
<1>1. /\ answer'.disks = (IF e = "all" THEN Disks ELSE {})
      /\ answer' \in Answer
  <2>1. Disks \in SUBSET Nat
    BY DisksFit
  <2>2. TotalDelta \in Nat /\ ShownCores \in Seq(Shown) /\ DiskTotal \in Nat /\ <<>> \in Seq(Shown)
    BY AnswerTypes
  <2>3. answer' = [endpoint   |-> e,
                   cores      |-> IF e \in {"cpu_mem", "all"} THEN ShownCores ELSE <<>>,
                   total      |-> IF e \in {"general", "all"} THEN TotalDelta ELSE 0,
                   disks      |-> IF e = "all" THEN Disks ELSE {},
                   disk_total |-> IF e = "all" THEN DiskTotal ELSE 0]
    BY DEF Respond
  <2> QED BY <2>1, <2>2, <2>3 DEF Answer
<1>2. Cardinality(answer'.disks) <= MaxDisk
  BY <1>1, DisksFit, FS_EmptySet, DiskAssumption
<1>3. before_gs' \in Sample /\ Len(before_gs'.cores) <= NumCpus
  BY DEF Respond, TypeOK, Sample
<1>4. now_gs' \in Sample /\ Len(now_gs'.cores) <= NumCpus
  <2>1. NoSample \in Sample /\ Len(NoSample.cores) = 0
    BY DEF NoSample, Sample, NoCpu, Cpu
  <2> QED BY <2>1, CpusAssumption DEF Respond
<1>5. base' \in Nat
  BY DEF Respond, TypeOK, Sample, Cpu
<1>6. reported' \in 0 .. Word - 1
  <2>1. reported + TotalDelta \in Int
    BY AnswerTypes, NumbersAssumption DEF TypeOK
  <2>2. \A n \in Int : n % Word \in 0 .. Word - 1
    BY NumbersAssumption
  <2> QED BY <2>1, <2>2 DEF Respond, UAdd
<1> QED BY <1>1, <1>2, <1>3, <1>4, <1>5, <1>6 DEF Respond, TypeOK

(* The inductive step; a transfer raises one counter within its bound. *)
LEMMA TypeNext == TypeOK /\ [Next]_vars => TypeOK'
<1> SUFFICES ASSUME TypeOK, [Next]_vars PROVE TypeOK'
  OBVIOUS
<1>1. ASSUME NEW c \in Cpus, NEW col \in {"user", "system"}, Work(c, col)
      PROVE  TypeOK'
  <2>1. ticks' \in [Cpus -> Cpu]
    BY <1>1, WorkRaises DEF TypeOK
  <2> QED BY <1>1, <2>1 DEF Work, TypeOK
<1>2. ASSUME NEW c \in Cpus, Hotplug(c)
      PROVE  TypeOK'
  BY <1>2 DEF Hotplug, TypeOK
<1>3. ASSUME NEW d \in DOMAIN Devices, Transfer(d)
      PROVE  TypeOK'
  <2>1. sectors' \in [DOMAIN Devices -> Nat]
    BY <1>3 DEF Transfer, TypeOK
  <2> QED BY <1>3, <2>1 DEF Transfer, TypeOK
<1>4. CASE UNCHANGED vars
  BY <1>4 DEF vars, TypeOK
<1> QED BY <1>1, <1>2, <1>3, <1>4, TypeRead, TypeRespond DEF Next

(* The sampler never holds more lines than there are CPUs nor more disks   *)
(* than the array has, and its numbers stay in uint64_t                    *)
(* (general_stat_query.c:252-300, cpu_usage.c:25-75).                      *)
THEOREM TypeCorrect == Spec => []TypeOK
<1> QED BY TypeInit, TypeNext, PTL DEF Spec

-----------------------------------------------------------------------------
(* Conservation of usage.  Numbers that differ by a multiple of 2^32 are   *)
(* alike: what atoi and uint64_t make of a number is alike to it.          *)
Alike(a, b) == \E k \in Int : a = b + Int32 * k

(* Alike is a congruence: for sums and differences, ... *)
LEMMA AlikeAdd ==
    ASSUME NEW a \in Int, NEW b \in Int, NEW c \in Int, NEW d \in Int, Alike(a, b), Alike(c, d)
    PROVE  Alike(a + c, b + d) /\ Alike(a - c, b - d)
<1>1. PICK k \in Int : a = b + Int32 * k
  BY DEF Alike
<1>2. PICK l \in Int : c = d + Int32 * l
  BY DEF Alike
<1>3. Int32 * (k + l) = Int32 * k + Int32 * l /\ Int32 * (k - l) = Int32 * k - Int32 * l
  BY NumbersAssumption
<1>4. Int32 * k \in Int /\ Int32 * l \in Int
  BY NumbersAssumption
<1>5. a + c = (b + d) + Int32 * (k + l) /\ a - c = (b - d) + Int32 * (k - l)
  BY <1>1, <1>2, <1>3, <1>4
<1> QED BY <1>5 DEF Alike

(* ... transitive, ... *)
LEMMA AlikeTrans ==
    ASSUME NEW a \in Int, NEW b \in Int, NEW c \in Int, Alike(a, b), Alike(b, c)
    PROVE  Alike(a, c)
<1>1. Alike(a + b, b + c)
  BY AlikeAdd
<1>2. PICK k \in Int : a + b = (b + c) + Int32 * k
  BY <1>1 DEF Alike
<1>3. Int32 * k \in Int
  BY NumbersAssumption
<1>4. a = c + Int32 * k
  BY <1>2, <1>3
<1> QED BY <1>4 DEF Alike

(* ... and numbers that are alike have the same rest. *)
LEMMA AlikeRest ==
    ASSUME NEW a \in Int, NEW b \in Int, Alike(a, b)
    PROVE  a % Int32 = b % Int32
<1>1. PICK k \in Int : a = b + Int32 * k
  BY DEF Alike
<1>2. Int32 \in Nat \ {0}
  BY NumbersAssumption
<1>3. PICK m \in Int, r \in 0 .. Int32 - 1 : b = Int32 * m + r
  BY <1>2, DivModInt
<1>4. Int32 * (m + k) = Int32 * m + Int32 * k /\ Int32 * m \in Int /\ Int32 * k \in Int
  BY <1>2
<1>5. a = Int32 * (m + k) + r
  BY <1>1, <1>3, <1>4
<1>6. (Int32 * (m + k) + r) % Int32 = r /\ (Int32 * m + r) % Int32 = r
  BY <1>2, ModIs
<1> QED BY <1>3, <1>5, <1>6

(* The width of uint64_t is a multiple of that of int. *)
LEMMA WordAlike ==
    ASSUME NEW n \in Int
    PROVE  Alike(n % Word, n) /\ n % Word \in Int
<1>1. Word \in Nat \ {0} /\ Int32 \in Nat \ {0}
  BY NumbersAssumption
<1>2. PICK w \in Int : Word = Int32 * w
  BY <1>1, NumbersAssumption
<1>3. PICK m \in Int : n = Word * m + (n % Word)
  BY <1>1, DivModInt
<1>4. n % Word \in Int
  BY <1>1
<1>5. Word * m = Int32 * (w * m) /\ Int32 * (0 - w * m) = 0 - Int32 * (w * m)
  BY <1>1, <1>2
<1>6. Int32 * (w * m) \in Int /\ 0 - w * m \in Int
  BY <1>1
<1>7. n % Word = n + Int32 * (0 - w * m)
  BY <1>3, <1>4, <1>5, <1>6
<1> QED BY <1>4, <1>6, <1>7 DEF Alike

(* Digit by digit, atoi keeps a number modulo 2^32                         *)
(* (general_stat_query.c:70-85).                                           *)
LEMMA AtoiAlike ==
    ASSUME NEW v \in Nat
    PROVE  Alike(Atoi(v), v) /\ Atoi(v) \in Int
<1>1. Word \in Nat \ {0} /\ Int32 \in Nat \ {0}
  BY NumbersAssumption
<1>2. PICK w \in Int : Word = Int32 * w
  BY <1>1, NumbersAssumption
<1> DEFINE m == v \div Int32
<1>3. m \in Int /\ v = Int32 * m + (v % Int32)
  <2>1. m \in Nat /\ v = Int32 * m + (v % Int32)
    BY <1>1, DivMod, Zenon
  <2> QED BY <2>1
<1> HIDE DEF m
<1>4. v % Int32 \in Int
  BY <1>1
<1>5. /\ Int32 * (0 - m) = 0 - Int32 * m
      /\ Int32 * ((w - 1) - m) = (Int32 * w - Int32) - Int32 * m
      /\ Int32 * m \in Int /\ Int32 * w \in Int
  BY <1>1, <1>3
<1>6. Atoi(v) = v % Int32 \/ Atoi(v) = Word - Int32 + (v % Int32)
  BY DEF Atoi
<1>7. Atoi(v) = v + Int32 * (0 - m) \/ Atoi(v) = v + Int32 * ((w - 1) - m)
  BY <1>1, <1>2, <1>3, <1>4, <1>5, <1>6
<1>8. 0 - m \in Int /\ (w - 1) - m \in Int /\ Atoi(v) \in Int
  BY <1>1, <1>3, <1>4, <1>6
<1> QED BY <1>7, <1>8 DEF Alike

(* The busy time of a line. *)
Done(line) == line.system + line.user

(* What cpu_usage.c:61-66 makes of a line is alike to its busy time. *)
LEMMA BusyAlike ==
    ASSUME NEW line \in Cpu
    PROVE  Alike(Busy(line), Done(line)) /\ Busy(line) \in Int /\ Done(line) \in Nat
<1>1. line.user \in Nat /\ line.system \in Nat
  BY DEF Cpu
<1> DEFINE a == Atoi(line.system)
           b == Atoi(line.user)
<1>2. Alike(a, line.system) /\ a \in Int /\ Alike(b, line.user) /\ b \in Int
  BY <1>1, AtoiAlike
<1>3. Busy(line) = (a + b) % Word
  BY DEF Busy, UAdd
<1> HIDE DEF a, b
<1>4. line.user \in Int /\ line.system \in Int /\ a + b \in Int /\ Done(line) \in Nat
  BY <1>1, <1>2 DEF Done
<1>5. Alike(a + b, Done(line))
  BY <1>2, <1>4, AlikeAdd, Zenon DEF Done
<1>6. Alike((a + b) % Word, a + b) /\ (a + b) % Word \in Int
  BY <1>4, WordAlike, Zenon
<1>7. Alike((a + b) % Word, Done(line))
  BY <1>4, <1>5, <1>6, AlikeTrans
<1> QED BY <1>3, <1>4, <1>6, <1>7

(* What has been computed is alike to what the machine did, and nothing    *)
(* has been computed before the first sample. *)
ConservedInv ==
    IF HasBefore THEN Alike(reported, Done(before_gs.cpu) - base) ELSE reported = 0

(* An answer adds what was done since the last sample, and the sample it   *)
(* compares with is the one the answer before it has left.                 *)
LEMMA RespondConserves ==
    ASSUME TypeOK, ConservedInv, NEW e \in Endpoints, Respond(e)
    PROVE  ConservedInv'
<1>1. now_gs.cpu \in Cpu /\ before_gs.cpu \in Cpu /\ reported \in Int /\ base \in Int
  BY NumbersAssumption DEF TypeOK, Sample
<1> DEFINE now == Done(now_gs.cpu)
           was == Done(before_gs.cpu)
           busy == Busy(now_gs.cpu)
           busied == Busy(before_gs.cpu)
<1>2. now \in Int /\ was \in Int /\ busy \in Int /\ busied \in Int
  BY <1>1, BusyAlike
<1>3. HasBefore' /\ before_gs'.cpu = now_gs.cpu
  BY DEF Respond, HasBefore, TypeOK, Sample
<1>4. CASE HasBefore
  <2>1. Alike(busy, now) /\ Alike(busied, was)
    BY <1>1, BusyAlike
  <2>2. TotalDelta = (busy - busied) % Word
    BY <1>4 DEF TotalDelta, USub
  <2>3. Alike(reported, was - base) /\ reported' = (reported + TotalDelta) % Word /\ base' = base
    BY <1>4 DEF ConservedInv, Respond, UAdd
  <2> HIDE DEF now, was, busy, busied
  <2>4. Alike(busy - busied, now - was)
    BY <1>2, <2>1, AlikeAdd, Zenon
  <2>5. now - was \in Int /\ was - base \in Int /\ busy - busied \in Int
    BY <1>1, <1>2
  <2>6. Alike(TotalDelta, busy - busied) /\ TotalDelta \in Int
    BY <2>2, <2>5, WordAlike, Zenon
  <2>7. Alike(TotalDelta, now - was)
    BY <2>4, <2>5, <2>6, AlikeTrans, Zenon
  <2>8. Alike(reported + TotalDelta, (was - base) + (now - was))
    BY <1>1, <2>3, <2>5, <2>6, <2>7, AlikeAdd, Zenon
  <2>9. /\ (was - base) + (now - was) = now - base
        /\ now - base \in Int /\ reported + TotalDelta \in Int
    BY <1>1, <1>2, <2>6
  <2>10. Alike(reported + TotalDelta, now - base)
    BY <2>8, <2>9, Zenon
  <2>11. Alike(reported', reported + TotalDelta) /\ reported' \in Int
    BY <2>3, <2>9, WordAlike, Zenon
  <2>12. Alike(reported', now - base')
    BY <2>3, <2>9, <2>10, <2>11, AlikeTrans, Zenon
  <2>13. Alike(reported', Done(before_gs'.cpu) - base')
    BY <1>3, <2>12, Zenon DEF now
  <2> QED BY <1>3, <2>13, Zenon DEF ConservedInv
<1>5. CASE ~HasBefore
  <2>1. reported = 0 /\ TotalDelta = 0
    BY <1>5 DEF ConservedInv, TotalDelta
  <2>2. (0 + 0) % Word = 0
    BY NumbersAssumption
  <2>3. reported' = 0 /\ base' = now
    <3>1. now = now_gs.cpu.user + now_gs.cpu.system
      BY <1>1 DEF Done, Cpu
    <3> QED BY <1>5, <2>1, <2>2, <3>1 DEF Respond, UAdd
  <2>4. 0 = (now - now) + Int32 * 0
    BY <1>2, NumbersAssumption
  <2>5. Alike(0, now - now)
    BY <2>4 DEF Alike
  <2>6. Alike(reported', Done(before_gs'.cpu) - base')
    BY <1>3, <2>3, <2>5, Zenon
  <2> QED BY <1>3, <2>6, Zenon DEF ConservedInv
<1> QED BY <1>4, <1>5

LEMMA NextConserves == TypeOK /\ ConservedInv /\ [Next]_vars => ConservedInv'
<1> SUFFICES ASSUME TypeOK, ConservedInv, [Next]_vars PROVE ConservedInv'
  OBVIOUS
<1>1. CASE UNCHANGED <<before_gs, base, reported>>
  BY <1>1 DEF ConservedInv, HasBefore
<1>2. (\E e \in Endpoints : Respond(e)) \/ UNCHANGED <<before_gs, base, reported>>
  BY DEF Next, Work, Hotplug, Transfer, ReadProcStat, vars
<1> QED BY <1>1, <1>2, RespondConserves

LEMMA ConservedIs == TypeOK /\ ConservedInv => UsageConserved
<1> SUFFICES ASSUME TypeOK, ConservedInv, HasBefore
             PROVE  reported % Int32 = (before_gs.cpu.user + before_gs.cpu.system - base) % Int32
  BY DEF UsageConserved
<1>1. /\ reported \in Int /\ Done(before_gs.cpu) - base \in Int
      /\ before_gs.cpu.user + before_gs.cpu.system - base = Done(before_gs.cpu) - base
  BY NumbersAssumption DEF TypeOK, Sample, Cpu, Done
<1>2. Alike(reported, Done(before_gs.cpu) - base)
  BY DEF ConservedInv
<1>3. reported % Int32 = (Done(before_gs.cpu) - base) % Int32
  BY <1>1, <1>2, AlikeRest, Zenon
<1> QED BY <1>1, <1>3, Zenon

(* The total usages computed for all clients add up to what the machine    *)
(* did since the first sample, up to the 2^32 that atoi loses, for every   *)
(* interleaving of requests (core_interface.c:60-86).                      *)
THEOREM UsageAddsUp == Spec => []UsageConserved
<1>1. Init => ConservedInv
  BY DEF Init, ConservedInv, HasBefore, NoSample
<1> QED BY <1>1, TypeInit, TypeNext, NextConserves, ConservedIs, PTL DEF Spec

-----------------------------------------------------------------------------
(* Sectors.  What goes to a partition goes to its disk as well.            *)
Whole == {d \in DOMAIN Devices : Devices[d].on = 0}
Parts == {d \in DOMAIN Devices : Devices[d].on # 0}

SectorsInv == SumFunctionOnSet(sectors, Parts) <= SumFunctionOnSet(sectors, Whole)

(* The devices are disks and partitions, finitely many. *)
LEMMA DevicesFinite ==
    /\ DOMAIN Devices \subseteq Nat \ {0}
    /\ IsFiniteSet(Whole) /\ IsFiniteSet(Parts)
    /\ Disks \subseteq Parts
    /\ \A d \in DOMAIN Devices : Devices[d] \in Device /\ Devices[d].on < d
<1>1. DOMAIN Devices = 1 .. Len(Devices) /\ Len(Devices) \in Nat
  BY DevicesAssumption
<1>2. IsFiniteSet(Whole) /\ IsFiniteSet(Parts)
  BY DisksFit, FS_Subset DEF Whole, Parts
<1>3. Disks \subseteq Parts
  BY NamesAssumption DEF Disks, Parts, IsValidDisk
<1> QED BY <1>1, <1>2, <1>3, DevicesAssumption

(* The sums after a transfer. *)
LEMMA TransferSums ==
    ASSUME TypeOK, NEW d \in DOMAIN Devices, Transfer(d)
    PROVE  /\ SumFunctionOnSet(sectors', Whole) = SumFunctionOnSet(sectors, Whole) + 1
           /\ SumFunctionOnSet(sectors', Parts)
                = SumFunctionOnSet(sectors, Parts) + (IF d \in Parts THEN 1 ELSE 0)
<1> DEFINE on == Devices[d].on
<1>1. /\ sectors' = [e \in DOMAIN Devices |->
                       IF e \in {d, on} THEN sectors[e] + 1 ELSE sectors[e]]
      /\ sectors \in [DOMAIN Devices -> Nat]
  BY DEF Transfer, TypeOK
<1>2. \A e \in DOMAIN Devices : sectors[e] \in Int /\ sectors'[e] \in Int
  BY <1>1
<1>3. on \in Nat /\ on < d
  BY DevicesFinite DEF Device
<1>4. Whole \subseteq DOMAIN Devices /\ Parts \subseteq DOMAIN Devices
  BY DEF Whole, Parts
<1>5. CASE on = 0
  <2>1. d \in Whole /\ d \notin Parts
    BY <1>5 DEF Whole, Parts
  <2>2. \A e \in DOMAIN Devices : sectors'[e] = IF e = d THEN sectors[e] + 1 ELSE sectors[e]
    BY <1>1, <1>5, DevicesFinite
  <2>3. SumFunctionOnSet(sectors', Whole) = SumFunctionOnSet(sectors, Whole) + (sectors'[d] - sectors[d])
    <3>1. \A e \in Whole : sectors[e] \in Int /\ sectors'[e] \in Int
      BY <1>2, <1>4
    <3>2. \A e \in Whole \ {d} : sectors[e] = sectors'[e]
      BY <1>4, <2>2
    <3> QED BY <2>1, <3>1, <3>2, DevicesFinite, SumOneMoves
  <2>4. SumFunctionOnSet(sectors, Parts) = SumFunctionOnSet(sectors', Parts)
    <3>1. \A e \in Parts : sectors[e] \in Int /\ sectors[e] = sectors'[e]
      BY <1>2, <1>4, <2>1, <2>2
    <3> QED BY <3>1, DevicesFinite, SumSame
  <2>5. sectors'[d] - sectors[d] = 1 /\ SumFunctionOnSet(sectors, Parts) \in Int
    BY <1>2, <1>4, <2>2, DevicesFinite, SumInt
  <2> QED BY <2>1, <2>3, <2>4, <2>5
<1>6. CASE on # 0
  <2>1. on \in DOMAIN Devices
    BY <1>3, <1>6, DevicesAssumption
  <2>2. on \in Whole /\ on \notin Parts /\ d \in Parts /\ d \notin Whole
    BY <1>6, <2>1, NamesAssumption DEF Whole, Parts
  <2>3. \A e \in DOMAIN Devices : sectors'[e] = IF e \in {d, on} THEN sectors[e] + 1 ELSE sectors[e]
    BY <1>1
  <2>4. SumFunctionOnSet(sectors', Whole) = SumFunctionOnSet(sectors, Whole) + (sectors'[on] - sectors[on])
    <3>1. \A e \in Whole : sectors[e] \in Int /\ sectors'[e] \in Int
      BY <1>2, <1>4
    <3>2. \A e \in Whole \ {on} : sectors[e] = sectors'[e]
      BY <1>4, <2>2, <2>3
    <3> HIDE DEF on
    <3> QED BY <2>2, <3>1, <3>2, DevicesFinite, SumOneMoves
  <2>5. SumFunctionOnSet(sectors', Parts) = SumFunctionOnSet(sectors, Parts) + (sectors'[d] - sectors[d])
    <3>1. \A e \in Parts : sectors[e] \in Int /\ sectors'[e] \in Int
      BY <1>2, <1>4
    <3>2. \A e \in Parts \ {d} : sectors[e] = sectors'[e]
      BY <1>4, <2>2, <2>3
    <3> QED BY <2>2, <3>1, <3>2, DevicesFinite, SumOneMoves
  <2>6. sectors'[d] - sectors[d] = 1 /\ sectors'[on] - sectors[on] = 1
    BY <1>2, <2>1, <2>3
  <2> QED BY <2>2, <2>4, <2>5, <2>6
<1> QED BY <1>5, <1>6

LEMMA SectorsInt == TypeOK => /\ SumFunctionOnSet(sectors, Whole) \in Nat
                              /\ SumFunctionOnSet(sectors, Parts) \in Nat
<1> SUFFICES ASSUME TypeOK PROVE /\ SumFunctionOnSet(sectors, Whole) \in Nat
                                 /\ SumFunctionOnSet(sectors, Parts) \in Nat
  OBVIOUS
<1>1. (\A d \in Whole : sectors[d] \in Nat) /\ (\A d \in Parts : sectors[d] \in Nat)
  BY DEF TypeOK, Whole, Parts
<1> QED BY <1>1, DevicesFinite, SumNat

LEMMA InitSectors == Init => SectorsInv /\ DisksCountedOnce
<1> SUFFICES ASSUME Init PROVE SectorsInv /\ DisksCountedOnce
  OBVIOUS
<1>1. (\A d \in Whole : sectors[d] = 0) /\ (\A d \in Parts : sectors[d] = 0)
  BY DEF Init, Whole, Parts
<1>2. /\ SumFunctionOnSet(sectors, Whole) = Cardinality(Whole) * 0
      /\ SumFunctionOnSet(sectors, Parts) = Cardinality(Parts) * 0
  BY <1>1, DevicesFinite, SumOfEqual
<1>3. Cardinality(Whole) \in Nat /\ Cardinality(Parts) \in Nat
  BY DevicesFinite, FS_CardinalityType
<1> QED BY <1>2, <1>3 DEF SectorsInv, DisksCountedOnce, Init, NoAnswer

(* Because of their names, all devices counted are partitions, and their   *)
(* disks have moved no less than they.                                     *)
LEMMA NextSectors ==
    TypeOK /\ SectorsInv /\ DisksCountedOnce /\ [Next]_vars => SectorsInv' /\ DisksCountedOnce'
<1> SUFFICES ASSUME TypeOK, SectorsInv, DisksCountedOnce, [Next]_vars
             PROVE  SectorsInv' /\ DisksCountedOnce'
  OBVIOUS
<1>1. DisksCountedOnce <=> (answer.endpoint = "all"
                              => answer.disk_total <= SumFunctionOnSet(sectors, Whole))
  BY DEF DisksCountedOnce, Whole
<1>2. ASSUME NEW d \in DOMAIN Devices, Transfer(d)
      PROVE  SectorsInv' /\ DisksCountedOnce'
  <2>1. UNCHANGED answer /\ answer.disk_total \in Nat
    BY <1>2 DEF Transfer, TypeOK, Answer
  <2> QED BY <1>1, <1>2, <2>1, TransferSums, SectorsInt DEF SectorsInv, DisksCountedOnce, Whole
<1>3. ASSUME NEW e \in Endpoints, Respond(e)
      PROVE  SectorsInv' /\ DisksCountedOnce'
  <2>1. UNCHANGED sectors /\ (answer'.endpoint = "all" => answer'.disk_total = DiskTotal)
    BY <1>3 DEF Respond
  <2>2. \A d \in Parts : sectors[d] \in Nat
    BY DEF TypeOK, Parts
  <2>3. DiskTotal <= SumFunctionOnSet(sectors, Parts)
    BY <2>2, DevicesFinite, SumOfSubset DEF DiskTotal
  <2>4. DiskTotal <= SumFunctionOnSet(sectors, Whole)
    BY <2>3, AnswerTypes, SectorsInt DEF SectorsInv
  <2> QED BY <2>1, <2>4 DEF SectorsInv, DisksCountedOnce, Whole
<1>4. CASE ReadProcStat
  BY <1>4 DEF ReadProcStat, NoAnswer, SectorsInv, DisksCountedOnce
<1>5. CASE UNCHANGED <<sectors, answer>>
  BY <1>5 DEF SectorsInv, DisksCountedOnce
<1>6. \/ \E d \in DOMAIN Devices : Transfer(d)
      \/ \E e \in Endpoints : Respond(e)
      \/ ReadProcStat
      \/ UNCHANGED <<sectors, answer>>
  BY DEF Next, Work, Hotplug, vars
<1> QED BY <1>2, <1>3, <1>4, <1>5, <1>6

(* The total of the disks counts no sector twice, for any disks and any    *)
(* partitions of them, although the filter lets partitions through and     *)
(* stops at the 32nd (general_stat_query.c:237-292, stats_routes.c:226).   *)
THEOREM SectorsOnce == Spec => []DisksCountedOnce
BY TypeInit, TypeNext, InitSectors, NextSectors, PTL DEF Spec
=============================================================================
