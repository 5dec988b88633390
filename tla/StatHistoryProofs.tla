-------------------------- MODULE StatHistoryProofs ---------------------------
(***************************************************************************)
(* The ring of header.c implements the window of RecentSamples, for every  *)
(* size of the ring, number of disks and set of samples.                   *)
(***************************************************************************)
EXTENDS StatHistory, SumTheorems, SequenceTheorems, TLAPS

Indices == 0 .. MaxEntries - 1

(* The shape of the array, without the numbers in it. *)
Shape ==
    /\ entries = [i \in Indices |-> [stat |-> entries[i].stat, avg |-> entries[i].avg]]
    /\ latest_index \in Indices
    /\ count \in 0 .. MaxEntries

IInv == Shape /\ RingInv

-----------------------------------------------------------------------------
(* The index moves to the next entry, and from the last to the first.      *)
LEMMA NextWraps ==
    ASSUME NEW i \in Indices
    PROVE  NextIndex(i) = IF i = MaxEntries - 1 THEN 0 ELSE i + 1
<1>1. CASE i = MaxEntries - 1
  BY <1>1, SizesAssumption, SMT DEF NextIndex, Indices
<1>2. CASE i # MaxEntries - 1
  BY <1>2, SizesAssumption, SMT DEF NextIndex, Indices
<1> QED BY <1>1, <1>2

(* The entry before the next one is the entry itself. *)
LEMMA PreviousWraps ==
    ASSUME NEW i \in Indices
    PROVE  Previous(i) = IF i = 0 THEN MaxEntries - 1 ELSE i - 1
<1>1. CASE i = 0
  BY <1>1, SizesAssumption, SMT DEF Previous, Indices
<1>2. CASE i # 0
  BY <1>2, SizesAssumption, SMT DEF Previous, Indices
<1> QED BY <1>1, <1>2

(* The previous entry of the next one is the one the sample went to. *)
LEMMA PreviousOfNext ==
    ASSUME NEW i \in Indices
    PROVE  NextIndex(i) \in Indices /\ Previous(NextIndex(i)) = i
<1>1. NextIndex(i) \in Indices
  BY NextWraps, SizesAssumption DEF Indices
<1> QED BY <1>1, NextWraps, PreviousWraps, SizesAssumption DEF Indices

-----------------------------------------------------------------------------
(* What a push leaves in the array: the sample at latest_index, everything *)
(* else as it was. *)
LEMMA PushStores ==
    ASSUME IInv, NEW s \in Stats, Push(s)
    PROVE  /\ count' = Stored /\ Stored \in 1 .. MaxEntries
           /\ latest_index' = NextIndex(latest_index)
           /\ \A i \in Indices :
                 entries'[i].stat = IF i = latest_index THEN s ELSE entries[i].stat
           /\ entries'[latest_index].avg =
                 IF Stored < 2 THEN NoAverages
                 ELSE Averages([entries EXCEPT ![latest_index] =
                                  [stat |-> s, avg |-> NoAverages]], latest_index, Stored)
           /\ entries' = [i \in Indices |->
                            [stat |-> entries'[i].stat, avg |-> entries'[i].avg]]
<1> DEFINE stored == [entries EXCEPT ![latest_index] = [stat |-> s, avg |-> NoAverages]]
           A == Averages(stored, latest_index, Stored)
<1>1. /\ Stored \in 1 .. MaxEntries
      /\ count' = Stored /\ latest_index' = NextIndex(latest_index)
  BY SizesAssumption DEF IInv, Shape, Stored, Push
<1>2. stored = [i \in Indices |-> [stat |-> IF i = latest_index THEN s ELSE entries[i].stat,
                                   avg  |-> IF i = latest_index THEN NoAverages
                                            ELSE entries[i].avg]]
  BY DEF IInv, Shape
<1>3. CASE Stored < 2
  <2>1. entries' = stored
    BY <1>3 DEF Push
  <2> HIDE DEF stored
  <2> QED BY <1>1, <1>2, <1>3, <2>1 DEF IInv, Shape
<1>4. CASE ~(Stored < 2)
  <2>1. entries' = [stored EXCEPT ![latest_index].avg = A]
    BY <1>4 DEF Push
  <2> HIDE DEF stored, A
  <2>2. entries' = [i \in Indices |-> [stat |-> stored[i].stat,
                                       avg  |-> IF i = latest_index THEN A
                                                ELSE stored[i].avg]]
    BY <1>2, <2>1 DEF IInv, Shape
  <2>3. A = Averages(stored, latest_index, Stored)
    BY DEF A
  <2>4. \A i \in Indices : stored[i].stat = IF i = latest_index THEN s ELSE entries[i].stat
    BY <1>2
  <2>5. latest_index \in Indices
    BY DEF IInv, Shape
  <2> HIDE <1>2
  <2>6. entries'[latest_index].avg = Averages(stored, latest_index, Stored)
    BY <2>2, <2>3, <2>5
  <2>7. stored = [entries EXCEPT ![latest_index] = [stat |-> s, avg |-> NoAverages]]
    BY DEF stored
  <2> QED BY <1>1, <1>4, <2>2, <2>4, <2>6, <2>7
<1> QED BY <1>3, <1>4

(* The ring is cleared at the start. *)
LEMMA InitShape == Init => IInv
BY SizesAssumption DEF Init, IInv, Shape, RingInv, Indices

LEMMA PushShape ==
    ASSUME IInv, NEW s \in Stats, Push(s)
    PROVE  IInv'
<1>1. /\ count' = Stored /\ Stored \in 1 .. MaxEntries
      /\ latest_index' = NextIndex(latest_index)
      /\ entries' = [i \in Indices |->
                       [stat |-> entries'[i].stat, avg |-> entries'[i].avg]]
  BY PushStores
<1>2. \A i \in Indices : entries'[i].stat = IF i = latest_index THEN s ELSE entries[i].stat
  BY PushStores
<1>3. latest_index \in Indices /\ latest_index' \in Indices
  BY <1>1, PreviousOfNext DEF IInv, Shape
<1>4. Shape'
  BY <1>1, <1>3, SizesAssumption DEF Shape
<1>5. ASSUME count' < MaxEntries
      PROVE  latest_index' = count'
  <2>1. count < MaxEntries /\ count' = count + 1 /\ count = latest_index
    BY <1>1, <1>5, SizesAssumption DEF IInv, Shape, RingInv, Stored
  <2> QED BY <1>1, <1>3, <1>5, <2>1, NextWraps, SizesAssumption DEF Indices
<1>6. ASSUME NEW i \in 0 .. count' - 1
      PROVE  entries'[i].stat \in Stats
  <2>1. i \in Indices /\ (i = latest_index \/ i \in 0 .. count - 1)
    BY <1>1, <1>6, SizesAssumption DEF IInv, Shape, RingInv, Stored, Indices
  <2> QED BY <1>2, <2>1 DEF IInv, RingInv
<1> QED BY <1>4, <1>5, <1>6 DEF IInv, RingInv

LEMMA NextShape == IInv /\ [Next]_vars => IInv'
<1> SUFFICES ASSUME IInv, [Next]_vars PROVE IInv'
  OBVIOUS
<1>1. CASE Next
  BY <1>1, PushShape DEF Next
<1>2. CASE UNCHANGED vars
  BY <1>2 DEF IInv, Shape, RingInv, vars
<1> QED BY <1>1, <1>2

(* Samples are stored one behind the other until the ring is full, and     *)
(* none of those that count is a cleared entry (header.c:13-18).           *)
THEOREM RingCorrect == Spec => []RingInv
<1>1. Init => IInv
  BY InitShape
<1>2. IInv /\ [Next]_vars => IInv'
  BY NextShape
<1>3. IInv => RingInv
  BY DEF IInv
<1> QED BY <1>1, <1>2, <1>3, PTL DEF Spec

-----------------------------------------------------------------------------
(* Append and Tail as functions. *)
LEMMA AppendIs ==
    ASSUME NEW S, NEW q \in Seq(S), NEW e \in S
    PROVE  Append(q, e) = [k \in 1 .. Len(q) + 1 |-> IF k = Len(q) + 1 THEN e ELSE q[k]]
<1> DEFINE t == [k \in 1 .. Len(q) + 1 |-> IF k = Len(q) + 1 THEN e ELSE q[k]]
<1>1. Len(q) \in Nat /\ \A k \in 1 .. Len(q) : q[k] \in S
  BY LenProperties, ElementOfSeq
<1>2. t \in Seq(S) /\ Len(t) = Len(q) + 1
  BY <1>1
<1>3. Append(q, e) \in Seq(S) /\ Len(Append(q, e)) = Len(q) + 1
  BY <1>1
<1>4. \A k \in 1 .. Len(q) + 1 : Append(q, e)[k] = t[k]
  BY <1>1
<1> HIDE DEF t
<1>5. Append(q, e) = t
  BY <1>2, <1>3, <1>4, SeqEqual
<1> QED BY <1>5 DEF t

LEMMA TailIs ==
    ASSUME NEW S, NEW q \in Seq(S), Len(q) # 0
    PROVE  Tail(q) \in Seq(S) /\ Len(Tail(q)) = Len(q) - 1
           /\ \A k \in 1 .. Len(q) - 1 : Tail(q)[k] = q[k + 1]
<1>1. q # << >>
  BY EmptySeq
<1> QED BY <1>1, HeadTailProperties

(* The samples kept are a sequence of count of them. *)
LEMMA SlotIndex ==
    ASSUME IInv, NEW k \in 1 .. count
    PROVE  Slot(k) \in Indices /\ entries[Slot(k)].stat \in Stats
<1>1. /\ MaxEntries \in Nat /\ latest_index \in 0 .. MaxEntries - 1
      /\ count \in 0 .. MaxEntries
  BY SizesAssumption DEF IInv, Shape, Indices
<1>2. Slot(k) \in 0 .. count - 1 /\ Slot(k) \in Indices
  BY <1>1 DEF Slot, Indices
<1> HIDE DEF Slot
<1> QED BY <1>2 DEF IInv, RingInv

LEMMA KeptIsSequence ==
    ASSUME IInv
    PROVE  Kept \in Seq(Stats) /\ Len(Kept) = count
<1>1. \A k \in 1 .. count : entries[Slot(k)].stat \in Stats
  BY SlotIndex
<1>2. count \in Nat
  BY SizesAssumption DEF IInv, Shape
<1> HIDE DEF Slot
<1> QED BY <1>1, <1>2 DEF Kept

(* How the places of the samples move.  While the ring fills they stay;    *)
(* when it is full each sample is one place older.                         *)
LEMMA SlotsStay ==
    ASSUME IInv, count < MaxEntries, NEW s \in Stats, Push(s), NEW k \in 1 .. count + 1
    PROVE  Slot(k)' = k - 1 /\ (k <= count => Slot(k) = k - 1)
<1>1. count' = count + 1 /\ latest_index = count /\ latest_index' = NextIndex(latest_index)
  BY PushStores DEF Stored, IInv, RingInv
<1>2. count' = MaxEntries => latest_index' = 0
  BY <1>1, NextWraps, SizesAssumption DEF IInv, Shape, Indices
<1> QED BY <1>1, <1>2, SizesAssumption DEF IInv, Shape, Slot, Indices

LEMMA SlotsShift ==
    ASSUME IInv, count = MaxEntries, NEW s \in Stats, Push(s), NEW k \in 1 .. count
    PROVE  Slot(k)' = IF k = count THEN latest_index ELSE Slot(k + 1)
<1>1. count' = count /\ latest_index' = NextIndex(latest_index)
  <2>1. count' = Stored /\ latest_index' = NextIndex(latest_index)
    BY PushStores
  <2> QED BY <2>1, SizesAssumption DEF Stored
<1>2. latest_index' = IF latest_index = MaxEntries - 1 THEN 0 ELSE latest_index + 1
  BY <1>1, NextWraps DEF IInv, Shape
<1>3. MaxEntries \in Nat /\ latest_index \in 0 .. MaxEntries - 1 /\ k \in 1 .. MaxEntries
  BY SizesAssumption DEF IInv, Shape, Indices
<1>4. Slot(k)' = LET i == latest_index' + k - 1
                 IN  IF i < MaxEntries THEN i ELSE i - MaxEntries
  BY <1>1, <1>3 DEF Slot
<1>5. Slot(k + 1) = LET i == latest_index + k
                    IN  IF i < MaxEntries THEN i ELSE i - MaxEntries
  BY <1>3 DEF Slot
<1> QED BY <1>2, <1>3, <1>4, <1>5

LEMMA KeptJoined ==
    ASSUME IInv, NEW s \in Stats, Push(s)
    PROVE  Kept' = Abstract!Joined(s)
<1>1. Kept \in Seq(Stats) /\ Len(Kept) = count
  BY KeptIsSequence
<1>2. count \in Nat /\ MaxEntries \in Nat /\ latest_index \in Indices
  BY SizesAssumption DEF IInv, Shape
<1>3. \A i \in Indices : entries'[i].stat = IF i = latest_index THEN s ELSE entries[i].stat
  BY PushStores
<1>4. count' = Stored
  BY PushStores
<1>5. CASE count < MaxEntries
  <2>1. count' = count + 1 /\ latest_index = count
    BY <1>4, <1>5 DEF Stored, IInv, RingInv
  <2>2. Kept' = [k \in 1 .. count + 1 |-> IF k = count + 1 THEN s ELSE Kept[k]]
    <3> SUFFICES ASSUME NEW k \in 1 .. count + 1
                 PROVE  entries'[Slot(k)'].stat = IF k = count + 1 THEN s ELSE Kept[k]
      BY <2>1 DEF Kept
    <3>1. Slot(k)' = k - 1 /\ (k <= count => Slot(k) = k - 1)
      BY <1>5, SlotsStay
    <3>2. k - 1 \in Indices
      BY <1>2, <1>5 DEF Indices
    <3> HIDE DEF Slot
    <3>3. k <= count => Kept[k] = entries[Slot(k)].stat
      BY <1>2 DEF Kept
    <3> QED BY <1>2, <1>3, <2>1, <3>1, <3>2, <3>3
  <2>3. Append(Kept, s) = [k \in 1 .. count + 1 |-> IF k = count + 1 THEN s ELSE Kept[k]]
    BY <1>1, AppendIs
  <2> QED BY <1>1, <1>5, <2>2, <2>3 DEF Abstract!Joined
<1>6. CASE count = MaxEntries
  <2>1. count' = count
    BY <1>2, <1>4, <1>6 DEF Stored
  <2>2. Kept' = [k \in 1 .. count |-> IF k = count THEN s ELSE Kept[k + 1]]
    <3> SUFFICES ASSUME NEW k \in 1 .. count
                 PROVE  entries'[Slot(k)'].stat = IF k = count THEN s ELSE Kept[k + 1]
      BY <2>1 DEF Kept
    <3>1. Slot(k)' = IF k = count THEN latest_index ELSE Slot(k + 1)
      BY <1>6, SlotsShift
    <3>2. k # count => /\ k + 1 \in 1 .. count
                       /\ Slot(k + 1) \in Indices /\ Slot(k + 1) # latest_index
      BY <1>2, <1>6, SizesAssumption DEF Slot, Indices
    <3> HIDE DEF Slot
    <3>3. k # count => Kept[k + 1] = entries[Slot(k + 1)].stat
      BY <3>2 DEF Kept
    <3> QED BY <1>2, <1>3, <3>1, <3>2, <3>3
  <2>3. Append(Tail(Kept), s) = [k \in 1 .. count |-> IF k = count THEN s ELSE Kept[k + 1]]
    <3>1. /\ Tail(Kept) \in Seq(Stats) /\ Len(Tail(Kept)) = count - 1
          /\ \A k \in 1 .. count - 1 : Tail(Kept)[k] = Kept[k + 1]
      BY <1>1, <1>6, TailIs, SizesAssumption
    <3>2. Append(Tail(Kept), s) = [k \in 1 .. count |-> IF k = count THEN s ELSE Tail(Kept)[k]]
      <4>1. Len(Tail(Kept)) + 1 = count
        BY <1>2, <3>1
      <4> DEFINE q == Tail(Kept)
      <4>2. q \in Seq(Stats)
        BY <3>1
      <4> HIDE DEF q
      <4>3. Append(q, s) = [k \in 1 .. Len(q) + 1 |-> IF k = Len(q) + 1 THEN s ELSE q[k]]
        BY <4>2, AppendIs
      <4>4. Len(q) + 1 = count
        BY <4>1 DEF q
      <4>5. Append(q, s) = [k \in 1 .. count |-> IF k = count THEN s ELSE q[k]]
        BY <4>3, <4>4
      <4> QED BY <4>5 DEF q
    <3> QED BY <1>2, <3>1, <3>2
  <2> QED BY <1>1, <1>6, <2>2, <2>3 DEF Abstract!Joined
<1> QED BY <1>5, <1>6, <1>2 DEF IInv, Shape

-----------------------------------------------------------------------------
(* After a push the sample returned by get_latest_stat is the one pushed,  *)
(* and the two it is compared with are the first and the last but one of   *)
(* those kept. *)
LEMMA LatestIsPushed ==
    ASSUME IInv, NEW s \in Stats, Push(s)
    PROVE  Latest' = entries'[latest_index]
<1>1. /\ count' = Stored /\ Stored \in 1 .. MaxEntries
      /\ latest_index' = NextIndex(latest_index)
  BY PushStores
<1>2. count' # 0
  BY <1>1, SizesAssumption
<1>3. Previous(latest_index') = latest_index
  BY <1>1, PreviousOfNext DEF IInv, Shape
<1> QED BY <1>2, <1>3 DEF Latest, Previous

LEMMA ComparedWith ==
    ASSUME IInv, NEW s \in Stats, Push(s), Stored >= 2
    PROVE  LET kept == Kept'
           IN  /\ kept[Stored] = entries'[latest_index].stat
               /\ kept[1] = entries'[Oldest(latest_index, Stored)].stat
               /\ kept[Stored - 1] = entries'[Previous(latest_index)].stat
<1>1. /\ MaxEntries \in Nat /\ latest_index \in Indices /\ Stored \in 2 .. MaxEntries
      /\ count' = Stored /\ latest_index' = NextIndex(latest_index)
  <2>1. /\ count' = Stored /\ Stored \in 1 .. MaxEntries
        /\ latest_index' = NextIndex(latest_index)
    BY PushStores
  <2> QED BY <2>1, SizesAssumption DEF IInv, Shape
<1>2. latest_index' = IF latest_index = MaxEntries - 1 THEN 0 ELSE latest_index + 1
  BY <1>1, NextWraps
<1>3. Oldest(latest_index, Stored) = IF Stored < MaxEntries THEN 0 ELSE latest_index'
  BY <1>1 DEF Oldest, NextIndex
<1>4. Stored < MaxEntries => latest_index = Stored - 1
  BY <1>1 DEF IInv, Shape, RingInv, Stored
<1>5. Previous(latest_index) = IF latest_index = 0 THEN MaxEntries - 1 ELSE latest_index - 1
  BY <1>1, PreviousWraps
<1>6. ASSUME NEW k \in 1 .. Stored
      PROVE  Slot(k)' = LET i == (IF Stored < MaxEntries THEN 0 ELSE latest_index') + k - 1
                        IN  IF i < MaxEntries THEN i ELSE i - MaxEntries
  BY <1>1 DEF Slot
<1>7. PICK n \in 2 .. MaxEntries : n = Stored
  BY <1>1
<1>8. /\ 1 \in 1 .. n /\ n \in 1 .. n /\ n - 1 \in 1 .. n /\ n \in 2 .. MaxEntries
      /\ MaxEntries \in Nat /\ latest_index \in 0 .. MaxEntries - 1
  BY <1>1, <1>7 DEF Indices
<1>9. ASSUME NEW k \in 1 .. n
      PROVE  /\ Kept'[k] = entries'[Slot(k)'].stat
             /\ Slot(k)' = LET i == (IF n < MaxEntries THEN 0 ELSE latest_index') + k - 1
                           IN  IF i < MaxEntries THEN i ELSE i - MaxEntries
  BY <1>1, <1>6, <1>7 DEF Kept
<1> HIDE DEF Slot, Stored
<1>10. Kept'[n] = entries'[latest_index].stat
  <2>1. Slot(n)' = latest_index
    BY <1>2, <1>4, <1>7, <1>8, <1>9
  <2> QED BY <1>8, <1>9, <2>1
<1>11. Kept'[1] = entries'[Oldest(latest_index, n)].stat
  <2>1. Slot(1)' = Oldest(latest_index, n)
    BY <1>2, <1>3, <1>7, <1>8, <1>9
  <2> QED BY <1>8, <1>9, <2>1
<1>12. Kept'[n - 1] = entries'[Previous(latest_index)].stat
  <2>1. Slot(n - 1)' = Previous(latest_index)
    BY <1>2, <1>4, <1>5, <1>7, <1>8, <1>9
  <2> QED BY <1>8, <1>9, <2>1
<1> QED BY <1>7, <1>10, <1>11, <1>12

(* So the averages stored with it are taken from those kept. *)
LEMMA AveragesOfKept ==
    ASSUME IInv, NEW s \in Stats, Push(s), Stored >= 2
    PROVE  LET kept == Kept'
           IN  Latest'.avg =
                 [frames |-> Stored,
                  write  |-> Wrote(kept[Stored]) - Wrote(kept[1]),
                  read   |-> Total(kept[Stored].read) - MaxDisk * kept[1].read[1],
                  net    |-> kept[Stored].net - kept[1].net,
                  step   |-> kept[Stored].net - kept[Stored - 1].net]
<1> DEFINE stored == [entries EXCEPT ![latest_index] = [stat |-> s, avg |-> NoAverages]]
           kept   == Kept'
<1>1. Latest'.avg = Averages(stored, latest_index, Stored)
  BY LatestIsPushed, PushStores
<1>2. \A i \in Indices : stored[i].stat = entries'[i].stat
  BY PushStores DEF IInv, Shape
<1>3. /\ latest_index \in Indices /\ Previous(latest_index) \in Indices
      /\ Oldest(latest_index, Stored) \in Indices
  <2>1. latest_index \in Indices
    BY DEF IInv, Shape
  <2>2. Previous(latest_index) \in Indices
    BY <2>1, PreviousWraps, SizesAssumption DEF Indices
  <2>3. (latest_index + 1) % MaxEntries \in Indices
    BY <2>1, PreviousOfNext DEF NextIndex
  <2>4. 0 \in Indices
    BY SizesAssumption DEF Indices
  <2> QED BY <2>1, <2>2, <2>3, <2>4 DEF Oldest
<1>4. /\ kept[Stored] = stored[latest_index].stat
      /\ kept[1] = stored[Oldest(latest_index, Stored)].stat
      /\ kept[Stored - 1] = stored[Previous(latest_index)].stat
  BY <1>2, <1>3, ComparedWith
<1> HIDE DEF stored, kept
<1>5. Latest'.avg = [frames |-> Stored,
                     write  |-> Wrote(kept[Stored]) - Wrote(kept[1]),
                     read   |-> Total(kept[Stored].read) - MaxDisk * kept[1].read[1],
                     net    |-> kept[Stored].net - kept[1].net,
                     step   |-> kept[Stored].net - kept[Stored - 1].net]
  BY <1>1, <1>4 DEF Averages
<1> QED BY <1>5 DEF kept

(* What is kept after a push. *)
LEMMA KeptAfter ==
    ASSUME IInv, NEW s \in Stats, Push(s)
    PROVE  /\ count' = Stored /\ Stored \in 1 .. MaxEntries
           /\ Kept' \in Seq(Stats) /\ Len(Kept') = Stored
           /\ Stored < 2 => Latest'.avg = NoAverages
<1>1. count' = Stored /\ Stored \in 1 .. MaxEntries
  BY PushStores
<1>2. IInv'
  BY PushShape
<1>3. (IInv => Kept \in Seq(Stats) /\ Len(Kept) = count)'
  BY KeptIsSequence, PTL
<1>4. Stored < 2 => Latest'.avg = NoAverages
  BY LatestIsPushed, PushStores
<1> QED BY <1>1, <1>2, <1>3, <1>4

(* The report of the window is part of the averages. *)
LEMMA ReportKept ==
    ASSUME IInv, NEW s \in Stats, Push(s)
    PROVE  Promised(Latest.avg)' = Abstract!Report(Kept')
<1> DEFINE kept == Kept'
<1>1. /\ Stored \in 1 .. MaxEntries /\ Len(kept) = Stored
      /\ Stored < 2 => Latest'.avg = NoAverages
  BY KeptAfter
<1>2. CASE Stored < 2
  BY <1>1, <1>2 DEF Promised, NoAverages, Abstract!Report, Abstract!NoReport
<1>3. CASE Stored >= 2
  <2>1. Latest'.avg = [frames |-> Stored,
                       write  |-> Wrote(kept[Stored]) - Wrote(kept[1]),
                       read   |-> Total(kept[Stored].read) - MaxDisk * kept[1].read[1],
                       net    |-> kept[Stored].net - kept[1].net,
                       step   |-> kept[Stored].net - kept[Stored - 1].net]
    BY <1>3, AveragesOfKept
  <2> HIDE DEF kept
  <2>2. Abstract!Report(kept) = [frames |-> Stored,
                                 write  |-> Wrote(kept[Stored]) - Wrote(kept[1]),
                                 net    |-> kept[Stored].net - kept[1].net,
                                 step   |-> kept[Stored].net - kept[Stored - 1].net]
    BY <1>1, <1>3 DEF Abstract!Report, Netted
  <2>3. Promised(Latest'.avg) = Abstract!Report(kept)
    BY <2>1, <2>2 DEF Promised
  <2> QED BY <2>3 DEF kept, Promised
<1> QED BY <1>1, <1>2, <1>3, SizesAssumption

-----------------------------------------------------------------------------
(* The history starts empty, and every push is a push of the window: the   *)
(* ring keeps the last MaxEntries samples in order and computes its        *)
(* averages from the right ones (header.c:10-59).                          *)
THEOREM RingImplementsWindow == Spec => KeepsRecentSamples
<1>1. Init => Abstract!Init
  <2> SUFFICES ASSUME Init PROVE Kept = << >> /\ Promised(Latest.avg) = Abstract!NoReport
    BY DEF Abstract!Init
  <2>1. IInv /\ count = 0
    BY InitShape DEF Init
  <2>2. Kept \in Seq(Stats) /\ Len(Kept) = 0
    BY <2>1, KeptIsSequence
  <2>3. Kept = << >>
    BY <2>2, EmptySeq
  <2>4. Promised(Latest.avg) = Abstract!NoReport
    BY <2>1 DEF Latest, Promised, NoAverages, Abstract!NoReport
  <2> QED BY <2>3, <2>4
<1>2. IInv /\ [Next]_vars => [Abstract!Next]_Abstract!vars
  <2> SUFFICES ASSUME IInv, [Next]_vars PROVE [Abstract!Next]_Abstract!vars
    OBVIOUS
  <2>1. ASSUME NEW s \in Stats, Push(s)
        PROVE  Abstract!Next
    BY <2>1, KeptJoined, ReportKept DEF Abstract!Next, Abstract!Push
  <2>2. CASE UNCHANGED vars
    BY <2>2 DEF Abstract!vars, vars, Kept, Slot, Latest
  <2> QED BY <2>1, <2>2 DEF Next
<1>3. Init => IInv
  BY InitShape
<1>4. IInv /\ [Next]_vars => IInv'
  BY NextShape
<1> QED BY <1>1, <1>2, <1>3, <1>4, PTL DEF Spec, KeepsRecentSamples, Abstract!Spec

-----------------------------------------------------------------------------
(* Sums over the disks of a sample. *)
LEMMA TotalInt ==
    ASSUME NEW f \in [Disks -> Nat]
    PROVE  Total(f) \in Int
<1>1. IsFiniteSet(Disks) /\ \A d \in Disks : f[d] \in Int
  BY FS_Interval, SizesAssumption DEF Disks
<1> QED BY <1>1, SumInt DEF Total

-----------------------------------------------------------------------------
(* Types. *)
Average == [frames : Nat, write : Int, read : Int, net : Int, step : Int]

(* A push compares samples that are kept, never the cleared entry. *)
LEMMA PushTypes ==
    ASSUME IInv, TypeOK, NEW s \in Stats, Push(s)
    PROVE  TypeOK'
<1> DEFINE kept == Kept'
           stored == [entries EXCEPT ![latest_index] = [stat |-> s, avg |-> NoAverages]]
           A == Averages(stored, latest_index, Stored)
<1>1. /\ count' = Stored /\ Stored \in 1 .. MaxEntries
      /\ kept \in Seq(Stats) /\ Len(kept) = Stored
  BY KeptAfter
<1>2. latest_index' \in 0 .. MaxEntries - 1 /\ count' \in 0 .. MaxEntries
  <2>1. IInv'
    BY PushShape
  <2> QED BY <2>1 DEF IInv, Shape, Indices
<1>3. NoAverages \in Average /\ Entry = [stat : Stats \cup {Zero}, avg : Average]
  BY DEF NoAverages, Average, Entry
<1>4. stored \in [0 .. MaxEntries - 1 -> Entry]
  BY <1>3 DEF TypeOK
<1>5. ASSUME Stored >= 2
      PROVE  A \in Average
  <2>1. A = Latest'.avg
    BY <1>5, LatestIsPushed, PushStores
  <2>2. A = [frames |-> Stored,
             write  |-> Wrote(kept[Stored]) - Wrote(kept[1]),
             read   |-> Total(kept[Stored].read) - MaxDisk * kept[1].read[1],
             net    |-> kept[Stored].net - kept[1].net,
             step   |-> kept[Stored].net - kept[Stored - 1].net]
    BY <1>5, <2>1, AveragesOfKept
  <2> HIDE DEF kept, A
  <2>3. \A k \in 1 .. Stored : kept[k] \in Stat
    BY <1>1, StatsAssumption
  <2>4. /\ 1 \in 1 .. Stored /\ Stored \in 1 .. Stored /\ Stored - 1 \in 1 .. Stored
        /\ Stored \in Nat
    BY <1>1, <1>5, SizesAssumption
  <2>5. kept[1] \in Stat /\ kept[Stored] \in Stat /\ kept[Stored - 1] \in Stat
    BY <2>3, <2>4
  <2>6. /\ Wrote(kept[Stored]) \in Int /\ Wrote(kept[1]) \in Int
        /\ Total(kept[Stored].read) \in Int
    BY <2>5, TotalInt DEF Wrote, Stat
  <2>7. MaxDisk * kept[1].read[1] \in Int
    <3>1. 1 \in Disks
      BY SizesAssumption DEF Disks
    <3> QED BY <2>5, <3>1, SizesAssumption DEF Stat
  <2>8. kept[Stored].net \in Nat /\ kept[1].net \in Nat /\ kept[Stored - 1].net \in Nat
    BY <2>5 DEF Stat
  <2> HIDE DEF Stored
  <2> QED BY <2>2, <2>4, <2>6, <2>7, <2>8 DEF Average
<1>6. entries' \in [0 .. MaxEntries - 1 -> Entry]
  <2>1. entries' = IF Stored < 2 THEN stored ELSE [stored EXCEPT ![latest_index].avg = A]
    BY DEF Push
  <2>2. latest_index \in 0 .. MaxEntries - 1
    BY DEF TypeOK
  <2> HIDE DEF stored, A
  <2>3. Stored < 2 \/ Stored >= 2
    BY <1>1, SizesAssumption
  <2> QED BY <1>3, <1>4, <1>5, <2>1, <2>2, <2>3
<1> QED BY <1>2, <1>6 DEF TypeOK

(* The averages are numbers for every sample stored, so they are never     *)
(* taken from an entry that has been cleared (header.c:20-53).             *)
THEOREM TypeCorrect == Spec => []TypeOK
<1>1. Init => TypeOK
  BY SizesAssumption DEF Init, TypeOK, Entry, NoAverages
<1>2. IInv /\ TypeOK /\ [Next]_vars => TypeOK'
  <2> SUFFICES ASSUME IInv, TypeOK, [Next]_vars PROVE TypeOK'
    OBVIOUS
  <2>1. CASE UNCHANGED vars
    BY <2>1 DEF vars, TypeOK
  <2> QED BY <2>1, PushTypes DEF Next
<1> QED BY <1>1, <1>2, InitShape, NextShape, PTL DEF Spec
=============================================================================
