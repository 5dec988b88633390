----------------------------- MODULE StatHistory ------------------------------
(***************************************************************************)
(* The ring of system statistics in header.c: an array of MaxEntries       *)
(* samples, the index the next one goes to, and how many there are.        *)
(* push_general_stat stores a sample and computes averages into it.        *)
(*                                                                         *)
(* The model keeps an average as its numerator and the number of frames it *)
(* is divided by; the time between frames is the same for all.  Download   *)
(* and upload are treated alike by the code, so one counter, "net", stands *)
(* for both.  The disks are those of the sample, MAX_DISK of them.         *)
(***************************************************************************)
EXTENDS Integers, Functions

CONSTANTS
    MaxEntries,   \* MAX_HEADER_ENTRIES
    MaxDisk,      \* MAX_DISK
    Stats,        \* general_stat: what callers push
    Zero          \* a sample that memset has cleared

Disks == 0 .. MaxDisk - 1
Stat  == [read : [Disks -> Nat], write : [Disks -> Nat], net : Nat]

ASSUME SizesAssumption == MaxEntries \in Nat \ {0, 1} /\ MaxDisk \in Nat \ {0, 1}
ASSUME StatsAssumption == Stats \subseteq Stat

VARIABLES
    entries,        \* the array: a sample and its averages
    latest_index,   \* where the next sample goes
    count           \* samples stored

vars == <<entries, latest_index, count>>

(* Averages that push_general_stat has not computed: of no frames. *)
NoAverages == [frames |-> 0, write |-> 0, read |-> 0, net |-> 0, step |-> 0]

Total(f)  == SumFunctionOnSet(f, Disks)
Wrote(s)  == Total(s.write)
Netted(s) == s.net

(* init_header. *)
Init ==
    /\ entries = [i \in 0 .. MaxEntries - 1 |-> [stat |-> Zero, avg |-> NoAverages]]
    /\ latest_index = 0
    /\ count = 0

-----------------------------------------------------------------------------
(* oldest_index, after n samples of which the last went to index. *)
Oldest(index, n) == IF n < MaxEntries THEN 0 ELSE (index + 1) % MaxEntries

PreviousUnwrapped(index) == index  \* mutant: the step is taken from the sample itself

(* prev_index, and the index of get_latest_stat. *)
Previous(index) == (index - 1 + MaxEntries) % MaxEntries

(* The averages of sample s, when e is the array with it at index.  The    *)
(* read average subtracts the oldest counter of disk 1 from every disk, so *)
(* it is no average; nothing is promised of it.                            *)
Averages(e, index, n) ==
    LET s      == e[index].stat
        oldest == e[Oldest(index, n)].stat
        prev   == e[Previous(index)].stat
    IN  [frames |-> n,
         write  |-> Wrote(s) - Wrote(oldest),
         read   |-> Total(s.read) - MaxDisk * oldest.read[1],
         net    |-> s.net - oldest.net,
         step   |-> s.net - prev.net]

StoredUnbounded == count + 1  \* mutant: the ring does not stop counting

Stored == IF count < MaxEntries THEN count + 1 ELSE count

NextIndexShort(i) == (i + 1) % (MaxEntries - 1)  \* mutant: the last entry is never used

NextIndex(i) == (i + 1) % MaxEntries

(* push_general_stat. *)
Push(s) ==
    LET n      == Stored
        stored == [entries EXCEPT ![latest_index] = [stat |-> s, avg |-> NoAverages]]
    IN  /\ entries' = IF n < 2 THEN stored
                      ELSE [stored EXCEPT ![latest_index].avg =
                              Averages(stored, latest_index, n)]
        /\ latest_index' = NextIndex(latest_index)
        /\ count' = n

(* get_latest_stat: NULL, here Zero, if there is none. *)
Latest == IF count = 0 THEN [stat |-> Zero, avg |-> NoAverages]
          ELSE entries[Previous(latest_index)]

Next == \E s \in Stats : Push(s)

Spec == Init /\ [][Next]_vars

-----------------------------------------------------------------------------
Entry ==
    [stat : Stats \cup {Zero},
     avg  : [frames : Nat, write : Int, read : Int, net : Int, step : Int]]

TypeOK ==
    /\ entries \in [0 .. MaxEntries - 1 -> Entry]
    /\ latest_index \in 0 .. MaxEntries - 1
    /\ count \in 0 .. MaxEntries

(* The next sample goes behind the others until the ring is full, and no   *)
(* index below count has a cleared entry.                                  *)
RingInv ==
    /\ count < MaxEntries => latest_index = count
    /\ \A i \in 0 .. count - 1 : entries[i].stat \in Stats

-----------------------------------------------------------------------------
(* The k-th of the samples kept, oldest first, is in Slot(k). *)
Slot(k) ==
    LET first == IF count < MaxEntries THEN 0 ELSE latest_index
        i     == first + k - 1
    IN  IF i < MaxEntries THEN i ELSE i - MaxEntries

Kept == [k \in 1 .. count |-> entries[Slot(k)].stat]

(* The averages that the history promises: all but the one of reads, which *)
(* is wrong as soon as two disks differ (header.c:31).                     *)
Promised(avg) ==
    [frames |-> avg.frames, write |-> avg.write, net |-> avg.net, step |-> avg.step]

Abstract == INSTANCE RecentSamples WITH
    Window <- MaxEntries, Samples <- Stats, Written <- Wrote, Sent <- Netted,
    recent <- Kept, report <- Promised(Latest.avg)

(* The ring keeps the last MaxEntries samples in order, over any number of *)
(* pushes, and what get_latest_stat returns for the disks written and the  *)
(* network is taken from the right ones of them (header.c:10-53).          *)
KeepsRecentSamples == Abstract!Spec
=============================================================================
