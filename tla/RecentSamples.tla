---------------------------- MODULE RecentSamples ----------------------------
(***************************************************************************)
(* What the history of system statistics promises: it keeps the last       *)
(* Window samples, oldest first, and reports how much was written and sent *)
(* over the frames it keeps, and sent since the frame before.              *)
(*                                                                         *)
(* header.h gives the size of the window (MAX_HEADER_ENTRIES) and the      *)
(* comment at general_stat_query.h:73, "last 100 frames", its meaning.     *)
(***************************************************************************)
EXTENDS Integers, Sequences

CONSTANTS
    Window,         \* samples that are kept
    Samples,        \* samples there can be
    Written(_),     \* what a sample says was written up to then
    Sent(_)         \* and sent

VARIABLES recent, report

vars == <<recent, report>>

NoReport == [frames |-> 0, write |-> 0, net |-> 0, step |-> 0]

Init == recent = <<>> /\ report = NoReport

(* The samples that are left when s joins them. *)
Joined(s) ==
    IF Len(recent) < Window THEN Append(recent, s) ELSE Append(Tail(recent), s)

Report(seq) ==
    LET last == seq[Len(seq)]
    IN  IF Len(seq) < 2 THEN NoReport
        ELSE [frames |-> Len(seq),
              write  |-> Written(last) - Written(seq[1]),
              net    |-> Sent(last) - Sent(seq[1]),
              step   |-> Sent(last) - Sent(seq[Len(seq) - 1])]

Push(s) == recent' = Joined(s) /\ report' = Report(recent')

Next == \E s \in Samples : Push(s)

Spec == Init /\ [][Next]_vars
=============================================================================
