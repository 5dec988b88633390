--------------------------- MODULE AtomicRequests ----------------------------
(***************************************************************************)
(* What the daemon promises of a request: it acts in one step or not at    *)
(* all, by one system call with the pid of the request and the value of    *)
(* its whole body.  Nothing else changes a process, but the process itself.*)
(*                                                                         *)
(* There are no parts of bodies here, no contexts, no second dispatch and  *)
(* no statuses: a request is open until it acts or is given up.  Nor is    *)
(* there a conversion of numbers: a request sets a value less than one     *)
(* nice level, second or megabyte off the number it carries, and what a    *)
(* limit that no register holds becomes is left open.                      *)
(***************************************************************************)
EXTENDS SystemCalls

CONSTANTS
    Conns, Requests,
    NoRequest,    \* there is no open request
    NoValue,      \* the body carries no value
    Unit,         \* numbers of bodies are given in 1/Unit
    Megabyte

VARIABLES
    open,   \* the request on each connection that has yet to act
    done    \* what the last request on it has set

vars == <<task, open, done>>

Init ==
    /\ task = Started
    /\ open = [c \in Conns |-> NoRequest]
    /\ done = [c \in Conns |-> <<>>]

Scale(r) == IF r.route = "ram" THEN Megabyte ELSE 1

Close(r, v) ==
    LET off == v * Unit - r.arg * Scale(r)
    IN  -(Unit * Scale(r)) < off /\ off < Unit * Scale(r)

(* The number fits in a long, and what it stands for in an rlim_t. *)
Fits(r) == r.arg < (Word \div 2) * Unit /\ r.arg * Scale(r) < Word * Unit

(* A request without a value renices to -1, and sets no limit. *)
Asks(r, v) ==
    IF r.arg = NoValue THEN r.route = "renice" /\ v = -1
    ELSE Close(r, v) \/ (r.route # "renice" /\ ~Fits(r))

Call(r, v) ==
    \/ r.route = "signal" /\ v = r.arg /\ Kill(r.pid, v)
    \/ r.route = "renice" /\ Asks(r, v) /\ v \in -20 .. 19 /\ SetNice(r.pid, v)
    \/ r.route = "cpu" /\ Asks(r, v) /\ v \in 0 .. RlimInfinity /\ SetCpu(r.pid, v)
    \/ r.route = "ram" /\ Asks(r, v) /\ v \in 0 .. RlimInfinity /\ SetRam(r.pid, v)

-----------------------------------------------------------------------------
Receive(c, r) ==
    /\ open[c] = NoRequest
    /\ open' = [open EXCEPT ![c] = r]
    /\ done' = [done EXCEPT ![c] = <<>>]
    /\ UNCHANGED task

Act(c) ==
    /\ open[c] # NoRequest
    /\ \E v \in -20 .. RlimInfinity :
          done' = [done EXCEPT ![c] = <<v>>] /\ Call(open[c], v)
    /\ open' = [open EXCEPT ![c] = NoRequest]

(* The request is refused or given up. *)
Drop(c) ==
    /\ open[c] # NoRequest
    /\ open' = [open EXCEPT ![c] = NoRequest]
    /\ UNCHANGED <<task, done>>

Exit(p) == Quit(p) /\ UNCHANGED <<open, done>>

Next ==
    \/ \E c \in Conns : (\E r \in Requests : Receive(c, r)) \/ Act(c) \/ Drop(c)
    \/ \E p \in Pids : Exit(p)

Spec == Init /\ [][Next]_vars
=============================================================================
