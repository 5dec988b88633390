---------------------------- MODULE SystemCalls ------------------------------
(***************************************************************************)
(* The kernel as the daemon sees it: the processes, and the system calls   *)
(* kill, setpriority and prlimit that core_interface.c makes with the pid  *)
(* of a request.  The pid is any int (routes.c reads it with %d), so it    *)
(* may be that of no process, 0 or negative; the calls differ in what they *)
(* take such a pid for.                                                    *)
(***************************************************************************)
EXTENDS Integers

CONSTANTS
    Pids,         \* processes, the daemon among them
    Self,         \* the daemon
    Group,        \* process group of each process
    Mine,         \* the processes of the daemon's user
    Privileged,   \* whether the daemon has CAP_SYS_NICE, CAP_KILL, ...
    Word          \* modulus of rlim_t (2^64 in the code)

ASSUME ProcessesAssumption == /\ Pids \subseteq Nat \ {0}
                              /\ Self \in Mine /\ Mine \subseteq Pids
                              /\ Group \in [Pids -> Nat \ {0}]
                              /\ Privileged \in BOOLEAN
ASSUME WordAssumption      == Word \in Nat /\ Word % 2 = 0 /\ Word > 64

VARIABLE task   \* each process

RlimInfinity == Word - 1
Task == [alive : BOOLEAN, nice : -20 .. 19, cpu : 0 .. RlimInfinity,
         ram : 0 .. RlimInfinity]

Started == [p \in Pids |-> [alive |-> TRUE, nice |-> 0, cpu |-> RlimInfinity,
                            ram |-> RlimInfinity]]

Running == task[Self].alive

(* A process ends by itself. *)
Quit(p) == task[p].alive /\ task' = [task EXCEPT ![p].alive = FALSE]

(* A process of another user is out of reach. *)
MayTouch(p) == task[p].alive /\ (Privileged \/ p \in Mine)

-----------------------------------------------------------------------------
(* kill takes 0 for the caller's group, -1 for all processes but itself,   *)
(* and another negative number for a group.                                *)
Addressed(pid) ==
    {p \in Pids : \/ pid > 0 /\ p = pid
                  \/ pid = 0 /\ Group[p] = Group[Self]
                  \/ pid = -1 /\ p # Self
                  \/ pid < -1 /\ Group[p] = -pid}

Reached(pid) == {p \in Addressed(pid) : MayTouch(p)}

CanKill(pid, signo) == signo \in 1 .. 64 /\ Reached(pid) # {}

(* SIGKILL ends every process it reaches; of another signal some may die.  *)
Kill(pid, signo) ==
    /\ CanKill(pid, signo)
    /\ \E dead \in SUBSET Reached(pid) :
          /\ signo = 9 => dead = Reached(pid)
          /\ task' = [p \in Pids |-> IF p \in dead THEN [task[p] EXCEPT !.alive = FALSE]
                                     ELSE task[p]]

(* setpriority and prlimit take 0 for the caller, and know no negative pid.*)
Named(pid) == IF pid = 0 THEN {Self} ELSE {pid} \cap Pids

(* Only a privileged caller lowers a nice value or raises a hard limit.  A *)
(* nice value is clamped to its range.                                     *)
Clamped(n) == IF n < -20 THEN -20 ELSE IF n > 19 THEN 19 ELSE n

MaySetNice(p, n)       == MayTouch(p) /\ (Privileged \/ Clamped(n) >= task[p].nice)
MaySetLimit(old, p, v) == MayTouch(p) /\ (Privileged \/ v <= old)

CanSetNice(pid, n) == \E p \in Named(pid) : MaySetNice(p, n)
CanSetCpu(pid, v)  == \E p \in Named(pid) : MaySetLimit(task[p].cpu, p, v)
CanSetRam(pid, v)  == \E p \in Named(pid) : MaySetLimit(task[p].ram, p, v)

SetNice(pid, n) ==
    \E p \in Named(pid) :
        MaySetNice(p, n) /\ task' = [task EXCEPT ![p].nice = Clamped(n)]

SetCpu(pid, v) ==
    \E p \in Named(pid) :
        MaySetLimit(task[p].cpu, p, v) /\ task' = [task EXCEPT ![p].cpu = v]

SetRam(pid, v) ==
    \E p \in Named(pid) :
        MaySetLimit(task[p].ram, p, v) /\ task' = [task EXCEPT ![p].ram = v]
=============================================================================
