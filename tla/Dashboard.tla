------------------------------ MODULE Dashboard ------------------------------
(***************************************************************************)
(* The process page: app.js in the browser, with the requests it has under *)
(* way through the proxy (ProcessController, ApiProcessService) to the     *)
(* daemon.                                                                 *)
(*                                                                         *)
(* JavaScript runs one callback at a time, but every function that fetches *)
(* is cut in two at its "await": a callback that sends the request and one *)
(* that handles the answer.  Any number of requests is under way at once;  *)
(* the daemon serves them, and their answers arrive, in any order.  An     *)
(* action of the page is one callback.                                     *)
(*                                                                         *)
(* The daemon is what HttpDaemon shows of it: a form takes effect and is   *)
(* acknowledged, or does not and is refused; a signal is refused even if   *)
(* it was delivered.  Rows are the processes alive when a list was served. *)
(***************************************************************************)
EXTENDS Integers, Bags, BagsExt

CONSTANTS
    Pids,          \* process numbers
    Sorts,         \* what a table can be sorted by
    Shows,         \* sets of pids that the filters can let through
    Forms,         \* the forms of the page: "renice", "cpu", "ram"
    MaxVersion,    \* bound: changes of the machine
    MaxInFlight,   \* bound: requests under way
    MaxFailures    \* bound: requests that fail on their way

ASSUME ControlsAssumption == Sorts # {} /\ Shows # {} /\ Shows \subseteq SUBSET Pids
ASSUME FormsAssumption    == Forms \cap {"signal", "list"} = {}
ASSUME BoundsAssumption   == /\ MaxVersion \in Nat \ {0}
                             /\ MaxInFlight \in Nat /\ MaxFailures \in Nat

VARIABLES
    alive,         \* pids of the processes there are
    version,       \* how often the machine has changed
    loaded,        \* the "load" event has been handled
    frozen,        \* let frozen
    timers,        \* intervals that are running in the browser
    refreshTimer,  \* let refreshTimer, 0 for null
    controls,      \* sortField, and what the filters let through
    table,         \* the rows shown, how they were sorted and filtered, their version
    inflight,      \* bag of the requests under way
    failures,      \* requests that failed so far
    early,         \* history: Freeze was used before the page was loaded
    lost,          \* history: no list arrived since one failed
    newest,        \* history: the newest version the table has shown
    owed           \* history: version of the last effect whose refresh did not fail

machine == <<alive, version>>
timing  == <<loaded, frozen, timers, refreshTimer, early>>
page    == <<controls, table, lost, newest, owed>>
vars    == <<machine, timing, page, inflight, failures>>

Versions   == 0 .. MaxVersion
Controls   == [sort : Sorts, show : Shows]

(* A list carries the rows and the version it was served with, a signal or *)
(* a form the pid it names and the version its effect made.                *)
ListSent       == [kind |-> "list", phase |-> "sent"]
ListServed     == [kind |-> "list", phase |-> "served", rows |-> alive, version |-> version]
ListFailed     == [kind |-> "list", phase |-> "failed"]
Post(k, p)    == [kind |-> k, phase |-> "sent", pid |-> p]
Refused(m)    == [m EXCEPT !.phase = "refused"]
Broken(m)     == [m EXCEPT !.phase = "failed"]
Granted(m, v) == [kind |-> m.kind, phase |-> "ok", pid |-> m.pid, version |-> v]

Messages == DOMAIN inflight
Lists    == {m \in Messages : m.kind = "list"}
Posts    == Messages \ Lists
Room     == BagCardinality(inflight) < MaxInFlight

ListMessage ==
    [kind : {"list"}, phase : {"sent", "failed"}] \cup
    [kind : {"list"}, phase : {"served"}, rows : SUBSET Pids, version : Versions]
PostMessage ==
    [kind : Forms \cup {"signal"}, phase : {"sent", "refused", "failed"}, pid : Pids] \cup
    [kind : Forms, phase : {"ok", "failed"}, pid : Pids, version : Versions]

TypeOK ==
    /\ alive \subseteq Pids /\ version \in Versions
    /\ loaded \in BOOLEAN /\ frozen \in BOOLEAN /\ early \in BOOLEAN /\ lost \in BOOLEAN
    /\ timers \subseteq {1, 2} /\ refreshTimer \in 0 .. 2
    /\ controls \in Controls
    /\ table \in [rows : SUBSET Pids, version : Versions, controls : Controls]
    /\ newest \in Versions /\ owed \in Versions
    /\ IsABag(inflight) /\ failures \in 0 .. MaxFailures
    /\ Messages \subseteq ListMessage \cup PostMessage

Init ==
    /\ alive \in SUBSET Pids /\ version = 1
    /\ controls \in Controls
    /\ table = [rows |-> {}, version |-> 0, controls |-> controls]
    /\ loaded = FALSE /\ frozen = FALSE /\ timers = {} /\ refreshTimer = 0
    /\ inflight = EmptyBag /\ failures = 0
    /\ early = FALSE /\ lost = FALSE /\ newest = 0 /\ owed = 0

-----------------------------------------------------------------------------
(* The machine. *)

Becomes(who) ==
    /\ version < MaxVersion
    /\ version' = version + 1
    /\ alive' = who

Fork == /\ \E p \in Pids \ alive : Becomes(alive \cup {p})
        /\ UNCHANGED <<timing, page, inflight, failures>>
Exit == /\ \E p \in alive : Becomes(alive \ {p})
        /\ UNCHANGED <<timing, page, inflight, failures>>

-----------------------------------------------------------------------------
(* Callbacks that send a list request: fetchProcs up to its await. *)

Fetch == Room /\ inflight' = BagAdd(inflight, ListSent)

(* setInterval: a new timer, whose id goes to refreshTimer. *)
NewTimer == IF 1 \notin timers THEN 1 ELSE IF 2 \notin timers THEN 2 ELSE 3
StartTimer == timers' = timers \cup {NewTimer} /\ refreshTimer' = NewTimer

(* The listener of the "load" event. *)
Load ==
    /\ ~loaded
    /\ loaded' = TRUE
    /\ Fetch
    /\ StartTimer
    /\ UNCHANGED <<machine, frozen, early, page, failures>>

(* An interval runs out. *)
Fire ==
    /\ timers # {}
    /\ Fetch
    /\ UNCHANGED <<machine, timing, page, failures>>

ToggleForgets ==  \* mutant: the table thaws without a timer
    /\ frozen' = ~frozen
    /\ timers' = IF frozen' THEN timers \ {refreshTimer} ELSE timers
    /\ early' = (early \/ ~loaded)
    /\ UNCHANGED <<machine, loaded, refreshTimer, page, inflight, failures>>

ToggleTwice ==  \* mutant: checking the box does not stop the timer
    /\ frozen' = ~frozen
    /\ IF frozen' THEN UNCHANGED <<timers, refreshTimer>> ELSE StartTimer
    /\ early' = (early \/ ~loaded)
    /\ UNCHANGED <<machine, loaded, page, inflight, failures>>

(* toggleFreeze, when the box is checked and when it is cleared. *)
ToggleFreeze ==
    /\ frozen' = ~frozen
    /\ \/ frozen' /\ timers' = timers \ {refreshTimer} /\ UNCHANGED refreshTimer
       \/ ~frozen' /\ StartTimer
    /\ early' = (early \/ ~loaded)
    /\ UNCHANGED <<machine, loaded, page, inflight, failures>>

(* setSort, also with the field there is, and the filters, whose oninput   *)
(* and onchange are fetchProcs.                                            *)
SetControls ==
    /\ controls' \in Controls
    /\ Fetch
    /\ UNCHANGED <<machine, timing, table, lost, newest, owed, failures>>

-----------------------------------------------------------------------------
(* Callbacks that send a change. *)

(* The button of a row: doSignal(pid, 'KILL') with the pid of the row. *)
Kill ==
    /\ Room
    /\ \E p \in table.rows \cap table.controls.show :
          inflight' = BagAdd(inflight, Post("signal", p))
    /\ UNCHANGED <<machine, timing, page, failures>>

(* doRenice, doCpuLimit and doRamLimit: the pid is typed in by the user.   *)
Submit ==
    /\ Room
    /\ \E f \in Forms, p \in Pids : inflight' = BagAdd(inflight, Post(f, p))
    /\ UNCHANGED <<machine, timing, page, failures>>

-----------------------------------------------------------------------------
(* The proxy and the daemon. *)

Replace(m, n) == inflight' = BagAdd(BagRemove(inflight, m), n)

(* A list of all processes, through fetchProcesses and all. *)
ServeList ==
    /\ ListSent \in Messages
    /\ Replace(ListSent, ListServed)
    /\ UNCHANGED <<machine, timing, page, failures>>

(* KILL ends whoever has the pid.  The daemon queues no response for it    *)
(* and refuses its second dispatch; postForLocation throws on that.        *)
ServeSignal ==
    /\ \E m \in Posts :
          /\ m.kind = "signal" /\ m.phase = "sent"
          /\ \/ m.pid \in alive /\ Becomes(alive \ {m.pid})
             \/ UNCHANGED machine
          /\ Replace(m, Refused(m))
    /\ UNCHANGED <<timing, page, failures>>

(* renice, limitCpu and limitRam: 204 for the page if the daemon changed   *)
(* the process, an exception in postForLocation and 500 if it did not.     *)
ServeForm ==
    /\ \E m \in Posts :
          /\ m.kind # "signal" /\ m.phase = "sent"
          /\ \/ m.pid \in alive /\ Becomes(alive) /\ Replace(m, Granted(m, version'))
             \/ UNCHANGED machine /\ Replace(m, Refused(m))
    /\ UNCHANGED <<timing, page, failures>>

(* The connection breaks, before or after the daemon has done its part.    *)
(* r.json() or fetch throws in the page.                                   *)
Fail ==
    /\ failures < MaxFailures
    /\ failures' = failures + 1
    /\ UNCHANGED <<machine, timing, page>>
    /\ \E m \in Messages :
          \/ m.kind = "list" /\ m.phase # "failed" /\ Replace(m, ListFailed)
          \/ m.kind # "list" /\ m.phase \in {"sent", "ok"} /\ Replace(m, Broken(m))

-----------------------------------------------------------------------------
(* Callbacks that handle an answer: the functions from their await on. *)

Later(v, w) == IF v > w THEN v ELSE w

RenderOldControls(m) ==  \* mutant: the table keeps the controls it had
    /\ table' = [rows |-> m.rows, version |-> m.version, controls |-> table.controls]
    /\ newest' = Later(newest, m.version)
    /\ lost' = FALSE
    /\ UNCHANGED <<controls, owed>>

(* fetchProcs: sort and filter with the controls as they are now, and      *)
(* rebuild the table body.                                                 *)
Render(m) ==
    /\ table' = [rows |-> m.rows, version |-> m.version, controls |-> controls]
    /\ newest' = Later(newest, m.version)
    /\ lost' = FALSE
    /\ UNCHANGED <<controls, owed>>

(* The catch of fetchProcs: the table stays.  No effect is owed any more.  *)
Skip == lost' = TRUE /\ owed' = 0 /\ UNCHANGED <<controls, table, newest>>

DeliverList ==
    /\ \E m \in Lists :
          /\ m.phase # "sent"
          /\ inflight' = BagRemove(inflight, m)
          /\ \/ m.phase = "served" /\ Render(m)
             \/ m.phase = "failed" /\ Skip
    /\ UNCHANGED <<machine, timing, failures>>

AckAlone(m) ==  \* mutant: an acknowledgement does not refresh the table
    /\ m.phase = "ok"
    /\ inflight' = BagRemove(inflight, m)
    /\ owed' = Later(owed, m.version)
    /\ UNCHANGED <<machine, timing, controls, table, lost, newest, failures>>

(* The request was acknowledged: fetchProcs.                               *)
Acknowledge(m) ==
    /\ m.phase = "ok"
    /\ Replace(m, ListSent)
    /\ owed' = Later(owed, m.version)
    /\ UNCHANGED <<machine, timing, controls, table, lost, newest, failures>>

(* It was not: alert, and no refresh. *)
Alert(m) ==
    /\ m.phase \in {"refused", "failed"}
    /\ inflight' = BagRemove(inflight, m)
    /\ UNCHANGED <<machine, timing, page, failures>>

DeliverPost == \E m \in Posts : Acknowledge(m) \/ Alert(m)

-----------------------------------------------------------------------------
Next ==
    \/ Fork \/ Exit
    \/ Load \/ Fire \/ ToggleFreeze \/ SetControls
    \/ Kill \/ Submit
    \/ ServeList \/ ServeSignal \/ ServeForm \/ Fail
    \/ DeliverList \/ DeliverPost

Spec == Init /\ [][Next]_vars

(* The daemon and the browser get on with what they have been given.  An   *)
(* interval fires again and again; it is strong fairness only because the  *)
(* bound MaxInFlight, which the browser does not have, may hold it up.     *)
Fairness ==
    /\ WF_vars(ServeList) /\ WF_vars(ServeSignal) /\ WF_vars(ServeForm)
    /\ WF_vars(DeliverList) /\ WF_vars(DeliverPost)
    /\ SF_vars(Fire)

FairSpec == Spec /\ Fairness

-----------------------------------------------------------------------------
(* When no list is under way, the table is sorted and filtered as the      *)
(* controls say, however requests overlapped while they were changed: they *)
(* are read after the await (app.js:60-90), and every change fetches.      *)
ControlsHonoured ==
    (Lists = {} /\ ~lost) => table.controls = controls

(* Refreshing follows the box: frozen, no interval runs; thawed, exactly   *)
(* the one that the next freeze will clear (app.js:41-49, 209).            *)
TimersFollowFreeze ==
    (loaded /\ ~early) => timers = IF frozen THEN {} ELSE {refreshTimer}

(* An effect that was acknowledged has been in the table by the time no    *)
(* list is under way, unless a list failed: the refresh is sent after the  *)
(* acknowledgement (app.js:166, 183, 200), not beside the request.         *)
EffectShown == Lists = {} => newest >= owed

(* Once the page stays thawed, the table comes to show the machine as it   *)
(* is and stays so: lists that were overtaken, or failed, are made good by *)
(* a later interval.                                                       *)
Fresh == table.version = version
TableCatchesUp == <>[](loaded /\ ~frozen) => <>[]Fresh
=============================================================================
