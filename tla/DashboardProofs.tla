--------------------------- MODULE DashboardProofs ----------------------------
(***************************************************************************)
(* The dashboard, for every number of processes, of requests under way and *)
(* of failures: the interval follows the Freeze box, the table follows the *)
(* controls, and an acknowledged effect is shown.                          *)
(***************************************************************************)
EXTENDS Dashboard, TLAPS

(* What a step can do to the messages under way. *)
LEMMA MessageAdded ==
    ASSUME NEW B, NEW x
    PROVE  DOMAIN BagAdd(B, x) = DOMAIN B \cup {x}
BY DEF BagAdd

LEMMA MessageRemoved ==
    ASSUME NEW B, NEW x
    PROVE  DOMAIN B \ {x} \subseteq DOMAIN BagRemove(B, x)
           /\ DOMAIN BagRemove(B, x) \subseteq DOMAIN B
BY DEF BagRemove

-----------------------------------------------------------------------------
(* The interval.  Before the page is loaded there is at most one, which    *)
(* the box has started; loading may leave it to run on its own, and later  *)
(* steps keep it at that.                                                  *)
TimerInv ==
    /\ loaded \in BOOLEAN /\ frozen \in BOOLEAN /\ early \in BOOLEAN
    /\ timers \subseteq {1, 2} /\ refreshTimer \in 0 .. 2
    /\ ~loaded => timers \subseteq {1} /\ (timers # {} => refreshTimer = 1)
    /\ frozen /\ ~loaded => timers = {}
    /\ ~early /\ ~loaded => timers = {} /\ ~frozen
    /\ frozen => timers # {1, 2}
    /\ loaded /\ ~frozen => refreshTimer \in timers
    /\ TimersFollowFreeze

LEMMA InitTimers == Init => TimerInv
<1> SUFFICES ASSUME Init PROVE TimerInv
  OBVIOUS
<1>1. loaded = FALSE /\ frozen = FALSE /\ early = FALSE
  BY Zenon DEF Init
<1>2. timers = {} /\ refreshTimer = 0
  BY Zenon DEF Init
<1>3. loaded \in BOOLEAN /\ frozen \in BOOLEAN /\ early \in BOOLEAN
  BY <1>1
<1>4. timers \subseteq {1, 2} /\ refreshTimer \in 0 .. 2 /\ timers # {1, 2}
  BY <1>2
<1>5. TimersFollowFreeze
  BY <1>1 DEF TimersFollowFreeze
<1> QED BY <1>1, <1>2, <1>3, <1>4, <1>5 DEF TimerInv

LEMMA LoadTimers ==
    ASSUME TimerInv, Load
    PROVE  TimerInv'
<1>1. loaded' = TRUE /\ ~loaded /\ frozen' = frozen /\ early' = early
  BY DEF Load
<1>2. timers' = timers \cup {NewTimer} /\ refreshTimer' = NewTimer
  BY DEF Load, StartTimer
<1>3. CASE timers = {}
  BY <1>1, <1>2, <1>3 DEF TimerInv, TimersFollowFreeze, NewTimer
<1>4. CASE timers = {1}
  BY <1>1, <1>2, <1>4 DEF TimerInv, TimersFollowFreeze, NewTimer
<1> QED BY <1>1, <1>3, <1>4 DEF TimerInv

LEMMA ToggleTimers ==
    ASSUME TimerInv, ToggleFreeze
    PROVE  TimerInv'
<1>1. loaded' = loaded /\ frozen' = ~frozen /\ early' = (early \/ ~loaded)
  BY DEF ToggleFreeze
<1>2. CASE frozen
  <2>1. timers' = timers \cup {NewTimer} /\ refreshTimer' = NewTimer
    BY <1>1, <1>2 DEF ToggleFreeze, StartTimer
  <2>2. timers = {} \/ timers = {1} \/ timers = {2}
    BY <1>2 DEF TimerInv
  <2>3. CASE timers = {}
    BY <1>1, <1>2, <2>1, <2>3 DEF TimerInv, TimersFollowFreeze, NewTimer
  <2>4. CASE timers = {1}
    <3>1. loaded /\ early
      BY <1>2, <2>4 DEF TimerInv, TimersFollowFreeze
    <3>2. NewTimer = 2
      BY <2>4 DEF NewTimer
    <3>3. loaded' = TRUE /\ early' = TRUE /\ frozen' = FALSE
      BY <1>1, <1>2, <3>1 DEF TimerInv
    <3>4. timers' = {1, 2} /\ refreshTimer' = 2
      BY <2>1, <2>4, <3>2
    <3>5. loaded' \in BOOLEAN /\ frozen' \in BOOLEAN /\ early' \in BOOLEAN
      BY <3>3
    <3>6. timers' \subseteq {1, 2} /\ refreshTimer' \in 0 .. 2 /\ refreshTimer' \in timers'
      BY <3>4
    <3>7. TimersFollowFreeze'
      BY <3>3 DEF TimersFollowFreeze
    <3> QED BY <3>3, <3>5, <3>6, <3>7 DEF TimerInv
  <2>5. CASE timers = {2}
    <3>1. loaded /\ early
      BY <1>2, <2>5 DEF TimerInv, TimersFollowFreeze
    <3>2. NewTimer = 1
      BY <2>5 DEF NewTimer
    <3>3. loaded' = TRUE /\ early' = TRUE /\ frozen' = FALSE
      BY <1>1, <1>2, <3>1 DEF TimerInv
    <3>4. timers' = {1, 2} /\ refreshTimer' = 1
      BY <2>1, <2>5, <3>2
    <3>5. loaded' \in BOOLEAN /\ frozen' \in BOOLEAN /\ early' \in BOOLEAN
      BY <3>3
    <3>6. timers' \subseteq {1, 2} /\ refreshTimer' \in 0 .. 2 /\ refreshTimer' \in timers'
      BY <3>4
    <3>7. TimersFollowFreeze'
      BY <3>3 DEF TimersFollowFreeze
    <3> QED BY <3>3, <3>5, <3>6, <3>7 DEF TimerInv
  <2> QED BY <2>2, <2>3, <2>4, <2>5
<1>3. CASE ~frozen
  <2>1. timers' = timers \ {refreshTimer} /\ refreshTimer' = refreshTimer
    BY <1>1, <1>3 DEF ToggleFreeze
  <2>2. timers \in SUBSET {1, 2}
    BY DEF TimerInv
  <2> QED BY <1>1, <1>3, <2>1, <2>2 DEF TimerInv, TimersFollowFreeze
<1> QED BY <1>2, <1>3

LEMMA NextTimers == TimerInv /\ [Next]_vars => TimerInv'
<1> SUFFICES ASSUME TimerInv, [Next]_vars PROVE TimerInv'
  OBVIOUS
<1>1. CASE Load
  BY <1>1, LoadTimers
<1>2. CASE ToggleFreeze
  BY <1>2, ToggleTimers
<1>3. CASE UNCHANGED timing
  BY <1>3 DEF timing, TimerInv, TimersFollowFreeze
<1>4. Fork \/ Exit \/ Fire \/ SetControls \/ Kill \/ Submit \/ ServeList \/ ServeSignal
        \/ ServeForm \/ Fail \/ DeliverList \/ DeliverPost \/ UNCHANGED vars
        => UNCHANGED timing
  BY DEF Fork, Exit, Fire, SetControls, Kill, Submit, ServeList, ServeSignal, ServeForm, Fail,
         DeliverList, DeliverPost, Acknowledge, Alert, vars, timing
<1> QED BY <1>1, <1>2, <1>3, <1>4 DEF Next

(* A page that was loaded before Freeze was used refreshes itself exactly  *)
(* while it is thawed, however often the box is used (app.js:41-49, 209).  *)
THEOREM TimersCorrect == Spec => []TimersFollowFreeze
<1>1. TimerInv => TimersFollowFreeze
  BY DEF TimerInv
<1> QED BY <1>1, InitTimers, NextTimers, PTL DEF Spec

-----------------------------------------------------------------------------
(* The messages under way. *)
MessagesTyped == Messages \subseteq ListMessage \cup PostMessage

LEMMA KindTells ==
    /\ \A m \in ListMessage : m.kind = "list"
    /\ \A m \in PostMessage : m.kind # "list"
BY FormsAssumption DEF ListMessage, PostMessage

LEMMA KindsOfMessages ==
    ASSUME MessagesTyped
    PROVE  Lists \subseteq ListMessage /\ Posts \subseteq PostMessage
BY KindTells DEF MessagesTyped, Lists, Posts

LEMMA RefusedIs ==
    ASSUME NEW m \in PostMessage, m.phase = "sent"
    PROVE  Refused(m) \in PostMessage /\ Refused(m).phase = "refused"
BY DEF PostMessage, Refused

LEMMA BrokenIs ==
    ASSUME NEW m \in PostMessage
    PROVE  Broken(m) \in PostMessage /\ Broken(m).phase = "failed"
<1>1. CASE m \in [kind : Forms \cup {"signal"}, phase : {"sent", "refused", "failed"}, pid : Pids]
  BY <1>1 DEF PostMessage, Broken
<1>2. CASE m \in [kind : Forms, phase : {"ok", "failed"}, pid : Pids, version : Versions]
  BY <1>2 DEF PostMessage, Broken
<1> QED BY <1>1, <1>2 DEF PostMessage

LEMMA GrantedIs ==
    ASSUME NEW m \in PostMessage, m.kind # "signal", NEW v \in Versions
    PROVE  /\ Granted(m, v) \in PostMessage
           /\ Granted(m, v).phase = "ok" /\ Granted(m, v).version = v
BY DEF PostMessage, Granted

(* A step either adds a list request, or leaves the lists that were under  *)
(* way, or handles an answer of one.                                       *)
LEMMA FetchAdds ==
    ASSUME Fetch
    PROVE  Messages' = Messages \cup {ListSent} /\ ListSent \in Lists'
<1>1. Messages' = Messages \cup {ListSent}
  BY MessageAdded DEF Fetch, Messages
<1> QED BY <1>1 DEF Lists, ListSent

LEMMA ReplaceKeeps ==
    ASSUME NEW m \in Messages, NEW n, Replace(m, n)
    PROVE  /\ Messages \ {m} \subseteq Messages'
           /\ n \in Messages'
           /\ Messages' \subseteq Messages \cup {n}
<1>1. Messages' = DOMAIN BagRemove(inflight, m) \cup {n}
  BY MessageAdded DEF Replace, Messages
<1> QED BY <1>1, MessageRemoved DEF Messages

LEMMA PostReplaced ==
    ASSUME NEW m \in Posts, NEW n, Replace(m, n)
    PROVE  Lists \subseteq Lists'
<1>1. m \in Messages /\ m.kind # "list"
  BY DEF Posts, Lists
<1> QED BY <1>1, ReplaceKeeps DEF Lists

LEMMA ListReplaced ==
    ASSUME NEW m \in Messages, NEW n, n.kind = "list", Replace(m, n)
    PROVE  n \in Lists'
BY ReplaceKeeps DEF Lists

-----------------------------------------------------------------------------
(* The controls.  The property is inductive: whoever changes the controls  *)
(* sends a request, and whoever handles its answer reads them.             *)
LEMMA ListsKept ==
    ASSUME ControlsHonoured, Lists \subseteq Lists', UNCHANGED <<controls, table, lost>>
    PROVE  ControlsHonoured'
BY DEF ControlsHonoured

LEMMA ListUnderWay ==
    ASSUME Lists' # {}
    PROVE  ControlsHonoured'
BY DEF ControlsHonoured

LEMMA NextControls == ControlsHonoured /\ [Next]_vars => ControlsHonoured'
<1> SUFFICES ASSUME ControlsHonoured, [Next]_vars PROVE ControlsHonoured'
  OBVIOUS
<1>1. CASE Fork \/ Exit \/ ToggleFreeze \/ UNCHANGED vars
  <2>1. Lists' = Lists /\ UNCHANGED <<controls, table, lost>>
    BY <1>1 DEF Fork, Exit, ToggleFreeze, vars, page, Lists, Messages
  <2> QED BY <2>1, ListsKept
<1>2. CASE Load \/ Fire \/ SetControls
  <2>1. Fetch
    BY <1>2 DEF Load, Fire, SetControls
  <2> QED BY <2>1, FetchAdds, ListUnderWay
<1>3. CASE Kill \/ Submit
  <2>1. PICK x : inflight' = BagAdd(inflight, x)
    BY <1>3 DEF Kill, Submit
  <2>2. Lists \subseteq Lists'
    BY <2>1, MessageAdded DEF Lists, Messages
  <2>3. UNCHANGED <<controls, table, lost>>
    BY <1>3 DEF Kill, Submit, page
  <2> QED BY <2>2, <2>3, ListsKept
<1>4. CASE ServeList
  <2>1. ListServed \in Lists'
    BY <1>4, ListReplaced DEF ServeList, ListServed
  <2> QED BY <2>1, ListUnderWay
<1>5. CASE ServeSignal \/ ServeForm
  <2>1. PICK m, n : m \in Posts /\ Replace(m, n)
    BY <1>5 DEF ServeSignal, ServeForm
  <2>2. UNCHANGED <<controls, table, lost>>
    BY <1>5 DEF ServeSignal, ServeForm, page
  <2> QED BY <2>1, <2>2, PostReplaced, ListsKept
<1>6. CASE Fail
  <2>1. UNCHANGED <<controls, table, lost>>
    BY <1>6 DEF Fail, page
  <2>2. PICK m \in Messages :
         \/ m.kind = "list" /\ Replace(m, ListFailed)
         \/ m.kind # "list" /\ Replace(m, Broken(m))
    BY <1>6 DEF Fail
  <2>3. CASE m.kind = "list"
    <3>1. ListFailed \in Lists'
      BY <2>2, <2>3, ListReplaced DEF ListFailed
    <3> QED BY <3>1, ListUnderWay
  <2>4. CASE m.kind # "list"
    <3>1. m \in Posts
      BY <2>4 DEF Posts, Lists
    <3> QED BY <2>1, <2>2, <2>4, <3>1, PostReplaced, ListsKept
  <2> QED BY <2>3, <2>4
<1>7. CASE DeliverList
  <2>1. PICK m \in Lists : Render(m) \/ Skip
    BY <1>7 DEF DeliverList
  <2>2. CASE Render(m)
    BY <2>2 DEF Render, ControlsHonoured
  <2>3. CASE Skip
    BY <2>3 DEF Skip, ControlsHonoured
  <2> QED BY <2>1, <2>2, <2>3
<1>8. CASE DeliverPost
  <2>1. PICK m \in Posts : Acknowledge(m) \/ Alert(m)
    BY <1>8 DEF DeliverPost
  <2>2. CASE Acknowledge(m)
    <3>1. ListSent \in Lists'
      BY <2>2, ListReplaced DEF Acknowledge, ListSent, Posts
    <3> QED BY <3>1, ListUnderWay
  <2>3. CASE Alert(m)
    <3>1. inflight' = BagRemove(inflight, m) /\ m.kind # "list"
      BY <2>3 DEF Alert, Posts, Lists
    <3>2. Lists \subseteq Lists'
      BY <3>1, MessageRemoved DEF Lists, Messages
    <3> QED BY <2>3, <3>2, ListsKept DEF Alert, page
  <2> QED BY <2>1, <2>2, <2>3
<1> QED BY <1>1, <1>2, <1>3, <1>4, <1>5, <1>6, <1>7, <1>8 DEF Next

(* When every list request has been answered, the table is sorted and      *)
(* filtered as the controls say, unless the last thing that happened to a  *)
(* list is that it failed (app.js:60-90, 122-127).                         *)
THEOREM ControlsCorrect == Spec => []ControlsHonoured
<1>1. Init => ControlsHonoured
  BY DEF Init, ControlsHonoured
<1> QED BY <1>1, NextControls, PTL DEF Spec

-----------------------------------------------------------------------------
(* Types. *)
LEMMA BagAddIsBag ==
    ASSUME NEW B, NEW x, IsABag(B)
    PROVE  IsABag(BagAdd(B, x))
BY DEF IsABag, BagAdd

LEMMA BagRemoveIsBag ==
    ASSUME NEW B, NEW x, IsABag(B)
    PROVE  IsABag(BagRemove(B, x))
BY DEF IsABag, BagRemove

(* Everything but the interval. *)
MachineTyped == alive \subseteq Pids /\ version \in Versions
PageTyped ==
    /\ controls \in Controls /\ lost \in BOOLEAN
    /\ table \in [rows : SUBSET Pids, version : Versions, controls : Controls]
    /\ newest \in Versions /\ owed \in Versions
RequestsTyped == MessagesTyped /\ IsABag(inflight) /\ failures \in 0 .. MaxFailures

LEMMA InitTyped == Init => MachineTyped /\ PageTyped /\ RequestsTyped
<1> SUFFICES ASSUME Init PROVE MachineTyped /\ PageTyped /\ RequestsTyped
  OBVIOUS
<1>1. MachineTyped
  BY BoundsAssumption DEF Init, MachineTyped, Versions
<1>2. PageTyped
  <2>1. controls \in Controls /\ table = [rows |-> {}, version |-> 0, controls |-> controls]
    BY DEF Init
  <2>2. lost = FALSE /\ newest = 0 /\ owed = 0
    BY Zenon DEF Init
  <2>3. lost \in BOOLEAN
    BY <2>2
  <2>4. 0 \in Versions
    BY BoundsAssumption DEF Versions
  <2>5. table \in [rows : SUBSET Pids, version : Versions, controls : Controls]
    BY <2>1, <2>4
  <2> QED BY <2>1, <2>2, <2>3, <2>4, <2>5 DEF PageTyped
<1>3. RequestsTyped
  <2>1. DOMAIN inflight = {} /\ IsABag(inflight)
    BY DEF Init, EmptyBag, SetToBag, IsABag
  <2> QED BY <2>1, BoundsAssumption DEF Init, RequestsTyped, MessagesTyped, Messages
<1> QED BY <1>1, <1>2, <1>3

LEMMA VersionGrows ==
    ASSUME MachineTyped, NEW who \in SUBSET Pids, Becomes(who)
    PROVE  MachineTyped' /\ version' = version + 1
BY BoundsAssumption DEF MachineTyped, Becomes, Versions

LEMMA NextMachine == MachineTyped /\ [Next]_vars => MachineTyped' /\ version' >= version
<1> SUFFICES ASSUME MachineTyped, [Next]_vars PROVE MachineTyped' /\ version' >= version
  OBVIOUS
<1>1. CASE UNCHANGED machine
  BY <1>1, BoundsAssumption DEF machine, MachineTyped, Versions
<1>2. CASE \E who \in SUBSET Pids : Becomes(who)
  BY <1>2, VersionGrows, BoundsAssumption DEF MachineTyped, Versions
<1>3. UNCHANGED machine \/ \E who \in SUBSET Pids : Becomes(who)
  <2>1. CASE Fork
    BY <2>1 DEF Fork, MachineTyped
  <2>2. CASE Exit
    BY <2>2 DEF Exit, MachineTyped
  <2>3. CASE ServeSignal
    BY <2>3 DEF ServeSignal, MachineTyped
  <2>4. CASE ServeForm
    BY <2>4 DEF ServeForm, MachineTyped
  <2>5. CASE UNCHANGED machine
    BY <2>5
  <2>6. Load \/ Fire \/ ToggleFreeze \/ SetControls \/ Kill \/ Submit \/ ServeList \/ Fail
          \/ DeliverList \/ DeliverPost \/ UNCHANGED vars => UNCHANGED machine
    BY DEF Load, Fire, ToggleFreeze, SetControls, Kill, Submit, ServeList, Fail,
           DeliverList, DeliverPost, Acknowledge, Alert, vars
  <2> QED BY <2>1, <2>2, <2>3, <2>4, <2>5, <2>6 DEF Next
<1> QED BY <1>1, <1>2, <1>3

(* What a step puts among the messages under way is a message. *)
LEMMA NewMessages ==
    ASSUME MachineTyped
    PROVE  /\ ListSent \in ListMessage /\ ListFailed \in ListMessage
           /\ ListServed \in ListMessage
           /\ \A k \in Forms \cup {"signal"}, p \in Pids : Post(k, p) \in PostMessage
BY DEF MachineTyped, ListSent, ListFailed, ListServed, Post, ListMessage, PostMessage

LEMMA AddTyped ==
    ASSUME MessagesTyped, IsABag(inflight), NEW x \in ListMessage \cup PostMessage,
           inflight' = BagAdd(inflight, x)
    PROVE  MessagesTyped' /\ IsABag(inflight)'
<1>1. Messages' = Messages \cup {x}
  BY MessageAdded DEF Messages
<1>2. IsABag(inflight)'
  BY BagAddIsBag
<1> QED BY <1>1, <1>2 DEF MessagesTyped

LEMMA RemoveTyped ==
    ASSUME MessagesTyped, IsABag(inflight), NEW x, inflight' = BagRemove(inflight, x)
    PROVE  MessagesTyped' /\ IsABag(inflight)'
BY MessageRemoved, BagRemoveIsBag DEF MessagesTyped, Messages

LEMMA ReplaceTyped ==
    ASSUME MessagesTyped, IsABag(inflight), NEW m \in Messages,
           NEW n \in ListMessage \cup PostMessage, Replace(m, n)
    PROVE  MessagesTyped' /\ IsABag(inflight)'
<1>1. MessagesTyped'
  BY ReplaceKeeps DEF MessagesTyped
<1>2. IsABag(inflight)'
  BY BagAddIsBag, BagRemoveIsBag DEF Replace
<1> QED BY <1>1, <1>2

LEMMA NextRequests ==
    ASSUME MachineTyped, PageTyped, RequestsTyped, [Next]_vars
    PROVE  RequestsTyped'
<1> USE DEF RequestsTyped
<1>1. CASE Fork \/ Exit \/ ToggleFreeze \/ UNCHANGED vars
  BY <1>1 DEF Fork, Exit, ToggleFreeze, vars, MessagesTyped, Messages
<1>2. CASE Load \/ Fire \/ SetControls
  <2>1. inflight' = BagAdd(inflight, ListSent) /\ failures' = failures
    BY <1>2 DEF Load, Fire, SetControls, Fetch
  <2> QED BY <2>1, NewMessages, AddTyped
<1>3. CASE Kill \/ Submit
  <2>1. failures' = failures
    BY <1>3 DEF Kill, Submit
  <2>2. PICK k \in Forms \cup {"signal"}, p \in Pids : inflight' = BagAdd(inflight, Post(k, p))
    BY <1>3 DEF Kill, Submit, PageTyped
  <2> QED BY <2>1, <2>2, NewMessages, AddTyped
<1>4. CASE ServeList
  <2>1. ListSent \in Messages /\ Replace(ListSent, ListServed) /\ failures' = failures
    BY <1>4 DEF ServeList
  <2> QED BY <2>1, NewMessages, ReplaceTyped
<1>5. CASE ServeSignal
  <2>1. failures' = failures
    BY <1>5 DEF ServeSignal
  <2>2. PICK m \in Posts : m.phase = "sent" /\ Replace(m, Refused(m))
    BY <1>5 DEF ServeSignal
  <2>3. m \in Messages /\ Refused(m) \in PostMessage
    BY <2>2, KindsOfMessages, RefusedIs DEF Posts
  <2> QED BY <2>1, <2>2, <2>3, ReplaceTyped
<1>6. CASE ServeForm
  <2>1. failures' = failures /\ version' \in Versions
    BY <1>6, NextMachine DEF ServeForm, MachineTyped
  <2>2. PICK m \in Posts : /\ m.kind # "signal" /\ m.phase = "sent"
                           /\ Replace(m, Granted(m, version')) \/ Replace(m, Refused(m))
    BY <1>6 DEF ServeForm
  <2>3. m \in Messages /\ m \in PostMessage
    BY KindsOfMessages DEF Posts
  <2>4. Refused(m) \in PostMessage
    BY <2>2, <2>3, RefusedIs
  <2>5. Granted(m, version') \in PostMessage
    BY <2>1, <2>2, <2>3, GrantedIs
  <2> QED BY <2>1, <2>2, <2>3, <2>4, <2>5, ReplaceTyped
<1>7. CASE Fail
  <2>1. failures' \in 0 .. MaxFailures
    BY <1>7, BoundsAssumption DEF Fail
  <2>2. PICK m \in Messages :
         \/ m.kind = "list" /\ Replace(m, ListFailed)
         \/ m.kind # "list" /\ Replace(m, Broken(m))
    BY <1>7 DEF Fail
  <2>3. m.kind # "list" => Broken(m) \in PostMessage
    BY KindsOfMessages, BrokenIs DEF Posts, Lists
  <2> QED BY <2>1, <2>2, <2>3, NewMessages, ReplaceTyped
<1>8. CASE DeliverList
  <2>1. PICK m : inflight' = BagRemove(inflight, m) /\ failures' = failures
    BY <1>8 DEF DeliverList
  <2> QED BY <2>1, RemoveTyped
<1>9. CASE DeliverPost
  <2>1. PICK m \in Posts : Acknowledge(m) \/ Alert(m)
    BY <1>9 DEF DeliverPost
  <2>2. failures' = failures
    BY <2>1 DEF Acknowledge, Alert
  <2>3. CASE Acknowledge(m)
    BY <2>2, <2>3, NewMessages, ReplaceTyped DEF Acknowledge, Posts
  <2>4. CASE Alert(m)
    BY <2>2, <2>4, RemoveTyped DEF Alert
  <2> QED BY <2>1, <2>3, <2>4
<1> QED BY <1>1, <1>2, <1>3, <1>4, <1>5, <1>6, <1>7, <1>8, <1>9 DEF Next

(* An answer that the page handles has the parts it reads. *)
LEMMA AnswerParts ==
    /\ \A m \in ListMessage : m.phase = "served" => m.rows \subseteq Pids /\ m.version \in Versions
    /\ \A m \in PostMessage : m.phase = "ok" => m.version \in Versions
BY DEF ListMessage, PostMessage

LEMMA NextPage ==
    ASSUME PageTyped, RequestsTyped, [Next]_vars
    PROVE  PageTyped'
<1> USE DEF PageTyped
<1>1. CASE UNCHANGED page
  BY <1>1 DEF page
<1>2. CASE SetControls
  BY <1>2 DEF SetControls
<1>3. CASE DeliverList
  <2>1. PICK m \in Lists : (m.phase = "served" /\ Render(m)) \/ Skip
    BY <1>3 DEF DeliverList
  <2>2. CASE m.phase = "served" /\ Render(m)
    <3>1. m.rows \subseteq Pids /\ m.version \in Versions
      BY <2>2, AnswerParts, KindsOfMessages DEF RequestsTyped
    <3>2. newest' \in Versions
      BY <2>2, <3>1 DEF Render, Later
    <3>3. lost' \in BOOLEAN
      BY <2>2 DEF Render
    <3> QED BY <2>2, <3>1, <3>2, <3>3 DEF Render
  <2>3. CASE Skip
    <3>1. lost' \in BOOLEAN /\ owed' = 0
      BY <2>3 DEF Skip
    <3>2. 0 \in Versions
      BY BoundsAssumption DEF Versions
    <3> QED BY <2>3, <3>1, <3>2 DEF Skip
  <2> QED BY <2>1, <2>2, <2>3
<1>4. CASE DeliverPost
  <2>1. PICK m \in Posts : Acknowledge(m) \/ UNCHANGED page
    BY <1>4 DEF DeliverPost, Alert
  <2>2. CASE Acknowledge(m)
    <3>1. m.version \in Versions
      BY <2>2, AnswerParts, KindsOfMessages DEF Acknowledge, RequestsTyped
    <3>2. owed' \in Versions
      BY <2>2, <3>1 DEF Acknowledge, Later
    <3> QED BY <2>2, <3>2 DEF Acknowledge
  <2> QED BY <1>1, <2>1, <2>2
<1>5. Fork \/ Exit \/ Load \/ Fire \/ ToggleFreeze \/ Kill \/ Submit \/ ServeList \/ ServeSignal
        \/ ServeForm \/ Fail \/ UNCHANGED vars => UNCHANGED page
  BY DEF Fork, Exit, Load, Fire, ToggleFreeze, Kill, Submit, ServeList, ServeSignal, ServeForm,
         Fail, vars
<1> QED BY <1>1, <1>2, <1>3, <1>4, <1>5 DEF Next

(* The page never holds more than two intervals, and every message under   *)
(* way has the parts that the page reads of it (app.js:55-57, 165-200).    *)
THEOREM TypeCorrect == Spec => []TypeOK
<1> DEFINE Inv == MachineTyped /\ PageTyped /\ RequestsTyped /\ TimerInv
<1>1. Init => Inv
  BY InitTyped, InitTimers
<1>2. Inv /\ [Next]_vars => Inv'
  BY NextMachine, NextPage, NextRequests, NextTimers
<1>3. Inv => TypeOK
  BY DEF MachineTyped, PageTyped, RequestsTyped, MessagesTyped, TimerInv, TypeOK
<1> HIDE DEF Inv
<1> QED BY <1>1, <1>2, <1>3, PTL DEF Spec

-----------------------------------------------------------------------------
(* Effects.  Until an effect that was acknowledged is shown, a list is     *)
(* under way that will show it, or fail: one that has not been served, or  *)
(* was served with this version of the machine or a later one.             *)
Pending(m, v) == m.phase = "served" => m.version >= v

EffectInv ==
    /\ MachineTyped /\ PageTyped /\ RequestsTyped
    /\ owed <= version
    /\ \A m \in Posts : m.phase = "ok" => m.version <= version
    /\ newest >= owed \/ \E m \in Lists : Pending(m, owed)

LEMMA InitEffect == Init => EffectInv
<1> SUFFICES ASSUME Init PROVE EffectInv
  OBVIOUS
<1>1. version = 1 /\ owed = 0 /\ newest = 0
  BY DEF Init
<1>2. Messages = {}
  BY DEF Init, EmptyBag, SetToBag, Messages
<1>3. \A m \in Posts : m.phase = "ok" => m.version <= version
  BY <1>2 DEF Posts
<1> QED BY <1>1, <1>3, InitTyped DEF EffectInv

(* A step puts at most one new message under way, and an acknowledgement   *)
(* among them names the version that its effect has just made.             *)
LEMMA OneNew ==
    ASSUME RequestsTyped, [Next]_vars
    PROVE  \E x : /\ Messages' \subseteq Messages \cup {x}
                  /\ x.kind = "list" \/ x.phase # "ok" \/ x.version = version'
<1>1. CASE Fork \/ Exit \/ ToggleFreeze \/ UNCHANGED vars
  <2>1. Messages' = Messages
    BY <1>1 DEF Fork, Exit, ToggleFreeze, vars, Messages
  <2>2. ListSent.kind = "list"
    BY DEF ListSent
  <2> QED BY <2>1, <2>2
<1>2. CASE Load \/ Fire \/ SetControls
  <2>1. Fetch
    BY <1>2 DEF Load, Fire, SetControls
  <2>2. ListSent.kind = "list"
    BY DEF ListSent
  <2> QED BY <2>1, <2>2, FetchAdds
<1>3. CASE Kill \/ Submit
  <2>1. PICK k, p : inflight' = BagAdd(inflight, Post(k, p))
    BY <1>3 DEF Kill, Submit
  <2>2. Messages' = Messages \cup {Post(k, p)}
    BY <2>1, MessageAdded DEF Messages
  <2>3. Post(k, p).phase # "ok"
    BY DEF Post
  <2> QED BY <2>2, <2>3
<1>4. CASE ServeList
  <2>1. ListServed.kind = "list"
    BY DEF ListServed
  <2> QED BY <1>4, <2>1, ReplaceKeeps DEF ServeList
<1>5. CASE ServeSignal \/ ServeForm
  <2>1. PICK m \in Posts : /\ m.phase = "sent"
                           /\ Replace(m, Granted(m, version')) \/ Replace(m, Refused(m))
    BY <1>5 DEF ServeSignal, ServeForm
  <2>2. m \in Messages /\ m \in PostMessage
    BY KindsOfMessages DEF RequestsTyped, Posts
  <2>3. Refused(m).phase # "ok"
    BY <2>1, <2>2, RefusedIs
  <2>4. Granted(m, version').version = version'
    BY DEF Granted
  <2> QED BY <2>1, <2>2, <2>3, <2>4, ReplaceKeeps
<1>6. CASE Fail
  <2>1. PICK m \in Messages :
         \/ m.kind = "list" /\ Replace(m, ListFailed)
         \/ m.kind # "list" /\ Replace(m, Broken(m))
    BY <1>6 DEF Fail
  <2>2. ListFailed.kind = "list"
    BY DEF ListFailed
  <2>3. m.kind # "list" => Broken(m).phase # "ok"
    BY KindsOfMessages, BrokenIs DEF RequestsTyped, Posts, Lists
  <2> QED BY <2>1, <2>2, <2>3, ReplaceKeeps
<1>7. CASE DeliverList
  <2>1. PICK m : inflight' = BagRemove(inflight, m)
    BY <1>7 DEF DeliverList
  <2>2. Messages' \subseteq Messages
    BY <2>1, MessageRemoved DEF Messages
  <2>3. ListSent.kind = "list"
    BY DEF ListSent
  <2> QED BY <2>2, <2>3
<1>8. CASE DeliverPost
  <2>1. PICK m \in Posts : Acknowledge(m) \/ Alert(m)
    BY <1>8 DEF DeliverPost
  <2>2. ListSent.kind = "list"
    BY DEF ListSent
  <2>3. CASE Acknowledge(m)
    BY <2>2, <2>3, ReplaceKeeps DEF Acknowledge, Posts
  <2>4. CASE Alert(m)
    <3>1. Messages' \subseteq Messages
      BY <2>4, MessageRemoved DEF Alert, Messages
    <3> QED BY <2>2, <3>1
  <2> QED BY <2>1, <2>3, <2>4
<1> QED BY <1>1, <1>2, <1>3, <1>4, <1>5, <1>6, <1>7, <1>8 DEF Next

LEMMA NextOwed ==
    ASSUME EffectInv, [Next]_vars
    PROVE  /\ MachineTyped' /\ PageTyped' /\ RequestsTyped'
           /\ owed' <= version' /\ \A m \in Posts' : m.phase = "ok" => m.version <= version'
<1>1. /\ MachineTyped /\ PageTyped /\ RequestsTyped /\ MessagesTyped
      /\ owed <= version
      /\ \A m \in Posts : m.phase = "ok" => m.version <= version
  BY DEF EffectInv, RequestsTyped
<1>2. MachineTyped' /\ PageTyped' /\ RequestsTyped' /\ version' >= version
  BY <1>1, NextMachine, NextPage, NextRequests
<1>3. /\ version \in Nat /\ version' \in Nat /\ owed \in Nat /\ owed' \in Nat
      /\ \A m \in Posts : m.phase = "ok" => m.version \in Nat
  BY <1>1, <1>2, AnswerParts, KindsOfMessages, BoundsAssumption
     DEF MachineTyped, PageTyped, Versions
<1>4. owed' = owed \/ owed' = 0 \/ \E m \in Posts : m.phase = "ok" /\ owed' = m.version
  <2>1. CASE DeliverList
    BY <2>1 DEF DeliverList, Render, Skip
  <2>2. CASE DeliverPost
    BY <2>2 DEF DeliverPost, Acknowledge, Alert, Later, page
  <2>3. Fork \/ Exit \/ Load \/ Fire \/ ToggleFreeze \/ SetControls \/ Kill \/ Submit
          \/ ServeList \/ ServeSignal \/ ServeForm \/ Fail \/ UNCHANGED vars => UNCHANGED owed
    BY DEF Fork, Exit, Load, Fire, ToggleFreeze, SetControls, Kill, Submit, ServeList,
           ServeSignal, ServeForm, Fail, vars, page
  <2> QED BY <2>1, <2>2, <2>3 DEF Next
<1>5. owed' <= version'
  BY <1>1, <1>2, <1>3, <1>4
<1>6. ASSUME NEW m \in Posts', m.phase = "ok" PROVE m.version <= version'
  <2>1. PICK x : /\ Messages' \subseteq Messages \cup {x}
                 /\ x.kind = "list" \/ x.phase # "ok" \/ x.version = version'
    BY <1>1, OneNew
  <2>2. m \in Messages' /\ m.kind # "list"
    BY <1>6 DEF Posts, Lists
  <2>3. m \in Posts \/ m.version = version'
    BY <1>6, <2>1, <2>2 DEF Posts, Lists
  <2> QED BY <1>1, <1>2, <1>3, <1>6, <2>3
<1> QED BY <1>2, <1>5, <1>6

LEMMA StillPending ==
    ASSUME newest >= owed \/ \E m \in Lists : Pending(m, owed),
           Lists \subseteq Lists', UNCHANGED <<newest, owed>>
    PROVE  newest' >= owed' \/ \E m \in Lists' : Pending(m, owed')
<1>1. PICK v : v = owed
  OBVIOUS
<1> QED BY <1>1

LEMMA NextPending ==
    ASSUME EffectInv, [Next]_vars
    PROVE  newest' >= owed' \/ \E m \in Lists' : Pending(m, owed')
<1>1. /\ MachineTyped /\ PageTyped /\ RequestsTyped /\ MessagesTyped
      /\ owed <= version
      /\ newest >= owed \/ \E m \in Lists : Pending(m, owed)
  BY DEF EffectInv, RequestsTyped
<1>2. CASE ServeList
  <2>1. owed' = owed /\ ListServed \in Lists'
    BY <1>2, ListReplaced DEF ServeList, ListServed, page
  <2>2. Pending(ListServed, owed)
    BY <1>1 DEF Pending, ListServed
  <2> QED BY <2>1, <2>2
<1>3. CASE Fail
  <2>1. UNCHANGED <<newest, owed>>
    BY <1>3 DEF Fail, page
  <2>2. PICK m \in Messages :
         \/ m.kind = "list" /\ Replace(m, ListFailed)
         \/ m.kind # "list" /\ Replace(m, Broken(m))
    BY <1>3 DEF Fail
  <2>3. CASE m.kind = "list"
    <3>1. ListFailed \in Lists' /\ Pending(ListFailed, owed')
      BY <2>2, <2>3, ListReplaced DEF ListFailed, Pending
    <3> QED BY <3>1
  <2>4. CASE m.kind # "list"
    <3>1. m \in Posts
      BY <2>4 DEF Posts, Lists
    <3> QED BY <1>1, <2>1, <2>2, <2>4, <3>1, PostReplaced, StillPending
  <2> QED BY <2>3, <2>4
<1>4. CASE DeliverPost
  <2>1. PICK m \in Posts : Acknowledge(m) \/ Alert(m)
    BY <1>4 DEF DeliverPost
  <2>2. CASE Acknowledge(m)
    <3>1. ListSent \in Lists' /\ Pending(ListSent, owed')
      BY <2>2, ListReplaced DEF Acknowledge, ListSent, Posts, Pending
    <3> QED BY <3>1
  <2>3. CASE Alert(m)
    <3>1. inflight' = BagRemove(inflight, m) /\ m.kind # "list"
      BY <2>3 DEF Alert, Posts, Lists
    <3>2. Lists \subseteq Lists'
      BY <3>1, MessageRemoved DEF Lists, Messages
    <3> QED BY <1>1, <2>3, <3>2, StillPending DEF Alert, page
  <2> QED BY <2>1, <2>2, <2>3
<1>5. CASE DeliverList
  <2>1. PICK m \in Lists : /\ inflight' = BagRemove(inflight, m)
                           /\ (m.phase = "served" /\ Render(m)) \/ Skip
    BY <1>5 DEF DeliverList
  <2>2. CASE Skip
    BY <1>1, <2>2, BoundsAssumption DEF Skip, PageTyped, Versions
  <2>3. CASE m.phase = "served" /\ Render(m)
    <3>1. m.version \in Int /\ newest \in Int /\ owed \in Int
      BY <1>1, <2>3, AnswerParts, KindsOfMessages, BoundsAssumption DEF PageTyped, Versions
    <3>2. newest' >= newest /\ newest' >= m.version /\ owed' = owed /\ newest' \in Int
      BY <2>3, <3>1 DEF Render, Later
    <3>3. CASE newest >= owed
      BY <3>1, <3>2, <3>3
    <3>4. CASE \E w \in Lists : Pending(w, owed)
      <4>1. PICK w \in Lists : Pending(w, owed)
        BY <3>4
      <4>2. CASE w = m
        BY <2>3, <3>1, <3>2, <4>1, <4>2 DEF Pending
      <4>3. CASE w # m
        <5>1. w \in Lists'
          BY <2>1, <4>3, MessageRemoved DEF Lists, Messages
        <5> QED BY <3>2, <4>1, <5>1
      <4> QED BY <4>2, <4>3
    <3> QED BY <1>1, <3>3, <3>4
  <2> QED BY <2>1, <2>2, <2>3
<1>6. CASE Fork \/ Exit \/ ToggleFreeze \/ UNCHANGED vars
  <2>1. Lists' = Lists /\ UNCHANGED <<newest, owed>>
    BY <1>6 DEF Fork, Exit, ToggleFreeze, vars, page, Lists, Messages
  <2> QED BY <1>1, <2>1, StillPending
<1>7. CASE Load \/ Fire \/ SetControls \/ Kill \/ Submit
  <2>1. PICK x : inflight' = BagAdd(inflight, x)
    BY <1>7 DEF Load, Fire, SetControls, Fetch, Kill, Submit
  <2>2. Lists \subseteq Lists'
    BY <2>1, MessageAdded DEF Lists, Messages
  <2>3. UNCHANGED <<newest, owed>>
    BY <1>7 DEF Load, Fire, SetControls, Kill, Submit, page
  <2> QED BY <1>1, <2>2, <2>3, StillPending
<1>8. CASE ServeSignal \/ ServeForm
  <2>1. PICK m, n : m \in Posts /\ Replace(m, n)
    BY <1>8 DEF ServeSignal, ServeForm
  <2>2. UNCHANGED <<newest, owed>>
    BY <1>8 DEF ServeSignal, ServeForm, page
  <2> QED BY <1>1, <2>1, <2>2, PostReplaced, StillPending
<1> QED BY <1>2, <1>3, <1>4, <1>5, <1>6, <1>7, <1>8 DEF Next

(* However lists overtake each other, an effect that was acknowledged has  *)
(* been shown when none is under way, unless one failed (app.js:166-200).  *)
THEOREM EffectCorrect == Spec => []EffectShown
<1>1. EffectInv /\ [Next]_vars => EffectInv'
  BY NextOwed, NextPending DEF EffectInv
<1>2. EffectInv => EffectShown
  BY DEF EffectInv, EffectShown
<1> QED BY <1>1, <1>2, InitEffect, PTL DEF Spec
=============================================================================
