----------------------------- MODULE HttpDaemon ------------------------------
(***************************************************************************)
(* The HTTP side of c-daemon: the callback on_request that libmicrohttpd   *)
(* (MHD) calls for every connection (server.c), the dispatch on the URL    *)
(* (routes.c), the handlers that change a process (process_routes.c,       *)
(* limit_routes.c) and the system calls behind them (SystemCalls).         *)
(*                                                                         *)
(* MHD runs one thread (MHD_USE_SELECT_INTERNALLY) and calls on_request    *)
(* once when the headers are in, once for each part of the body, and once  *)
(* after that; it calls again as long as no response has been queued.      *)
(* Calls for different connections interleave, a call itself does not.     *)
(* Clients may give up at any time; processes may exit at any time.        *)
(***************************************************************************)
EXTENDS SystemCalls, Sequences

CONSTANTS
    Conns,        \* connections
    Requests,     \* requests clients send: see Request
    NoValue,      \* what a field that is absent or of the wrong type gives
    Unit,         \* numbers of bodies are counted in 1/Unit: see Request
    Megabyte,     \* 1024 * 1024 in the code
    MaxRequests   \* bound: requests in a behaviour

Routes == {"signal", "renice", "cpu", "ram", "test", "read", "unknown"}
(* "arg" is what the body carries, in "parts" parts.  For "signal" it is   *)
(* the signal that handle_signal makes of the command, by name or by atoi  *)
(* (-1: a command that is not known).  Otherwise it is the double cJSON    *)
(* makes of a number, any number at all, times Unit: doubles are multiples *)
(* of a smallest one, so that this is an integer.                          *)
Request == [route : Routes, pid : Int, arg : Int \cup {NoValue}, parts : Nat]

NoRequest == [route |-> "none", pid |-> NoValue, arg |-> NoValue, parts |-> 0]

ASSUME NoValueAssumption  == NoValue \notin Int
ASSUME RequestsAssumption == /\ Requests \subseteq Request
                             /\ \A r \in Requests : r.parts = 0 => r.arg = NoValue
ASSUME NumbersAssumption  == Megabyte \in Nat \ {0} /\ Unit \in Nat \ {0}
ASSUME BoundAssumption    == MaxRequests \in Nat

VARIABLES
    phase,     \* where MHD is with the connection
    req,       \* the request on the connection
    pending,   \* parts of the body that have not arrived
    ctx,       \* *con_cls: parts gathered in the ConnContext, or NoCtx (NULL)
    answer,    \* status of the queued response, 0 if there is none
    effects,   \* history: what the request has changed in the kernel
    sent       \* requests sent so far

vars == <<task, phase, req, pending, ctx, answer, effects, sent>>

NoCtx == -1

TypeOK ==
    /\ task \in [Pids -> Task]
    /\ phase \in [Conns -> {"free", "headers", "body", "final", "answered", "aborted"}]
    /\ req \in [Conns -> Request \cup {NoRequest}]
    /\ pending \in [Conns -> Nat]
    /\ ctx \in [Conns -> Nat \cup {NoCtx}]
    /\ answer \in [Conns -> {0, 200, 201, 204, 400, 404, 500}]
    /\ effects \in [Conns -> Seq(Int)]
    /\ sent \in 0 .. MaxRequests

Init ==
    /\ task = Started
    /\ phase = [c \in Conns |-> "free"]
    /\ req = [c \in Conns |-> NoRequest]
    /\ pending = [c \in Conns |-> 0]
    /\ ctx = [c \in Conns |-> NoCtx]
    /\ answer = [c \in Conns |-> 0]
    /\ effects = [c \in Conns |-> <<>>]
    /\ sent = 0

-----------------------------------------------------------------------------
(* Clients and processes. *)

(* A request arrives on a new connection, or on one that is kept alive.    *)
Connect(c, r) ==
    /\ Running
    /\ phase[c] \in {"free", "answered", "aborted"}
    /\ sent < MaxRequests
    /\ sent' = sent + 1
    /\ phase' = [phase EXCEPT ![c] = "headers"]
    /\ req' = [req EXCEPT ![c] = r]
    /\ pending' = [pending EXCEPT ![c] = r.parts]
    /\ ctx' = [ctx EXCEPT ![c] = NoCtx]
    /\ answer' = [answer EXCEPT ![c] = 0]
    /\ effects' = [effects EXCEPT ![c] = <<>>]
    /\ UNCHANGED task

Waiting(c) == phase[c] \in {"headers", "body", "final"}

(* The client closes the connection.  MHD forgets *con_cls; no completion  *)
(* callback is registered (start_http_server), so nobody frees it.         *)
Abort(c) ==
    /\ Waiting(c)
    /\ phase' = [phase EXCEPT ![c] = "aborted"]
    /\ ctx' = [ctx EXCEPT ![c] = NoCtx]
    /\ UNCHANGED <<task, req, pending, answer, effects, sent>>

Exit(p) == Quit(p) /\ UNCHANGED <<phase, req, pending, ctx, answer, effects, sent>>

-----------------------------------------------------------------------------
(* on_request. *)

(* The first branch: no context yet, so one is allocated and MHD goes on   *)
(* to the body, if there is one.                                           *)
AllocateContext(c) ==
    /\ Running
    /\ Waiting(c)
    /\ ctx[c] = NoCtx
    /\ ctx' = [ctx EXCEPT ![c] = 0]
    /\ phase' = [phase EXCEPT ![c] = IF pending[c] > 0 THEN "body" ELSE "final"]
    /\ UNCHANGED <<task, req, pending, answer, effects, sent>>

AppendAlways(c) ==  \* mutant: the size of the part is not looked at
    /\ Running
    /\ ctx[c] # NoCtx
    /\ ctx' = [ctx EXCEPT ![c] = @ + 1]
    /\ pending' = [pending EXCEPT ![c] = @ - 1]
    /\ phase' = [phase EXCEPT ![c] = IF pending[c] = 1 THEN "final" ELSE @]
    /\ UNCHANGED <<task, req, answer, effects, sent>>

(* The second branch: a part of the body has arrived and is appended.      *)
AppendChunk(c) ==
    /\ Running
    /\ phase[c] = "body"
    /\ ctx[c] # NoCtx
    /\ ctx' = [ctx EXCEPT ![c] = @ + 1]
    /\ pending' = [pending EXCEPT ![c] = @ - 1]
    /\ phase' = [phase EXCEPT ![c] = IF pending[c] = 1 THEN "final" ELSE @]
    /\ UNCHANGED <<task, req, answer, effects, sent>>

(* The third branch: the request is routed, once there is a context and    *)
(* nothing more to come.                                                   *)
Routed(c, route) ==
    Running /\ phase[c] = "final" /\ ctx[c] # NoCtx /\ req[c].route = route

(* A mutant that keeps the context until a response is queued. *)
FinishKeepsBody(c, code) ==
    /\ ctx' = [ctx EXCEPT ![c] = IF code # 0 THEN NoCtx ELSE @]
    /\ answer' = [answer EXCEPT ![c] = code]
    /\ phase' = [phase EXCEPT ![c] = IF code # 0 THEN "answered" ELSE @]
    /\ UNCHANGED <<req, pending, sent>>

(* After the handler the context is freed.  With a queued response MHD is  *)
(* done; with code 0, none was queued and MHD will call on_request again.  *)
Finish(c, code) ==
    /\ ctx' = [ctx EXCEPT ![c] = NoCtx]
    /\ answer' = [answer EXCEPT ![c] = code]
    /\ phase' = [phase EXCEPT ![c] = IF code # 0 THEN "answered" ELSE @]
    /\ UNCHANGED <<req, pending, sent>>

Refuse(c, code) == Finish(c, code) /\ UNCHANGED <<task, effects>>

Perform(c, v, code) ==
    /\ effects' = [effects EXCEPT ![c] = Append(@, v)]
    /\ Finish(c, code)

(* cJSON_Parse gives the field only of a whole body; "" does not parse.    *)
Field(c) == IF ctx[c] > 0 /\ ctx[c] = req[c].parts THEN req[c].arg ELSE NoValue

(* handle_signal.  Only the first case queues a response: the others       *)
(* return an HTTP status where MHD expects MHD_YES or MHD_NO.              *)
SignalWithoutCommand(c) ==
    /\ Routed(c, "signal")
    /\ Field(c) = NoValue
    /\ Refuse(c, 400)

SignalUnknown(c) ==
    /\ Routed(c, "signal")
    /\ Field(c) # NoValue
    /\ Field(c) <= 0
    /\ Refuse(c, 0)

SignalDelivered(c) ==
    /\ Routed(c, "signal")
    /\ Field(c) # NoValue
    /\ Kill(req[c].pid, Field(c))
    /\ Perform(c, Field(c), 0)

SignalFailed(c) ==
    /\ Routed(c, "signal")
    /\ Field(c) # NoValue
    /\ Field(c) > 0
    /\ ~CanKill(req[c].pid, Field(c))
    /\ Refuse(c, 0)

(* (long)item->valuedouble cuts the fraction off.  Outside long the cast   *)
(* is undefined: x86-64 gives the least long, ARM the nearest one.         *)
LongMin == -(Word \div 2)
LongMax == Word \div 2 - 1

Truncated(x) == IF x >= 0 THEN x \div Unit ELSE -((-x) \div Unit)

Cast(x) == IF Truncated(x) \in LongMin .. LongMax THEN {Truncated(x)}
           ELSE IF x > 0 THEN {LongMin, LongMax} ELSE {LongMin}

(* What limit_routes_json_get_long may return: -1 stands for a missing     *)
(* value.                                                                  *)
GetLong(c) == IF Field(c) = NoValue THEN {-1} ELSE Cast(Field(c))

(* The range handle_renice checks. *)
NiceRange == -20 .. 19

(* handle_renice. *)
ReniceOutOfRange(c) ==
    /\ Routed(c, "renice")
    /\ \E n \in GetLong(c) : n \notin NiceRange
    /\ Refuse(c, 400)

ReniceDone(c) ==
    /\ Routed(c, "renice")
    /\ \E n \in GetLong(c) \cap NiceRange : SetNice(req[c].pid, n) /\ Perform(c, n, 201)

ReniceFailedUnseen(c) ==  \* mutant: the error of setpriority is not looked at
    /\ Routed(c, "renice")
    /\ \E n \in GetLong(c) \cap NiceRange : ~CanSetNice(req[c].pid, n)
    /\ Refuse(c, 201)

ReniceFailed(c) ==
    /\ Routed(c, "renice")
    /\ \E n \in GetLong(c) \cap NiceRange : ~CanSetNice(req[c].pid, n)
    /\ Refuse(c, 500)

(* handle_cpu_limit and handle_ram_limit. *)
LimitNegative(c) ==
    /\ Routed(c, "cpu") \/ Routed(c, "ram")
    /\ \E n \in GetLong(c) : n < 0
    /\ Refuse(c, 400)

CpuLimitSet(c) ==
    /\ Routed(c, "cpu")
    /\ \E n \in GetLong(c) : n >= 0 /\ SetCpu(req[c].pid, n) /\ Perform(c, n, 204)

CpuLimitFailed(c) ==
    /\ Routed(c, "cpu")
    /\ \E n \in GetLong(c) : n >= 0 /\ ~CanSetCpu(req[c].pid, n)
    /\ Refuse(c, 500)

(* (rlim_t)mb * 1024 * 1024 *)
Bytes(mb) == (mb * Megabyte) % Word

RamLimitSetsCpu(c) ==  \* mutant: the call is the one of handle_cpu_limit
    /\ Routed(c, "ram")
    /\ \E n \in GetLong(c) :
          n >= 0 /\ SetCpu(req[c].pid, Bytes(n)) /\ Perform(c, Bytes(n), 204)

RamLimitSet(c) ==
    /\ Routed(c, "ram")
    /\ \E n \in GetLong(c) :
          n >= 0 /\ SetRam(req[c].pid, Bytes(n)) /\ Perform(c, Bytes(n), 204)

RamLimitFailed(c) ==
    /\ Routed(c, "ram")
    /\ \E n \in GetLong(c) : n >= 0 /\ ~CanSetRam(req[c].pid, Bytes(n))
    /\ Refuse(c, 500)

(* handle_test_post, the GET handlers, and route_request's last resort. *)
TestPost(c) == Routed(c, "test") /\ Refuse(c, 201)
Read(c)     == Routed(c, "read") /\ Refuse(c, 200)
NotFoundSilent(c) == Routed(c, "unknown") /\ Refuse(c, 0)  \* mutant
NotFound(c) == Routed(c, "unknown") /\ Refuse(c, 404)

Dispatch(c) ==
    \/ SignalWithoutCommand(c)
    \/ SignalUnknown(c)
    \/ SignalDelivered(c)
    \/ SignalFailed(c)
    \/ ReniceOutOfRange(c)
    \/ ReniceDone(c)
    \/ ReniceFailed(c)
    \/ LimitNegative(c)
    \/ CpuLimitSet(c)
    \/ CpuLimitFailed(c)
    \/ RamLimitSet(c)
    \/ RamLimitFailed(c)
    \/ TestPost(c)
    \/ Read(c)
    \/ NotFound(c)

-----------------------------------------------------------------------------
Next ==
    \/ \E c \in Conns :
         \/ \E r \in Requests : Connect(c, r)
         \/ Abort(c)
         \/ AllocateContext(c)
         \/ AppendChunk(c)
         \/ Dispatch(c)
    \/ \E p \in Pids : Exit(p)

Spec == Init /\ [][Next]_vars

(* The select loop calls on_request for every connection that is not       *)
(* waiting for its client.  Clients need not send, nor processes exit.     *)
Fairness == \A c \in Conns : WF_vars(AllocateContext(c) \/ Dispatch(c))

FairSpec == Spec /\ Fairness

-----------------------------------------------------------------------------
(* A request changes the kernel at most once, though MHD dispatches a      *)
(* signal request a second time: its body was freed with the first context *)
(* (server.c:61-65) and the second dispatch finds none.                    *)
EffectAtMostOnce == \A c \in Conns : Len(effects[c]) <= 1

(* The status tells whether the process was changed, for every route but   *)
(* "signal": 201 of renice and 204 of the limits exactly when it was.      *)
AnswerTellsEffect ==
    \A c \in Conns :
        (phase[c] = "answered" /\ req[c].route # "signal")
          => ((effects[c] # <<>>)
               <=> (answer[c] \in {201, 204} /\ req[c].route # "test"))

(* A request that is complete is answered, whatever other clients do; a    *)
(* signal request only after on_request has dispatched it a second time.   *)
(* Unless the daemon ends: a request with pid 0 may have sent it a signal. *)
EveryRequestAnswered ==
    \A c \in Conns :
        phase[c] = "final" ~> phase[c] \in {"answered", "aborted"} \/ ~Running

(* The request that has yet to act, if there is one on the connection.     *)
Open == [c \in Conns |-> IF Waiting(c) /\ effects[c] = <<>> THEN req[c] ELSE NoRequest]

Atomic == INSTANCE AtomicRequests WITH open <- Open, done <- effects

(* Parts, contexts and the second dispatch of signals cannot be told from  *)
(* requests that act in one step, at most once, by the system call of      *)
(* their route (server.c:27-67, limit_routes.c:39-179).  It is made with   *)
(* the pid of the URL, whatever that pid means to the call, and sets a     *)
(* value less than a nice level, a second or a megabyte off the number in  *)
(* the body, unless the body has none or a limit is beyond long or rlim_t. *)
ActsAtomically == Atomic!Spec

-----------------------------------------------------------------------------
(* What the comments say, and the code does not do. *)

(* process_routes.c:161: a delivered signal is answered with 204.  The     *)
(* value goes to MHD, not to the client, who gets 400.                     *)
DeliveredSignalAnswered ==
    \A c \in Conns :
        (phase[c] = "answered" /\ req[c].route = "signal" /\ effects[c] # <<>>)
          => answer[c] = 204

(* limit_routes.c:18: -1 is returned "on error".  It passes the check of   *)
(* the range, so a body without "nice" renices the process to -1.          *)
ReniceNeedsValue ==
    \A c \in Conns :
        (req[c].route = "renice" /\ effects[c] # <<>>) => req[c].arg # NoValue
=============================================================================
