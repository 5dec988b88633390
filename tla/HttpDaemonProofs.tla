-------------------------- MODULE HttpDaemonProofs ---------------------------
(***************************************************************************)
(* Theorems about the HTTP daemon, for every number of connections and     *)
(* processes, every set of requests, and every word size: a request takes  *)
(* effect at most once, the status tells whether it did, and the daemon    *)
(* cannot be told from one that acts on each request in one step.          *)
(*                                                                         *)
(* The argument follows the context of a connection (BodyInv): before the  *)
(* last branch of on_request it holds the whole body, except on the second *)
(* dispatch of a signal request, when it holds nothing.  So an effect can  *)
(* only be repeated by a signal request (OnceInv), and that one finds no   *)
(* command any more.                                                       *)
(***************************************************************************)
EXTENDS HttpDaemon, TLAPS

Codes == {0, 200, 201, 204, 400, 404, 500}

(* Where the body of a request is, in each phase of its connection. *)
BodyInv(c) ==
    /\ phase[c] # "free" => req[c] \in Requests
    /\ phase[c] = "headers" => ctx[c] = NoCtx /\ pending[c] = req[c].parts
    /\ phase[c] = "body" =>
         ctx[c] # NoCtx /\ pending[c] > 0 /\ ctx[c] + pending[c] = req[c].parts
    /\ phase[c] = "final" =>
         /\ pending[c] = 0
         /\ ctx[c] = req[c].parts \/ (req[c].route = "signal" /\ ctx[c] \in {NoCtx, 0})

(* A request that had its effect is over, or is a signal without its body. *)
OnceInv(c) ==
    effects[c] # <<>> =>
        \/ phase[c] \in {"answered", "aborted"}
        \/ phase[c] = "final" /\ req[c].route = "signal" /\ ctx[c] \in {NoCtx, 0}

ConnInv == \A c \in Conns : BodyInv(c) /\ OnceInv(c)

(* What every handler does, seen from the connection: it refuses ... *)
Refused(c) ==
    \E code \in Codes :
        /\ Refuse(c, code)
        /\ code = 0 => req[c].route = "signal"
        /\ code \in {201, 204} => req[c].route = "test"

(* ... or it performs, with the value of the request and a status that says so. *)
Performed(c) ==
    \E code \in Codes, v \in Int :
        /\ Perform(c, v, code)
        /\ code = 0 => req[c].route = "signal" /\ ctx[c] > 0
        /\ code # 0 => req[c].route # "signal" /\ code \in {201, 204}
        /\ req[c].route # "test"

-----------------------------------------------------------------------------
(* Division and remainder. *)
LEMMA DivMod ==
    ASSUME NEW x \in Int, NEW u \in Nat \ {0}
    PROVE  /\ x \div u \in Int /\ x % u \in 0 .. u - 1
           /\ x = u * (x \div u) + (x % u)
OBVIOUS

(* A non-negative number below the word size is left as it is.             *)
LEMMA SmallMod ==
    ASSUME NEW n \in Nat, NEW w \in Nat \ {0}
    PROVE  n % w \in 0 .. w - 1 /\ (n < w => n % w = n)
OBVIOUS

(* A product of natural numbers is one.                                    *)
LEMMA ProductNat ==
    ASSUME NEW m \in Nat, NEW n \in Nat
    PROVE  m * n \in Nat
OBVIOUS

(* The registers hold every nice value.                                    *)
LEMMA LongLimits ==
    /\ LongMin \in Int /\ LongMin < -20 /\ LongMax \in Int /\ LongMax > 19
    /\ LongMax + 1 = Word \div 2 /\ LongMax <= RlimInfinity
    /\ RlimInfinity \in Int /\ RlimInfinity >= 64
BY WordAssumption DEF LongMin, LongMax, RlimInfinity

(* The cast to long cuts off less than one (limit_routes.c:28), towards 0. *)
LEMMA TruncatedClose ==
    ASSUME NEW x \in Int
    PROVE  /\ Truncated(x) \in Int
           /\ x >= 0 => /\ Truncated(x) >= 0 /\ Truncated(x) * Unit <= x
                        /\ x < Truncated(x) * Unit + Unit
           /\ x < 0 => /\ Truncated(x) <= 0 /\ Truncated(x) * Unit >= x
                       /\ x > Truncated(x) * Unit - Unit
<1> DEFINE n == Truncated(x)
<1>1. Unit \in Nat \ {0}
  BY NumbersAssumption
<1>2. CASE x >= 0
  <2> DEFINE q == x \div Unit
  <2>1. q \in Int /\ x % Unit \in 0 .. Unit - 1 /\ x = Unit * q + (x % Unit)
    BY <1>1, DivMod
  <2>2. n = q
    BY <1>2 DEF Truncated
  <2> HIDE DEF q
  <2>3. q >= 0
    <3>1. q < 0 => Unit * q <= -Unit
      BY <1>1, <2>1
    <3> QED BY <1>1, <1>2, <2>1, <3>1
  <2> QED BY <1>1, <1>2, <2>1, <2>2, <2>3
<1>3. CASE ~(x >= 0)
  <2> DEFINE y == -x
             q == y \div Unit
  <2>1. y \in Int /\ n = -q
    BY <1>3 DEF Truncated
  <2>2. y = -x
    OBVIOUS
  <2> HIDE DEF y
  <2>3. q \in Int /\ y % Unit \in 0 .. Unit - 1 /\ y = Unit * q + (y % Unit)
    BY <1>1, <2>1, DivMod
  <2> HIDE DEF q
  <2>4. q >= 0
    <3>1. q < 0 => Unit * q <= -Unit
      BY <1>1, <2>3
    <3> QED BY <1>1, <1>3, <2>2, <2>3, <3>1
  <2>5. n * Unit = -(Unit * q)
    BY <1>1, <2>1, <2>3
  <2> QED BY <1>1, <1>3, <2>1, <2>2, <2>3, <2>4, <2>5
<1> QED BY <1>2, <1>3

(* What a number becomes: itself without its fraction, or, outside long,   *)
(* one of the two limits. *)
LEMMA CastValue ==
    ASSUME NEW x \in Int, NEW n \in Cast(x)
    PROVE  /\ n \in Int /\ n <= LongMax
           /\ \/ n = Truncated(x)
              \/ n = LongMin
              \/ n = LongMax /\ x >= (Word \div 2) * Unit
<1> DEFINE t == Truncated(x)
<1>1. t \in Int /\ (x > 0 => t >= 0 /\ t * Unit <= x) /\ Unit \in Nat \ {0}
      /\ (~(x > 0) => t <= 0)
  BY TruncatedClose, NumbersAssumption DEF Truncated
<1>2. CASE t \in LongMin .. LongMax
  BY <1>1, <1>2, LongLimits DEF Cast
<1>3. CASE t \notin LongMin .. LongMax
  <2>1. n = LongMin \/ (n = LongMax /\ x > 0)
    BY <1>3 DEF Cast
  <2>2. x > 0 => x >= (Word \div 2) * Unit
    <3> DEFINE h == Word \div 2
    <3>1. h \in Int /\ h = LongMax + 1
      BY LongLimits
    <3> HIDE DEF h
    <3>2. SUFFICES ASSUME x > 0 PROVE x >= h * Unit
      BY DEF h
    <3>3. t >= h
      BY <1>1, <1>3, <3>1, <3>2, LongLimits
    <3> HIDE DEF t
    <3>4. t * Unit >= h * Unit
      BY <1>1, <3>1, <3>3
    <3> QED BY <1>1, <3>1, <3>2, <3>4
  <2> QED BY <2>1, <2>2, LongLimits
<1> QED BY <1>2, <1>3

(* What the body gives is what it carries, or nothing.                     *)
LEMMA FieldIs ==
    ASSUME NEW c \in Conns, req[c] \in Request
    PROVE  /\ Field(c) \in Int \cup {NoValue}
           /\ Field(c) # NoValue => ctx[c] > 0 /\ Field(c) = req[c].arg
           /\ \A n \in GetLong(c) : n \in Int /\ n <= LongMax
<1>1. /\ Field(c) \in Int \cup {NoValue}
      /\ Field(c) # NoValue => ctx[c] > 0 /\ Field(c) = req[c].arg
  BY DEF Field, Request
<1>2. ASSUME NEW n \in GetLong(c) PROVE n \in Int /\ n <= LongMax
  <2>1. CASE Field(c) = NoValue
    BY <1>2, <2>1, LongLimits DEF GetLong
  <2>2. CASE Field(c) # NoValue
    BY <1>1, <1>2, <2>2, CastValue DEF GetLong
  <2> QED BY <2>1, <2>2
<1> QED BY <1>1, <1>2

(* A whole body gives the value it carries, if it carries one.             *)
LEMMA WholeBody ==
    ASSUME NEW c \in Conns, req[c] \in Requests, ctx[c] = req[c].parts
    PROVE  Field(c) = req[c].arg
<1>1. req[c] \in Request /\ req[c].parts \in Nat
      /\ (req[c].parts = 0 => req[c].arg = NoValue)
  BY RequestsAssumption DEF Request
<1> QED BY <1>1 DEF Field

(* What limit_routes.c:160 computes is an rlim_t, exact when it fits.      *)
LEMMA BytesRange ==
    ASSUME NEW mb \in Nat
    PROVE  /\ Bytes(mb) \in 0 .. RlimInfinity
           /\ mb * Megabyte < Word => Bytes(mb) = mb * Megabyte
<1> DEFINE bytes == mb * Megabyte
<1>1. bytes \in Nat
  BY NumbersAssumption, ProductNat
<1>2. Bytes(mb) = bytes % Word
  BY DEF Bytes
<1>3. Word \in Nat \ {0}
  BY WordAssumption
<1> HIDE DEF bytes
<1>4. bytes % Word \in 0 .. Word - 1 /\ (bytes < Word => bytes % Word = bytes)
  BY <1>1, <1>3, SmallMod
<1> QED BY <1>2, <1>4 DEF bytes, RlimInfinity

-----------------------------------------------------------------------------
(* The system calls leave well-formed processes behind.                    *)
LEMMA KillTyped ==
    ASSUME task \in [Pids -> Task], NEW pid, NEW n, Kill(pid, n)
    PROVE  task' \in [Pids -> Task]
<1>1. PICK dead \in SUBSET Reached(pid) :
         task' = [p \in Pids |-> IF p \in dead THEN [task[p] EXCEPT !.alive = FALSE]
                                 ELSE task[p]]
  BY DEF Kill
<1>2. ASSUME NEW p \in Pids PROVE [task[p] EXCEPT !.alive = FALSE] \in Task
  BY DEF Task
<1> QED BY <1>1, <1>2

LEMMA NamedPids == ASSUME NEW pid PROVE Named(pid) \subseteq Pids
BY ProcessesAssumption DEF Named

LEMMA SetTyped ==
    ASSUME task \in [Pids -> Task], NEW pid, NEW n \in 0 .. RlimInfinity,
           SetCpu(pid, n) \/ SetRam(pid, n)
    PROVE  task' \in [Pids -> Task]
<1>1. PICK p \in Pids : task' = [task EXCEPT ![p].cpu = n] \/ task' = [task EXCEPT ![p].ram = n]
  BY NamedPids DEF SetCpu, SetRam
<1> QED BY <1>1 DEF Task

LEMMA SetNiceTyped ==
    ASSUME task \in [Pids -> Task], NEW pid, NEW n \in Int, SetNice(pid, n)
    PROVE  task' \in [Pids -> Task]
<1>1. PICK p \in Pids : task' = [task EXCEPT ![p].nice = Clamped(n)]
  BY NamedPids DEF SetNice
<1>2. Clamped(n) \in -20 .. 19
  BY DEF Clamped
<1> QED BY <1>1, <1>2 DEF Task

-----------------------------------------------------------------------------
(* Every branch of every handler refuses or performs, and the processes    *)
(* stay in range.                                                          *)
LEMMA DispatchSummary ==
    ASSUME TypeOK, NEW c \in Conns, BodyInv(c), Dispatch(c)
    PROVE  /\ phase[c] = "final" /\ ctx[c] # NoCtx
           /\ Refused(c) \/ Performed(c)
           /\ task' \in [Pids -> Task]
<1> DEFINE r == req[c]
<1> USE DEF NoCtx
<1>1. /\ phase[c] = "final" /\ ctx[c] # NoCtx /\ r.route \in Routes
      /\ r \in Requests /\ r \in Request
  <2>1. phase[c] = "final" /\ ctx[c] # NoCtx
    BY DEF Dispatch, Routed, SignalWithoutCommand, SignalUnknown, SignalDelivered,
           SignalFailed, ReniceOutOfRange, ReniceDone, ReniceFailed, LimitNegative,
           CpuLimitSet, CpuLimitFailed, RamLimitSet, RamLimitFailed, TestPost, Read, NotFound
  <2>2. r \in Requests /\ r \in Request
    BY <2>1, RequestsAssumption DEF BodyInv
  <2> QED BY <2>1, <2>2 DEF Request
<1>2. task \in [Pids -> Task]
  BY DEF TypeOK
<1>3. ASSUME NEW code \in {200, 400, 404, 500}, Refuse(c, code)
      PROVE  Refused(c) /\ task' \in [Pids -> Task]
  BY <1>2, <1>3 DEF Refused, Refuse, Codes
<1>4. ASSUME Refuse(c, 0), r.route = "signal"
      PROVE  Refused(c) /\ task' \in [Pids -> Task]
  BY <1>2, <1>4 DEF Refused, Refuse, Codes
<1>5. ASSUME Refuse(c, 201), r.route = "test"
      PROVE  Refused(c) /\ task' \in [Pids -> Task]
  BY <1>2, <1>5 DEF Refused, Refuse, Codes
<1>6. ASSUME NEW n \in GetLong(c)
      PROVE  n \in Int /\ (n >= 0 => n \in Nat /\ n \in 0 .. RlimInfinity)
  BY <1>1, <1>6, FieldIs, LongLimits
<1>7. CASE SignalDelivered(c)
  <2>1. /\ Field(c) # NoValue /\ r.route = "signal" /\ Perform(c, Field(c), 0)
        /\ Kill(r.pid, Field(c))
    BY <1>7 DEF SignalDelivered, Routed
  <2>2. Field(c) \in Int /\ ctx[c] > 0
    BY <1>1, <2>1, FieldIs
  <2>3. Performed(c)
    BY <2>1, <2>2 DEF Performed, Codes
  <2> QED BY <1>1, <1>2, <2>1, <2>3, KillTyped
<1>8. CASE ReniceDone(c)
  <2>1. PICK n \in GetLong(c) : SetNice(r.pid, n) /\ Perform(c, n, 201)
    BY <1>8 DEF ReniceDone
  <2>2. n \in Int /\ r.route = "renice"
    BY <1>6, <1>8 DEF ReniceDone, Routed
  <2>3. Performed(c)
    BY <2>1, <2>2 DEF Performed, Codes
  <2> QED BY <1>1, <1>2, <2>1, <2>2, <2>3, SetNiceTyped
<1>9. CASE CpuLimitSet(c)
  <2>1. PICK n \in GetLong(c) : n >= 0 /\ SetCpu(r.pid, n) /\ Perform(c, n, 204)
    BY <1>9 DEF CpuLimitSet
  <2>2. n \in Int /\ n \in 0 .. RlimInfinity /\ r.route = "cpu"
    BY <1>6, <1>9, <2>1 DEF CpuLimitSet, Routed
  <2>3. Performed(c)
    BY <2>1, <2>2 DEF Performed, Codes
  <2> QED BY <1>1, <1>2, <2>1, <2>2, <2>3, SetTyped
<1>10. CASE RamLimitSet(c)
  <2>1. PICK n \in GetLong(c) :
           n >= 0 /\ SetRam(r.pid, Bytes(n)) /\ Perform(c, Bytes(n), 204)
    BY <1>10 DEF RamLimitSet
  <2>2. r.route = "ram" /\ n \in Nat
    BY <1>6, <1>10, <2>1 DEF RamLimitSet, Routed
  <2>3. Bytes(n) \in 0 .. RlimInfinity /\ Bytes(n) \in Int
    BY <2>2, BytesRange
  <2>4. Performed(c)
    BY <2>1, <2>2, <2>3 DEF Performed, Codes
  <2> QED BY <1>1, <1>2, <2>1, <2>3, <2>4, SetTyped
<1>11. CASE SignalWithoutCommand(c)
  BY <1>1, <1>3, <1>11 DEF SignalWithoutCommand
<1>12. CASE SignalUnknown(c)
  BY <1>1, <1>4, <1>12 DEF SignalUnknown, Routed
<1>13. CASE SignalFailed(c)
  BY <1>1, <1>4, <1>13 DEF SignalFailed, Routed
<1>14. CASE ReniceOutOfRange(c)
  BY <1>1, <1>3, <1>14 DEF ReniceOutOfRange
<1>15. CASE ReniceFailed(c)
  BY <1>1, <1>3, <1>15 DEF ReniceFailed
<1>16. CASE LimitNegative(c)
  BY <1>1, <1>3, <1>16 DEF LimitNegative
<1>17. CASE CpuLimitFailed(c)
  BY <1>1, <1>3, <1>17 DEF CpuLimitFailed
<1>18. CASE RamLimitFailed(c)
  BY <1>1, <1>3, <1>18 DEF RamLimitFailed
<1>19. CASE TestPost(c)
  BY <1>1, <1>5, <1>19 DEF TestPost, Routed
<1>20. CASE Read(c)
  BY <1>1, <1>3, <1>20 DEF Read
<1>21. CASE NotFound(c)
  BY <1>1, <1>3, <1>21 DEF NotFound
<1> QED BY <1>7, <1>8, <1>9, <1>10, <1>11, <1>12, <1>13, <1>14, <1>15, <1>16, <1>17,
           <1>18, <1>19, <1>20, <1>21 DEF Dispatch
-----------------------------------------------------------------------------
(* TypeOK and ConnInv are inductive together.                              *)
IInv == TypeOK /\ ConnInv

(* It holds when the server starts (server.c:74).                          *)
LEMMA DaemonInit == Init => IInv
BY WordAssumption, BoundAssumption
   DEF Init, IInv, TypeOK, ConnInv, BodyInv, OnceInv, Started, Task, RlimInfinity, NoCtx

(* Every call of on_request, and everything clients and processes do,      *)
(* keeps it.                                                               *)
LEMMA DaemonStep == IInv /\ [Next]_vars => IInv'
<1> SUFFICES ASSUME IInv, [Next]_vars PROVE IInv'
  OBVIOUS
<1>1. TypeOK /\ \A c \in Conns : BodyInv(c) /\ OnceInv(c)
  BY DEF IInv, ConnInv
<1>2. CASE UNCHANGED vars
  BY <1>1, <1>2 DEF vars, IInv, TypeOK, ConnInv, BodyInv, OnceInv
<1>3. ASSUME NEW c \in Conns, NEW r \in Requests, Connect(c, r) PROVE IInv'
  <2>1. r \in Request /\ r.parts \in Nat
    BY RequestsAssumption DEF Request
  <2>2. TypeOK'
    BY <1>1, <1>3, <2>1, BoundAssumption DEF TypeOK, Connect
  <2>3. ASSUME NEW d \in Conns PROVE BodyInv(d)' /\ OnceInv(d)'
    BY <1>1, <1>3, <2>1 DEF TypeOK, Connect, BodyInv, OnceInv
  <2> QED BY <2>2, <2>3 DEF IInv, ConnInv
<1>4. ASSUME NEW c \in Conns, Abort(c) PROVE IInv'
  <2>1. TypeOK'
    BY <1>1, <1>4 DEF TypeOK, Abort
  <2>2. ASSUME NEW d \in Conns PROVE BodyInv(d)' /\ OnceInv(d)'
    BY <1>1, <1>4 DEF TypeOK, Abort, Waiting, BodyInv, OnceInv
  <2> QED BY <2>1, <2>2 DEF IInv, ConnInv
<1>5. ASSUME NEW c \in Conns, AllocateContext(c) PROVE IInv'
  <2>1. TypeOK'
    BY <1>1, <1>5 DEF TypeOK, AllocateContext
  <2>2. req[c] \in Requests /\ req[c].parts \in Nat
    BY <1>1, <1>5, RequestsAssumption DEF AllocateContext, Waiting, BodyInv, Request
  <2>3. ASSUME NEW d \in Conns PROVE BodyInv(d)' /\ OnceInv(d)'
    BY <1>1, <1>5, <2>2 DEF TypeOK, AllocateContext, Waiting, BodyInv, OnceInv, NoCtx
  <2> QED BY <2>1, <2>3 DEF IInv, ConnInv
<1>6. ASSUME NEW c \in Conns, AppendChunk(c) PROVE IInv'
  <2>1. pending[c] \in Nat /\ pending[c] > 0 /\ ctx[c] \in Nat
    BY <1>1, <1>6 DEF TypeOK, AppendChunk, BodyInv
  <2>2. TypeOK'
    BY <1>1, <1>6, <2>1 DEF TypeOK, AppendChunk
  <2>3. ASSUME NEW d \in Conns PROVE BodyInv(d)' /\ OnceInv(d)'
    <3>1. CASE d = c
      <4>1. /\ phase'[c] = IF pending[c] = 1 THEN "final" ELSE "body"
            /\ pending'[c] = pending[c] - 1 /\ ctx'[c] = ctx[c] + 1
            /\ req'[c] = req[c] /\ effects'[c] = effects[c]
        BY <1>1, <1>6 DEF TypeOK, AppendChunk
      <4>2. req[c] \in Requests /\ req[c].parts \in Nat
            /\ ctx[c] + pending[c] = req[c].parts /\ effects[c] = <<>>
        BY <1>1, <1>6, RequestsAssumption DEF AppendChunk, BodyInv, OnceInv, Request
      <4> QED BY <2>1, <3>1, <4>1, <4>2 DEF BodyInv, OnceInv, NoCtx
    <3>2. CASE d # c
      BY <1>1, <1>6, <3>2 DEF TypeOK, AppendChunk, BodyInv, OnceInv
    <3> QED BY <3>1, <3>2
  <2> QED BY <2>2, <2>3 DEF IInv, ConnInv
<1>7. ASSUME NEW c \in Conns, Dispatch(c) PROVE IInv'
  <2>1. /\ phase[c] = "final" /\ task' \in [Pids -> Task]
        /\ Refused(c) \/ Performed(c)
    BY <1>1, <1>7, DispatchSummary
  <2>2. ASSUME NEW code \in Codes, Finish(c, code),
               code = 0 => req[c].route = "signal",
               effects' \in [Conns -> Seq(Int)],
               \A d \in Conns \ {c} : effects'[d] = effects[d]
        PROVE  IInv'
    <3>1. TypeOK'
      BY <1>1, <2>1, <2>2 DEF TypeOK, Finish, Codes
    <3>2. ASSUME NEW d \in Conns PROVE BodyInv(d)' /\ OnceInv(d)'
      BY <1>1, <2>1, <2>2 DEF TypeOK, Finish, BodyInv, OnceInv, NoCtx
    <3> QED BY <3>1, <3>2 DEF IInv, ConnInv
  <2>3. CASE Refused(c)
    BY <1>1, <2>2, <2>3 DEF Refused, Refuse, TypeOK
  <2>4. CASE Performed(c)
    <3>1. PICK code \in Codes, v \in Int :
             Perform(c, v, code) /\ (code = 0 => req[c].route = "signal")
      BY <2>4 DEF Performed
    <3>2. effects' = [effects EXCEPT ![c] = Append(effects[c], v)]
      BY <3>1 DEF Perform
    <3>3. effects' \in [Conns -> Seq(Int)]
      BY <1>1, <3>2 DEF TypeOK
    <3> QED BY <1>1, <2>2, <3>1, <3>2, <3>3 DEF Perform, TypeOK
  <2> QED BY <2>1, <2>3, <2>4
<1>8. ASSUME NEW p \in Pids, Exit(p) PROVE IInv'
  <2>1. task' = [task EXCEPT ![p].alive = FALSE]
        /\ UNCHANGED <<phase, req, pending, ctx, answer, effects, sent>>
    BY <1>8 DEF Exit, Quit
  <2>2. task' \in [Pids -> Task]
    <3>1. task \in [Pids -> Task]
      BY <1>1 DEF TypeOK
    <3>2. PICK b \in BOOLEAN : task' = [task EXCEPT ![p].alive = b]
      BY <2>1
    <3> QED BY <3>1, <3>2 DEF Task
  <2> QED BY <1>1, <2>1, <2>2 DEF IInv, TypeOK, ConnInv, BodyInv, OnceInv
<1> QED BY <1>2, <1>3, <1>4, <1>5, <1>6, <1>7, <1>8 DEF Next

(* The state of connections and processes stays well formed: no part is    *)
(* counted twice (server.c:44-55), and no value outside the range of the   *)
(* kernel is set (limit_routes.c).                                         *)
THEOREM DaemonTypeCorrect == Spec => []TypeOK
<1>1. IInv => TypeOK
  BY DEF IInv
<1> QED BY <1>1, DaemonInit, DaemonStep, PTL DEF Spec

(* So it holds always.                                                     *)
LEMMA ConnectionsInOrder == Spec => []IInv
BY DaemonInit, DaemonStep, PTL DEF Spec

-----------------------------------------------------------------------------
(* Before a handler runs that may still perform, there was no effect.      *)
LEMMA NoEffectYet ==
    ASSUME IInv, NEW c \in Conns, phase[c] = "final", Performed(c)
    PROVE  effects[c] = <<>>
<1>1. req[c].route = "signal" => ctx[c] > 0
  BY DEF Performed
<1> QED BY <1>1 DEF IInv, ConnInv, OnceInv, NoCtx

(* A step leaves the effects of a connection alone, or resets them, or is  *)
(* the dispatch of its request.                                            *)
LEMMA EffectCases ==
    ASSUME IInv, [Next]_vars, NEW c \in Conns
    PROVE  \/ UNCHANGED <<effects[c], req[c], answer[c]>> /\ (phase'[c] = "answered"
                                                               => phase[c] = "answered")
           \/ effects'[c] = <<>> /\ phase'[c] = "headers"
           \/ phase[c] = "final" /\ ctx[c] # NoCtx /\ (Refused(c) \/ Performed(c))
<1>1. TypeOK /\ \A d \in Conns : BodyInv(d)
  BY DEF IInv, ConnInv
<1>2. CASE UNCHANGED vars
  BY <1>2 DEF vars
<1>3. ASSUME NEW d \in Conns, NEW r \in Requests, Connect(d, r)
      PROVE  \/ UNCHANGED <<effects[c], req[c], answer[c], phase[c]>>
             \/ effects'[c] = <<>> /\ phase'[c] = "headers"
  BY <1>1, <1>3 DEF Connect, TypeOK
<1>4. ASSUME NEW d \in Conns, Abort(d) \/ AllocateContext(d) \/ AppendChunk(d)
      PROVE  UNCHANGED <<effects[c], req[c], answer[c]>>
             /\ (phase'[c] = "answered" => phase[c] = "answered")
  BY <1>1, <1>4 DEF Abort, AllocateContext, AppendChunk, TypeOK
<1>5. ASSUME NEW d \in Conns, Dispatch(d)
      PROVE  \/ UNCHANGED <<effects[c], req[c], answer[c], phase[c]>>
             \/ phase[c] = "final" /\ ctx[c] # NoCtx /\ (Refused(c) \/ Performed(c))
  <2>1. phase[d] = "final" /\ ctx[d] # NoCtx /\ (Refused(d) \/ Performed(d))
    BY <1>1, <1>5, DispatchSummary
  <2>2. ASSUME c # d PROVE UNCHANGED <<effects[c], req[c], answer[c], phase[c]>>
    BY <1>1, <2>1, <2>2 DEF Refused, Refuse, Performed, Perform, Finish, TypeOK
  <2> QED BY <2>1, <2>2
<1>6. ASSUME NEW p \in Pids, Exit(p)
      PROVE  UNCHANGED <<effects[c], req[c], answer[c], phase[c]>>
  BY <1>6 DEF Exit
<1> QED BY <1>2, <1>3, <1>4, <1>5, <1>6 DEF Next

(* What the connection shows after a handler that refuses ... *)
LEMMA AfterRefused ==
    ASSUME IInv, NEW c \in Conns, phase[c] = "final", Refused(c)
    PROVE  /\ effects'[c] = effects[c] /\ req'[c] = req[c]
           /\ (phase'[c] = "answered" /\ answer'[c] \in {201, 204} => req[c].route = "test")
<1>1. TypeOK
  BY DEF IInv
<1> QED BY <1>1 DEF Refused, Refuse, Finish, TypeOK

(* ... of a handler that performs. *)
LEMMA AfterPerformed ==
    ASSUME IInv, NEW c \in Conns, phase[c] = "final", Performed(c)
    PROVE  \E v \in Int :
             /\ effects'[c] = <<v>> /\ req'[c] = req[c]
             /\ req[c].route # "test"
             /\ req[c].route # "signal" => answer'[c] \in {201, 204}
<1>1. TypeOK /\ effects[c] = <<>>
  BY NoEffectYet DEF IInv
<1>2. PICK code \in Codes, v \in Int :
        /\ Perform(c, v, code)
        /\ code = 0 => req[c].route = "signal"
        /\ code # 0 => code \in {201, 204}
        /\ req[c].route # "test"
  BY DEF Performed
<1>3. effects'[c] = Append(<<>>, v)
  BY <1>1, <1>2 DEF Perform, TypeOK
<1>4. effects'[c] = <<v>>
  BY <1>3
<1>5. req'[c] = req[c] /\ answer'[c] = code
  BY <1>1, <1>2 DEF Perform, Finish, TypeOK
<1> QED BY <1>2, <1>4, <1>5

-----------------------------------------------------------------------------
(* A request changes the kernel at most once (server.c:57-65): the second  *)
(* dispatch of a signal request finds no command.                          *)
THEOREM EffectOnce == Spec => []EffectAtMostOnce
<1>1. Init => EffectAtMostOnce
  <2>1. Init => \A c \in Conns : effects[c] = <<>>
    BY DEF Init
  <2>2. Len(<<>>) <= 1
    OBVIOUS
  <2> QED BY <2>1, <2>2 DEF EffectAtMostOnce
<1>2. IInv /\ EffectAtMostOnce /\ [Next]_vars => EffectAtMostOnce'
  <2> SUFFICES ASSUME IInv, EffectAtMostOnce, [Next]_vars, NEW c \in Conns
               PROVE  Len(effects'[c]) <= 1
    BY DEF EffectAtMostOnce
  <2>1. Len(effects[c]) <= 1 /\ Len(<<>>) <= 1
    BY DEF EffectAtMostOnce
  <2>2. ASSUME phase[c] = "final", Performed(c) PROVE Len(effects'[c]) <= 1
    <3>1. PICK v \in Int : effects'[c] = <<v>>
      BY <2>2, AfterPerformed
    <3> QED BY <3>1
  <2> QED BY <2>1, <2>2, EffectCases, AfterRefused
<1> QED BY <1>1, <1>2, ConnectionsInOrder, PTL DEF Spec

(* The status of every route but signal tells whether the process was      *)
(* changed (limit_routes.c:57-78, 119-136, 161-178).                       *)
THEOREM AnswerHonest == Spec => []AnswerTellsEffect
<1>1. Init => AnswerTellsEffect
  BY DEF Init, AnswerTellsEffect
<1>2. IInv /\ AnswerTellsEffect /\ [Next]_vars => AnswerTellsEffect'
  <2> DEFINE Tells(e, r, a) == (e # <<>>) <=> (a \in {201, 204} /\ r.route # "test")
  <2> SUFFICES ASSUME IInv, AnswerTellsEffect, [Next]_vars, NEW c \in Conns,
                      phase'[c] = "answered", req'[c].route # "signal"
               PROVE  Tells(effects'[c], req'[c], answer'[c])
    BY DEF AnswerTellsEffect
  <2>1. phase[c] = "answered" /\ req[c].route # "signal"
          => Tells(effects[c], req[c], answer[c])
    BY DEF AnswerTellsEffect
  <2>2. ASSUME phase[c] = "final", Performed(c)
        PROVE  Tells(effects'[c], req'[c], answer'[c])
    BY <2>2, AfterPerformed
  <2>3. ASSUME phase[c] = "final", Refused(c)
        PROVE  Tells(effects'[c], req'[c], answer'[c])
    <3>1. req[c].route # "signal" /\ effects[c] = <<>>
      BY <2>3, AfterRefused DEF IInv, ConnInv, OnceInv
    <3> QED BY <2>3, <3>1, AfterRefused
  <2> QED BY <2>1, <2>2, <2>3, EffectCases
<1> QED BY <1>1, <1>2, ConnectionsInOrder, PTL DEF Spec

-----------------------------------------------------------------------------
(* Refinement.  Multiplication keeps the order, and can be cancelled.      *)
LEMMA Scaled ==
    ASSUME NEW a \in Int, NEW u \in Nat \ {0}, NEW m \in Nat \ {0}, -u < a, a < u
    PROVE  -(u * m) < a * m /\ a * m < u * m
OBVIOUS

LEMMA Cancelled ==
    ASSUME NEW a \in Int, NEW b \in Int, NEW u \in Nat \ {0}, a * u < b * u
    PROVE  a < b
OBVIOUS

(* The value a handler uses is one that the request asks for: the number   *)
(* in the body is cut, not rounded, but by less than one.                  *)
LEMMA CutIsClose ==
    ASSUME NEW x \in Int
    PROVE  Truncated(x) * Unit - x \in Int /\ -Unit < Truncated(x) * Unit - x
           /\ Truncated(x) * Unit - x < Unit
<1>1. Unit \in Nat \ {0} /\ Truncated(x) \in Int
  BY TruncatedClose, NumbersAssumption
<1>2. Truncated(x) * Unit \in Int
  BY <1>1
<1> QED BY <1>1, <1>2, TruncatedClose

LEMMA NiceAsked ==
    ASSUME NEW r \in Request, r.route = "renice", r.arg # NoValue,
           NEW n \in Cast(r.arg) \cap NiceRange
    PROVE  Atomic!Asks(r, n)
<1>1. r.arg \in Int
  BY DEF Request
<1>2. n = Truncated(r.arg)
  BY <1>1, CastValue, LongLimits DEF NiceRange
<1>3. Atomic!Scale(r) = 1 /\ Unit \in Nat /\ Unit * 1 = Unit /\ r.arg * 1 = r.arg
  BY <1>1, NumbersAssumption DEF Atomic!Scale
<1>4. Atomic!Close(r, n)
  BY <1>1, <1>2, <1>3, CutIsClose DEF Atomic!Close
<1> QED BY <1>4 DEF Atomic!Asks

LEMMA CpuAsked ==
    ASSUME NEW r \in Request, r.route = "cpu", r.arg # NoValue,
           NEW n \in Cast(r.arg), n >= 0
    PROVE  Atomic!Asks(r, n)
<1>1. r.arg \in Int
  BY DEF Request
<1>2. n = Truncated(r.arg) \/ r.arg >= (Word \div 2) * Unit
  BY <1>1, CastValue, LongLimits
<1>3. CASE n = Truncated(r.arg)
  <2>1. Atomic!Scale(r) = 1 /\ Unit \in Nat /\ Unit * 1 = Unit /\ r.arg * 1 = r.arg
    BY <1>1, NumbersAssumption DEF Atomic!Scale
  <2>2. Atomic!Close(r, n)
    BY <1>1, <1>3, <2>1, CutIsClose DEF Atomic!Close
  <2> QED BY <2>2 DEF Atomic!Asks
<1>4. CASE r.arg >= (Word \div 2) * Unit
  <2>1. (Word \div 2) * Unit \in Int
    BY WordAssumption, NumbersAssumption
  <2>2. ~Atomic!Fits(r)
    BY <1>1, <1>4, <2>1 DEF Atomic!Fits
  <2> QED BY <2>2 DEF Atomic!Asks
<1> QED BY <1>2, <1>3, <1>4

LEMMA RamAsked ==
    ASSUME NEW r \in Request, r.route = "ram", r.arg # NoValue,
           NEW n \in Cast(r.arg), n >= 0
    PROVE  Atomic!Asks(r, Bytes(n))
<1> DEFINE x == r.arg
<1>1. x \in Int /\ n \in Nat /\ Unit \in Nat \ {0} /\ Megabyte \in Nat \ {0} /\ Word \in Nat
  BY CastValue, NumbersAssumption, WordAssumption DEF Request
<1>2. n = Truncated(x) \/ x >= (Word \div 2) * Unit
  BY <1>1, CastValue, LongLimits
<1>3. Atomic!Scale(r) = Megabyte
  BY DEF Atomic!Scale
<1> HIDE DEF x
<1>4. CASE x >= (Word \div 2) * Unit
  <2>1. (Word \div 2) * Unit \in Int
    BY <1>1
  <2>2. ~Atomic!Fits(r)
    BY <1>1, <1>4, <2>1 DEF Atomic!Fits, x
  <2> QED BY <2>2 DEF Atomic!Asks
<1>5. CASE n = Truncated(x)
  <2>1. SUFFICES ASSUME x * Megabyte < Word * Unit PROVE Atomic!Close(r, Bytes(n))
    BY <1>3 DEF Atomic!Asks, Atomic!Fits, x
  <2> DEFINE off == n * Unit - x
  <2>2. off \in Int /\ -Unit < off /\ off < Unit
    BY <1>1, <1>5, CutIsClose
  <2>3. (n * Unit) * Megabyte = (n * Megabyte) * Unit /\ n * Megabyte \in Nat
        /\ n * Unit \in Nat
    BY <1>1
  <2>4. n * Megabyte < Word
    <3>1. CASE x >= 0
      <4>1. n * Unit <= x
        BY <1>1, <1>5, <3>1, TruncatedClose
      <4>2. (n * Unit) * Megabyte <= x * Megabyte
        BY <1>1, <2>3, <4>1
      <4>3. (n * Megabyte) * Unit < Word * Unit
        BY <1>1, <2>1, <2>3, <4>2
      <4> QED BY <1>1, <2>3, <4>3, Cancelled
    <3>2. CASE x < 0
      <4>1. n = 0
        BY <1>1, <1>5, <3>2, TruncatedClose
      <4> QED BY <1>1, <4>1, WordAssumption
    <3> QED BY <1>1, <3>1, <3>2
  <2>5. Bytes(n) = n * Megabyte
    BY <1>1, <2>4, BytesRange
  <2>6. Bytes(n) * Unit - x * Megabyte = off * Megabyte
    BY <1>1, <2>3, <2>5
  <2> HIDE DEF off
  <2>7. -(Unit * Megabyte) < off * Megabyte /\ off * Megabyte < Unit * Megabyte
    BY <1>1, <2>2, Scaled
  <2> QED BY <1>3, <2>6, <2>7 DEF Atomic!Close, x
<1> QED BY <1>2, <1>4, <1>5

(* A whole body is what a handler other than that of signals finds.        *)
LEMMA WholeBodyFound ==
    ASSUME IInv, NEW c \in Conns, phase[c] = "final", req[c].route # "signal"
    PROVE  /\ req[c] \in Request /\ effects[c] = <<>>
           /\ req[c].arg = NoValue => GetLong(c) = {-1}
           /\ req[c].arg # NoValue => GetLong(c) = Cast(req[c].arg)
<1>1. req[c] \in Requests /\ req[c] \in Request /\ ctx[c] = req[c].parts /\ effects[c] = <<>>
  BY RequestsAssumption DEF IInv, ConnInv, BodyInv, OnceInv
<1> QED BY <1>1, WholeBody DEF GetLong

(* A step of one connection moves what is open on it, and nothing else.    *)
LEMMA OpenMoves ==
    ASSUME NEW c \in Conns,
           \A d \in Conns \ {c} : UNCHANGED <<phase[d], req[d], effects[d]>>
    PROVE  Open' = [Open EXCEPT ![c] = Open'[c]]
BY DEF Open, Waiting

LEMMA OpenIs ==
    ASSUME IInv, NEW c \in Conns
    PROVE  /\ Waiting(c) /\ effects[c] = <<>> => Open[c] = req[c] /\ Open[c] # NoRequest
           /\ ~(Waiting(c) /\ effects[c] = <<>>) => Open[c] = NoRequest
<1>1. Waiting(c) => req[c].route \in Routes
  BY RequestsAssumption DEF IInv, ConnInv, BodyInv, Waiting, Request
<1>2. NoRequest.route \notin Routes
  BY DEF NoRequest, Routes
<1> QED BY <1>1, <1>2 DEF Open

(* A handler that refuses either leaves the request open, to be dispatched *)
(* once more, or gives it up ... *)
LEMMA RefuseMaps ==
    ASSUME IInv, NEW c \in Conns, phase[c] = "final", NEW code, Refuse(c, code)
    PROVE  Atomic!Drop(c) \/ UNCHANGED Atomic!vars
<1>1. TypeOK
  BY DEF IInv
<1>2. UNCHANGED <<task, effects, req>> /\ phase'[c] \in {"final", "answered"}
      /\ \A d \in Conns \ {c} : phase'[d] = phase[d]
  BY <1>1 DEF Refuse, Finish, TypeOK
<1>3. Open' = [Open EXCEPT ![c] = Open'[c]]
  BY <1>2, OpenMoves
<1>4. Open'[c] = Open[c] \/ Open'[c] = NoRequest
  BY <1>2 DEF Open, Waiting
<1>5. CASE Open'[c] = Open[c]
  BY <1>2, <1>3, <1>5 DEF Atomic!vars, Open
<1>6. CASE Open'[c] # Open[c]
  <2>1. Open'[c] = NoRequest /\ Open[c] # NoRequest
    BY <1>4, <1>6
  <2> QED BY <1>2, <1>3, <2>1 DEF Atomic!Drop
<1> QED BY <1>5, <1>6

(* ... and one that performs closes it. *)
LEMMA PerformMaps ==
    ASSUME IInv, NEW c \in Conns, phase[c] = "final", effects[c] = <<>>,
           NEW v, NEW code, Perform(c, v, code)
    PROVE  /\ Open[c] = req[c] /\ Open[c] # NoRequest
           /\ Open' = [Open EXCEPT ![c] = NoRequest]
           /\ effects' = [effects EXCEPT ![c] = <<v>>]
<1>1. TypeOK
  BY DEF IInv
<1>2. Open[c] = req[c] /\ Open[c] # NoRequest
  BY OpenIs DEF Waiting
<1>3. effects' = [effects EXCEPT ![c] = <<v>>]
  <2>1. effects' = [effects EXCEPT ![c] = Append(<<>>, v)]
    BY DEF Perform
  <2>2. Append(<<>>, v) = <<v>>
    OBVIOUS
  <2> QED BY <2>1, <2>2
<1>4. effects'[c] # <<>>
  BY <1>1, <1>3 DEF TypeOK
<1>5. \A d \in Conns \ {c} : UNCHANGED <<phase[d], req[d], effects[d]>>
  BY <1>1, <1>3 DEF Perform, Finish, TypeOK
<1>6. Open' = [Open EXCEPT ![c] = Open'[c]]
  BY <1>5, OpenMoves
<1>7. Open'[c] = NoRequest
  BY <1>4 DEF Open
<1> QED BY <1>2, <1>3, <1>6, <1>7

LEMMA CallIsAct ==
    ASSUME IInv, NEW c \in Conns, phase[c] = "final", effects[c] = <<>>,
           NEW v \in -20 .. RlimInfinity, NEW code, Perform(c, v, code),
           Atomic!Call(req[c], v)
    PROVE  Atomic!Act(c)
<1>1. /\ Open[c] = req[c] /\ Open[c] # NoRequest
      /\ Open' = [Open EXCEPT ![c] = NoRequest]
      /\ effects' = [effects EXCEPT ![c] = <<v>>]
  BY PerformMaps
<1>2. Atomic!Call(Open[c], v)
  BY <1>1, Zenon
<1>3. v \in -20 .. Atomic!RlimInfinity
  BY DEF Atomic!RlimInfinity, RlimInfinity
<1> QED BY <1>1, <1>2, <1>3, Zenon DEF Atomic!Act

LEMMA DispatchMaps ==
    ASSUME IInv, NEW c \in Conns, Dispatch(c)
    PROVE  Atomic!Act(c) \/ Atomic!Drop(c) \/ UNCHANGED Atomic!vars
<1> DEFINE r == req[c]
<1>1. phase[c] = "final" /\ TypeOK /\ r \in Request
  BY DispatchSummary, RequestsAssumption DEF IInv, ConnInv, BodyInv
<1>2. (\E code : Refuse(c, code)) => Atomic!Drop(c) \/ UNCHANGED Atomic!vars
  BY <1>1, RefuseMaps
<1>3. CASE SignalDelivered(c)
  <2> DEFINE n == Field(c)
  <2>1. /\ r.route = "signal" /\ n # NoValue /\ Perform(c, n, 0) /\ Kill(r.pid, n)
    BY <1>3 DEF SignalDelivered, Routed
  <2>2. n = r.arg /\ ctx[c] > 0
    BY <1>1, <2>1, FieldIs
  <2>3. effects[c] = <<>>
    BY <1>1, <2>2 DEF IInv, ConnInv, OnceInv, NoCtx
  <2>4. n \in -20 .. RlimInfinity
    BY <2>1, LongLimits DEF Kill, CanKill
  <2>5. Atomic!Call(r, n)
    <3>1. Atomic!Kill(r.pid, n)
      BY <2>1 DEF Kill, CanKill, Reached, Addressed, MayTouch, Atomic!Kill, Atomic!CanKill,
                  Atomic!Reached, Atomic!Addressed, Atomic!MayTouch
    <3> QED BY <2>1, <2>2, <3>1 DEF Atomic!Call
  <2> QED BY <1>1, <2>1, <2>3, <2>4, <2>5, CallIsAct
<1>4. CASE ReniceDone(c)
  <2>1. PICK n \in GetLong(c) \cap NiceRange : SetNice(r.pid, n) /\ Perform(c, n, 201)
    BY <1>4 DEF ReniceDone
  <2>2. r.route = "renice"
    BY <1>4 DEF ReniceDone, Routed
  <2>3. effects[c] = <<>> /\ Atomic!Asks(r, n)
    <3>1. CASE r.arg = NoValue
      BY <1>1, <2>2, <3>1, WholeBodyFound DEF Atomic!Asks
    <3>2. CASE r.arg # NoValue
      BY <1>1, <2>2, <3>2, WholeBodyFound, NiceAsked
    <3> QED BY <3>1, <3>2
  <2>4. n \in -20 .. 19 /\ n \in -20 .. RlimInfinity
    BY LongLimits DEF NiceRange
  <2>5. Atomic!SetNice(r.pid, n)
    BY <2>1 DEF SetNice, MaySetNice, Clamped, MayTouch, Named, Atomic!SetNice,
                Atomic!MaySetNice, Atomic!Clamped, Atomic!MayTouch, Atomic!Named
  <2>6. Atomic!Call(r, n)
    BY <2>2, <2>3, <2>4, <2>5 DEF Atomic!Call
  <2> QED BY <1>1, <2>1, <2>3, <2>4, <2>6, CallIsAct
<1>5. CASE CpuLimitSet(c)
  <2>1. PICK n \in GetLong(c) : n >= 0 /\ SetCpu(r.pid, n) /\ Perform(c, n, 204)
    BY <1>5 DEF CpuLimitSet
  <2>2. r.route = "cpu"
    BY <1>5 DEF CpuLimitSet, Routed
  <2>3. effects[c] = <<>> /\ Atomic!Asks(r, n)
    <3>1. r.arg # NoValue
      BY <1>1, <2>1, <2>2, WholeBodyFound
    <3> QED BY <1>1, <2>1, <2>2, <3>1, WholeBodyFound, CpuAsked
  <2>4. n \in 0 .. RlimInfinity /\ n \in -20 .. RlimInfinity
    BY <1>1, <2>1, FieldIs, LongLimits
  <2>5. Atomic!SetCpu(r.pid, n)
    BY <2>1 DEF SetCpu, MaySetLimit, MayTouch, Named, Atomic!SetCpu,
                Atomic!MaySetLimit, Atomic!MayTouch, Atomic!Named
  <2>6. Atomic!Call(r, n)
    BY <2>2, <2>3, <2>4, <2>5 DEF Atomic!Call, RlimInfinity, Atomic!RlimInfinity
  <2> QED BY <1>1, <2>1, <2>3, <2>4, <2>6, CallIsAct
<1>6. CASE RamLimitSet(c)
  <2>1. PICK n \in GetLong(c) :
           n >= 0 /\ SetRam(r.pid, Bytes(n)) /\ Perform(c, Bytes(n), 204)
    BY <1>6 DEF RamLimitSet
  <2>2. r.route = "ram" /\ n \in Nat
    BY <1>1, <1>6, <2>1, FieldIs DEF RamLimitSet, Routed
  <2>3. effects[c] = <<>> /\ Atomic!Asks(r, Bytes(n))
    <3>1. r.arg # NoValue
      BY <1>1, <2>1, <2>2, WholeBodyFound
    <3> QED BY <1>1, <2>1, <2>2, <3>1, WholeBodyFound, RamAsked
  <2>4. Bytes(n) \in 0 .. RlimInfinity /\ Bytes(n) \in -20 .. RlimInfinity
    BY <2>2, BytesRange, LongLimits
  <2>5. Atomic!SetRam(r.pid, Bytes(n))
    BY <2>1 DEF SetRam, MaySetLimit, MayTouch, Named, Atomic!SetRam,
                Atomic!MaySetLimit, Atomic!MayTouch, Atomic!Named
  <2>6. Atomic!Call(r, Bytes(n))
    BY <2>2, <2>3, <2>4, <2>5 DEF Atomic!Call, RlimInfinity, Atomic!RlimInfinity
  <2> QED BY <1>1, <2>1, <2>3, <2>4, <2>6, CallIsAct
<1>7. SignalWithoutCommand(c) \/ SignalUnknown(c) \/ SignalFailed(c) \/ ReniceOutOfRange(c)
        \/ ReniceFailed(c) \/ LimitNegative(c) \/ CpuLimitFailed(c) \/ RamLimitFailed(c)
        \/ TestPost(c) \/ Read(c) \/ NotFound(c)
      => \E code : Refuse(c, code)
  BY DEF SignalWithoutCommand, SignalUnknown, SignalFailed, ReniceOutOfRange, ReniceFailed,
         LimitNegative, CpuLimitFailed, RamLimitFailed, TestPost, Read, NotFound
<1> QED BY <1>2, <1>3, <1>4, <1>5, <1>6, <1>7 DEF Dispatch

(* Parts of bodies, contexts and the second dispatch do not show: requests *)
(* act in one step, at most once, with the value of their whole body       *)
(* (server.c:27-67, limit_routes.c:39-179, process_routes.c:120-163).      *)
THEOREM DaemonIsAtomic == Spec => ActsAtomically
<1>1. Init => Atomic!Init
  BY DEF Init, Atomic!Init, Open, Waiting, Started, Atomic!Started, RlimInfinity, Atomic!RlimInfinity
<1>2. IInv /\ [Next]_vars => [Atomic!Next]_Atomic!vars
  <2> SUFFICES ASSUME IInv, [Next]_vars PROVE Atomic!Next \/ UNCHANGED Atomic!vars
    OBVIOUS
  <2>1. TypeOK
    BY DEF IInv
  <2>2. ASSUME NEW c \in Conns, NEW r \in Requests, Connect(c, r) PROVE Atomic!Next
    <3>1. Open[c] = NoRequest
      BY <2>2 DEF Connect, Open, Waiting
    <3>2. /\ \A d \in Conns \ {c} : UNCHANGED <<phase[d], req[d], effects[d]>>
          /\ phase'[c] = "headers" /\ req'[c] = r /\ effects'[c] = <<>>
      BY <2>1, <2>2 DEF Connect, TypeOK
    <3>3. Open' = [Open EXCEPT ![c] = Open'[c]] /\ Open'[c] = r
      BY <3>2, OpenMoves DEF Open, Waiting
    <3>4. Atomic!Receive(c, r)
      BY <2>2, <3>1, <3>3 DEF Connect, Atomic!Receive
    <3> QED BY <3>4 DEF Atomic!Next
  <2>3. ASSUME NEW c \in Conns, Abort(c) PROVE Atomic!Next \/ UNCHANGED Atomic!vars
    <3>1. /\ UNCHANGED <<task, req, effects>> /\ phase'[c] = "aborted"
          /\ \A d \in Conns \ {c} : phase'[d] = phase[d]
      BY <2>1, <2>3 DEF Abort, TypeOK
    <3>2. Open' = [Open EXCEPT ![c] = NoRequest]
      <4>1. Open' = [Open EXCEPT ![c] = Open'[c]] /\ Open'[c] = NoRequest
        BY <3>1, OpenMoves DEF Open, Waiting
      <4> QED BY <4>1
    <3>3. CASE Open[c] = NoRequest
      BY <3>1, <3>2, <3>3 DEF Atomic!vars, Open
    <3>4. CASE Open[c] # NoRequest
      BY <3>1, <3>2, <3>4 DEF Atomic!Drop, Atomic!Next
    <3> QED BY <3>3, <3>4
  <2>4. ASSUME NEW c \in Conns, AllocateContext(c) \/ AppendChunk(c)
        PROVE  UNCHANGED Atomic!vars
    <3>1. /\ UNCHANGED <<task, req, effects>> /\ Waiting(c) /\ Waiting(c)'
          /\ \A d \in Conns \ {c} : phase'[d] = phase[d]
      BY <2>1, <2>4 DEF AllocateContext, AppendChunk, Waiting, TypeOK
    <3>2. Open' = Open
      BY <3>1 DEF Open, Waiting
    <3> QED BY <3>1, <3>2 DEF Atomic!vars
  <2>5. ASSUME NEW c \in Conns, Dispatch(c) PROVE Atomic!Next \/ UNCHANGED Atomic!vars
    BY <2>5, DispatchMaps DEF Atomic!Next
  <2>6. ASSUME NEW p \in Pids, Exit(p) PROVE Atomic!Next
    <3>1. Open' = Open
      BY <2>6 DEF Exit, Open, Waiting
    <3> QED BY <2>6, <3>1 DEF Exit, Quit, Atomic!Exit, Atomic!Quit, Atomic!Next
  <2>7. CASE UNCHANGED vars
    BY <2>7 DEF vars, Atomic!vars, Open, Waiting
  <2> QED BY <2>2, <2>3, <2>4, <2>5, <2>6, <2>7 DEF Next
<1> QED BY <1>1, <1>2, ConnectionsInOrder, PTL DEF Spec, ActsAtomically, Atomic!Spec
=============================================================================
