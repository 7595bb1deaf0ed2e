-------------------------- MODULE RedisCounterProofs -------------------------
(***************************************************************************)
(* Proofs about RedisCounter, for every number of callers, conversations   *)
(* and watermarks, and every counter width.                                *)
(***************************************************************************)
EXTENDS RedisCounter, TLAPS

\* Every id handed out and not rewound past is below the stored number.
IssuedBelow == \A c \in Convs : \A i \in issued[c] : i < val[c]

\* A call that is under way is about a conversation; only an incr expires.
CallConv == \A p \in Callers :
  /\ call[p].st \in {"called", "expiring"} => call[p].conv \in Convs
  /\ call[p].op = "set" /\ call[p].st = "called" => call[p].res \in Nat

Inv == TypeOK /\ IssuedBelow /\ CallConv

\* The counter starts with the invariant.
LEMMA InitInv == Init => Inv
  BY RedisAssumption DEF Init, Inv, TypeOK, IssuedBelow, CallConv, Calls, NoCall

\* One lemma per command: its effect keeps the numbers below the counter.
LEMMA CommandKeeps ==
  ASSUME TypeOK, IssuedBelow, NEW c \in Convs, NEW w \in Nat,
         INCR(c) \/ SETEX(c, w) \/ EXPIRE(c) \/ UNCHANGED <<val, ttl, issued>>
  PROVE  /\ val' \in [Convs -> Nat]
         /\ ttl' \in SUBSET Convs
         /\ issued' \in [Convs -> SUBSET Nat]
         /\ IssuedBelow'
<1> USE RedisAssumption DEF TypeOK, IssuedBelow
<1>1. CASE INCR(c)
  BY <1>1 DEF INCR
<1>2. CASE SETEX(c, w)
  BY <1>2 DEF SETEX
<1>3. CASE EXPIRE(c)
  BY <1>3 DEF EXPIRE
<1>4. CASE UNCHANGED <<val, ttl, issued>>
  BY <1>4
<1> QED BY <1>1, <1>2, <1>3, <1>4

\* The part of the invariant that is about calls.
CallsOK == call \in [Callers -> Calls] /\ CallConv

\* A call goes on.
LEMMA GotoKeeps ==
  ASSUME CallsOK, NEW p \in Callers, call[p].conv \in Convs,
         NEW st \in {"expiring", "done"}, NEW res \in Int, Goto(p, st, res)
  PROVE  CallsOK'
<1> DEFINE new == [call[p] EXCEPT !.st = st, !.res = res]
<1>1. call' = [call EXCEPT ![p] = new]
  BY DEF Goto
<1>2. new \in Calls /\ new.conv = call[p].conv /\ new.st = st
  BY DEF CallsOK, Calls
<1>3. call' \in [Callers -> Calls]
  BY <1>1, <1>2 DEF CallsOK
<1>4. CallConv'
  BY <1>1, <1>2 DEF CallsOK, CallConv
<1> QED BY <1>3, <1>4 DEF CallsOK

\* Every step keeps the invariant.
LEMMA StepInv ==
  ASSUME Inv, [Next]_vars
  PROVE  Inv'
<1> USE RedisAssumption DEF Inv
<1>1. CASE UNCHANGED vars
  BY <1>1 DEF vars, TypeOK, IssuedBelow, CallConv
<1>2. ASSUME NEW p \in Callers, NEW op \in {"incr", "get", "set"}, NEW c \in Convs,
             NEW n \in Nat, Call(p, op, c, n)
      PROVE  Inv'
  BY <1>2 DEF Call, TypeOK, IssuedBelow, CallConv, Calls
<1>3. ASSUME NEW p \in Callers, Incr(p)
      PROVE  Inv'
  <2>1. call[p].conv \in Convs /\ INCR(call[p].conv)
    BY <1>3 DEF Incr, Pending, CallConv
  <2>2. val' \in [Convs -> Nat] /\ ttl' \in SUBSET Convs
        /\ issued' \in [Convs -> SUBSET Nat] /\ IssuedBelow'
    BY <2>1, CommandKeeps
  <2>3. val'[call[p].conv] - 1 \in Nat
    BY <2>1 DEF INCR, TypeOK
  <2>4. call' \in [Callers -> Calls] /\ CallConv'
    BY <1>3, <2>1, <2>3, GotoKeeps DEF Incr, TypeOK, CallsOK
  <2> QED BY <2>2, <2>4 DEF TypeOK
<1>4. ASSUME NEW p \in Callers, Expire(p)
      PROVE  Inv'
  <2>1. call[p].conv \in Convs /\ EXPIRE(call[p].conv)
    BY <1>4 DEF Expire, CallConv
  <2>2. val' \in [Convs -> Nat] /\ ttl' \in SUBSET Convs
        /\ issued' \in [Convs -> SUBSET Nat] /\ IssuedBelow'
    BY <2>1, CommandKeeps
  <2>3. call' \in [Callers -> Calls] /\ CallConv'
    <3>1. call[p].res \in Int
      BY DEF TypeOK, Calls
    <3> QED BY <1>4, <2>1, <3>1, GotoKeeps DEF Expire, TypeOK, CallsOK
  <2> QED BY <2>2, <2>3 DEF TypeOK
<1>5. ASSUME NEW p \in Callers, Set(p)
      PROVE  Inv'
  <2>1. call[p].conv \in Convs /\ call[p].res \in Nat
        /\ SETEX(call[p].conv, call[p].res)
    BY <1>5 DEF Set, Pending, CallConv
  <2>2. val' \in [Convs -> Nat] /\ ttl' \in SUBSET Convs
        /\ issued' \in [Convs -> SUBSET Nat] /\ IssuedBelow'
    BY <2>1, CommandKeeps
  <2>3. call' \in [Callers -> Calls] /\ CallConv'
    BY <1>5, <2>1, GotoKeeps DEF Set, TypeOK, CallsOK
  <2> QED BY <2>2, <2>3 DEF TypeOK
<1>6. ASSUME NEW p \in Callers, Get(p)
      PROVE  Inv'
  <2>1. call[p].conv \in Convs /\ val[call[p].conv] \in Int
    BY <1>6 DEF Get, Pending, CallConv, TypeOK
  <2>2. call' \in [Callers -> Calls] /\ CallConv'
    BY <1>6, <2>1, GotoKeeps DEF Get, TypeOK, CallsOK
  <2> QED BY <1>6, <2>2 DEF Get, TypeOK, IssuedBelow
<1>7. ASSUME NEW p \in Callers, Resend(p)
      PROVE  Inv'
  <2>1. call[p].conv \in Convs
    BY <1>7 DEF Resend, Pending, CallConv
  <2>2. \/ INCR(call[p].conv)
        \/ call[p].res \in Nat /\ SETEX(call[p].conv, call[p].res)
        \/ EXPIRE(call[p].conv)
    BY <1>7 DEF Resend, Pending, CallConv
  <2>3. val' \in [Convs -> Nat] /\ ttl' \in SUBSET Convs
        /\ issued' \in [Convs -> SUBSET Nat] /\ IssuedBelow'
    BY <2>1, <2>2, CommandKeeps
  <2> QED BY <1>7, <2>3 DEF Resend, TypeOK, CallConv
<1>8. ASSUME NEW p \in Callers, Reject(p) \/ Return(p)
      PROVE  Inv'
  BY <1>8 DEF Reject, Return, NoCall, TypeOK, Calls, CallConv, IssuedBelow
<1>9. ASSUME NEW c \in Convs, KeyExpires(c)
      PROVE  Inv'
  BY <1>9 DEF KeyExpires, TypeOK, CallConv, IssuedBelow
<1>10. CASE Restart
  BY <1>10 DEF Restart, NoCall, TypeOK, Calls, CallConv, IssuedBelow
<1> QED
  BY <1>1, <1>2, <1>3, <1>4, <1>5, <1>6, <1>7, <1>8, <1>9, <1>10 DEF Next, Answer

\* The inductive invariant.
LEMMA Invariance == Spec => []Inv
  BY InitInv, StepInv, PTL DEF Spec

\* Type correctness of the Redis counter.
THEOREM RedisType == Spec => []TypeOK
<1>1. Inv => TypeOK
  BY DEF Inv
<1> QED BY <1>1, Invariance, PTL

-----------------------------------------------------------------------------

\* Only INCR answers a call of incr.
LEMMA OnlyIncrAnswers ==
  ASSUME TypeOK, [Next]_vars, NEW p \in Callers,
         call[p].st = "called", call[p].op = "incr",
         call'[p].st \in {"done", "expiring"}
  PROVE  Incr(p)
<1> SUFFICES ASSUME ~Incr(p)
             PROVE  call'[p].st \notin {"done", "expiring"}
  OBVIOUS
<1> USE DEF TypeOK
<1>1. CASE UNCHANGED call
  BY <1>1
<1>2. ASSUME NEW q \in Callers, NEW op, NEW c, NEW n, Call(q, op, c, n)
      PROVE  call'[p].st \notin {"done", "expiring"}
  BY <1>2 DEF Call
<1>3. ASSUME NEW q \in Callers, q # p \/ call[q].st # "called" \/ call[q].op # "incr",
             NEW st, NEW res, Goto(q, st, res)
      PROVE  call'[p].st \notin {"done", "expiring"}
  BY <1>3 DEF Goto
<1>4. ASSUME NEW q \in Callers, Reject(q) \/ Return(q)
      PROVE  call'[p].st \notin {"done", "expiring"}
  <2>1. CASE Reject(q)
    <3>1. call'[p].st = "failed" \/ call'[p] = call[p]
      BY <2>1 DEF Reject, Calls
    <3> QED BY <3>1
  <2>2. CASE Return(q)
    <3>1. call'[p] = NoCall \/ call'[p] = call[p]
      BY <2>2 DEF Return
    <3> QED BY <3>1 DEF NoCall
  <2> QED BY <1>4, <2>1, <2>2
<1>5. CASE Restart
  BY <1>5 DEF Restart, NoCall
<1>6. ASSUME NEW q \in Callers, Incr(q)
      PROVE  call'[p].st \notin {"done", "expiring"}
  BY <1>3, <1>6 DEF Incr
<1>7. ASSUME NEW q \in Callers, Expire(q) \/ Set(q) \/ Get(q)
      PROVE  call'[p].st \notin {"done", "expiring"}
  <2>1. q # p
    BY <1>7 DEF Expire, Set, Get, Pending
  <2> QED BY <1>3, <1>7, <2>1 DEF Expire, Set, Get
<1> QED
  BY <1>1, <1>2, <1>4, <1>5, <1>6, <1>7
  DEF Next, Answer, Resend, KeyExpires, vars

\* No two incr calls answer the same id unless a set or the loss of the key
\* moved the counter back in between.
THEOREM RedisNoReissue == Spec => NoReissue
<1> DEFINE A == \A p \in Callers : Promise!Fresh(p, promised'[p])
<1>1. Inv /\ [Next]_vars => A
  <2> SUFFICES ASSUME Inv, [Next]_vars, NEW p \in Callers,
                      call[p].st = "called", call[p].op = "incr",
                      promised'[p].st = "done"
               PROVE  promised'[p].res \notin issued[call[p].conv]
    BY DEF Promise!Fresh, Promise!Pending, promised
  <2>1. call[p].conv \in Convs
    BY DEF Inv, CallConv
  <2>2. Incr(p)
    <3>1. promised'[p] = IF call'[p].st = "expiring"
                         THEN [call'[p] EXCEPT !.st = "done"] ELSE call'[p]
      BY DEF promised
    <3> QED BY <3>1, OnlyIncrAnswers DEF Inv
  <2>3. promised'[p].res = val[call[p].conv]
    <3>1. call'[p].st = "expiring" /\ call'[p].res = val'[call[p].conv] - 1
      BY <2>2 DEF Incr, Goto, Inv, TypeOK, Calls
    <3>2. val'[call[p].conv] - 1 = val[call[p].conv]
      BY <2>1, <2>2 DEF Incr, INCR, Inv, TypeOK
    <3>3. promised'[p].res = call'[p].res
      BY <3>1 DEF promised
    <3> QED BY <3>1, <3>2, <3>3
  <2> QED BY <2>1, <2>3 DEF Inv, IssuedBelow, TypeOK
<1>2. Inv /\ [Next]_vars => [A]_(Promise!vars)
  BY <1>1
<1> QED BY <1>2, Invariance, PTL DEF Spec, NoReissue, Promise!NoReissue
-----------------------------------------------------------------------------
(* Refinement.  The lemmas say what an update of call is for promised. *)

\* The initial states are those of the atomic counter.
LEMMA PromisedInit == Init => Promise!Init
  BY DEF Init, Promise!Init, Promise!NoCall, NoCall, promised

\* A call that goes on ends in the atomic counter.
LEMMA PromisedGoto ==
  ASSUME TypeOK, NEW p \in Callers, NEW st \in {"expiring", "done"}, NEW res,
         call[p].st # "expiring", Goto(p, st, res)
  PROVE  Promise!Finish(p, res)
<1>1. promised[p] = call[p]
  BY DEF promised
<1>2. promised' = [promised EXCEPT ![p] = [call[p] EXCEPT !.st = "done", !.res = res]]
  BY DEF Goto, promised, TypeOK, Calls
<1> QED BY <1>1, <1>2 DEF Promise!Finish, promised

\* SETEX may rewind the atomic counter.
LEMMA SetRewinds ==
  ASSUME NEW c, NEW w \in Nat, SETEX(c, w)
  PROVE  Promise!Rewind(c, w + Promise!Lag)
<1>1. Promise!Lag = 0
  BY DEF Promise!Lag
<1>2. w + Promise!Lag = w
  BY <1>1
<1> QED BY <1>2 DEF SETEX, Promise!Rewind

\* Every step is a step of the atomic counter, or none.
LEMMA StepRefines ==
  ASSUME Inv, [Next]_vars
  PROVE  [Promise!Next]_(Promise!vars)
<1> USE DEF Inv
<1>1. CASE UNCHANGED vars
  BY <1>1 DEF vars, Promise!vars, promised
<1>2. ASSUME NEW p \in Callers, NEW op \in {"incr", "get", "set"}, NEW c \in Convs,
             NEW n \in Nat, Call(p, op, c, n)
      PROVE  Promise!Call(p, op, c, n)
  <2> DEFINE new == [op |-> op, st |-> "called", conv |-> c, res |-> n]
  <2>1. promised[p] = call[p] /\ call[p].st = "idle"
    BY <1>2 DEF Call, promised
  <2>2. promised' = [promised EXCEPT ![p] = new]
    BY <1>2 DEF Call, promised, TypeOK
  <2> QED BY <1>2, <2>1, <2>2 DEF Call, Promise!Call
<1>3. ASSUME NEW p \in Callers, Incr(p)
      PROVE  Promise!Incr(p)
  <2>1. promised[p] = call[p] /\ call[p].conv \in Convs /\ Promise!Pending(p, "incr")
    BY <1>3 DEF Incr, Pending, Promise!Pending, CallConv, promised
  <2>2. val'[call[p].conv] - 1 = val[call[p].conv] /\ Promise!Take(call[p].conv)
    BY <1>3, <2>1 DEF Incr, INCR, Promise!Take, TypeOK
  <2>3. Promise!Finish(p, val[call[p].conv])
    BY <1>3, <2>2, PromisedGoto DEF Incr, Pending
  <2> QED BY <2>1, <2>2, <2>3 DEF Promise!Incr
<1>4. ASSUME NEW p \in Callers, Expire(p)
      PROVE  UNCHANGED Promise!vars
  <2>1. promised' = promised
    BY <1>4 DEF Expire, Goto, promised, TypeOK, Calls
  <2> QED BY <1>4, <2>1 DEF Expire, EXPIRE, Promise!vars
<1>5. ASSUME NEW p \in Callers, Set(p)
      PROVE  Promise!Set(p)
  <2>1. promised[p] = call[p] /\ call[p].res \in Nat /\ Promise!Pending(p, "set")
    BY <1>5 DEF Set, Pending, Promise!Pending, CallConv, promised
  <2>2. Promise!Rewind(call[p].conv, call[p].res + Promise!Lag)
    BY <1>5, <2>1, SetRewinds DEF Set
  <2>3. Promise!Finish(p, 0)
    BY <1>5, PromisedGoto DEF Set, Pending
  <2> QED BY <2>1, <2>2, <2>3 DEF Promise!Set
<1>6. ASSUME NEW p \in Callers, Get(p)
      PROVE  Promise!Get(p)
  <2>1. promised[p] = call[p] /\ call[p].conv \in Convs /\ Promise!Pending(p, "get")
    BY <1>6 DEF Get, Pending, Promise!Pending, CallConv, promised
  <2>2. Promise!Finish(p, val[call[p].conv])
    BY <1>6, PromisedGoto DEF Get, Pending
  <2>3. val[call[p].conv] - Promise!Lag = val[call[p].conv]
    BY <2>1 DEF Promise!Lag, TypeOK
  <2> QED BY <1>6, <2>1, <2>2, <2>3 DEF Get, Promise!Get
<1>7. ASSUME NEW p \in Callers, Resend(p)
      PROVE  Promise!Lost(p) \/ UNCHANGED Promise!vars
  <2>1. promised' = promised
    BY <1>7 DEF Resend, promised
  <2>2. CASE Pending(p, "incr") /\ INCR(call[p].conv)
    BY <2>1, <2>2 DEF Pending, Promise!Pending, INCR, Promise!Take, Promise!Lost, promised
  <2>3. CASE Pending(p, "set") /\ SETEX(call[p].conv, call[p].res)
    <3>1. promised[p] = call[p] /\ call[p].res \in Nat /\ Promise!Pending(p, "set")
      BY <2>3 DEF Pending, Promise!Pending, CallConv, promised
    <3>2. Promise!Rewind(call[p].conv, call[p].res + Promise!Lag)
      BY <2>3, <3>1, SetRewinds
    <3> QED BY <2>1, <3>1, <3>2 DEF Promise!Lost
  <2>4. CASE call[p].st = "expiring" /\ EXPIRE(call[p].conv)
    BY <2>1, <2>4 DEF EXPIRE, Promise!vars
  <2> QED BY <1>7, <2>2, <2>3, <2>4 DEF Resend
<1>8. ASSUME NEW p \in Callers, Reject(p)
      PROVE  Promise!Fail(p)
  <2>1. promised[p].st \in {"called", "done"}
    BY <1>8 DEF Reject, promised, TypeOK, Calls
  <2>2. promised' = [promised EXCEPT ![p].st = "failed"]
    BY <1>8 DEF Reject, promised, TypeOK, Calls
  <2> QED BY <1>8, <2>1, <2>2 DEF Reject, Promise!Fail
<1>9. ASSUME NEW p \in Callers, Return(p)
      PROVE  Promise!Return(p)
  <2>1. promised[p] = call[p]
    BY <1>9 DEF Return, promised
  <2>2. promised' = [promised EXCEPT ![p] = NoCall]
    BY <1>9 DEF Return, promised, NoCall, TypeOK
  <2> QED BY <1>9, <2>1, <2>2 DEF Return, Promise!Return, Promise!NoCall, NoCall
<1>10. ASSUME NEW c \in Convs, KeyExpires(c)
       PROVE  Promise!Forget(c)
  BY <1>10 DEF KeyExpires, Promise!Forget, promised
<1>11. CASE Restart
  <2>1. Promise!Restart
    BY <1>11 DEF Restart, Promise!Restart, Promise!NoCall, NoCall, promised
  <2> QED BY <2>1 DEF Promise!Next
<1>12. ASSUME NEW p \in Callers, Promise!Step(p)
       PROVE  Promise!Next
  BY <1>12 DEF Promise!Next
<1>13. ASSUME NEW p \in Callers, NEW c \in Convs,
              \/ Call(p, "incr", c, 0) \/ Call(p, "get", c, 0)
              \/ \E w \in Watermarks : Call(p, "set", c, w)
       PROVE  Promise!Next
  BY <1>2, <1>13, RedisAssumption DEF Promise!Next
<1>14. ASSUME NEW p \in Callers, Answer(p) \/ Resend(p)
       PROVE  [Promise!Next]_(Promise!vars)
  BY <1>3, <1>4, <1>5, <1>6, <1>7, <1>8, <1>9, <1>12, <1>14 DEF Answer, Promise!Step
<1>15. ASSUME NEW c \in Convs, KeyExpires(c)
       PROVE  Promise!Next
  BY <1>10, <1>15 DEF Promise!Next
<1> QED
  BY <1>1, <1>11, <1>13, <1>14, <1>15 DEF Next

\* The Redis manager implements the atomic counter its interface promises:
\* whatever the interleaving of INCR, EXPIRE and other callers' commands, and
\* however often a command is sent again, each call takes effect at one instant.
THEOREM RedisImplementsCounter == Spec => Promise!Safe
  BY PromisedInit, StepRefines, Invariance, PTL DEF Spec, Promise!Safe
=============================================================================
