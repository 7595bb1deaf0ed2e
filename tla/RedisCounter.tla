---------------------------- MODULE RedisCounter -----------------------------
(***************************************************************************)
(* RedisAtomicOperationsManager: the counters of AtomicCounter kept as     *)
(* Redis keys with a TTL.  INCR and EXPIRE are two commands, so an incr is *)
(* two steps and other callers' commands run between them.  The client     *)
(* library sends a command again after a broken connection, so a command   *)
(* may run more than once, and rejects it after a bounded number of tries. *)
(*                                                                         *)
(* A missing key and the number 0 behave alike except for the TTL, so the  *)
(* database is a number and a "has a TTL" flag per conversation.           *)
(***************************************************************************)
EXTENDS Integers

CONSTANTS Callers, Convs, Watermarks,
          MaxCount,     \* largest number INCR can produce (2^63 - 1)
          NoConv

VARIABLES val,          \* the number stored under each key, 0 if missing
          ttl,          \* keys that expire
          issued,       \* history: see AtomicCounter
          call          \* the method call each caller is in

vars == <<val, ttl, issued, call>>

ASSUME RedisAssumption ==
  Watermarks \subseteq Nat /\ MaxCount \in Nat /\ NoConv \notin Convs

\* "expiring": INCR has answered, EXPIRE has not.
Calls == [op : {"none", "incr", "get", "set"},
          st : {"idle", "called", "expiring", "done", "failed"},
          conv : Convs \cup {NoConv}, res : Int]
NoCall == [op |-> "none", st |-> "idle", conv |-> NoConv, res |-> 0]

TypeOK ==
  /\ val \in [Convs -> Nat]
  /\ ttl \in SUBSET Convs
  /\ issued \in [Convs -> SUBSET Nat]
  /\ call \in [Callers -> Calls]

Init ==
  /\ val = [c \in Convs |-> 0]
  /\ ttl = {}
  /\ issued = [c \in Convs |-> {}]
  /\ call = [p \in Callers |-> NoCall]

-----------------------------------------------------------------------------
(* Commands, as the server runs them *)

INCR(c) ==
  /\ val[c] < MaxCount
  /\ val' = [val EXCEPT ![c] = @ + 1]
  /\ issued' = [issued EXCEPT ![c] = @ \cup {val[c]}]
  /\ UNCHANGED ttl

SETEX(c, w) ==
  /\ val' = [val EXCEPT ![c] = w]
  /\ ttl' = ttl \cup {c}
  /\ issued' = [issued EXCEPT ![c] = {i \in @ : i < w}]

\* EXPIRE does nothing to a key that is gone.
EXPIRE(c) ==
  /\ ttl' = IF val[c] > 0 THEN ttl \cup {c} ELSE ttl
  /\ UNCHANGED <<val, issued>>

-----------------------------------------------------------------------------
(* Methods of the manager *)

Call(p, op, c, arg) ==
  /\ call[p].st = "idle"
  /\ call' = [call EXCEPT ![p] = [op |-> op, st |-> "called", conv |-> c, res |-> arg]]
  /\ UNCHANGED <<val, ttl, issued>>

Pending(p, op) == call[p].st = "called" /\ call[p].op = op

Goto(p, st, res) == call' = [call EXCEPT ![p].st = st, ![p].res = res]

\* Mutant: one too much is taken off.
IncrOffByOne(p) ==
  /\ Pending(p, "incr")
  /\ INCR(call[p].conv)
  /\ Goto(p, "expiring", val'[call[p].conv] - 2)

\* incr, first await: the result is the new number minus one.
Incr(p) ==
  /\ Pending(p, "incr")
  /\ INCR(call[p].conv)
  /\ Goto(p, "expiring", val'[call[p].conv] - 1)

\* Mutant: the result is read after the EXPIRE.
ExpireAndRead(p) ==
  /\ call[p].st = "expiring"
  /\ EXPIRE(call[p].conv)
  /\ Goto(p, "done", val[call[p].conv] - 1)

\* incr, second await.
Expire(p) ==
  /\ call[p].st = "expiring"
  /\ EXPIRE(call[p].conv)
  /\ Goto(p, "done", call[p].res)

\* Mutant: the watermark is stored minus one, as incr answers it.
SetMinusOne(p) ==
  Pending(p, "set") /\ SETEX(call[p].conv, call[p].res - 1) /\ Goto(p, "done", 0)

Set(p) == Pending(p, "set") /\ SETEX(call[p].conv, call[p].res) /\ Goto(p, "done", 0)

Get(p) ==
  /\ Pending(p, "get")
  /\ Goto(p, "done", val[call[p].conv])
  /\ UNCHANGED <<val, ttl, issued>>

\* The command ran, the connection broke before its answer: it is sent again.
Resend(p) ==
  /\ \/ Pending(p, "incr") /\ INCR(call[p].conv)
     \/ Pending(p, "set") /\ SETEX(call[p].conv, call[p].res)
     \/ call[p].st = "expiring" /\ EXPIRE(call[p].conv)
  /\ UNCHANGED call

\* The command is rejected: the server is away for too long, or INCR overflows.
Reject(p) ==
  /\ call[p].st \in {"called", "expiring"}
  /\ call' = [call EXCEPT ![p].st = "failed"]
  /\ UNCHANGED <<val, ttl, issued>>

Return(p) ==
  /\ call[p].st \in {"done", "failed"}
  /\ call' = [call EXCEPT ![p] = NoCall]
  /\ UNCHANGED <<val, ttl, issued>>

-----------------------------------------------------------------------------

\* An hour without a refresh: the server drops the key.
KeyExpires(c) ==
  /\ c \in ttl
  /\ val' = [val EXCEPT ![c] = 0]
  /\ ttl' = ttl \ {c}
  /\ issued' = [issued EXCEPT ![c] = {}]
  /\ UNCHANGED call

\* The process restarts; Redis keeps the keys.
Restart ==
  /\ call' = [p \in Callers |-> NoCall]
  /\ UNCHANGED <<val, ttl, issued>>

Answer(p) == Incr(p) \/ Expire(p) \/ Set(p) \/ Get(p) \/ Reject(p) \/ Return(p)

Next ==
  \/ \E p \in Callers :
       \/ \E c \in Convs : Call(p, "incr", c, 0) \/ Call(p, "get", c, 0)
       \/ \E c \in Convs, w \in Watermarks : Call(p, "set", c, w)
       \/ Answer(p)
       \/ Resend(p)
  \/ \E c \in Convs : KeyExpires(c)
  \/ Restart

\* Every command is answered or rejected after its last retry.
Fairness == \A p \in Callers : WF_vars(Answer(p))

Spec == Init /\ [][Next]_vars /\ Fairness

-----------------------------------------------------------------------------

\* The manager implements the promised counter.  An incr takes effect with its
\* INCR, so a call that waits for EXPIRE has its answer already.
promised == [p \in Callers |-> IF call[p].st = "expiring"
                              THEN [call[p] EXCEPT !.st = "done"] ELSE call[p]]

Promise == INSTANCE AtomicCounter WITH
             Managers <- {"redis"}, manager <- "redis", next <- val, call <- promised

\* atomicity-operations-manager.interface.ts: "Implementations should provide
\* atomic get/set/incr semantics."
ImplementsAtomicCounter == Promise!Spec

\* Two incr calls never answer the same id unless a set or the loss of the key
\* moved the counter back between them.
NoReissue == Promise!NoReissue

-----------------------------------------------------------------------------
(* What the documentation says *)

\* atomic-operations-manager.redis.ts: incr is to "ensure a 1-hour expiry".  A
\* key that never expires is one whose incr is still waiting for its EXPIRE.
EveryKeyExpires ==
  \A c \in Convs : val[c] > 0 /\ c \notin ttl =>
    \E p \in Callers : call[p].conv = c /\ call[p].st \in {"called", "expiring"}
=============================================================================
