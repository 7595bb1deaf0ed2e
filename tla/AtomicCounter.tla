---------------------------- MODULE AtomicCounter ----------------------------
(***************************************************************************)
(* What AtomicOperationsManager promises its callers: one counter per      *)
(* conversation whose incr, get and set each take effect at one instant    *)
(* between call and return.  RedisCounter and MemoryCounter are compared   *)
(* with it, and Relay is composed with it.                                 *)
(*                                                                         *)
(* The two managers number alike and disagree on what a watermark is: the  *)
(* Redis one stores the next id, the memory one the last id, so `next' is  *)
(* the stored value plus Lag.                                              *)
(***************************************************************************)
EXTENDS Integers

CONSTANTS Callers,      \* requests that use the counter
          Convs,        \* keys
          Watermarks,   \* numbers a client may store
          Managers,     \* "redis", "memory": what boot may choose
          MaxCount,     \* the largest number the backend can count to
          NoConv        \* the conversation of no call

VARIABLES manager,      \* the manager in use, chosen at boot
          next,         \* the id the next incr hands out
          issued,       \* history: ids handed out and not rewound past since
          call          \* the operation each caller is in

vars == <<manager, next, issued, call>>

Lag == IF manager = "memory" THEN 1 ELSE 0

\* res is the argument of a set, then the result of the operation.
Calls == [op : {"none", "incr", "get", "set"}, st : {"idle", "called", "done", "failed"},
          conv : Convs \cup {NoConv}, res : Int]
NoCall == [op |-> "none", st |-> "idle", conv |-> NoConv, res |-> 0]

TypeOK ==
  /\ manager \in Managers
  /\ next \in [Convs -> Nat]
  /\ issued \in [Convs -> SUBSET Nat]
  /\ call \in [Callers -> Calls]

Init ==
  /\ manager \in Managers
  /\ next = [c \in Convs |-> 0]
  /\ issued = [c \in Convs |-> {}]
  /\ call = [p \in Callers |-> NoCall]

-----------------------------------------------------------------------------

Call(p, op, c, arg) ==
  /\ call[p].st = "idle"
  /\ call' = [call EXCEPT ![p] = [op |-> op, st |-> "called", conv |-> c, res |-> arg]]
  /\ UNCHANGED <<next, issued>>

Pending(p, op) == call[p].st = "called" /\ call[p].op = op

Finish(p, res) == call' = [call EXCEPT ![p].st = "done", ![p].res = res]

\* Mutant: the incremented number is not stored.
TakeWithoutStoring(c) ==
  /\ next[c] < MaxCount
  /\ issued' = [issued EXCEPT ![c] = @ \cup {next[c]}]
  /\ UNCHANGED next

\* The effect of one incr: an id is used up.
Take(c) ==
  /\ next[c] < MaxCount
  /\ next' = [next EXCEPT ![c] = @ + 1]
  /\ issued' = [issued EXCEPT ![c] = @ \cup {next[c]}]

\* The effect of one set: ids from n on will be handed out (again).
Rewind(c, n) ==
  /\ next' = [next EXCEPT ![c] = n]
  /\ issued' = [issued EXCEPT ![c] = {i \in @ : i < n}]

Incr(p) == Pending(p, "incr") /\ Take(call[p].conv) /\ Finish(p, next[call[p].conv])

Set(p) == Pending(p, "set") /\ Rewind(call[p].conv, call[p].res + Lag) /\ Finish(p, 0)

\* A get of a number never stored is -1 on the memory manager: `undefined'.
Get(p) ==
  /\ Pending(p, "get")
  /\ Finish(p, next[call[p].conv] - Lag)
  /\ UNCHANGED <<next, issued>>

\* The operation takes effect, its answer is lost, and it is tried again.
Lost(p) ==
  /\ manager = "redis"
  /\ \/ Pending(p, "incr") /\ Take(call[p].conv)
     \/ Pending(p, "set") /\ Rewind(call[p].conv, call[p].res + Lag)
  /\ UNCHANGED call

\* The caller gets an error, whether or not the operation took effect.
Fail(p) ==
  /\ call[p].st \in {"called", "done"} /\ manager = "redis"
  /\ call' = [call EXCEPT ![p].st = "failed"]
  /\ UNCHANGED <<next, issued>>

Return(p) ==
  /\ call[p].st \in {"done", "failed"}
  /\ call' = [call EXCEPT ![p] = NoCall]
  /\ UNCHANGED <<next, issued>>

\* A key that reaches its TTL counts from 0 again.
Forget(c) ==
  /\ manager = "redis"
  /\ next' = [next EXCEPT ![c] = 0]
  /\ issued' = [issued EXCEPT ![c] = {}]
  /\ UNCHANGED call

\* The process dies and its calls with it; the memory manager loses its counts.
Restart ==
  /\ call' = [p \in Callers |-> NoCall]
  /\ \/ manager = "redis" /\ UNCHANGED <<next, issued>>
     \/ /\ manager = "memory"
        /\ next' = [c \in Convs |-> 0] /\ issued' = [c \in Convs |-> {}]

Step(p) == Incr(p) \/ Set(p) \/ Get(p) \/ Lost(p) \/ Fail(p) \/ Return(p)

Next ==
  /\ \/ \E p \in Callers :
          \/ \E c \in Convs : Call(p, "incr", c, 0) \/ Call(p, "get", c, 0)
          \/ \E c \in Convs, w \in Watermarks : Call(p, "set", c, w)
          \/ Step(p)
     \/ \E c \in Convs : Forget(c)
     \/ Restart
  /\ UNCHANGED manager

\* Every call is answered: commands are tried a bounded number of times.
Answer(p) == Incr(p) \/ Set(p) \/ Get(p) \/ Fail(p) \/ Return(p)
Fairness == \A p \in Callers : WF_vars(Answer(p) /\ UNCHANGED manager)

Safe == Init /\ [][Next]_vars
Spec == Safe /\ Fairness

-----------------------------------------------------------------------------

\* An incr never answers with an id it already handed out, unless a set or the
\* loss of the key moved the counter back to or below that id in between.
Fresh(p, t) ==
  Pending(p, "incr") /\ t.st = "done" => t.res \notin issued[call[p].conv]

NoReissue == [][\A p \in Callers : Fresh(p, call'[p])]_vars
=============================================================================
