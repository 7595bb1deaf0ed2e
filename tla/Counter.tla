------------------------------- MODULE Counter -------------------------------
(***************************************************************************)
(* AtomicOperationsService over the manager that its provider chose at     *)
(* boot: Redis (R), or the Map of the process (M) when Redis is not        *)
(* configured or does not answer.  A process that restarts chooses again,  *)
(* and what the other manager counted does not come along.                 *)
(***************************************************************************)
EXTENDS Integers, Sequences

CONSTANTS Callers, Convs, Watermarks,
          Managers,     \* "redis", "memory": what boot may choose
          MaxCount,     \* the largest number that either manager counts to
          NoConv

VARIABLES manager,      \* the manager in use
          next,         \* Redis: the id the next incr hands out
          activityInc,  \* the Map of the memory manager
          issued,       \* history: see AtomicCounter
          call,         \* the operation each caller is in
          micro,        \* memory: callers with a queued turn
          rewritten     \* history: see MemoryCounter

R == INSTANCE AtomicCounter
M == INSTANCE MemoryCounter

Redis  == manager = "redis"  /\ UNCHANGED <<manager, activityInc, micro, rewritten>>
Memory == manager = "memory" /\ UNCHANGED <<manager, next>>

\* The id that the next incr hands out, and by how much a watermark is behind it.
upcoming == [c \in Convs |-> IF manager = "redis" THEN next[c] ELSE M!promisedNext[c]]
Lag == R!Lag

Calls == [op : {"none", "incr", "get", "set"},
          st : {"idle", "called", "awaiting", "done", "failed"},
          conv : Convs \cup {NoConv}, res : Int]

TypeOK ==
  /\ manager \in Managers
  /\ next \in [Convs -> Nat]
  /\ DOMAIN activityInc \subseteq Convs
  /\ \A c \in DOMAIN activityInc : activityInc[c] \in Nat
  /\ issued \in [Convs -> SUBSET Nat]
  /\ call \in [Callers -> Calls]
  /\ micro \in Seq(Callers)
  /\ rewritten \subseteq Convs

Init == R!Init /\ M!Init

-----------------------------------------------------------------------------

Call(p, op, c, arg) ==
  \/ Redis /\ R!Call(p, op, c, arg)
  \/ Memory /\ M!Call(p, op, c, arg)

\* Redis or the event loop works at p's operation.
Work(p) ==
  \/ Redis /\ (R!Incr(p) \/ R!Set(p) \/ R!Get(p) \/ R!Fail(p))
  \/ Memory /\ (M!IncrFirst(p) \/ M!IncrRead(p) \/ M!IncrWrite(p) \/ M!Set(p) \/ M!Get(p))

Resend(p) == Redis /\ R!Lost(p)

Return(p) ==
  \/ Redis /\ R!Return(p)
  \/ Memory /\ M!Return(p)

\* A key ends in Redis, also while this process counts in memory.
Expire(c) ==
  \/ Redis /\ R!Forget(c)
  \/ /\ manager = "memory" /\ next' = [next EXCEPT ![c] = 0]
     /\ UNCHANGED <<manager, activityInc, issued, call, micro, rewritten>>

\* The process dies with its calls and its Map; Redis keeps its keys.
Restart ==
  /\ call' = [p \in Callers |-> R!NoCall]
  /\ activityInc' = << >> /\ micro' = << >> /\ rewritten' = {}
  /\ manager' \in Managers /\ UNCHANGED next
  /\ issued' = [c \in Convs |-> {i \in issued[c] : i < upcoming'[c]}]

\* p's incr in the Map ends although another call wrote the number it had read.
Clash(p) == /\ manager = "memory" /\ call[p].st = "awaiting" /\ call'[p].st = "done"
            /\ ~M!Undisturbed(p)
=============================================================================
