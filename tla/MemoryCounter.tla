---------------------------- MODULE MemoryCounter ----------------------------
(***************************************************************************)
(* MemoryAtomicOperationsManager: the fallback that keeps the counters in  *)
(* a Map of the process.  incr reads the Map, awaits, and writes in a      *)
(* later turn.  Turns run in the order they were queued, so another        *)
(* request's turn runs in that await if it was queued already, as happens  *)
(* to requests that waited for the same promise (one cached look-up of the *)
(* bot's credential answers all of them).                                  *)
(***************************************************************************)
EXTENDS Integers, Sequences

CONSTANTS Callers, Convs, Watermarks,
          MaxCount,     \* 2^53: adding one to it leaves it as it is
          NoConv

ASSUME MemoryAssumption ==
  /\ Watermarks \subseteq Nat /\ NoConv \notin Convs
  /\ MaxCount \in Nat

VARIABLES activityInc,  \* the Map
          issued,       \* history: see AtomicCounter
          call,         \* the method call each caller is in
          micro,        \* callers with a queued turn, next one first
          rewritten     \* history: keys that were set since boot

vars == <<activityInc, issued, call, micro, rewritten>>

\* "awaiting": incr has read res from the Map and will write it plus one.
Calls == [op : {"none", "incr", "get", "set"},
          st : {"idle", "called", "awaiting", "done"},
          conv : Convs \cup {NoConv}, res : Int]
NoCall == [op |-> "none", st |-> "idle", conv |-> NoConv, res |-> 0]

TypeOK ==
  /\ DOMAIN activityInc \subseteq Convs
  /\ \A c \in DOMAIN activityInc : activityInc[c] \in Nat
  /\ issued \in [Convs -> SUBSET Nat]
  /\ call \in [Callers -> Calls]
  /\ micro \in Seq(Callers)
  /\ rewritten \subseteq Convs

Init ==
  /\ activityInc = << >>
  /\ issued = [c \in Convs |-> {}]
  /\ call = [p \in Callers |-> NoCall]
  /\ micro = << >>
  /\ rewritten = {}

-----------------------------------------------------------------------------

Has(c) == c \in DOMAIN activityInc
Write(c, n) ==
  activityInc' = [k \in DOMAIN activityInc \cup {c} |-> IF k = c THEN n ELSE activityInc[k]]
Issue(c, id) == issued' = [issued EXCEPT ![c] = @ \cup {id}]
Goto(p, st, res) == call' = [call EXCEPT ![p].st = st, ![p].res = res]

\* p's turn runs now; when it awaits, its next turn is queued last.
Due(p) == micro # << >> /\ p = Head(micro)
Runs(p, op) == Due(p) /\ call[p].st = "called" /\ call[p].op = op
Answers == micro' = Tail(micro)
Awaits(p) == micro' = Append(Tail(micro), p)

\* JavaScript addition: beyond MaxCount the next integer is not representable.
PlusOne(n) == IF n < MaxCount THEN n + 1 ELSE n

\* The turn in which a request will call the manager is queued.
Call(p, op, c, arg) ==
  /\ call[p].st = "idle"
  /\ call' = [call EXCEPT ![p] = [op |-> op, st |-> "called", conv |-> c, res |-> arg]]
  /\ micro' = Append(micro, p)
  /\ UNCHANGED <<activityInc, issued, rewritten>>

\* Mutant: a new key starts at -1.
IncrFirstMinusOne(p) ==
  /\ Runs(p, "incr") /\ ~Has(call[p].conv) /\ Answers
  /\ Write(call[p].conv, -1)
  /\ Issue(call[p].conv, 0)
  /\ Goto(p, "done", 0)
  /\ UNCHANGED rewritten

\* incr on a key that is not there: store and answer 0.
IncrFirst(p) ==
  /\ Runs(p, "incr") /\ ~Has(call[p].conv) /\ Answers
  /\ Write(call[p].conv, 0)
  /\ Issue(call[p].conv, 0)
  /\ Goto(p, "done", 0)
  /\ UNCHANGED rewritten

\* incr on a key that is there: read it and await.
IncrRead(p) ==
  /\ Runs(p, "incr") /\ Has(call[p].conv) /\ Awaits(p)
  /\ Goto(p, "awaiting", activityInc[call[p].conv])
  /\ UNCHANGED <<activityInc, issued, rewritten>>

\* Mutant: the sum is answered, what was read is written back.
IncrWriteStale(p) ==
  /\ call[p].st = "awaiting" /\ Due(p) /\ Answers
  /\ Write(call[p].conv, call[p].res)
  /\ Issue(call[p].conv, PlusOne(call[p].res))
  /\ Goto(p, "done", PlusOne(call[p].res))
  /\ UNCHANGED rewritten

\* The turn after the await: write what was read plus one.
IncrWrite(p) ==
  /\ call[p].st = "awaiting" /\ Due(p) /\ Answers
  /\ Write(call[p].conv, PlusOne(call[p].res))
  /\ Issue(call[p].conv, PlusOne(call[p].res))
  /\ Goto(p, "done", PlusOne(call[p].res))
  /\ UNCHANGED rewritten

\* Mutant: the watermark is taken for the next id, as in the Redis manager.
SetNext(p) ==
  /\ Runs(p, "set") /\ Answers
  /\ Write(call[p].conv, call[p].res - 1)
  /\ issued' = [issued EXCEPT ![call[p].conv] = {i \in @ : i < call[p].res}]
  /\ Goto(p, "done", 0)
  /\ rewritten' = rewritten \cup {call[p].conv}

Set(p) ==
  /\ Runs(p, "set") /\ Answers
  /\ Write(call[p].conv, call[p].res)
  /\ issued' = [issued EXCEPT ![call[p].conv] = {i \in @ : i <= call[p].res}]
  /\ Goto(p, "done", 0)
  /\ rewritten' = rewritten \cup {call[p].conv}

\* get: -1 stands for undefined.
Get(p) ==
  /\ Runs(p, "get") /\ Answers
  /\ Goto(p, "done", IF Has(call[p].conv) THEN activityInc[call[p].conv] ELSE -1)
  /\ UNCHANGED <<activityInc, issued, rewritten>>

Return(p) ==
  /\ call[p].st = "done"
  /\ call' = [call EXCEPT ![p] = NoCall]
  /\ UNCHANGED <<activityInc, issued, micro, rewritten>>

\* The process restarts with an empty Map.
Restart ==
  /\ activityInc' = << >>
  /\ issued' = [c \in Convs |-> {}]
  /\ call' = [p \in Callers |-> NoCall]
  /\ micro' = << >>
  /\ rewritten' = {}

Turn(p) == IncrFirst(p) \/ IncrRead(p) \/ IncrWrite(p) \/ Set(p) \/ Get(p) \/ Return(p)

Next ==
  \/ \E p \in Callers :
       \/ \E c \in Convs : Call(p, "incr", c, 0) \/ Call(p, "get", c, 0)
       \/ \E c \in Convs, w \in Watermarks : Call(p, "set", c, w)
       \/ Turn(p)
  \/ Restart

\* The event loop runs every turn that is due.
Fairness == \A p \in Callers : WF_vars(Turn(p))

Spec == Init /\ [][Next]_vars /\ Fairness

-----------------------------------------------------------------------------

\* An incr that awaits has no effect yet: for the promise it is still called,
\* with the argument 0 of an incr.  The next number is the stored one plus one.
promised == [p \in Callers |-> IF call[p].st = "awaiting"
                               THEN [op |-> "incr", st |-> "called", conv |-> call[p].conv,
                                     res |-> 0]
                               ELSE call[p]]
promisedNext == [c \in Convs |-> IF Has(c) THEN activityInc[c] + 1 ELSE 0]

Promise == INSTANCE AtomicCounter WITH
             Managers <- {"memory"}, manager <- "memory", MaxCount <- MaxCount + 1,
             next <- promisedNext, call <- promised

\* p's incr ends its await and nobody changed the number in between, nor is the
\* number as large as JavaScript can count.
Undisturbed(p) == /\ Has(call[p].conv) /\ activityInc[call[p].conv] = call[p].res
                  /\ call[p].res < MaxCount

\* The manager departs from the atomic counter in one way only: an incr whose
\* key another call changed during its await, or at the numeric limit.  Every
\* other step, overlapping or not, is a step of the promised counter.
AtomicUnlessDisturbed ==
  [][(\A p \in Callers : call[p].st = "awaiting" /\ call'[p].st = "done" => Undisturbed(p))
     => [Promise!Next]_(Promise!vars)]_vars

\* Overlapping incr calls may share an id, but as long as no client stores a
\* watermark the counter never falls below an id handed out: turns run in the
\* order they were queued, so an incr does not write over a later one's number.
CounterCoversIssued ==
  \A c \in Convs \ rewritten : \A i \in issued[c] : Has(c) /\ i <= activityInc[c]

-----------------------------------------------------------------------------
(* What the documentation says *)

\* atomicity-operations-manager.interface.ts: "Implementations should provide
\* atomic get/set/incr semantics": two overlapping incr calls of one
\* conversation do not both answer the same id.
AtomicIncr == Promise!NoReissue
=============================================================================
