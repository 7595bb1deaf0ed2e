-------------------------- MODULE MemoryCounterProofs -------------------------
(***************************************************************************)
(* Proofs about MemoryCounter, for every number of callers, conversations  *)
(* and watermarks, and every largest number.                               *)
(***************************************************************************)
EXTENDS MemoryCounter, TLAPS

\* A call under way is about a conversation, and carries the argument that its
\* operation has; an incr that awaits has read a number.
Arguments ==
  \A p \in Callers :
    /\ call[p].st # "idle" => call[p].conv \in Convs
    /\ call[p].st = "called" => /\ call[p].op \in {"incr", "get", "set"}
                                /\ call[p].res \in Nat
                                /\ call[p].op = "incr" => call[p].res = 0
    /\ call[p].st = "awaiting" => /\ call[p].op = "incr" /\ call[p].res \in Nat
                                  /\ Has(call[p].conv)

\* A caller has one queued turn while its call runs, and none otherwise.
Queued ==
  /\ \A i, j \in 1 .. Len(micro) : micro[i] = micro[j] => i = j
  /\ \A p \in Callers : call[p].st \in {"called", "awaiting"}
                        <=> \E i \in 1 .. Len(micro) : micro[i] = p

Awaiting(p, c) == call[p].st = "awaiting" /\ call[p].conv = c

\* What an incr will write is no less than what the Map holds ...
Bounded ==
  \A c \in Convs \ rewritten, p \in Callers : Awaiting(p, c)
    => call[p].res <= activityInc[c] /\ activityInc[c] <= PlusOne(call[p].res)

\* ... and what later turns will write is no less than what earlier ones do.
Ordered ==
  \A c \in Convs \ rewritten, i, j \in 1 .. Len(micro) :
    i < j /\ Awaiting(micro[i], c) /\ Awaiting(micro[j], c)
    => call[micro[i]].res <= call[micro[j]].res

Inv == TypeOK /\ Arguments /\ Queued /\ Bounded /\ Ordered /\ CounterCoversIssued

\* The part of TypeOK that is about the Map.
MapOK == DOMAIN activityInc \subseteq Convs /\ \A c \in DOMAIN activityInc : activityInc[c] \in Nat

-----------------------------------------------------------------------------
(* The Map and the queue *)

\* What a write to the map of the process leaves in it.
LEMMA WriteFacts ==
  ASSUME NEW c, NEW n, Write(c, n)
  PROVE  /\ DOMAIN activityInc' = DOMAIN activityInc \cup {c}
         /\ activityInc'[c] = n
         /\ \A b \in DOMAIN activityInc \ {c} : activityInc'[b] = activityInc[b]
  BY DEF Write

\* The rest of a queue.
LEMMA TailFacts ==
  ASSUME NEW S, NEW s \in Seq(S), s # << >>
  PROVE  /\ Tail(s) \in Seq(S) /\ Len(s) \in Nat \ {0} /\ Head(s) = s[1] /\ Head(s) \in S
         /\ Len(Tail(s)) = Len(s) - 1
         /\ \A i \in 1 .. Len(s) - 1 : Tail(s)[i] = s[i + 1]
         /\ \A i \in 1 .. Len(s) : s[i] \in S
  OBVIOUS

\* A queue with one more element.
LEMMA AppendFacts ==
  ASSUME NEW S, NEW s \in Seq(S), NEW e \in S
  PROVE  /\ Append(s, e) \in Seq(S) /\ Len(s) \in Nat
         /\ Len(Append(s, e)) = Len(s) + 1
         /\ \A i \in 1 .. Len(s) : Append(s, e)[i] = s[i] /\ s[i] \in S
         /\ Append(s, e)[Len(s) + 1] = e
  OBVIOUS

\* The addition, which stops at MaxCount, neither lowers a number nor swaps two.
LEMMA PlusOneFacts ==
  ASSUME NEW n \in Nat
  PROVE  /\ PlusOne(n) \in Nat /\ n <= PlusOne(n)
         /\ \A m \in Nat : n <= m => PlusOne(n) <= PlusOne(m)
  BY MemoryAssumption DEF PlusOne

\* The turn of p ends, and its call too.
LEMMA AnswersKeep ==
  ASSUME micro \in Seq(Callers), Queued, NEW p \in Callers,
         micro # << >>, p = Head(micro), Answers,
         call'[p].st = "done", \A q \in Callers \ {p} : call'[q] = call[q]
  PROVE  /\ micro' \in Seq(Callers) /\ Queued'
         /\ Len(micro) \in Nat \ {0} /\ micro[1] = p /\ Len(micro') = Len(micro) - 1
         /\ \A i \in 1 .. Len(micro') : micro'[i] = micro[i + 1] /\ micro'[i] \in Callers \ {p}
<1>1. /\ micro' \in Seq(Callers) /\ Len(micro) \in Nat \ {0} /\ micro[1] = p
      /\ Len(micro') = Len(micro) - 1
      /\ \A i \in 1 .. Len(micro') : micro'[i] = micro[i + 1]
      /\ \A i \in 1 .. Len(micro) : micro[i] \in Callers
  BY TailFacts DEF Answers
<1>2. \A i \in 1 .. Len(micro') : micro'[i] = micro[i + 1] /\ micro'[i] \in Callers \ {p}
  BY <1>1 DEF Queued
<1>3. \A i, j \in 1 .. Len(micro') : micro'[i] = micro'[j] => i = j
  BY <1>1 DEF Queued
<1>4. ASSUME NEW q \in Callers
      PROVE  call'[q].st \in {"called", "awaiting"} <=> \E i \in 1 .. Len(micro') : micro'[i] = q
  <2>1. CASE q = p
    BY <1>2, <2>1
  <2>2. CASE q # p
    <3>1. (\E i \in 1 .. Len(micro) : micro[i] = q) <=> \E i \in 1 .. Len(micro') : micro'[i] = q
      <4>1. ASSUME NEW i \in 1 .. Len(micro), micro[i] = q
            PROVE  \E j \in 1 .. Len(micro') : micro'[j] = q
        <5>1. i # 1 /\ i - 1 \in 1 .. Len(micro')
          BY <1>1, <2>2, <4>1
        <5>2. micro'[i - 1] = micro[(i - 1) + 1] /\ (i - 1) + 1 = i
          BY <1>1, <5>1
        <5> QED BY <4>1, <5>1, <5>2
      <4>2. ASSUME NEW i \in 1 .. Len(micro'), micro'[i] = q
            PROVE  \E j \in 1 .. Len(micro) : micro[j] = q
        <5>1. i + 1 \in 1 .. Len(micro) /\ micro[i + 1] = q
          BY <1>1, <4>2
        <5> QED BY <5>1
      <4> QED BY <4>1, <4>2
    <3> QED BY <2>2, <3>1 DEF Queued
  <2> QED BY <2>1, <2>2
<1> QED BY <1>1, <1>2, <1>3, <1>4 DEF Queued

\* A caller that has no turn queues one.
LEMMA AppendKeeps ==
  ASSUME NEW s \in Seq(Callers), NEW p \in Callers, micro' = Append(s, p),
         \A i, j \in 1 .. Len(s) : s[i] = s[j] => i = j,
         \A q \in Callers \ {p} : call'[q].st \in {"called", "awaiting"}
                                  <=> \E i \in 1 .. Len(s) : s[i] = q,
         \A i \in 1 .. Len(s) : s[i] # p,
         call'[p].st \in {"called", "awaiting"}
  PROVE  /\ micro' \in Seq(Callers) /\ Queued'
         /\ Len(s) \in Nat /\ Len(micro') = Len(s) + 1 /\ micro'[Len(s) + 1] = p
         /\ \A i \in 1 .. Len(s) : micro'[i] = s[i] /\ s[i] \in Callers \ {p}
<1>1. /\ micro' \in Seq(Callers) /\ Len(s) \in Nat /\ Len(micro') = Len(s) + 1
      /\ micro'[Len(s) + 1] = p
      /\ \A i \in 1 .. Len(s) : micro'[i] = s[i] /\ s[i] \in Callers \ {p}
  BY AppendFacts
<1>2. \A i \in 1 .. Len(micro') : i \in 1 .. Len(s) \/ i = Len(s) + 1
  BY <1>1
<1>3. \A i, j \in 1 .. Len(micro') : micro'[i] = micro'[j] => i = j
  BY <1>1, <1>2
<1>4. \A q \in Callers \ {p} :
        (\E i \in 1 .. Len(s) : s[i] = q) <=> \E i \in 1 .. Len(micro') : micro'[i] = q
  <2>1. \A i \in 1 .. Len(s) : i \in 1 .. Len(micro')
    BY <1>1
  <2> QED BY <1>1, <1>2, <2>1
<1>5. Len(s) + 1 \in 1 .. Len(micro')
  BY <1>1
<1> QED BY <1>1, <1>3, <1>4, <1>5 DEF Queued

-----------------------------------------------------------------------------
(* Every step keeps the invariant *)

\* The manager starts with the invariant.
LEMMA InitInv == Init => Inv
<1> SUFFICES ASSUME Init
             PROVE  Inv
  OBVIOUS
<1>1. micro = << >> /\ micro \in Seq(Callers) /\ Len(micro) = 0
  BY DEF Init
<1>2. activityInc = << >> /\ DOMAIN activityInc = {}
  BY DEF Init
<1>3. TypeOK
  BY <1>1, <1>2 DEF Init, TypeOK, Calls, NoCall
<1>4. \A p \in Callers : call[p].st = "idle"
  BY DEF Init, NoCall
<1>5. Arguments /\ Queued /\ Bounded /\ Ordered
  BY <1>1, <1>4 DEF Arguments, Queued, Bounded, Ordered, Awaiting
<1>6. CounterCoversIssued
  BY DEF Init, CounterCoversIssued
<1> QED BY <1>3, <1>5, <1>6 DEF Inv

\* A call goes on.
LEMMA GotoFacts ==
  ASSUME TypeOK, NEW p \in Callers, NEW st \in {"awaiting", "done"}, NEW res \in Int,
         Goto(p, st, res)
  PROVE  /\ call' \in [Callers -> Calls]
         /\ call'[p] = [op |-> call[p].op, st |-> st, conv |-> call[p].conv, res |-> res]
         /\ \A q \in Callers \ {p} : call'[q] = call[q]
<1>1. call[p] \in Calls /\ call \in [Callers -> Calls]
  BY DEF TypeOK
<1> DEFINE new == [op |-> call[p].op, st |-> st, conv |-> call[p].conv, res |-> res]
<1>2. new \in Calls
  BY <1>1 DEF Calls
<1>3. call[p] = [op |-> call[p].op, st |-> call[p].st, conv |-> call[p].conv, res |-> call[p].res]
  BY <1>1 DEF Calls
<1>4. call' = [call EXCEPT ![p] = call'[p]]
  BY <1>1 DEF Goto
<1>5. call'[p] = new
  BY <1>1, <1>3 DEF Goto
<1> HIDE DEF new
<1>6. call' \in [Callers -> Calls] /\ \A q \in Callers \ {p} : call'[q] = call[q]
  BY <1>1, <1>2, <1>4, <1>5
<1> QED BY <1>5, <1>6 DEF new

\* What all turns that end a call have in common.
LEMMA EndTurn ==
  ASSUME Inv, NEW p \in Callers, micro # << >>, p = Head(micro), Answers,
         NEW res \in Int, Goto(p, "done", res),
         DOMAIN activityInc \subseteq DOMAIN activityInc', rewritten \subseteq rewritten'
  PROVE  /\ micro' \in Seq(Callers) /\ Queued' /\ Ordered' /\ Arguments'
         /\ call' \in [Callers -> Calls]
         /\ call'[p].st = "done" /\ \A q \in Callers \ {p} : call'[q] = call[q]
<1>1. /\ call' \in [Callers -> Calls]
      /\ call'[p] = [op |-> call[p].op, st |-> "done", conv |-> call[p].conv, res |-> res]
      /\ \A q \in Callers \ {p} : call'[q] = call[q]
  BY GotoFacts DEF Inv
<1>2. micro \in Seq(Callers)
  BY DEF Inv, TypeOK
<1>3. /\ micro' \in Seq(Callers) /\ Queued'
      /\ Len(micro) \in Nat \ {0} /\ micro[1] = p /\ Len(micro') = Len(micro) - 1
      /\ \A i \in 1 .. Len(micro') : micro'[i] = micro[i + 1] /\ micro'[i] \in Callers \ {p}
  BY <1>1, <1>2, AnswersKeep DEF Inv
<1>4. call[p].st # "idle"
  BY <1>3 DEF Inv, Queued
<1>5. Arguments'
  BY <1>1, <1>4 DEF Inv, Arguments, Has
<1>6. Ordered'
  <2> SUFFICES ASSUME NEW c \in Convs \ rewritten', NEW i \in 1 .. Len(micro'),
                      NEW j \in 1 .. Len(micro'),
                      i < j, Awaiting(micro[i], c)', Awaiting(micro[j], c)'
               PROVE  call'[micro'[i]].res <= call'[micro'[j]].res
    BY DEF Ordered
  <2>1. i + 1 \in 1 .. Len(micro) /\ j + 1 \in 1 .. Len(micro) /\ i + 1 < j + 1
    BY <1>3
  <2>2. call'[micro'[i]] = call[micro[i + 1]] /\ call'[micro'[j]] = call[micro[j + 1]]
    BY <1>1, <1>3
  <2> QED BY <2>1, <2>2 DEF Inv, Ordered, Awaiting
<1> QED BY <1>1, <1>3, <1>5, <1>6

\* incr of a conversation that the process has not counted yet.
LEMMA IncrFirstKeeps ==
  ASSUME Inv, NEW p \in Callers, IncrFirst(p)
  PROVE  Inv'
<1> DEFINE c == call[p].conv
<1>1. /\ call[p].st = "called" /\ ~Has(c) /\ Write(c, 0) /\ Issue(c, 0)
      /\ rewritten' = rewritten /\ Goto(p, "done", 0)
  BY DEF IncrFirst, Runs, Due
<1>2. c \in Convs
  BY <1>1 DEF Inv, Arguments
<1>3. /\ DOMAIN activityInc' = DOMAIN activityInc \cup {c} /\ activityInc'[c] = 0
      /\ \A b \in DOMAIN activityInc \ {c} : activityInc'[b] = activityInc[b]
  BY <1>1, WriteFacts
<1>4. /\ micro' \in Seq(Callers) /\ Queued' /\ Ordered' /\ Arguments' /\ call' \in [Callers -> Calls]
      /\ call'[p].st = "done" /\ \A q \in Callers \ {p} : call'[q] = call[q]
  BY <1>1, <1>3, EndTurn DEF IncrFirst, Runs, Due
<1>5. issued' = [issued EXCEPT ![c] = issued[c] \cup {0}] /\ issued \in [Convs -> SUBSET Nat]
  BY <1>1 DEF Issue, Inv, TypeOK
<1>6. TypeOK'
  BY <1>1, <1>2, <1>3, <1>4, <1>5 DEF Inv, TypeOK
<1>7. Bounded'
  <2> SUFFICES ASSUME NEW b \in Convs \ rewritten, NEW q \in Callers, Awaiting(q, b)'
               PROVE  /\ call'[q].res <= activityInc'[b]
                      /\ activityInc'[b] <= PlusOne(call'[q].res)
    BY <1>1 DEF Bounded, PlusOne
  <2>1. q # p /\ call'[q] = call[q] /\ Awaiting(q, b)
    BY <1>4 DEF Awaiting
  <2>2. Has(b)
    BY <2>1 DEF Inv, Arguments, Awaiting
  <2>3. activityInc'[b] = activityInc[b]
    BY <1>1, <1>3, <2>2 DEF Has
  <2> QED BY <2>1, <2>3 DEF Inv, Bounded
<1>8. CounterCoversIssued'
  <2> SUFFICES ASSUME NEW b \in Convs \ rewritten, NEW i \in issued'[b]
               PROVE  b \in DOMAIN activityInc' /\ i <= activityInc'[b]
    BY <1>1 DEF CounterCoversIssued, Has
  <2>1. CASE b = c
    <3>1. issued[c] = {}
      BY <1>1, <2>1 DEF Inv, CounterCoversIssued
    <3> QED BY <1>2, <1>3, <1>5, <2>1, <3>1
  <2>2. CASE b # c
    <3>1. i \in issued[b]
      BY <1>5, <2>2
    <3>2. Has(b) /\ i <= activityInc[b]
      BY <3>1 DEF Inv, CounterCoversIssued
    <3> QED BY <1>3, <2>2, <3>2 DEF Has
  <2> QED BY <2>1, <2>2
<1> QED BY <1>4, <1>6, <1>7, <1>8 DEF Inv

\* incr writes what it read, plus one.
LEMMA IncrWriteKeeps ==
  ASSUME Inv, NEW p \in Callers, IncrWrite(p)
  PROVE  Inv'
<1> DEFINE c == call[p].conv
           n == PlusOne(call[p].res)
<1>1. /\ call[p].st = "awaiting" /\ Write(c, n) /\ Issue(c, n)
      /\ rewritten' = rewritten /\ Goto(p, "done", n)
  BY DEF IncrWrite
<1>2. c \in Convs /\ Has(c) /\ call[p].res \in Nat
  BY <1>1 DEF Inv, Arguments
<1> HIDE DEF n
<1>3. n \in Nat /\ n = PlusOne(call[p].res)
  BY <1>2, PlusOneFacts DEF n
<1>4. /\ DOMAIN activityInc' = DOMAIN activityInc \cup {c} /\ activityInc'[c] = n
      /\ \A b \in DOMAIN activityInc \ {c} : activityInc'[b] = activityInc[b]
  BY <1>1, WriteFacts
<1>5. micro # << >> /\ p = Head(micro) /\ Answers
  BY DEF IncrWrite, Due
<1>6. /\ micro' \in Seq(Callers) /\ Queued' /\ Ordered' /\ Arguments' /\ call' \in [Callers -> Calls]
      /\ call'[p].st = "done" /\ \A q \in Callers \ {p} : call'[q] = call[q]
  BY <1>1, <1>3, <1>4, <1>5, EndTurn
<1>7. issued' = [issued EXCEPT ![c] = issued[c] \cup {n}] /\ issued \in [Convs -> SUBSET Nat]
  BY <1>1 DEF Issue, Inv, TypeOK
<1>8. TypeOK'
  BY <1>1, <1>2, <1>3, <1>4, <1>6, <1>7 DEF Inv, TypeOK
<1>9. c \notin rewritten => activityInc[c] <= n
  BY <1>1, <1>2, <1>3 DEF Inv, Bounded, Awaiting
<1>10. Bounded'
  <2> SUFFICES ASSUME NEW b \in Convs \ rewritten, NEW q \in Callers, Awaiting(q, b)'
               PROVE  /\ call'[q].res <= activityInc'[b]
                      /\ activityInc'[b] <= PlusOne(call'[q].res)
    BY <1>1 DEF Bounded, PlusOne
  <2>1. q # p /\ call'[q] = call[q] /\ Awaiting(q, b)
    BY <1>6 DEF Awaiting
  <2>2. Has(b) /\ call[q].res \in Nat /\ activityInc[b] \in Nat
    BY <2>1 DEF Inv, Arguments, Awaiting, TypeOK, Has
  <2>3. call[q].res <= activityInc[b] /\ activityInc[b] <= PlusOne(call[q].res)
    BY <2>1 DEF Inv, Bounded
  <2>4. CASE b = c
    <3>1. call[p].res <= call[q].res
      <4>1. PICK j \in 1 .. Len(micro) : micro[j] = q
        BY <2>1 DEF Inv, Queued, Awaiting
      <4>2. micro \in Seq(Callers) /\ micro[1] = p /\ Len(micro) \in Nat
        BY <1>5, TailFacts DEF Inv, TypeOK
      <4>3. 1 \in 1 .. Len(micro) /\ 1 < j
        BY <2>1, <4>1, <4>2
      <4>4. Awaiting(micro[1], c) /\ Awaiting(micro[j], c)
        BY <1>1, <2>1, <2>4, <4>1, <4>2 DEF Awaiting
      <4> QED BY <2>4, <4>1, <4>2, <4>3, <4>4 DEF Inv, Ordered
    <3>2. n <= PlusOne(call[q].res)
      BY <1>2, <1>3, <2>2, <3>1, PlusOneFacts
    <3>3. call[q].res <= n
      BY <1>3, <1>9, <2>2, <2>3, <2>4
    <3> QED BY <1>4, <2>1, <2>4, <3>2, <3>3
  <2>5. CASE b # c
    BY <1>4, <2>1, <2>2, <2>3, <2>5 DEF Has
  <2> QED BY <2>4, <2>5
<1>11. CounterCoversIssued'
  <2> SUFFICES ASSUME NEW b \in Convs \ rewritten, NEW i \in issued'[b]
               PROVE  b \in DOMAIN activityInc' /\ i <= activityInc'[b]
    BY <1>1 DEF CounterCoversIssued, Has
  <2>1. CASE i \in issued[b]
    <3>1. Has(b) /\ i <= activityInc[b] /\ i \in Nat /\ activityInc[b] \in Nat
      BY <1>7, <2>1 DEF Inv, CounterCoversIssued, TypeOK, Has
    <3> QED BY <1>3, <1>4, <1>9, <3>1 DEF Has
  <2>2. CASE b = c /\ i = n
    BY <1>3, <1>4, <2>2
  <2> QED BY <1>7, <2>1, <2>2
<1> QED BY <1>6, <1>8, <1>10, <1>11 DEF Inv

\* incr reads, and awaits.
LEMMA IncrReadKeeps ==
  ASSUME Inv, NEW p \in Callers, IncrRead(p)
  PROVE  Inv'
<1> DEFINE c == call[p].conv
           s == Tail(micro)
<1>1. /\ call[p].st = "called" /\ call[p].op = "incr" /\ Has(c) /\ micro # << >> /\ p = Head(micro)
      /\ micro' = Append(s, p) /\ Goto(p, "awaiting", activityInc[c])
      /\ UNCHANGED <<activityInc, issued, rewritten>>
  BY DEF IncrRead, Runs, Due, Awaits
<1>2. c \in Convs /\ activityInc[c] \in Nat /\ micro \in Seq(Callers)
  BY <1>1 DEF Inv, TypeOK, Has
<1>3. /\ call' \in [Callers -> Calls] /\ \A q \in Callers \ {p} : call'[q] = call[q]
      /\ call'[p] = [op |-> "incr", st |-> "awaiting", conv |-> c, res |-> activityInc[c]]
  BY <1>1, <1>2, GotoFacts DEF Inv
<1>4. /\ s \in Seq(Callers) /\ Len(micro) \in Nat \ {0} /\ micro[1] = p
      /\ Len(s) = Len(micro) - 1 /\ \A i \in 1 .. Len(s) : s[i] = micro[i + 1]
      /\ \A i \in 1 .. Len(micro) : micro[i] \in Callers
  BY <1>1, <1>2, TailFacts
<1> HIDE DEF s
<1>5. \A i \in 1 .. Len(s) : i + 1 \in 1 .. Len(micro) /\ i + 1 # 1
  BY <1>4
<1>6. (\A i, j \in 1 .. Len(s) : s[i] = s[j] => i = j) /\ \A i \in 1 .. Len(s) : s[i] # p
  <2>1. 1 \in 1 .. Len(micro)
    BY <1>4
  <2>2. \A i \in 1 .. Len(s) : s[i] # p
    BY <1>4, <1>5, <2>1 DEF Inv, Queued
  <2>3. \A i, j \in 1 .. Len(s) : s[i] = s[j] => i + 1 = j + 1
    BY <1>4, <1>5 DEF Inv, Queued
  <2> QED BY <2>2, <2>3
<1>7. ASSUME NEW q \in Callers \ {p}
      PROVE  call'[q].st \in {"called", "awaiting"} <=> \E i \in 1 .. Len(s) : s[i] = q
  <2>1. ASSUME NEW i \in 1 .. Len(micro), micro[i] = q
        PROVE  \E j \in 1 .. Len(s) : s[j] = q
    <3>1. i # 1
      BY <1>4, <2>1
    <3>2. i - 1 \in 1 .. Len(s) /\ (i - 1) + 1 = i
      BY <1>4, <3>1
    <3> QED BY <1>4, <2>1, <3>2
  <2>2. ASSUME NEW i \in 1 .. Len(s), s[i] = q
        PROVE  \E j \in 1 .. Len(micro) : micro[j] = q
    BY <1>4, <1>5, <2>2
  <2> QED BY <1>3, <2>1, <2>2 DEF Inv, Queued
<1>8. /\ micro' \in Seq(Callers) /\ Queued'
      /\ Len(s) \in Nat /\ Len(micro') = Len(s) + 1 /\ micro'[Len(s) + 1] = p
      /\ \A i \in 1 .. Len(s) : micro'[i] = s[i] /\ s[i] \in Callers \ {p}
  <2>1. call'[p].st \in {"called", "awaiting"} /\ micro' = Append(s, p) /\ s \in Seq(Callers)
    BY <1>1, <1>3, <1>4
  <2>2. \A q \in Callers \ {p} : call'[q].st \in {"called", "awaiting"}
                                 <=> \E i \in 1 .. Len(s) : s[i] = q
    BY <1>7
  <2> QED BY <1>6, <2>1, <2>2, AppendKeeps
<1>9. TypeOK' /\ CounterCoversIssued'
  BY <1>1, <1>3, <1>8 DEF Inv, TypeOK, CounterCoversIssued, Has
<1>10. Arguments'
  BY <1>1, <1>2, <1>3 DEF Inv, Arguments, Has
<1>11. Bounded'
  <2> SUFFICES ASSUME NEW b \in Convs \ rewritten, NEW q \in Callers, Awaiting(q, b)'
               PROVE  /\ call'[q].res <= activityInc[b]
                      /\ activityInc[b] <= PlusOne(call'[q].res)
    BY <1>1 DEF Bounded, PlusOne
  <2>1. CASE q = p
    <3>1. call'[q].res = activityInc[b]
      BY <1>3, <2>1 DEF Awaiting
    <3>2. b = c
      BY <1>3, <2>1 DEF Awaiting
    <3> QED BY <1>2, <3>1, <3>2, PlusOneFacts
  <2>2. CASE q # p
    BY <1>3, <2>2 DEF Inv, Bounded, Awaiting
  <2> QED BY <2>1, <2>2
<1>12. Ordered'
  <2> SUFFICES ASSUME NEW b \in Convs \ rewritten, NEW i \in 1 .. Len(micro'),
                      NEW j \in 1 .. Len(micro'),
                      i < j, Awaiting(micro[i], b)', Awaiting(micro[j], b)'
               PROVE  call'[micro'[i]].res <= call'[micro'[j]].res
    BY <1>1 DEF Ordered
  <2>1. i \in 1 .. Len(s) /\ (j \in 1 .. Len(s) \/ j = Len(s) + 1)
    BY <1>8
  <2>2. call'[micro'[i]] = call[micro[i + 1]] /\ micro[i + 1] \in Callers
    BY <1>3, <1>4, <1>5, <1>8, <2>1
  <2>3. CASE j \in 1 .. Len(s)
    <3>1. call'[micro'[j]] = call[micro[j + 1]]
      BY <1>3, <1>4, <1>8, <2>3
    <3>2. i + 1 \in 1 .. Len(micro) /\ j + 1 \in 1 .. Len(micro) /\ i + 1 < j + 1
      BY <1>5, <2>1, <2>3
    <3> QED BY <2>2, <3>1, <3>2 DEF Inv, Ordered, Awaiting
  <2>4. CASE j = Len(s) + 1
    <3>1. call'[micro'[j]].res = activityInc[b] /\ b = c
      BY <1>3, <1>8, <2>4 DEF Awaiting
    <3> QED BY <2>2, <3>1 DEF Inv, Bounded, Awaiting
  <2> QED BY <2>1, <2>3, <2>4
<1> QED BY <1>8, <1>9, <1>10, <1>11, <1>12 DEF Inv

\* set.
LEMMA SetKeeps ==
  ASSUME Inv, NEW p \in Callers, Set(p)
  PROVE  Inv'
<1> DEFINE c == call[p].conv
           w == call[p].res
<1>1. /\ call[p].st = "called" /\ micro # << >> /\ p = Head(micro) /\ Answers
      /\ Write(c, w) /\ issued' = [issued EXCEPT ![c] = {i \in issued[c] : i <= w}]
      /\ rewritten' = rewritten \cup {c} /\ Goto(p, "done", 0)
  BY DEF Set, Runs, Due
<1>2. c \in Convs /\ w \in Nat /\ issued \in [Convs -> SUBSET Nat]
  BY <1>1 DEF Inv, Arguments, TypeOK
<1>3. /\ DOMAIN activityInc' = DOMAIN activityInc \cup {c} /\ activityInc'[c] = w
      /\ \A b \in DOMAIN activityInc \ {c} : activityInc'[b] = activityInc[b]
  BY <1>1, WriteFacts
<1>4. /\ micro' \in Seq(Callers) /\ Queued' /\ Ordered' /\ Arguments' /\ call' \in [Callers -> Calls]
      /\ call'[p].st = "done" /\ \A q \in Callers \ {p} : call'[q] = call[q]
  BY <1>1, <1>3, EndTurn
<1>5. TypeOK'
  BY <1>1, <1>2, <1>3, <1>4 DEF Inv, TypeOK
<1>6. ASSUME NEW b \in Convs \ rewritten', Has(b)
      PROVE  activityInc'[b] = activityInc[b] /\ Has(b)'
  BY <1>1, <1>3, <1>6 DEF Has
<1>7. Bounded'
  <2> SUFFICES ASSUME NEW b \in Convs \ rewritten', NEW q \in Callers, Awaiting(q, b)'
               PROVE  /\ call'[q].res <= activityInc'[b]
                      /\ activityInc'[b] <= PlusOne(call'[q].res)
    BY DEF Bounded, PlusOne
  <2>1. call'[q] = call[q] /\ Awaiting(q, b)
    BY <1>4 DEF Awaiting
  <2>2. Has(b)
    BY <2>1 DEF Inv, Arguments, Awaiting
  <2> QED BY <1>1, <1>6, <2>1, <2>2 DEF Inv, Bounded
<1>8. CounterCoversIssued'
  <2>1. \A b \in Convs \ rewritten' : b \in Convs \ rewritten /\ issued'[b] = issued[b]
    BY <1>1, <1>2
  <2> QED BY <1>6, <2>1 DEF Inv, CounterCoversIssued
<1> QED BY <1>4, <1>5, <1>7, <1>8 DEF Inv

\* get.
LEMMA GetKeeps ==
  ASSUME Inv, NEW p \in Callers, Get(p)
  PROVE  Inv'
<1> DEFINE res == IF Has(call[p].conv) THEN activityInc[call[p].conv] ELSE -1
<1>1. /\ micro # << >> /\ p = Head(micro) /\ Answers /\ Goto(p, "done", res)
      /\ UNCHANGED <<activityInc, issued, rewritten>>
  BY DEF Get, Runs, Due
<1>2. res \in Int
  BY DEF Inv, TypeOK, Has
<1> HIDE DEF res
<1>3. /\ micro' \in Seq(Callers) /\ Queued' /\ Ordered' /\ Arguments' /\ call' \in [Callers -> Calls]
      /\ call'[p].st = "done" /\ \A q \in Callers \ {p} : call'[q] = call[q]
  BY <1>1, <1>2, EndTurn
<1>4. TypeOK' /\ CounterCoversIssued'
  BY <1>1, <1>3 DEF Inv, TypeOK, CounterCoversIssued, Has
<1>5. Bounded'
  BY <1>1, <1>3 DEF Inv, Bounded, Awaiting, PlusOne
<1> QED BY <1>3, <1>4, <1>5 DEF Inv

\* The caller takes its result.
LEMMA ReturnKeeps ==
  ASSUME Inv, NEW p \in Callers, Return(p)
  PROVE  Inv'
<1>1. /\ call[p].st = "done" /\ call' = [call EXCEPT ![p] = NoCall]
      /\ UNCHANGED <<activityInc, issued, micro, rewritten>>
  BY DEF Return
<1>2. /\ call' \in [Callers -> Calls] /\ call'[p].st = "idle"
      /\ \A q \in Callers \ {p} : call'[q] = call[q]
  BY <1>1 DEF Inv, TypeOK, Calls, NoCall
<1>3. TypeOK' /\ CounterCoversIssued'
  BY <1>1, <1>2 DEF Inv, TypeOK, CounterCoversIssued, Has
<1>4. Arguments' /\ Bounded'
  BY <1>1, <1>2 DEF Inv, Arguments, Bounded, Awaiting, Has, PlusOne
<1>5. Queued'
  BY <1>1, <1>2 DEF Inv, Queued
<1>6. \A i \in 1 .. Len(micro) : micro[i] # p /\ micro[i] \in Callers
  BY <1>1 DEF Inv, Queued, TypeOK
<1>7. Ordered'
  BY <1>1, <1>2, <1>6 DEF Inv, Ordered, Awaiting
<1> QED BY <1>3, <1>4, <1>5, <1>7 DEF Inv

\* A caller calls.
LEMMA CallKeeps ==
  ASSUME Inv, NEW p \in Callers, NEW op \in {"incr", "get", "set"}, NEW c \in Convs,
         NEW arg \in Nat, op = "incr" => arg = 0, Call(p, op, c, arg)
  PROVE  Inv'
<1> DEFINE new == [op |-> op, st |-> "called", conv |-> c, res |-> arg]
<1>1. /\ call[p].st = "idle" /\ call' = [call EXCEPT ![p] = new] /\ micro' = Append(micro, p)
      /\ UNCHANGED <<activityInc, issued, rewritten>>
  BY DEF Call
<1>2. /\ call' \in [Callers -> Calls] /\ call'[p] = new
      /\ \A q \in Callers \ {p} : call'[q] = call[q]
  BY <1>1 DEF Inv, TypeOK, Calls
<1>3. micro \in Seq(Callers)
  BY DEF Inv, TypeOK
<1>4. \A i \in 1 .. Len(micro) : micro[i] # p
  BY <1>1 DEF Inv, Queued
<1>5. /\ micro' \in Seq(Callers) /\ Queued'
      /\ Len(micro) \in Nat /\ Len(micro') = Len(micro) + 1 /\ micro'[Len(micro) + 1] = p
      /\ \A i \in 1 .. Len(micro) : micro'[i] = micro[i] /\ micro[i] \in Callers \ {p}
  <2>1. call'[p].st \in {"called", "awaiting"}
    BY <1>2
  <2>2. \A q \in Callers \ {p} : call'[q].st \in {"called", "awaiting"}
                                 <=> \E i \in 1 .. Len(micro) : micro[i] = q
    BY <1>2 DEF Inv, Queued
  <2>3. \A i, j \in 1 .. Len(micro) : micro[i] = micro[j] => i = j
    BY DEF Inv, Queued
  <2> QED BY <1>1, <1>3, <1>4, <2>1, <2>2, <2>3, AppendKeeps
<1>6. TypeOK' /\ CounterCoversIssued'
  BY <1>1, <1>2, <1>5 DEF Inv, TypeOK, CounterCoversIssued, Has
<1>7. Arguments' /\ Bounded'
  BY <1>1, <1>2 DEF Inv, Arguments, Bounded, Awaiting, Has, PlusOne
<1>8. Ordered'
  <2> SUFFICES ASSUME NEW b \in Convs \ rewritten, NEW i \in 1 .. Len(micro'),
                      NEW j \in 1 .. Len(micro'),
                      i < j, Awaiting(micro[i], b)', Awaiting(micro[j], b)'
               PROVE  call'[micro'[i]].res <= call'[micro'[j]].res
    BY <1>1 DEF Ordered
  <2>1. i # Len(micro) + 1 /\ j # Len(micro) + 1
    BY <1>2, <1>5 DEF Awaiting
  <2>2. i \in 1 .. Len(micro) /\ j \in 1 .. Len(micro)
    BY <1>5, <2>1
  <2>3. call'[micro'[i]] = call[micro[i]] /\ call'[micro'[j]] = call[micro[j]]
    BY <1>2, <1>5, <2>2
  <2> QED BY <2>2, <2>3 DEF Inv, Ordered, Awaiting
<1> QED BY <1>5, <1>6, <1>7, <1>8 DEF Inv

\* Every step keeps the invariant.
LEMMA InvStep ==
  ASSUME Inv, [Next]_vars
  PROVE  Inv'
<1>1. CASE UNCHANGED vars
  BY <1>1 DEF vars, Inv, TypeOK, Arguments, Queued, Bounded, Ordered, Awaiting, PlusOne,
              CounterCoversIssued, Has
<1>2. ASSUME NEW p \in Callers, NEW c \in Convs, Call(p, "incr", c, 0) \/ Call(p, "get", c, 0)
      PROVE  Inv'
  BY <1>2, CallKeeps
<1>3. ASSUME NEW p \in Callers, NEW c \in Convs, NEW w \in Watermarks, Call(p, "set", c, w)
      PROVE  Inv'
  BY <1>3, CallKeeps, MemoryAssumption
<1>4. ASSUME NEW p \in Callers, Turn(p)
      PROVE  Inv'
  BY <1>4, IncrFirstKeeps, IncrReadKeeps, IncrWriteKeeps, SetKeeps, GetKeeps, ReturnKeeps DEF Turn
<1>5. CASE Restart
  <2>1. Init'
    BY <1>5 DEF Restart, Init
  <2>2. Init => Inv
    BY InitInv
  <2> QED BY <2>1, InitInv, PTL
<1> QED BY <1>1, <1>2, <1>3, <1>4, <1>5 DEF Next

\* The inductive invariant.
LEMMA Invariance == Spec => []Inv
<1>1. Inv /\ [Next]_vars => Inv'
  BY InvStep
<1> QED BY <1>1, InitInv, PTL DEF Spec

\* Type correctness of the Map, the calls and the queue of turns.
THEOREM MemoryType == Spec => []TypeOK
<1>1. Inv => TypeOK
  BY DEF Inv
<1> QED BY <1>1, Invariance, PTL

\* As long as no client stores a watermark, the memory manager's counter never falls
\* below an id that it handed out, although overlapping incr calls may share one.
THEOREM MemoryCoversIssued == Spec => []CounterCoversIssued
<1>1. Inv => CounterCoversIssued
  BY DEF Inv
<1> QED BY <1>1, Invariance, PTL

-----------------------------------------------------------------------------
(* Every step but a disturbed incr is a step of the promised counter *)

\* A write moves the next number of the atomic counter.
LEMMA WritePromised ==
  ASSUME NEW c \in Convs, NEW n, Write(c, n)
  PROVE  promisedNext' = [promisedNext EXCEPT ![c] = n + 1]
<1>1. /\ DOMAIN activityInc' = DOMAIN activityInc \cup {c} /\ activityInc'[c] = n
      /\ \A b \in DOMAIN activityInc \ {c} : activityInc'[b] = activityInc[b]
  BY WriteFacts
<1>2. promisedNext' = [b \in Convs |-> IF b \in DOMAIN activityInc' THEN activityInc'[b] + 1 ELSE 0]
  BY DEF promisedNext, Has
<1>3. promisedNext = [b \in Convs |-> IF b \in DOMAIN activityInc THEN activityInc[b] + 1 ELSE 0]
  BY DEF promisedNext, Has
<1>4. \A b \in Convs \ {c} : b \in DOMAIN activityInc' <=> b \in DOMAIN activityInc
  BY <1>1
<1> QED BY <1>1, <1>2, <1>3, <1>4

\* What the end of a call is for any function of the callers.
LEMMA Finished ==
  ASSUME NEW S, NEW f \in [Callers -> S], NEW p \in Callers, NEW res,
         f[p] = [op |-> f[p].op, st |-> f[p].st, conv |-> f[p].conv, res |-> f[p].res]
  PROVE  /\ [f EXCEPT ![p].st = "done", ![p].res = res][p]
            = [op |-> f[p].op, st |-> "done", conv |-> f[p].conv, res |-> res]
         /\ \A q \in Callers \ {p} : [f EXCEPT ![p].st = "done", ![p].res = res][q] = f[q]
         /\ DOMAIN [f EXCEPT ![p].st = "done", ![p].res = res] = Callers
  OBVIOUS

\* A call that ends, ends in the atomic counter.
LEMMA FinishPromised ==
  ASSUME Inv, NEW p \in Callers, call[p].st \in {"called", "awaiting"}, NEW res \in Int,
         Goto(p, "done", res)
  PROVE  Promise!Finish(p, res)
<1>1. /\ call'[p] = [op |-> call[p].op, st |-> "done", conv |-> call[p].conv, res |-> res]
      /\ \A q \in Callers \ {p} : call'[q] = call[q]
  BY GotoFacts DEF Inv
<1>2. /\ promised'[p] = call'[p]
      /\ \A q \in Callers \ {p} : promised'[q] = promised[q]
  BY <1>1 DEF promised
<1>3. promised[p] = [op |-> call[p].op, st |-> promised[p].st, conv |-> call[p].conv,
                     res |-> promised[p].res]
  <2>1. CASE call[p].st = "called"
    <3>1. call[p] \in Calls
      BY DEF Inv, TypeOK
    <3>2. call[p] = [op |-> call[p].op, st |-> call[p].st, conv |-> call[p].conv,
                     res |-> call[p].res]
      BY <3>1 DEF Calls
    <3>3. promised[p] = call[p]
      BY <2>1 DEF promised
    <3> QED BY <3>2, <3>3
  <2>2. CASE call[p].st = "awaiting"
    <3>1. call[p].op = "incr"
      BY <2>2 DEF Inv, Arguments
    <3> QED BY <2>2, <3>1 DEF promised
  <2> QED BY <2>1, <2>2
<1> DEFINE S == {promised[q] : q \in Callers}
           g == [promised EXCEPT ![p].st = "done", ![p].res = res]
<1>4. promised \in [Callers -> S]
  BY DEF promised
<1>5. promised[p] = [op |-> promised[p].op, st |-> promised[p].st, conv |-> promised[p].conv,
                     res |-> promised[p].res]
      /\ promised[p].op = call[p].op /\ promised[p].conv = call[p].conv
  BY <1>3
<1> HIDE DEF S
<1>6. /\ g[p] = [op |-> call[p].op, st |-> "done", conv |-> call[p].conv, res |-> res]
      /\ \A q \in Callers \ {p} : g[q] = promised[q]
      /\ DOMAIN g = Callers
  BY <1>4, <1>5, Finished
<1>7. g = [q \in Callers |-> g[q]] /\ promised' = [q \in Callers |-> promised'[q]]
  BY <1>4 DEF promised
<1> HIDE DEF g
<1>8. promised' = g
  BY <1>1, <1>2, <1>6, <1>7
<1> QED BY <1>8 DEF Promise!Finish, g

\* An incr that nobody disturbed is one of the atomic counter.
LEMMA IncrPromised ==
  ASSUME Inv, NEW p \in Callers,
         IncrFirst(p) \/ (IncrWrite(p) /\ Undisturbed(p))
  PROVE  Promise!Incr(p)
<1> DEFINE c == call[p].conv
           n == promisedNext[c]
<1>1. /\ call[p].st \in {"called", "awaiting"} /\ call[p].op = "incr" /\ c \in Convs
      /\ Promise!Pending(p, "incr") /\ promised[p].conv = c
  <2>1. /\ call[p].st \in {"called", "awaiting"} /\ call[p].op = "incr" /\ c \in Convs
        /\ call[p] \in Calls
    BY DEF IncrFirst, IncrWrite, Runs, Due, Inv, Arguments, TypeOK
  <2> QED BY <2>1 DEF Promise!Pending, promised, Calls
<1>2. /\ n \in Nat /\ n < MaxCount + 1
      /\ Write(c, n) /\ Issue(c, n) /\ Goto(p, "done", n)
  <2>1. CASE IncrFirst(p)
    <3>1. n = 0
      BY <1>1, <2>1 DEF IncrFirst, promisedNext
    <3> QED BY <2>1, <3>1, MemoryAssumption DEF IncrFirst
  <2>2. CASE IncrWrite(p) /\ Undisturbed(p)
    <3>1. Has(c) /\ call[p].res \in Nat /\ activityInc[c] = call[p].res /\ call[p].res < MaxCount
      BY <2>2 DEF IncrWrite, Inv, Arguments, Undisturbed
    <3>2. n = call[p].res + 1 /\ PlusOne(call[p].res) = call[p].res + 1
      BY <1>1, <3>1 DEF promisedNext, PlusOne
    <3> QED BY <2>2, <3>1, <3>2, MemoryAssumption DEF IncrWrite
  <2> QED BY <2>1, <2>2
<1>3. Promise!Finish(p, n)
  BY <1>1, <1>2, FinishPromised
<1>4. Promise!Take(c)
  <2>1. promisedNext' = [promisedNext EXCEPT ![c] = n + 1]
    BY <1>1, <1>2, WritePromised
  <2>2. issued' = [issued EXCEPT ![c] = @ \cup {n}]
    BY <1>2 DEF Issue
  <2> QED BY <1>2, <2>1, <2>2 DEF Promise!Take
<1> QED BY <1>1, <1>3, <1>4 DEF Promise!Incr

\* A set is one of the atomic counter.
LEMMA SetPromised ==
  ASSUME Inv, NEW p \in Callers, Set(p)
  PROVE  Promise!Set(p)
<1> DEFINE c == call[p].conv
           w == call[p].res
<1>1. /\ call[p].st = "called" /\ call[p].op = "set" /\ c \in Convs /\ w \in Nat
      /\ Write(c, w) /\ Goto(p, "done", 0)
      /\ issued' = [issued EXCEPT ![c] = {i \in @ : i <= w}]
  BY DEF Set, Runs, Due, Inv, Arguments
<1>2. promised[p] = call[p] /\ Promise!Pending(p, "set")
  BY <1>1 DEF promised, Promise!Pending
<1>3. Promise!Lag = 1
  BY DEF Promise!Lag
<1>4. \A i \in issued[c] : i <= w <=> i < w + 1
  BY <1>1 DEF Inv, TypeOK
<1>5. {i \in issued[c] : i <= w} = {i \in issued[c] : i < w + 1}
  BY <1>4
<1>6. promisedNext' = [promisedNext EXCEPT ![c] = w + 1]
  BY <1>1, WritePromised
<1>7. Promise!Rewind(c, w + 1)
  BY <1>1, <1>5, <1>6 DEF Promise!Rewind
<1>8. Promise!Finish(p, 0)
  BY <1>1, FinishPromised
<1> QED BY <1>2, <1>3, <1>7, <1>8 DEF Promise!Set

\* A get is one of the atomic counter.
LEMMA GetPromised ==
  ASSUME Inv, NEW p \in Callers, Get(p)
  PROVE  Promise!Get(p)
<1> DEFINE c == call[p].conv
           res == IF Has(c) THEN activityInc[c] ELSE -1
<1>1. /\ call[p].st = "called" /\ call[p].op = "get" /\ c \in Convs
      /\ Goto(p, "done", res) /\ UNCHANGED <<activityInc, issued>>
  BY DEF Get, Runs, Due, Inv, Arguments
<1>2. promised[p] = call[p] /\ Promise!Pending(p, "get")
  BY <1>1 DEF promised, Promise!Pending
<1>3. res \in Int /\ promisedNext[c] - 1 = res
  BY <1>1 DEF promisedNext, Has, Inv, TypeOK
<1>4. Promise!Finish(p, res)
  BY <1>1, <1>3, FinishPromised
<1>5. promisedNext' = promisedNext
  BY <1>1 DEF promisedNext, Has
<1>6. Promise!Lag = 1
  BY DEF Promise!Lag
<1> QED BY <1>1, <1>2, <1>3, <1>4, <1>5, <1>6 DEF Promise!Get

\* An incr that starts to await is still called for the promise.
LEMMA AwaitPromised ==
  ASSUME Inv, NEW p \in Callers, IncrRead(p)
  PROVE  UNCHANGED Promise!vars
<1>1. /\ call[p].st = "called" /\ call[p].op = "incr" /\ call[p].res = 0 /\ Has(call[p].conv)
      /\ Goto(p, "awaiting", activityInc[call[p].conv])
      /\ UNCHANGED <<activityInc, issued>>
  BY DEF IncrRead, Runs, Due, Inv, Arguments
<1>2. activityInc[call[p].conv] \in Int
  BY <1>1 DEF Inv, TypeOK, Has
<1>3. /\ call'[p] = [op |-> "incr", st |-> "awaiting", conv |-> call[p].conv,
                     res |-> activityInc[call[p].conv]]
      /\ \A q \in Callers \ {p} : call'[q] = call[q]
  BY <1>1, <1>2, GotoFacts DEF Inv
<1>4. call[p] = [op |-> "incr", st |-> "called", conv |-> call[p].conv, res |-> 0]
  <2>1. call[p] \in Calls
    BY DEF Inv, TypeOK
  <2> QED BY <1>1, <2>1 DEF Calls
<1>5. promised'[p] = promised[p] /\ \A q \in Callers \ {p} : promised'[q] = promised[q]
  BY <1>1, <1>3, <1>4 DEF promised
<1>6. promised' = promised
  BY <1>5 DEF promised
<1>7. promisedNext' = promisedNext
  BY <1>1 DEF promisedNext, Has
<1> QED BY <1>1, <1>6, <1>7 DEF Promise!vars

\* A step that ends no disturbed incr is a step of the atomic counter, or none.
LEMMA StepRefines ==
  ASSUME Inv, [Next]_vars,
         \A p \in Callers : call[p].st = "awaiting" /\ call'[p].st = "done" => Undisturbed(p)
  PROVE  [Promise!Next]_(Promise!vars)
<1>1. CASE UNCHANGED vars
  BY <1>1 DEF vars, Promise!vars, promised, promisedNext, Has
<1>2. ASSUME NEW p \in Callers, NEW op \in {"incr", "get", "set"}, NEW c \in Convs,
             NEW arg \in Nat, Call(p, op, c, arg)
      PROVE  Promise!Call(p, op, c, arg)
  <2> DEFINE new == [op |-> op, st |-> "called", conv |-> c, res |-> arg]
  <2>1. promised[p] = call[p] /\ call[p].st = "idle"
    BY <1>2 DEF Call, promised
  <2>2. promised' = [promised EXCEPT ![p] = new]
    BY <1>2 DEF Call, promised, Inv, TypeOK
  <2>3. promisedNext' = promisedNext
    BY <1>2 DEF Call, promisedNext, Has
  <2> QED BY <1>2, <2>1, <2>2, <2>3 DEF Call, Promise!Call
<1>3. ASSUME NEW p \in Callers, NEW c \in Convs,
             \/ Call(p, "incr", c, 0) \/ Call(p, "get", c, 0)
             \/ \E w \in Watermarks : Call(p, "set", c, w)
      PROVE  Promise!Next
  BY <1>2, <1>3, MemoryAssumption DEF Promise!Next
<1>4. ASSUME NEW p \in Callers, Promise!Step(p)
      PROVE  Promise!Next
  BY <1>4 DEF Promise!Next
<1>5. ASSUME NEW p \in Callers, Return(p)
      PROVE  Promise!Return(p)
  <2>1. promised[p] = call[p]
    BY <1>5 DEF Return, promised
  <2>2. promised' = [promised EXCEPT ![p] = NoCall]
    BY <1>5 DEF Return, promised, NoCall, Inv, TypeOK
  <2>3. promisedNext' = promisedNext
    BY <1>5 DEF Return, promisedNext, Has
  <2> QED BY <1>5, <2>1, <2>2, <2>3 DEF Return, Promise!Return, Promise!NoCall, NoCall
<1>6. ASSUME NEW p \in Callers, IncrWrite(p)
      PROVE  Undisturbed(p)
  <2>1. call[p].st = "awaiting" /\ Goto(p, "done", PlusOne(call[p].res)) /\ call \in [Callers -> Calls]
    BY <1>6 DEF IncrWrite, Inv, TypeOK
  <2>2. call'[p].st = "done"
    BY <2>1 DEF Goto, Calls
  <2> QED BY <2>1, <2>2
<1>7. ASSUME NEW p \in Callers, Turn(p)
      PROVE  [Promise!Next]_(Promise!vars)
  BY <1>4, <1>5, <1>6, <1>7, IncrPromised, SetPromised, GetPromised, AwaitPromised
  DEF Turn, Promise!Step
<1>8. CASE Restart
  <2>1. promised' = [p \in Callers |-> NoCall]
    BY <1>8 DEF Restart, promised, NoCall
  <2>2. promisedNext' = [c \in Convs |-> 0]
    BY <1>8 DEF Restart, promisedNext, Has
  <2> QED BY <1>8, <2>1, <2>2 DEF Restart, Promise!Restart, Promise!Next, Promise!NoCall, NoCall
<1> QED BY <1>1, <1>3, <1>7, <1>8 DEF Next

\* The memory manager departs from the atomic counter only where an incr's key was
\* changed during its await, or at the numeric limit: every other step, however the
\* turns of its callers interleave, is a step of the promised counter.
THEOREM MemoryAtomicUnlessDisturbed == Spec => AtomicUnlessDisturbed
<1>1. Inv /\ [Next]_vars =>
        [(\A p \in Callers : call[p].st = "awaiting" /\ call'[p].st = "done" => Undisturbed(p))
         => [Promise!Next]_(Promise!vars)]_vars
  BY StepRefines
<1> QED BY <1>1, Invariance, PTL DEF Spec, AtomicUnlessDisturbed
=============================================================================
