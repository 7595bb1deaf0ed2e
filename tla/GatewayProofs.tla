---------------------------- MODULE GatewayProofs ----------------------------
(***************************************************************************)
(* Proofs about Gateway, for every number of conversations, sockets and    *)
(* send loops.                                                             *)
(***************************************************************************)
EXTENDS Gateway, TLAPS

\* The history variable names a socket accepted for that very conversation.
NewestOwned ==
  \A c \in Convs : newest[c] # NoSocket =>
    /\ conn[newest[c]].conv = c
    /\ conn[newest[c]].st \in {"open", "gone", "closed"}

\* Every step is one of these (the disjuncts of Next, with HandleConnection and
\* Wake split into their two outcomes).
LEMMA StepCases ==
  ASSUME Next
  PROVE  \/ \E s \in Sockets, c \in Convs : conn[s].st = "new" /\ Register(s, c)
         \/ \E s \in Sockets : conn[s].st = "new" /\ Refuse(s)
         \/ \E s \in Sockets : PeerLeaves(s)
         \/ \E s \in Sockets : HandleClose(s)
         \/ \E p \in Senders, c \in Convs :
              snd[p].st = "idle" /\ Attempt(p, c, 1)
         \/ \E p \in Senders :
              /\ snd[p].st = "sleeping" /\ snd[p].try < Attempts
              /\ Attempt(p, snd[p].conv, snd[p].try + 1)
         \/ \E p \in Senders :
              /\ snd[p].st = "sleeping"
              /\ snd' = [snd EXCEPT ![p].st = "dropped"]
              /\ UNCHANGED <<meta, conn, newest, wire>>
         \/ Restart
  BY DEF Next, Connections, HandleConnection, Send, Wake

\* A send loop that sleeps does so for a conversation, not for NoConv.
SleepsForConv == \A p \in Senders : snd[p].st = "sleeping" => snd[p].conv \in Convs

\* Every step keeps the types.
LEMMA TypeStep ==
  ASSUME TypeOK, SleepsForConv, [Next]_vars
  PROVE  TypeOK' /\ SleepsForConv'
<1> USE GatewayAssumption DEF TypeOK, SleepsForConv, Attempts, SocketStates, SenderStates
<1>1. CASE UNCHANGED vars
  BY <1>1 DEF vars
<1>2. ASSUME NEW s \in Sockets, NEW c \in Convs, Register(s, c)
      PROVE  TypeOK' /\ SleepsForConv'
  BY <1>2 DEF Register
<1>3. ASSUME NEW s \in Sockets, Refuse(s)
      PROVE  TypeOK' /\ SleepsForConv'
  BY <1>3 DEF Refuse
<1>4. ASSUME NEW s \in Sockets, PeerLeaves(s)
      PROVE  TypeOK' /\ SleepsForConv'
  BY <1>4 DEF PeerLeaves
<1>5. ASSUME NEW s \in Sockets, HandleClose(s)
      PROVE  TypeOK' /\ SleepsForConv'
  BY <1>5 DEF HandleClose
<1>6. ASSUME NEW p \in Senders, NEW c \in Convs, NEW i \in 1..Attempts, Attempt(p, c, i)
      PROVE  TypeOK' /\ SleepsForConv'
  <2>1. CASE meta[c] # NoSocket
    <3> DEFINE w == IF conn[meta[c]].st = "open" THEN Append(wire[meta[c]], p)
                                                 ELSE wire[meta[c]]
    <3>1. meta[c] \in Sockets
      BY <2>1
    <3>2. w \in Seq(Senders)
      BY <3>1
    <3>3. wire' = [wire EXCEPT ![meta[c]] = w]
      BY <1>6, <2>1 DEF Attempt
    <3>4. wire' \in [Sockets -> Seq(Senders)]
      BY <3>1, <3>2, <3>3
    <3>5. snd' = [snd EXCEPT ![p] = [st |-> "sent", conv |-> c, try |-> i]]
          /\ UNCHANGED <<meta, conn, newest>>
      BY <1>6, <2>1 DEF Attempt
    <3> QED BY <3>4, <3>5
  <2>2. CASE meta[c] = NoSocket
    <3>1. snd' = [snd EXCEPT ![p] = [st |-> "sleeping", conv |-> c, try |-> i]]
          /\ UNCHANGED <<meta, conn, newest, wire>>
      BY <1>6, <2>2 DEF Attempt
    <3> QED BY <3>1
  <2> QED BY <2>1, <2>2
<1>7. ASSUME NEW p \in Senders, snd' = [snd EXCEPT ![p].st = "dropped"],
             UNCHANGED <<meta, conn, newest, wire>>
      PROVE  TypeOK' /\ SleepsForConv'
  BY <1>7
<1>8. CASE Restart
  BY <1>8 DEF Restart
<1>9. ASSUME NEW p \in Senders, snd[p].st = "sleeping", snd[p].try < Attempts,
             Attempt(p, snd[p].conv, snd[p].try + 1)
      PROVE  TypeOK' /\ SleepsForConv'
  <2>1. snd[p].conv \in Convs /\ snd[p].try + 1 \in 1..Attempts
    BY <1>9
  <2> QED BY <1>6, <1>9, <2>1
<1>10. ASSUME NEW p \in Senders, NEW c \in Convs, Attempt(p, c, 1)
       PROVE  TypeOK' /\ SleepsForConv'
  BY <1>6, <1>10
<1> QED
  BY <1>1, <1>2, <1>3, <1>4, <1>5, <1>7, <1>8, <1>9, <1>10, StepCases

\* Type correctness of the gateway.
THEOREM GatewayType == Spec => []TypeOK
<1>1. Init => TypeOK /\ SleepsForConv
  BY GatewayAssumption
  DEF Init, TypeOK, SleepsForConv, Attempts, SocketStates, SenderStates
<1>2. TypeOK /\ SleepsForConv /\ [Next]_vars => (TypeOK /\ SleepsForConv)'
  BY TypeStep
<1> QED
  BY <1>1, <1>2, PTL DEF Spec

-----------------------------------------------------------------------------

MapFacts == NewestOwned /\ MapTracksNewest

\* Every step keeps the facts about the socket map.
LEMMA MapStep ==
  ASSUME TypeOK, SleepsForConv, MapFacts, [Next]_vars
  PROVE  MapFacts'
<1> USE GatewayAssumption DEF MapFacts, NewestOwned, MapTracksNewest, LiveSocket
<1> USE DEF TypeOK
<1>1. CASE UNCHANGED vars
  BY <1>1 DEF vars
<1>2. ASSUME NEW s \in Sockets, NEW c \in Convs, conn[s].st = "new", Register(s, c)
      PROVE  MapFacts'
  \* s is fresh, so it is the newest socket of no other conversation
  <2>1. \A d \in Convs : newest[d] # s
    BY <1>2
  <2>2. /\ conn' = [conn EXCEPT ![s] = [st |-> "open", conv |-> c]]
        /\ meta' = [meta EXCEPT ![c] = s] /\ newest' = [newest EXCEPT ![c] = s]
    BY <1>2 DEF Register
  <2> QED BY <2>1, <2>2
<1>3. ASSUME NEW s \in Sockets, conn[s].st = "new", Refuse(s)
      PROVE  MapFacts'
  <2>1. ASSUME NEW d \in Convs
        PROVE  newest[d] # s
    <3>1. s # NoSocket /\ conn[s].st \notin {"open", "gone", "closed"}
      BY <1>3
    <3> QED BY <3>1
  <2> QED BY <1>3, <2>1 DEF Refuse
<1>4. ASSUME NEW s \in Sockets, PeerLeaves(s)
      PROVE  MapFacts'
  BY <1>4 DEF PeerLeaves
<1>5. ASSUME NEW s \in Sockets, HandleClose(s)
      PROVE  MapFacts'
  <2>1. \A d \in Convs : newest[d] = s => conn[s].conv = d
    BY <1>5
  <2>2. \A d \in Convs : meta[d] = s => newest[d] = s
    BY <1>5
  <2> QED BY <1>5, <2>1, <2>2 DEF HandleClose
<1>6. ASSUME NEW p, NEW c, NEW i, Attempt(p, c, i)
      PROVE  MapFacts'
  BY <1>6 DEF Attempt
<1>7. CASE UNCHANGED <<meta, conn, newest, wire>>
  BY <1>7
<1>8. CASE Restart
  BY <1>8 DEF Restart
<1> QED
  BY <1>1, <1>2, <1>3, <1>4, <1>5, <1>6, <1>7, <1>8, StepCases

\* The map holds exactly the newest accepted socket of a conversation until its
\* close handler runs: a late close event of a replaced socket never evicts its
\* successor, and no closed socket is kept.
THEOREM GatewayMap == Spec => []MapTracksNewest
<1>1. Init => TypeOK /\ SleepsForConv /\ MapFacts
  BY GatewayAssumption
  DEF Init, TypeOK, SleepsForConv, Attempts, SocketStates, SenderStates,
      MapFacts, NewestOwned, MapTracksNewest
<1>2. TypeOK /\ SleepsForConv /\ MapFacts /\ [Next]_vars
      => (TypeOK /\ SleepsForConv /\ MapFacts)'
  BY TypeStep, MapStep
<1>3. MapFacts => MapTracksNewest
  BY DEF MapFacts
<1> QED
  BY <1>1, <1>2, <1>3, PTL DEF Spec

\* Only the newest accepted socket of a conversation is ever written to.
THEOREM GatewayOldSocketSilent == Spec => OldSocketSilent
<1> DEFINE Silent == \A s \in Sockets : wire'[s] # wire[s] => newest[conn[s].conv] = s
<1>1. Init => TypeOK /\ SleepsForConv /\ MapFacts
  BY GatewayAssumption
  DEF Init, TypeOK, SleepsForConv, Attempts, SocketStates, SenderStates,
      MapFacts, NewestOwned, MapTracksNewest
<1>2. TypeOK /\ SleepsForConv /\ MapFacts /\ [Next]_vars
      => (TypeOK /\ SleepsForConv /\ MapFacts)'
  BY TypeStep, MapStep
<1>3. TypeOK /\ SleepsForConv /\ MapFacts /\ [Next]_vars => [Silent]_vars
  <2> SUFFICES ASSUME TypeOK, SleepsForConv, MapFacts, Next
               PROVE  Silent
    OBVIOUS
  <2>1. ASSUME NEW p, NEW c \in Convs, NEW i, Attempt(p, c, i)
        PROVE  Silent
    <3> SUFFICES ASSUME NEW s \in Sockets, wire'[s] # wire[s]
                 PROVE  newest[conn[s].conv] = s
      OBVIOUS
    <3>1. meta[c] = s
      BY <2>1 DEF Attempt, TypeOK
    <3>2. newest[c] = s /\ conn[s].conv = c
      BY <3>1, GatewayAssumption DEF MapFacts, MapTracksNewest, NewestOwned
    <3> QED BY <3>2
  <2>2. CASE UNCHANGED wire
    BY <2>2
  <2> QED
    BY <2>1, <2>2, StepCases
    DEF Register, Refuse, PeerLeaves, HandleClose, Restart, SleepsForConv
<1> QED
  BY <1>1, <1>2, <1>3, PTL DEF Spec, OldSocketSilent

-----------------------------------------------------------------------------
(* What the clients receive *)

\* A socket has no conversation before it is accepted; a transcript on a stream
\* was sent, and by a call that is over.
Streams ==
  /\ \A s \in Sockets : conn[s].st = "new" => conn[s].conv = NoConv
  /\ \A s \in Sockets : \A i \in DOMAIN wire[s] : snd[wire[s][i]].st = "sent"
  /\ OwnStream
  /\ OncePerTranscript

\* A send that reaches a stream adds itself at the end, after transcripts of others.
LEMMA AppendKeeps ==
  ASSUME TypeOK, Streams, NEW p \in Senders, snd[p].st # "sent",
         NEW c \in Convs, NEW i \in 1..Attempts, NEW t \in Sockets, conn[t].conv = c,
         snd' = [snd EXCEPT ![p] = [st |-> "sent", conv |-> c, try |-> i]],
         wire' = [wire EXCEPT ![t] = Append(@, p)], conn' = conn
  PROVE  Streams'
<1> USE DEF TypeOK
<1>1. \A s \in Sockets : \A j \in DOMAIN wire[s] :
        wire[s][j] \in Senders /\ wire[s][j] # p
  BY DEF Streams
<1>2. /\ DOMAIN wire'[t] = 1..(Len(wire[t]) + 1) /\ DOMAIN wire[t] = 1..Len(wire[t])
      /\ wire'[t][Len(wire[t]) + 1] = p
      /\ \A j \in 1..Len(wire[t]) : wire'[t][j] = wire[t][j]
      /\ \A s \in Sockets \ {t} : wire'[s] = wire[s]
  BY <1>1
<1>3. /\ Len(wire[t]) \in Nat
      /\ \A s \in Sockets : \A j \in DOMAIN wire'[s] :
           \/ j \in DOMAIN wire[s] /\ wire'[s][j] = wire[s][j]
           \/ s = t /\ j = Len(wire[t]) + 1 /\ wire'[s][j] = p
  BY <1>2
<1>4. \A q \in Senders : q # p => snd'[q] = snd[q]
  OBVIOUS
<1>5. snd'[p].st = "sent" /\ snd'[p].conv = c
  OBVIOUS
<1>6. c # NoConv
  BY GatewayAssumption
<1>7. \A s \in Sockets : \A j \in DOMAIN wire'[s] :
        snd'[wire'[s][j]].st = "sent" /\ conn[s].conv # NoConv
        /\ snd'[wire'[s][j]].conv = conn[s].conv
  BY <1>1, <1>3, <1>4, <1>5, <1>6 DEF Streams, OwnStream
<1>8. OncePerTranscript'
  <2> SUFFICES ASSUME NEW s \in Sockets, NEW u \in Sockets,
                      NEW j \in DOMAIN wire'[s], NEW k \in DOMAIN wire'[u],
                      wire'[s][j] = wire'[u][k]
               PROVE  s = u /\ j = k
    BY DEF OncePerTranscript
  <2> QED BY <1>1, <1>3 DEF Streams, OncePerTranscript
<1> QED BY <1>7, <1>8 DEF Streams, OwnStream

\* Every step keeps what the sockets have got consistent.
LEMMA StreamStep ==
  ASSUME TypeOK, SleepsForConv, MapFacts, Streams, [Next]_vars
  PROVE  Streams'
<1> USE GatewayAssumption DEF TypeOK
<1>1. CASE UNCHANGED vars
  BY <1>1 DEF vars, Streams, OwnStream, OncePerTranscript
\* a new socket has received nothing
<1>2. ASSUME NEW s \in Sockets, NEW c \in Convs, conn[s].st = "new", Register(s, c)
      PROVE  Streams'
  <2>1. wire' = wire /\ snd' = snd /\ DOMAIN wire[s] = {}
    BY <1>2 DEF Register, Streams, OwnStream
  <2>2. /\ conn'[s].st = "open" /\ conn'[s].conv = c
        /\ \A t \in Sockets \ {s} : conn'[t] = conn[t]
    BY <1>2 DEF Register
  <2>3. \A t \in Sockets : conn'[t].st = "new" => conn'[t].conv = NoConv
    BY <2>2 DEF Streams
  <2>4. \A t \in Sockets : \A i \in DOMAIN wire[t] :
          /\ snd[wire[t][i]].st = "sent"
          /\ conn'[t].conv # NoConv /\ snd[wire[t][i]].conv = conn'[t].conv
    BY <2>1, <2>2 DEF Streams, OwnStream
  <2> QED BY <2>1, <2>3, <2>4 DEF Streams, OwnStream, OncePerTranscript
<1>3. ASSUME UNCHANGED <<snd, wire>>,
             \A s \in Sockets : conn'[s].conv = conn[s].conv
                                /\ (conn'[s].st = "new" => conn[s].st = "new")
      PROVE  Streams'
  <2>1. \A s \in Sockets : conn'[s].st = "new" => conn'[s].conv = NoConv
    BY <1>3 DEF Streams
  <2>2. \A s \in Sockets : \A i \in DOMAIN wire[s] :
          /\ snd[wire[s][i]].st = "sent"
          /\ conn'[s].conv # NoConv /\ snd[wire[s][i]].conv = conn'[s].conv
    BY <1>3 DEF Streams, OwnStream
  <2>3. wire' = wire /\ snd' = snd
    BY <1>3
  <2> QED BY <2>1, <2>2, <2>3 DEF Streams, OwnStream, OncePerTranscript
\* a send loop that is not over is on no stream
<1>4. ASSUME UNCHANGED <<conn, wire>>, \A p \in Senders : snd[p].st = "sent" => snd'[p] = snd[p]
      PROVE  Streams'
  <2>1. \A s \in Sockets : \A i \in DOMAIN wire[s] :
          wire[s][i] \in Senders /\ snd'[wire[s][i]] = snd[wire[s][i]]
    BY <1>4 DEF Streams
  <2> QED BY <1>4, <2>1 DEF Streams, OwnStream, OncePerTranscript
<1>5. ASSUME NEW p \in Senders, NEW c \in Convs, NEW i \in 1..Attempts, Attempt(p, c, i),
             snd[p].st # "sent"
      PROVE  Streams'
  <2>1. CASE meta[c] = NoSocket
    <3>1. UNCHANGED <<conn, wire>> /\ \A q \in Senders : q # p => snd'[q] = snd[q]
      BY <1>5, <2>1 DEF Attempt
    <3> QED BY <1>4, <1>5, <3>1
  <2>2. CASE meta[c] # NoSocket /\ conn[meta[c]].st = "open"
    <3>1. meta[c] \in Sockets /\ conn[meta[c]].conv = c
      BY <2>2 DEF MapFacts, MapTracksNewest, NewestOwned
    <3>2. /\ snd' = [snd EXCEPT ![p] = [st |-> "sent", conv |-> c, try |-> i]]
          /\ wire' = [wire EXCEPT ![meta[c]] = Append(@, p)] /\ conn' = conn
      BY <1>5, <2>2 DEF Attempt
    <3> QED BY <1>5, <3>1, <3>2, AppendKeeps
  <2>3. CASE meta[c] # NoSocket /\ conn[meta[c]].st # "open"
    <3>1. UNCHANGED <<conn, wire>> /\ \A q \in Senders : q # p => snd'[q] = snd[q]
      BY <1>5, <2>3 DEF Attempt
    <3> QED BY <1>4, <1>5, <3>1
  <2> QED BY <2>1, <2>2, <2>3
<1>6. CASE Restart
  <2>1. wire' = wire
    BY <1>6 DEF Restart
  <2>2. \A p \in Senders : snd[p].st = "sent" => snd'[p] = snd[p]
    BY <1>6 DEF Restart
  <2>3. \A s \in Sockets : conn'[s].conv = conn[s].conv
                           /\ (conn'[s].st = "new" => conn[s].st = "new")
    BY <1>6 DEF Restart
  <2>4. \A s \in Sockets : \A i \in DOMAIN wire[s] :
          wire[s][i] \in Senders /\ snd'[wire[s][i]] = snd[wire[s][i]]
    BY <2>2 DEF Streams
  <2> QED BY <2>1, <2>3, <2>4 DEF Streams, OwnStream, OncePerTranscript
<1>7. ASSUME NEW p \in Senders, snd[p].st = "sleeping",
             snd[p].try < Attempts, Attempt(p, snd[p].conv, snd[p].try + 1)
      PROVE  Streams'
  <2>1. snd[p].conv \in Convs /\ snd[p].try + 1 \in 1..Attempts
    BY <1>7 DEF SleepsForConv, Attempts
  <2> QED BY <1>5, <1>7, <2>1
<1>8. ASSUME NEW p \in Senders, NEW c \in Convs, snd[p].st = "idle", Attempt(p, c, 1)
      PROVE  Streams'
  BY <1>5, <1>8 DEF Attempts
<1>9. ASSUME NEW p \in Senders, snd[p].st = "sleeping",
             snd' = [snd EXCEPT ![p].st = "dropped"], UNCHANGED <<meta, conn, newest, wire>>
      PROVE  Streams'
  BY <1>4, <1>9
<1>10. ASSUME NEW s \in Sockets, Refuse(s) \/ PeerLeaves(s) \/ HandleClose(s)
       PROVE  Streams'
  <2>1. UNCHANGED <<snd, wire>>
    BY <1>10 DEF Refuse, PeerLeaves, HandleClose
  <2>2. \E st \in {"refused", "gone", "closed"} : conn' = [conn EXCEPT ![s].st = st]
    BY <1>10 DEF Refuse, PeerLeaves, HandleClose
  <2>3. \A t \in Sockets : conn'[t].conv = conn[t].conv
                           /\ (conn'[t].st = "new" => conn[t].st = "new")
    BY <2>2
  <2> QED BY <1>3, <2>1, <2>3
<1> QED
  BY <1>1, <1>2, <1>6, <1>7, <1>8, <1>9, <1>10, StepCases

\* The invariant of the streams.
LEMMA StreamsInvariant == Spec => []Streams
<1>1. Init => TypeOK /\ SleepsForConv /\ MapFacts /\ Streams
  BY GatewayAssumption
  DEF Init, TypeOK, SleepsForConv, Attempts, SocketStates, SenderStates,
      MapFacts, NewestOwned, MapTracksNewest, Streams, OwnStream, OncePerTranscript
<1>2. TypeOK /\ SleepsForConv /\ MapFacts /\ Streams /\ [Next]_vars
      => (TypeOK /\ SleepsForConv /\ MapFacts /\ Streams)'
  BY TypeStep, MapStep, StreamStep
<1> QED
  BY <1>1, <1>2, PTL DEF Spec

\* A client only ever receives transcripts of the conversation of its own token,
\* whatever connects, closes and reconnects while the send loops sleep.
THEOREM GatewayOwnStream == Spec => []OwnStream
<1>1. Streams => OwnStream
  BY DEF Streams
<1> QED BY <1>1, StreamsInvariant, PTL

\* One call of sendToConversation is on one stream at most, and there once.
THEOREM GatewayOncePerTranscript == Spec => []OncePerTranscript
<1>1. Streams => OncePerTranscript
  BY DEF Streams
<1> QED BY <1>1, StreamsInvariant, PTL
=============================================================================
