------------------------------- MODULE Gateway -------------------------------
(***************************************************************************)
(* DirectLineGateway: the WebSocket side of the relay.  One map entry per  *)
(* conversation, written by the connection handler, removed by the close   *)
(* handler of the socket that owns it, and read by the send loop, which    *)
(* sleeps between its three look-ups.                                      *)
(*                                                                         *)
(* A socket object is used for one connection.  A handler and the code     *)
(* between two awaits of the send loop run to completion, so each is one   *)
(* action.                                                                 *)
(***************************************************************************)
EXTENDS Naturals, Sequences

CONSTANTS Convs,      \* conversation ids
          Sockets,    \* WebSocket objects, one per connection
          Senders,    \* calls of sendToConversation
          NoConv,     \* no valid token, or no conversation in the path
          NoSocket    \* no map entry

ASSUME GatewayAssumption == NoConv \notin Convs /\ NoSocket \notin Sockets

VARIABLES meta,       \* socketMeta: conversation -> registered socket
          conn,       \* state and conversation of each socket
          snd,        \* state of each call of sendToConversation
          wire,       \* what each client received, in order
          newest      \* history: the last socket accepted per conversation

vars == <<meta, conn, snd, wire, newest>>

Attempts == 3         \* look-ups made by the send loop

\* "gone": the peer left or the close handshake started, and the server has
\* not run the close handler; a send on such a socket goes nowhere.
SocketStates == {"new", "open", "gone", "closed", "refused"}
SenderStates == {"idle", "sleeping", "sent", "dropped", "aborted"}

TypeOK ==
  /\ meta \in [Convs -> Sockets \cup {NoSocket}]
  /\ newest \in [Convs -> Sockets \cup {NoSocket}]
  /\ conn \in [Sockets -> [st : SocketStates, conv : Convs \cup {NoConv}]]
  /\ snd \in [Senders -> [st : SenderStates, conv : Convs \cup {NoConv},
                          try : 0..Attempts]]
  /\ wire \in [Sockets -> Seq(Senders)]

Init ==
  /\ meta = [c \in Convs |-> NoSocket]
  /\ newest = [c \in Convs |-> NoSocket]
  /\ conn = [s \in Sockets |-> [st |-> "new", conv |-> NoConv]]
  /\ snd = [p \in Senders |-> [st |-> "idle", conv |-> NoConv, try |-> 0]]
  /\ wire = [s \in Sockets |-> << >>]

-----------------------------------------------------------------------------
(* Connections *)

\* Mutant: an existing entry is not replaced.
RegisterIfAbsent(s, c) ==
  /\ conn' = [conn EXCEPT ![s] = [st |-> "open", conv |-> c]]
  /\ meta' = [meta EXCEPT ![c] = IF @ = NoSocket THEN s ELSE @]
  /\ newest' = [newest EXCEPT ![c] = s]
  /\ UNCHANGED <<snd, wire>>

\* A newer socket takes the entry over; the replaced one is left open.
Register(s, c) ==
  /\ conn' = [conn EXCEPT ![s] = [st |-> "open", conv |-> c]]
  /\ meta' = [meta EXCEPT ![c] = s]
  /\ newest' = [newest EXCEPT ![c] = s]
  /\ UNCHANGED <<snd, wire>>

Refuse(s) ==
  /\ conn' = [conn EXCEPT ![s].st = "refused"]
  /\ UNCHANGED <<meta, newest, snd, wire>>

\* Mutant: the path is used without comparing it with the token.
ConnectByPath(s, tok, path) ==
  /\ conn[s].st = "new" /\ tok # NoConv /\ path # NoConv
  /\ conn' = [conn EXCEPT ![s] = [st |-> "open", conv |-> tok]]
  /\ meta' = [meta EXCEPT ![path] = s]
  /\ newest' = [newest EXCEPT ![path] = s]
  /\ UNCHANGED <<snd, wire>>

\* tok: the conversation of the verified token; path: the one in the URL.
HandleConnection(s, tok, path) ==
  /\ conn[s].st = "new"
  /\ \/ tok # NoConv /\ path = tok /\ Register(s, tok)
     \/ (tok = NoConv \/ path # tok) /\ Refuse(s)

\* Environment: the peer leaves; the server learns of it later, or never.
PeerLeaves(s) ==
  /\ conn[s].st = "open"
  /\ conn' = [conn EXCEPT ![s].st = "gone"]
  /\ UNCHANGED <<meta, newest, snd, wire>>

\* Mutant: the close handler removes whatever entry the conversation has.
CloseAnyOwner(s) ==
  /\ conn[s].st = "gone"
  /\ conn' = [conn EXCEPT ![s].st = "closed"]
  /\ meta' = [meta EXCEPT ![conn[s].conv] = NoSocket]
  /\ UNCHANGED <<newest, snd, wire>>

\* The close handler removes the entry only if this socket owns it.
HandleClose(s) ==
  /\ conn[s].st = "gone"
  /\ conn' = [conn EXCEPT ![s].st = "closed"]
  /\ meta' = [c \in Convs |-> IF c = conn[s].conv /\ meta[c] = s
                              THEN NoSocket ELSE meta[c]]
  /\ UNCHANGED <<newest, snd, wire>>

-----------------------------------------------------------------------------
(* sendToConversation *)

\* Mutant: the loop goes on after a send.
AttemptWithoutReturn(p, c, i) ==
  /\ snd' = [snd EXCEPT ![p] = [st |-> "sleeping", conv |-> c, try |-> i]]
  /\ wire' = [s \in Sockets |-> IF s = meta[c] THEN Append(wire[s], p) ELSE wire[s]]
  /\ UNCHANGED <<meta, conn, newest>>

\* One turn of the loop up to its await: send and return, or go to sleep.
\* A send to a socket that is no longer open is lost without an error.
Attempt(p, c, i) ==
  /\ \/ /\ meta[c] # NoSocket
        /\ snd' = [snd EXCEPT ![p] = [st |-> "sent", conv |-> c, try |-> i]]
        /\ wire' = [wire EXCEPT ![meta[c]] =
                      IF conn[meta[c]].st = "open" THEN Append(@, p) ELSE @]
     \/ /\ meta[c] = NoSocket
        /\ snd' = [snd EXCEPT ![p] = [st |-> "sleeping", conv |-> c, try |-> i]]
        /\ UNCHANGED wire
  /\ UNCHANGED <<meta, conn, newest>>

\* Mutants: a woken loop gives up at once, repeats its turn for ever, or makes
\* one turn too many.
WakeGivesUp(p) ==
  /\ snd[p].st = "sleeping"
  /\ snd' = [snd EXCEPT ![p].st = "dropped"]
  /\ UNCHANGED <<meta, conn, newest, wire>>

WakeForEver(p) == snd[p].st = "sleeping" /\ Attempt(p, snd[p].conv, snd[p].try)

WakeOnceMore(p) ==
  /\ snd[p].st = "sleeping" /\ snd[p].try <= Attempts
  /\ Attempt(p, snd[p].conv, snd[p].try + 1)

Send(p, c) == snd[p].st = "idle" /\ Attempt(p, c, 1)

\* A timer fires: look again, or give up after the sleep of the last turn.
Wake(p) ==
  /\ snd[p].st = "sleeping"
  /\ \/ snd[p].try < Attempts /\ Attempt(p, snd[p].conv, snd[p].try + 1)
     \/ /\ snd[p].try = Attempts
        /\ snd' = [snd EXCEPT ![p].st = "dropped"]
        /\ UNCHANGED <<meta, conn, newest, wire>>

\* The process dies: no shutdown hook runs, connections, the map and the
\* pending send loops are gone.
Restart ==
  /\ meta' = [c \in Convs |-> NoSocket]
  /\ conn' = [s \in Sockets |-> IF conn[s].st \in {"open", "gone"}
                                THEN [conn[s] EXCEPT !.st = "closed"] ELSE conn[s]]
  /\ snd' = [p \in Senders |-> IF snd[p].st = "sleeping"
                               THEN [snd[p] EXCEPT !.st = "aborted"] ELSE snd[p]]
  /\ UNCHANGED <<newest, wire>>

Connections ==
  \E s \in Sockets :
     \/ \E tok, path \in Convs \cup {NoConv} : HandleConnection(s, tok, path)
     \/ PeerLeaves(s)
     \/ HandleClose(s)

Next ==
  \/ Connections
  \/ \E p \in Senders : (\E c \in Convs : Send(p, c)) \/ Wake(p)
  \/ Restart

\* Timers fire.  Nothing obliges a peer to connect, leave or be noticed.
Fairness == \A p \in Senders : WF_vars(Wake(p))

Spec == Init /\ [][Next]_vars /\ Fairness

-----------------------------------------------------------------------------
(* Safety *)

LiveSocket(s) == conn[s].st \in {"open", "gone"}

\* The map is exactly the newest accepted socket of each conversation until
\* that socket's close handler runs: a late close of a replaced socket does
\* not evict its successor, and a closed socket is not kept
\* (directline.gateway.ts, handleConnection and its close handler).
MapTracksNewest ==
  \A c \in Convs :
    meta[c] = IF newest[c] # NoSocket /\ LiveSocket(newest[c])
              THEN newest[c] ELSE NoSocket

\* A client only ever receives transcripts of the conversation its token was
\* verified for.
OwnStream ==
  \A s \in Sockets : \A i \in DOMAIN wire[s] :
    conn[s].conv # NoConv /\ snd[wire[s][i]].conv = conn[s].conv

\* One call of sendToConversation puts its transcript on the wire at most
\* once, whatever connects, leaves or reconnects while the loop sleeps.
OncePerTranscript ==
  \A s, t \in Sockets : \A i \in DOMAIN wire[s], j \in DOMAIN wire[t] :
    wire[s][i] = wire[t][j] => s = t /\ i = j

\* Once a newer socket was accepted for a conversation, nothing is written to
\* an older one, not even while the older one is still open.
OldSocketSilent ==
  [][\A s \in Sockets : wire'[s] # wire[s] => newest[conn[s].conv] = s]_vars

-----------------------------------------------------------------------------
(* Liveness *)

\* The send loop ends: the request that awaits it is never held for ever by a
\* client that does not connect.
SendEnds ==
  \A p \in Senders :
    snd[p].st = "sleeping" ~> snd[p].st \in {"sent", "dropped", "aborted"}

\* A client that connects before the last look-up, and stays registered, gets
\* the transcript handed to its socket.
ConnectedInTimeIsServed ==
  \A p \in Senders, c \in Convs :
    (/\ snd[p].st = "sleeping" /\ snd[p].conv = c /\ snd[p].try < Attempts
     /\ [](meta[c] # NoSocket))
    ~> snd[p].st = "sent"
=============================================================================
