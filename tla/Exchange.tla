------------------------------ MODULE Exchange -------------------------------
(***************************************************************************)
(* What Relay promises of each HTTP request, seen from outside: by the     *)
(* caller that gets an answer, by the bot that takes user activities, and  *)
(* by the client that is shown transcripts.                                *)
(***************************************************************************)
CONSTANTS Posts,    \* user activities sent by clients
          Replies,  \* activities sent by bots
          Resyncs   \* getConversation calls

VARIABLES phase,    \* where each request stands
          taken,    \* user activities a bot has taken
          shown     \* activities put on a client's stream

vars == <<phase, taken, shown>>

Requests == Posts \cup Replies \cup Resyncs

Init ==
  /\ phase = [r \in Requests |-> "new"]
  /\ taken = {}
  /\ shown = {}

Move(r, to) == phase' = [phase EXCEPT ![r] = to]

Open(r) == phase[r] = "new" /\ Move(r, "open") /\ UNCHANGED <<taken, shown>>

\* The bot may take an activity late, when the caller was told it failed.
Take(r) ==
  /\ r \in Posts \ taken /\ phase[r] # "new"
  /\ taken' = taken \cup {r}
  /\ UNCHANGED <<phase, shown>>

\* An activity is shown while its request is open, once, and a user's own
\* activity only after the bot took it.
Show(r) ==
  /\ r \notin shown \cup Resyncs /\ phase[r] = "open"
  /\ r \in Posts => r \in taken
  /\ shown' = shown \cup {r}
  /\ UNCHANGED <<phase, taken>>

\* A post that succeeds was taken by the bot.
Succeed(r) ==
  /\ phase[r] \in {"new", "open"}
  /\ r \in Posts => r \in taken
  /\ Move(r, "ok")
  /\ UNCHANGED <<taken, shown>>

\* A request that fails has shown nothing: its caller may try again.
Fail(r) ==
  /\ phase[r] \in {"new", "open"} /\ r \notin shown
  /\ Move(r, "error")
  /\ UNCHANGED <<taken, shown>>

\* The process dies; open requests get no answer.
Restart ==
  /\ phase' = [r \in Requests |-> IF phase[r] = "open" THEN "lost" ELSE phase[r]]
  /\ UNCHANGED <<taken, shown>>

Next ==
  \/ \E r \in Requests : Open(r) \/ Take(r) \/ Show(r) \/ Succeed(r) \/ Fail(r)
  \/ Restart

\* An open request is answered.
Answers(r) == phase[r] = "open" /\ (Succeed(r) \/ Fail(r))

Spec == Init /\ [][Next]_vars /\ \A r \in Requests : WF_vars(Answers(r))
=============================================================================
