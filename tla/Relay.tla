-------------------------------- MODULE Relay --------------------------------
(***************************************************************************)
(* DirectlineConversationService: each HTTP request is a sequence of       *)
(* awaits over the shared counter, the object storage, the bot's endpoint  *)
(* and the socket map.  Requests of one conversation interleave at every   *)
(* await.  The module composes Gateway (G) and Counter (C), with the       *)
(* requests as the senders of the one and the callers of the other.        *)
(***************************************************************************)
EXTENDS Integers, Sequences

CONSTANTS Posts,        \* userReplyToConversation calls
          Replies,      \* replyToActivity calls
          Resyncs,      \* getConversation calls
          Convs, Sockets, NoConv, NoSocket,
          Managers, MaxCount, Watermarks,
          Names,        \* of files and of attachments
          Forms         \* model bound: the uploads that clients make

ASSUME RelayAssumption ==
  /\ Posts \cap Replies = {} /\ Posts \cap Resyncs = {} /\ Replies \cap Resyncs = {}
  /\ Forms \subseteq [files : Seq(Names), attach : Seq(Names)]
  /\ NoConv \notin Convs /\ NoSocket \notin Sockets
  /\ Managers \subseteq {"redis", "memory"} /\ Watermarks \subseteq Nat /\ MaxCount \in Nat

VARIABLES meta, conn, snd, wire, newest,    \* the gateway
          manager, next, activityInc, issued, call, micro, rewritten,   \* the counter
          req,      \* where each request stands
          stored,   \* how many files of each post are in the bucket
          location, \* contentUrl of each attachment: the number of its file
          flight,   \* posts that may still reach the bot
          inbox,    \* posts the bot has taken
          rewound,  \* history: conversations whose counter moved back
          clashed   \* history: those in which calls met in an incr's await

gateway == <<meta, conn, snd, wire, newest>>
counter == <<manager, next, activityInc, issued, call, micro, rewritten>>
own     == <<req, stored, location, flight, inbox>>
vars    == <<gateway, counter, own, rewound, clashed>>

Requests == Posts \cup Replies \cup Resyncs

G == INSTANCE Gateway WITH Senders <- Requests
C == INSTANCE Counter WITH Callers <- Requests

\* The files of a request, and the names of the attachments its activity declares.
NoForm == [files |-> <<>>, attach |-> <<>>]

NoNumber == -1      \* the id of a typing activity, whose suffix is random

\* No answer yet, success, any 4xx status, any 5xx status.
Codes == {0, 200, 400, 500}
PCs == {"new", "upload", "number", "stamp", "find", "post", "wait", "send",
        "sending", "store", "answered", "aborted"}

TypeOK ==
  /\ G!TypeOK /\ C!TypeOK
  /\ req \in [Requests -> [pc : PCs, conv : Convs \cup {NoConv}, typing : BOOLEAN,
                           form : Forms \cup {NoForm}, id : Nat \cup {NoNumber},
                           mark : Int, code : Codes]]
  /\ DOMAIN stored = Posts /\ DOMAIN location = Posts
  /\ \A r \in Posts :
       /\ stored[r] \in 0..Len(req[r].form.files)
       /\ location[r] \in [DOMAIN req[r].form.attach -> 0..stored[r]]
  /\ flight \subseteq Posts /\ inbox \subseteq Posts
  /\ rewound \subseteq Convs /\ clashed \subseteq Convs

Init ==
  /\ G!Init /\ C!Init
  /\ req = [r \in Requests |-> [pc |-> "new", conv |-> NoConv, typing |-> FALSE,
                                form |-> NoForm, id |-> NoNumber, mark |-> 0, code |-> 0]]
  /\ stored = [r \in Posts |-> 0] /\ location = [r \in Posts |-> <<>>]
  /\ flight = {} /\ inbox = {} /\ rewound = {} /\ clashed = {}

-----------------------------------------------------------------------------
(* Receiving a request *)

At(r, pc) == req[r].pc = pc
Goto(r, pc) == req' = [req EXCEPT ![r].pc = pc]
Answer(r, code) == req' = [req EXCEPT ![r].pc = "answered", ![r].code = code]
Bucket == <<stored, location>>
Outside == UNCHANGED <<Bucket, flight, inbox>>

\* Wrong, missing or expired token, over a rate limit, a body or a multipart
\* stream that gives no activity: nothing else happens.
Refuse(r) ==
  /\ At(r, "new")
  /\ \E code \in {400, 500} : Answer(r, code)
  /\ Outside /\ UNCHANGED <<gateway, counter>>

\* userReplyToConversation up to createActivity.
UserPost(r, c, typing, form) ==
  /\ r \in Posts /\ At(r, "new")
  /\ req' = [req EXCEPT ![r].pc = IF form.files # <<>> THEN "upload" ELSE "number",
                        ![r].conv = c, ![r].typing = typing, ![r].form = form]
  /\ location' = [location EXCEPT ![r] = [i \in DOMAIN form.attach |-> 0]]
  /\ UNCHANGED <<gateway, counter, stored, flight, inbox>>

\* replyToActivity up to createActivity.
BotReply(r, c, typing) ==
  /\ r \in Replies /\ At(r, "new")
  /\ req' = [req EXCEPT ![r].pc = "number", ![r].conv = c, ![r].typing = typing]
  /\ Outside /\ UNCHANGED <<gateway, counter>>

\* getConversation: a numeric watermark is stored as the counter.
Resync(r, c) ==
  /\ r \in Resyncs /\ At(r, "new")
  /\ \/ \E w \in Watermarks : C!Call(r, "set", c, w) /\ Goto(r, "store")
     \/ Answer(r, 200) /\ UNCHANGED counter
  /\ Outside /\ UNCHANGED gateway

Stored(r) ==
  /\ At(r, "store") /\ C!Return(r)
  /\ Answer(r, IF call[r].st = "done" THEN 200 ELSE 500)
  /\ Outside /\ UNCHANGED gateway

-----------------------------------------------------------------------------
(* createActivity *)

\* The first attachment of that name.
IsFirst(seq, name, i) == seq[i] = name /\ \A j \in 1..(i - 1) : seq[j] # name

\* Mutants: one upload too many; files matched by their place.
UploadOnceMore(r) ==
  /\ At(r, "upload")
  /\ stored' = [stored EXCEPT ![r] = @ + 1]
  /\ Goto(r, IF stored[r] = Len(req[r].form.files) THEN "number" ELSE "upload")
  /\ UNCHANGED <<gateway, counter, location, flight, inbox>>

UploadByPlace(r) ==
  LET form == req[r].form  k == stored[r] + 1 IN
  /\ At(r, "upload")
  /\ \/ /\ stored' = [stored EXCEPT ![r] = k]
        /\ location' = [location EXCEPT ![r] = [i \in DOMAIN @ |-> IF i = k THEN k ELSE @[i]]]
        /\ Goto(r, IF k = Len(form.files) THEN "number" ELSE "upload")
     \/ Answer(r, 500) /\ UNCHANGED Bucket
  /\ UNCHANGED <<gateway, counter, flight, inbox>>

\* One file of uploadToActivity: it is stored under a key of its own, and the first
\* attachment of its name points at it.  The first failure ends the request and
\* leaves the files stored before it.
Upload(r) ==
  LET form == req[r].form  k == stored[r] + 1 IN
  /\ At(r, "upload")
  /\ \/ /\ stored' = [stored EXCEPT ![r] = k]
        /\ location' = [location EXCEPT ![r] =
             [i \in DOMAIN @ |-> IF IsFirst(form.attach, form.files[k], i) THEN k ELSE @[i]]]
        /\ Goto(r, IF k = Len(form.files) THEN "number" ELSE "upload")
     \/ Answer(r, 500) /\ UNCHANGED Bucket
  /\ UNCHANGED <<gateway, counter, flight, inbox>>

AfterNumber(r) == IF r \in Posts THEN "find"
                  ELSE IF req[r].typing THEN "send" ELSE "stamp"

\* A typing activity takes no number.
TypingId(r) ==
  /\ At(r, "number") /\ req[r].typing
  /\ Goto(r, AfterNumber(r))
  /\ Outside /\ UNCHANGED <<gateway, counter>>

\* The await of incr begins, and ends with the number or an error.
AskNumber(r) ==
  /\ At(r, "number") /\ ~req[r].typing
  /\ C!Call(r, "incr", req[r].conv, 0)
  /\ UNCHANGED <<gateway, own>>

Numbered(r) ==
  /\ At(r, "number") /\ C!Return(r)
  /\ \/ /\ call[r].st = "done"
        /\ req' = [req EXCEPT ![r].pc = AfterNumber(r), ![r].id = call[r].res]
     \/ call[r].st = "failed" /\ Answer(r, 500)
  /\ Outside /\ UNCHANGED gateway

-----------------------------------------------------------------------------
(* The rest of userReplyToConversation *)

\* findByHandleCached, outside the try block: when it fails (404, or 500 from
\* the database) the number is used up already.
FindBot(r) ==
  /\ At(r, "find")
  /\ Goto(r, "post") \/ \E code \in {400, 500} : Answer(r, code)
  /\ Outside /\ UNCHANGED <<gateway, counter>>

\* Mutant: the activity is echoed before the bot has it.
EchoThenPost(r) ==
  /\ At(r, "post")
  /\ G!Send(r, req[r].conv) /\ Goto(r, "wait")
  /\ flight' = flight \cup {r}
  /\ UNCHANGED <<counter, Bucket, inbox>>

PostToBot(r) ==
  /\ At(r, "post")
  /\ Goto(r, "wait")
  /\ flight' = flight \cup {r}
  /\ UNCHANGED <<gateway, counter, Bucket, inbox>>

\* Environment: the activity reaches the bot, perhaps after the timeout.
BotTakes(r) ==
  /\ r \in flight
  /\ flight' = flight \ {r} /\ inbox' = inbox \cup {r}
  /\ UNCHANGED <<gateway, counter, req, Bucket>>

\* Mutant: the POST is not awaited.
FireAndForget(r) ==
  /\ At(r, "wait")
  /\ Goto(r, "send")
  /\ Outside /\ UNCHANGED <<gateway, counter>>

\* The POST resolves with a 2xx answer of the bot.
BotAccepts(r) ==
  /\ At(r, "wait") /\ r \in inbox
  /\ Goto(r, "send")
  /\ Outside /\ UNCHANGED <<gateway, counter>>

\* The POST rejects: timeout, no connection, or an error answer.  The bot may
\* have taken the activity, or may yet take it.
PostFails(r) ==
  /\ At(r, "wait")
  /\ Answer(r, 400)
  /\ Outside /\ UNCHANGED <<gateway, counter>>

-----------------------------------------------------------------------------
(* The rest of replyToActivity *)

\* The await of get begins, and ends with the watermark or an error.
AskMark(r) ==
  /\ At(r, "stamp")
  /\ C!Call(r, "get", req[r].conv, 0)
  /\ UNCHANGED <<gateway, own>>

\* Mutant: the watermark is made to look like the id.
MarkedMinusOne(r) ==
  /\ At(r, "stamp") /\ C!Return(r) /\ call[r].st = "done"
  /\ req' = [req EXCEPT ![r].pc = "send", ![r].mark = call[r].res - 1]
  /\ Outside /\ UNCHANGED gateway

Marked(r) ==
  /\ At(r, "stamp") /\ C!Return(r)
  /\ \/ /\ call[r].st = "done"
        /\ req' = [req EXCEPT ![r].pc = "send", ![r].mark = call[r].res]
     \/ call[r].st = "failed" /\ Answer(r, 500)
  /\ Outside /\ UNCHANGED gateway

-----------------------------------------------------------------------------
(* sendToConversation, awaited by both *)

Send(r) ==
  /\ At(r, "send")
  /\ G!Send(r, req[r].conv) /\ Goto(r, "sending")
  /\ Outside /\ UNCHANGED counter

Retry(r) == G!Wake(r) /\ UNCHANGED <<counter, own>>

\* Mutant: the await ends only if the transcript was sent.
SentOnly(r) ==
  /\ At(r, "sending") /\ snd[r].st = "sent"
  /\ Answer(r, 200)
  /\ Outside /\ UNCHANGED <<gateway, counter>>

\* The caller is told 200 even if the transcript was dropped.
Sent(r) ==
  /\ At(r, "sending") /\ snd[r].st \in {"sent", "dropped"}
  /\ Answer(r, 200)
  /\ Outside /\ UNCHANGED <<gateway, counter>>

-----------------------------------------------------------------------------
(* Other components and the environment *)

Connections == G!Connections /\ UNCHANGED <<counter, own>>

Counter(r) ==
  /\ C!Work(r)
  /\ UNCHANGED <<gateway, own>>

CounterResends(r) == C!Resend(r) /\ UNCHANGED <<gateway, own>>

KeyExpires(c) == C!Expire(c) /\ UNCHANGED <<gateway, own>>

\* The process dies; what bots took and what is in the bucket remains.
Restart ==
  /\ G!Restart /\ C!Restart
  /\ req' = [r \in Requests |-> IF req[r].pc \in {"new", "answered"} THEN req[r]
                                ELSE [req[r] EXCEPT !.pc = "aborted"]]
  /\ Outside

-----------------------------------------------------------------------------

\* One turn of a request: from an await to the next, or to its answer.
Turn(r) ==
  \/ Stored(r) \/ Upload(r)
  \/ TypingId(r) \/ AskNumber(r) \/ Numbered(r)
  \/ FindBot(r) \/ PostToBot(r) \/ BotAccepts(r) \/ PostFails(r)
  \/ AskMark(r) \/ Marked(r)
  \/ Send(r) \/ Retry(r) \/ Sent(r)

Arrive(r) ==
  \/ Refuse(r)
  \/ \E c \in Convs :
       \/ \E typing \in BOOLEAN, form \in Forms : UserPost(r, c, typing, form)
       \/ \E typing \in BOOLEAN : BotReply(r, c, typing)
       \/ Resync(r, c)

Steps ==
  \/ \E r \in Requests : Arrive(r) \/ Turn(r) \/ Counter(r) \/ CounterResends(r)
                          \/ BotTakes(r)
  \/ \E c \in Convs : KeyExpires(c)
  \/ Connections
  \/ Restart

\* History: which counters moved back or were left for the other manager's, and in
\* which an incr of the memory manager wrote over what another call did in its await.
Notes ==
  /\ rewound' = rewound \cup
       {c \in Convs : manager' # manager \/ C!upcoming'[c] < C!upcoming[c]}
  /\ clashed' = clashed \cup {c \in Convs : \E r \in Requests : C!Clash(r) /\ call[r].conv = c}

Next == Steps /\ Notes

\* The event loop resumes every request whose await is over; the counter, the
\* storage, the database and the POST (5 s timeout) answer or fail.
Fairness == \A r \in Requests : WF_vars(Turn(r) /\ Notes) /\ WF_vars(Counter(r) /\ Notes)

Spec == Init /\ [][Next]_vars /\ Fairness

-----------------------------------------------------------------------------
(* Safety *)

HasNumber(r) == req[r].id # NoNumber

\* Two activities of a conversation get the same id (createActivity) only if its
\* counter moved back in between (a client stored an older watermark, the key expired,
\* the memory manager restarted, or boot chose the other manager), or if the memory
\* manager let their incr calls overlap.  With Redis only the former can happen.
IdsRepeatOnlyAfterRewind ==
  \A r, q \in Requests :
    r # q /\ HasNumber(r) /\ req[r].conv = req[q].conv /\ req[r].id = req[q].id
    => req[r].conv \in rewound \cup clashed

IsMarked(r) == /\ r \in Replies /\ ~req[r].typing
               /\ At(r, "send") \/ At(r, "sending") \/ (At(r, "answered") /\ req[r].code = 200)

\* The watermark of a bot reply is read after its number was taken, in another
\* await.  Whatever ran in between, it is a number, and a client that
\* resynchronises with it does not make the relay number that activity again.
WatermarkCoversOwnId ==
  \A r \in Replies : IsMarked(r) =>
    /\ req[r].mark >= 0
    /\ req[r].conv \notin rewound => req[r].id < req[r].mark + C!Lag

OnlyOne(seq, i) == \A j \in DOMAIN seq : seq[j] = seq[i] => j = i

\* A bot is only sent activities whose files are all in the bucket; and where one
\* file and one attachment have a name, the attachment points at that file.
AttachmentsBeforeBot ==
  \A r \in flight \cup inbox :
    LET form == req[r].form IN
    /\ stored[r] = Len(form.files)
    /\ \A i \in DOMAIN form.attach, k \in DOMAIN form.files :
         /\ form.attach[i] = form.files[k]
         /\ OnlyOne(form.attach, i) /\ OnlyOne(form.files, k)
         => location[r][i] = k

OnStream(r) == \E s \in Sockets : \E i \in DOMAIN wire[s] : wire[s][i] = r

\* A caller that got an error may try again without the client seeing the
\* activity twice: nothing of a failed request is on any stream.
FailedIsUnseen ==
  \A r \in Requests : At(r, "answered") /\ req[r].code # 200 => ~OnStream(r)

\* A user sees an own message echoed, or is told 200, only if the bot took it.
EchoMeansTaken ==
  \A r \in Posts :
    OnStream(r) \/ (At(r, "answered") /\ req[r].code = 200) => r \in inbox

-----------------------------------------------------------------------------
(* What the relay promises *)

Promise ==
  INSTANCE Exchange WITH
    phase <- [r \in Requests |->
                IF At(r, "new") THEN "new" ELSE IF At(r, "aborted") THEN "lost"
                ELSE IF ~At(r, "answered") THEN "open"
                ELSE IF req[r].code = 200 THEN "ok" ELSE "error"],
    taken <- inbox,
    shown <- {r \in Requests : OnStream(r)}

\* The answers, the bot and the client's stream agree as Exchange says, and every
\* request that is not lost in a restart is answered.
KeepsExchange == Promise!Spec
=============================================================================
