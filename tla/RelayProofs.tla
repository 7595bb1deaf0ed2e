----------------------------- MODULE RelayProofs -----------------------------
(***************************************************************************)
(* Proofs about Relay, for every number of requests, conversations and     *)
(* sockets, either manager, and whatever uploads and watermarks the        *)
(* clients make.  What Relay needs of the gateway is proved in             *)
(* GatewayProofs, used here with the requests as the senders.              *)
(***************************************************************************)
EXTENDS Relay, TLAPS

GP == INSTANCE GatewayProofs WITH Senders <- Requests

-----------------------------------------------------------------------------
(* The inductive invariant *)

Records == [pc : PCs, conv : Convs \cup {NoConv}, typing : BOOLEAN, form : Forms \cup {NoForm},
            id : Nat \cup {NoNumber}, mark : Int, code : Codes]
ReqOK == req \in [Requests -> Records]

\* Where a request stands tells whose it is and what it is about.
Standing ==
  \A r \in Requests :
    /\ At(r, "new") => req[r].form = NoForm /\ req[r].id = NoNumber
    /\ req[r].pc \in {"upload", "find", "post", "wait"} => r \in Posts
    /\ At(r, "stamp") => r \in Replies /\ ~req[r].typing
    /\ At(r, "store") => r \in Resyncs
    /\ req[r].pc \in {"number", "send", "sending"} => r \notin Resyncs
    /\ req[r].pc \in {"upload", "number", "stamp", "find", "post", "wait", "send", "sending"}
       => req[r].conv \in Convs

\* A call of the counter is the one that its request waits for.
Calling ==
  \A r \in Requests : call[r].st # "idle" =>
    \/ /\ At(r, "number") /\ ~req[r].typing
       /\ call[r].op = "incr" /\ call[r].conv = req[r].conv
       /\ call[r].st \in {"awaiting", "done"} => call[r].res \in Nat
    \/ /\ At(r, "stamp") /\ call[r].op = "get" /\ call[r].conv = req[r].conv
       /\ call[r].st # "awaiting"
    \/ /\ At(r, "store") /\ call[r].op = "set" /\ call[r].conv \in Convs
       /\ call[r].st # "awaiting"
       /\ call[r].st = "called" => call[r].res \in Nat

\* A post's files are in the bucket before anything else happens to it, and each is
\* found by the attachment of its name.
FiledOf(r) ==
  LET form == req[r].form IN
  /\ stored[r] \in 0..Len(form.files)
  /\ location[r] \in [DOMAIN form.attach -> 0..stored[r]]
  /\ At(r, "new") => stored[r] = 0
  /\ At(r, "upload") => stored[r] < Len(form.files)
  /\ req[r].pc \in {"number", "find", "post", "wait", "send", "sending"}
     => stored[r] = Len(form.files)
  /\ \A i \in DOMAIN form.attach, k \in 1..stored[r] :
       /\ form.attach[i] = form.files[k]
       /\ OnlyOne(form.attach, i) /\ OnlyOne(form.files, k)
       => location[r][i] = k
  /\ r \in flight \cup inbox =>
       /\ req[r].pc \notin {"new", "upload", "number", "find", "post"}
       /\ stored[r] = Len(form.files)

Filed == /\ DOMAIN stored = Posts /\ DOMAIN location = Posts
         /\ flight \subseteq Posts /\ inbox \subseteq Posts
         /\ \A r \in Posts : FiledOf(r)

\* A request has its number from the moment the counter gave it.
Has(r)    == HasNumber(r) \/ (call[r].st = "done" /\ call[r].op = "incr")
Number(r) == IF HasNumber(r) THEN req[r].id ELSE call[r].res

\* The numbers of a conversation that was never rewound are below the next one, and
\* different if no calls clashed in it.
Numbers ==
  /\ \A r \in Requests : HasNumber(r) => req[r].pc \notin {"new", "upload", "number"}
  /\ \A r \in Requests : Has(r) =>
       /\ req[r].conv \in Convs /\ Number(r) \in Nat
       /\ req[r].conv \notin rewound => Number(r) < C!upcoming[req[r].conv]
  /\ \A r, q \in Requests :
       r # q /\ Has(r) /\ Has(q) /\ req[r].conv = req[q].conv /\ Number(r) = Number(q)
       => req[r].conv \in rewound \cup clashed

\* A request that has a number and no watermark yet will read one that is a number,
\* also on the memory manager: a process that counted does not forget it.
MarksOf(r) ==
  /\ At(r, "stamp") \/ (At(r, "number") /\ call[r].st = "done")
     => C!upcoming[req[r].conv] >= C!Lag
  /\ At(r, "stamp") =>
       /\ HasNumber(r)
       /\ call[r].st = "done" =>
            /\ call[r].res >= 0
            /\ req[r].conv \notin rewound => req[r].id < call[r].res + C!Lag
  /\ IsMarked(r) =>
       /\ HasNumber(r) /\ req[r].mark >= 0
       /\ req[r].conv \notin rewound => req[r].id < req[r].mark + C!Lag

Marks == \A r \in Requests : MarksOf(r)

\* A request's transcript is sent while its request is in sendToConversation, and a
\* post's not before the bot took it.
Told(r) == At(r, "answered") /\ req[r].code = 200
DeliveryOf(r) ==
  /\ snd[r].st # "idle" => At(r, "sending") \/ At(r, "aborted") \/ Told(r)
  /\ snd[r].st = "sleeping" => At(r, "sending")
  /\ r \in Posts /\ (At(r, "send") \/ snd[r].st # "idle" \/ Told(r)) => r \in inbox

Delivery == \A r \in Requests : DeliveryOf(r)

GatewayInv == GP!TypeOK /\ GP!SleepsForConv /\ GP!MapFacts /\ GP!Streams

Inv == /\ GatewayInv /\ C!TypeOK /\ ReqOK /\ rewound \subseteq Convs /\ clashed \subseteq Convs
       /\ Standing /\ Calling /\ Filed /\ Numbers /\ Marks /\ Delivery

-----------------------------------------------------------------------------
(* What the actions do to a request's record *)

\* Only r's record changes, and of it not what the request is about.
Moves(r, pc) ==
  /\ \A q \in Requests \ {r} : req'[q] = req[q]
  /\ req'[r].pc = pc
  /\ req'[r].conv = req[r].conv /\ req'[r].typing = req[r].typing
  /\ req'[r].form = req[r].form

Holds(r, id, mark, code) == req'[r].id = id /\ req'[r].mark = mark /\ req'[r].code = code

\* A request goes on.
LEMMA GotoFacts ==
  ASSUME ReqOK, NEW r \in Requests, NEW pc \in PCs, Goto(r, pc)
  PROVE  ReqOK' /\ Moves(r, pc) /\ Holds(r, req[r].id, req[r].mark, req[r].code)
  BY DEF ReqOK, Records, Goto, Moves, Holds

\* A request is answered.
LEMMA AnswerFacts ==
  ASSUME ReqOK, NEW r \in Requests, NEW code \in Codes, Answer(r, code)
  PROVE  ReqOK' /\ Moves(r, "answered") /\ Holds(r, req[r].id, req[r].mark, code)
  BY DEF ReqOK, Records, Answer, Moves, Holds, PCs

\* A request goes on with its number.
LEMMA GotoWithId ==
  ASSUME ReqOK, NEW r \in Requests, NEW pc \in PCs, NEW id \in Nat,
         req' = [req EXCEPT ![r].pc = pc, ![r].id = id]
  PROVE  ReqOK' /\ Moves(r, pc) /\ Holds(r, id, req[r].mark, req[r].code)
  BY DEF ReqOK, Records, Moves, Holds

\* A request goes on with its watermark.
LEMMA GotoWithMark ==
  ASSUME ReqOK, NEW r \in Requests, NEW pc \in PCs, NEW mark \in Int,
         req' = [req EXCEPT ![r].pc = pc, ![r].mark = mark]
  PROVE  ReqOK' /\ Moves(r, pc) /\ Holds(r, req[r].id, mark, req[r].code)
  BY DEF ReqOK, Records, Moves, Holds

\* The counter gave the number, or failed.
LEMMA NumberedFacts ==
  ASSUME ReqOK, Calling, NEW r \in Requests, Numbered(r)
  PROVE  /\ ReqOK' /\ At(r, "number") /\ ~req[r].typing
         /\ \/ /\ Moves(r, AfterNumber(r)) /\ call[r].st = "done" /\ call[r].op = "incr"
               /\ Holds(r, call[r].res, req[r].mark, req[r].code)
            \/ Moves(r, "answered") /\ Holds(r, req[r].id, req[r].mark, 500)
<1>1. At(r, "number") /\ ~req[r].typing /\ call[r].op = "incr"
      /\ (call[r].st = "done" => call[r].res \in Nat)
  BY DEF Numbered, C!Return, C!R!Return, C!M!Return, Calling, At
<1>2. CASE call[r].st = "done" /\ req' = [req EXCEPT ![r].pc = AfterNumber(r),
                                                     ![r].id = call[r].res]
  <2>1. AfterNumber(r) \in PCs /\ call[r].res \in Nat
    BY <1>1, <1>2 DEF AfterNumber, PCs
  <2> QED BY <1>1, <1>2, <2>1, GotoWithId
<1>3. CASE Answer(r, 500)
  BY <1>1, <1>3, AnswerFacts DEF Codes
<1> QED BY <1>2, <1>3 DEF Numbered

\* The counter gave the watermark, or failed.
LEMMA MarkedFacts ==
  ASSUME ReqOK, C!TypeOK, NEW r \in Requests, Marked(r)
  PROVE  /\ ReqOK' /\ At(r, "stamp")
         /\ \/ /\ Moves(r, "send") /\ call[r].st = "done"
               /\ Holds(r, req[r].id, call[r].res, req[r].code)
            \/ Moves(r, "answered") /\ Holds(r, req[r].id, req[r].mark, 500)
<1>1. At(r, "stamp") /\ call[r].res \in Int
  BY DEF Marked, C!TypeOK, C!Calls
<1>2. CASE call[r].st = "done" /\ req' = [req EXCEPT ![r].pc = "send",
                                                     ![r].mark = call[r].res]
  BY <1>1, <1>2, GotoWithMark DEF PCs
<1>3. CASE Answer(r, 500)
  BY <1>1, <1>3, AnswerFacts DEF Codes
<1> QED BY <1>2, <1>3 DEF Marked

\* What follows the number.
LEMMA AfterNumberOf ==
  ASSUME NEW r \in Requests, r \notin Resyncs
  PROVE  \/ r \in Posts /\ AfterNumber(r) = "find"
         \/ r \in Replies /\ AfterNumber(r) = IF req[r].typing THEN "send" ELSE "stamp"
  BY DEF AfterNumber, Requests

\* What a request is about is settled when it arrives.
Starts(r, pc, c, typing, form) ==
  /\ \A q \in Requests \ {r} : req'[q] = req[q]
  /\ req'[r].pc = pc /\ req'[r].conv = c
  /\ req'[r].typing = typing /\ req'[r].form = form
  /\ Holds(r, req[r].id, req[r].mark, req[r].code)

\* A user's post arrives.
LEMMA PostFacts ==
  ASSUME ReqOK, NEW r \in Requests, NEW c \in Convs, NEW typing \in BOOLEAN,
         NEW form \in Forms, UserPost(r, c, typing, form)
  PROVE  /\ ReqOK' /\ At(r, "new") /\ r \in Posts
         /\ Starts(r, IF form.files # <<>> THEN "upload" ELSE "number", c, typing, form)
<1> DEFINE pc == IF form.files # <<>> THEN "upload" ELSE "number"
<1>1. pc \in PCs
  BY DEF PCs
<1>2. req' = [req EXCEPT ![r].pc = pc, ![r].conv = c, ![r].typing = typing, ![r].form = form]
  BY DEF UserPost
<1> HIDE DEF pc
<1>3. ReqOK' /\ Starts(r, pc, c, typing, form)
  BY <1>1, <1>2 DEF ReqOK, Records, Starts, Holds
<1> QED BY <1>3 DEF UserPost, pc

\* A bot's reply arrives.
LEMMA ReplyFacts ==
  ASSUME ReqOK, Standing, NEW r \in Requests, NEW c \in Convs, NEW typing \in BOOLEAN,
         BotReply(r, c, typing)
  PROVE  /\ ReqOK' /\ At(r, "new") /\ r \in Replies
         /\ Starts(r, "number", c, typing, NoForm)
<1>1. req[r].form = NoForm
  BY DEF BotReply, Standing
<1> QED BY <1>1 DEF BotReply, ReqOK, Records, Starts, Holds, PCs

\* A restart aborts the requests that are not answered.
LEMMA RestartFacts ==
  ASSUME ReqOK, Restart, NEW r \in Requests
  PROVE  /\ req'[r] \in Records
         /\ req[r].pc \in {"new", "answered"} => req'[r] = req[r]
         /\ req[r].pc \notin {"new", "answered"} => req'[r].pc = "aborted"
         /\ req'[r].conv = req[r].conv /\ req'[r].form = req[r].form /\ req'[r].id = req[r].id
<1> DEFINE lost == [req[r] EXCEPT !.pc = "aborted"]
<1>1. req'[r] = IF req[r].pc \in {"new", "answered"} THEN req[r] ELSE lost
  BY DEF Restart
<1>2. req[r] \in Records
  BY DEF ReqOK
<1>3. lost \in Records /\ lost.pc = "aborted" /\ lost.conv = req[r].conv
      /\ lost.form = req[r].form /\ lost.id = req[r].id
  BY <1>2 DEF Records, PCs
<1> HIDE DEF lost
<1> QED BY <1>1, <1>2, <1>3

-----------------------------------------------------------------------------
(* Where requests stand *)

\* A request goes on as one of its kind does.
LEMMA MovesStanding ==
  ASSUME Standing, NEW r \in Requests, NEW pc \in PCs \ {"new"}, Moves(r, pc),
         pc \in {"upload", "find", "post", "wait"} => r \in Posts,
         pc = "stamp" => r \in Replies /\ ~req[r].typing,
         pc = "store" => r \in Resyncs,
         pc \in {"number", "send", "sending"} => r \notin Resyncs,
         pc \in {"answered", "store"} \/ req[r].conv \in Convs
  PROVE  Standing'
  BY DEF Standing, Moves, At

\* A request starts as one of its kind does.
LEMMA StartsStanding ==
  ASSUME Standing, NEW r \in Requests \ Resyncs, NEW pc, NEW c \in Convs, NEW typing, NEW form,
         Starts(r, pc, c, typing, form), pc = "number" \/ (pc = "upload" /\ r \in Posts)
  PROVE  Standing'
  BY DEF Standing, Starts, At

\* Every handler keeps its request standing.
LEMMA TurnStanding ==
  ASSUME ReqOK, Standing, Calling, C!TypeOK, NEW r \in Requests, Turn(r)
  PROVE  ReqOK' /\ Standing'
<1> USE RelayAssumption
<1>1. ASSUME NEW code \in Codes, Answer(r, code)
      PROVE  ReqOK' /\ Standing'
  BY <1>1, AnswerFacts, MovesStanding DEF PCs
<1>2. CASE req' = req
  BY <1>2 DEF ReqOK, Standing, At
<1>3. CASE Stored(r) \/ PostFails(r) \/ Sent(r)
  BY <1>3, <1>1 DEF Stored, PostFails, Sent, Codes
<1>4. CASE Upload(r)
  <2>1. ASSUME NEW pc \in {"upload", "number"}, Goto(r, pc)
        PROVE  ReqOK' /\ Standing'
    <3>1. At(r, "upload")
      BY <1>4 DEF Upload
    <3>2. r \in Posts /\ req[r].conv \in Convs
      BY <3>1 DEF Standing, At
    <3> QED BY <2>1, <3>2, GotoFacts, MovesStanding DEF PCs
  <2> QED BY <1>4, <2>1, <1>1 DEF Upload, Codes
<1>5. CASE TypingId(r)
  <2>1. At(r, "number") /\ req[r].typing /\ Goto(r, AfterNumber(r))
    BY <1>5 DEF TypingId
  <2>2. r \notin Resyncs /\ req[r].conv \in Convs
    BY <2>1 DEF Standing, At
  <2>3. (r \in Posts /\ AfterNumber(r) = "find") \/ AfterNumber(r) = "send"
    BY <2>1, <2>2, AfterNumberOf
  <2> QED BY <2>1, <2>2, <2>3, GotoFacts, MovesStanding DEF PCs
<1>6. CASE Numbered(r)
  <2>1. At(r, "number") /\ ~req[r].typing
    BY <1>6, NumberedFacts
  <2>2. r \notin Resyncs /\ req[r].conv \in Convs
    BY <2>1 DEF Standing, At
  <2>3. (r \in Posts /\ AfterNumber(r) = "find") \/ (r \in Replies /\ AfterNumber(r) = "stamp")
    BY <2>1, <2>2, AfterNumberOf
  <2>4. ReqOK' /\ (Moves(r, AfterNumber(r)) \/ Moves(r, "answered"))
    BY <1>6, NumberedFacts
  <2> QED BY <2>1, <2>2, <2>3, <2>4, MovesStanding DEF PCs
<1>7. CASE FindBot(r) \/ PostToBot(r) \/ BotAccepts(r)
  <2>1. r \in Posts /\ req[r].conv \in Convs
    BY <1>7 DEF FindBot, PostToBot, BotAccepts, Standing, At
  <2>2. r \notin Resyncs
    BY <2>1
  <2>3. \/ \E pc \in {"post", "wait", "send"} : Goto(r, pc)
        \/ \E code \in Codes : Answer(r, code)
    BY <1>7 DEF FindBot, PostToBot, BotAccepts, Codes
  <2>4. ASSUME NEW pc \in {"post", "wait", "send"}, Goto(r, pc)
        PROVE  ReqOK' /\ Standing'
    BY <2>1, <2>2, <2>4, GotoFacts, MovesStanding DEF PCs
  <2> QED BY <2>3, <2>4, <1>1
<1>8. CASE Marked(r)
  <2>1. At(r, "stamp") /\ ReqOK' /\ (Moves(r, "send") \/ Moves(r, "answered"))
    BY <1>8, MarkedFacts
  <2>2. r \notin Resyncs /\ req[r].conv \in Convs
    BY <2>1 DEF Standing, At
  <2> QED BY <2>1, <2>2, MovesStanding DEF PCs
<1>9. CASE Send(r)
  <2>1. At(r, "send") /\ Goto(r, "sending")
    BY <1>9 DEF Send
  <2>2. r \notin Resyncs /\ req[r].conv \in Convs
    BY <2>1 DEF Standing, At
  <2> QED BY <2>1, <2>2, GotoFacts, MovesStanding DEF PCs
<1>10. CASE AskNumber(r) \/ AskMark(r) \/ Retry(r)
  BY <1>10, <1>2 DEF AskNumber, AskMark, Retry, own
<1> QED BY <1>3, <1>4, <1>5, <1>6, <1>7, <1>8, <1>9, <1>10 DEF Turn

\* Every step keeps the requests standing.
LEMMA StandingStep ==
  ASSUME ReqOK, Standing, Calling, C!TypeOK, Steps
  PROVE  ReqOK' /\ Standing'
<1>1. CASE req' = req
  BY <1>1 DEF ReqOK, Standing, At
<1>2. ASSUME NEW r \in Requests, NEW code \in Codes, Answer(r, code)
      PROVE  ReqOK' /\ Standing'
  BY <1>2, AnswerFacts, MovesStanding DEF PCs
<1>3. ASSUME NEW r \in Requests, Turn(r)
      PROVE  ReqOK' /\ Standing'
  BY <1>3, TurnStanding
<1>4. ASSUME NEW r \in Requests, Refuse(r)
      PROVE  ReqOK' /\ Standing'
  BY <1>4, <1>2 DEF Refuse, Codes
<1>5. ASSUME NEW r \in Requests, NEW c \in Convs, NEW typing \in BOOLEAN, NEW form \in Forms,
             UserPost(r, c, typing, form)
      PROVE  ReqOK' /\ Standing'
  <2>1. r \notin Resyncs
    BY <1>5, RelayAssumption DEF UserPost
  <2> QED BY <1>5, <2>1, PostFacts, StartsStanding
<1>6. ASSUME NEW r \in Requests, NEW c \in Convs, NEW typing \in BOOLEAN, BotReply(r, c, typing)
      PROVE  ReqOK' /\ Standing'
  <2>1. r \notin Resyncs
    BY <1>6, RelayAssumption DEF BotReply
  <2> QED BY <1>6, <2>1, ReplyFacts, StartsStanding
<1>7. ASSUME NEW r \in Requests, NEW c \in Convs, Resync(r, c)
      PROVE  ReqOK' /\ Standing'
  <2>1. r \in Resyncs /\ (Goto(r, "store") \/ Answer(r, 200))
    BY <1>7 DEF Resync
  <2> QED BY <2>1, <1>2, GotoFacts, MovesStanding DEF PCs, Codes
<1>8. CASE Restart
  <2>1. ReqOK'
    <3>1. \A r \in Requests : req'[r] \in Records
      BY <1>8, RestartFacts
    <3>2. req' = [r \in Requests |-> req'[r]]
      BY <1>8 DEF Restart
    <3> QED BY <3>1, <3>2 DEF ReqOK
  <2>2. \A r \in Requests : req'[r] = req[r] \/ (req'[r].pc = "aborted")
    BY <1>8, RestartFacts
  <2> QED BY <2>1, <2>2 DEF Standing, At
<1>9. CASE Connections \/ (\E c \in Convs : KeyExpires(c))
           \/ \E r \in Requests : Counter(r) \/ CounterResends(r) \/ BotTakes(r)
  BY <1>9, <1>1 DEF Connections, KeyExpires, Counter, CounterResends, BotTakes, own
<1>10. ASSUME NEW r \in Requests, Arrive(r)
       PROVE  ReqOK' /\ Standing'
  BY <1>10, <1>4, <1>5, <1>6, <1>7 DEF Arrive
<1> QED BY <1>3, <1>8, <1>9, <1>10 DEF Steps

-----------------------------------------------------------------------------
(* The counter *)

\* What a step does to the counter, but for a restart.
CounterTurn ==
  \/ UNCHANGED counter
  \/ \E r \in Requests :
       \/ \E op \in {"incr", "get", "set"}, c \in Convs, n \in Int : C!Call(r, op, c, n)
       \/ C!Work(r) \/ C!Resend(r) \/ C!Return(r)
  \/ \E c \in Convs : C!Expire(c)

\* What a step is to the counter.
LEMMA CounterCases ==
  ASSUME Standing, Steps
  PROVE  CounterTurn \/ Restart
<1> USE RelayAssumption
<1>1. ASSUME NEW r \in Requests, NEW c \in Convs, Resync(r, c)
      PROVE  CounterTurn
  BY <1>1 DEF Resync, CounterTurn
<1>2. ASSUME NEW r \in Requests, Arrive(r)
      PROVE  CounterTurn
  BY <1>1, <1>2 DEF Arrive, Refuse, UserPost, BotReply, CounterTurn
<1>3. ASSUME NEW r \in Requests, AskNumber(r) \/ AskMark(r)
      PROVE  CounterTurn
  <2>1. req[r].conv \in Convs
    BY <1>3 DEF AskNumber, AskMark, Standing, At
  <2> QED BY <1>3, <2>1 DEF AskNumber, AskMark, CounterTurn
<1>4. ASSUME NEW r \in Requests, Turn(r), ~AskNumber(r), ~AskMark(r)
      PROVE  UNCHANGED counter \/ C!Return(r)
  BY <1>4 DEF Turn, Stored, Upload, TypingId, Numbered, FindBot, PostToBot, BotAccepts,
              PostFails, Marked, Send, Retry, Sent
<1>5. ASSUME NEW r \in Requests, Counter(r) \/ CounterResends(r) \/ BotTakes(r)
      PROVE  CounterTurn
  BY <1>5 DEF Counter, CounterResends, BotTakes, CounterTurn
<1>6. CASE Connections \/ (\E c \in Convs : KeyExpires(c))
  BY <1>6 DEF Connections, KeyExpires, CounterTurn
<1>7. ASSUME NEW r \in Requests, Turn(r)
      PROVE  CounterTurn
  BY <1>3, <1>4, <1>7 DEF CounterTurn
<1> QED BY <1>2, <1>5, <1>6, <1>7 DEF Steps

\* A call under way: its conversation, and the number that a set will store or that an
\* incr has read from the Map.
Running(r) ==
  /\ call[r].conv \in Convs
  /\ call[r].op = "set" /\ call[r].st = "called" => call[r].res \in Nat
  /\ call[r].st = "awaiting" => call[r].op = "incr" /\ call[r].res \in Nat

LEMMA CallFacts ==
  ASSUME Standing, Calling, NEW r \in Requests, call[r].st # "idle"
  PROVE  Running(r)
  BY DEF Standing, Calling, Running, At

\* The watermark is one number behind on the memory manager only.
LEMMA LagIs ==
  ASSUME C!TypeOK
  PROVE  /\ C!Lag = IF manager = "memory" THEN 1 ELSE 0
         /\ manager \in {"redis", "memory"}
  BY RelayAssumption DEF C!TypeOK, C!Lag, C!R!Lag

\* The next number, of either manager.
LEMMA UpcomingIs ==
  ASSUME C!TypeOK
  PROVE  C!upcoming \in [Convs -> Nat]
  BY DEF C!TypeOK, C!upcoming, C!M!promisedNext, C!M!Has

LEMMA UpcomingInRedis ==
  ASSUME C!TypeOK, manager = "redis"
  PROVE  C!upcoming = next
  BY DEF C!TypeOK, C!upcoming

LEMMA UpcomingInMemory ==
  ASSUME C!TypeOK, manager = "memory", NEW c \in Convs
  PROVE  C!upcoming[c] = IF c \in DOMAIN activityInc THEN activityInc[c] + 1 ELSE 0
  BY DEF C!upcoming, C!M!promisedNext, C!M!Has

LEMMA SameUpcoming ==
  ASSUME UNCHANGED <<manager, next, activityInc>>
  PROVE  C!upcoming' = C!upcoming /\ C!Lag' = C!Lag
  BY DEF C!upcoming, C!M!promisedNext, C!M!Has, C!Lag, C!R!Lag

\* The counter of c becomes n.
Puts(c, n) == \A d \in Convs : C!upcoming'[d] = IF d = c THEN n ELSE C!upcoming[d]

\* What one call's turn does: an incr reads and awaits, or gives a number, which is the
\* next one unless another call came in between; a set; a get; an error.
Keeps     == C!upcoming' = C!upcoming
Reads(r)  == call[r].op = "incr" /\ call'[r].st = "awaiting" /\ call'[r].res \in Nat /\ Keeps
Counts(r) == /\ call[r].op = "incr" /\ call'[r].st = "done" /\ call'[r].res \in Nat
             /\ Puts(call[r].conv, call'[r].res + 1)
             /\ call'[r].res = C!upcoming[call[r].conv] \/ C!Clash(r)
Sets(r)   == /\ call[r].op = "set" /\ call[r].res \in Nat /\ call'[r].st = "done"
             /\ Puts(call[r].conv, call[r].res + C!Lag)
Gets(r)   == /\ call[r].op = "get" /\ call'[r].st = "done" /\ Keeps
             /\ call'[r].res = C!upcoming[call[r].conv] - C!Lag
Fails(r)  == call'[r].st = "failed" /\ Keeps

\* The call that works is r's, and it stays the call it is.
Works(r) == /\ call[r].st \notin {"idle", "failed"}
            /\ call'[r].op = call[r].op /\ call'[r].conv = call[r].conv
            /\ \A q \in Requests \ {r} : call'[q] = call[q]

\* Redis does what AtomicCounter says.
LEMMA RedisWork ==
  ASSUME C!TypeOK, NEW r \in Requests, Running(r), C!Redis,
         C!R!Incr(r) \/ C!R!Set(r) \/ C!R!Get(r) \/ C!R!Fail(r)
  PROVE  /\ C!TypeOK' /\ Works(r)
         /\ Counts(r) \/ Sets(r) \/ Gets(r) \/ Fails(r)
<1> DEFINE c == call[r].conv
<1>1. manager = "redis" /\ manager' = manager /\ UNCHANGED <<activityInc, micro, rewritten>>
  BY DEF C!Redis
<1>2. c \in Convs /\ C!Lag = 0 /\ C!upcoming = next
  BY <1>1, LagIs, UpcomingInRedis DEF Running
<1>3. ASSUME NEW n \in Int, C!R!Finish(r, n)
      PROVE  /\ call' \in [Requests -> C!Calls] /\ call'[r].st = "done" /\ call'[r].res = n
             /\ call'[r].op = call[r].op /\ call'[r].conv = call[r].conv
             /\ \A q \in Requests \ {r} : call'[q] = call[q]
  BY <1>3 DEF C!R!Finish, C!TypeOK, C!Calls
<1>4. CASE C!R!Incr(r)
  <2>1. next[c] \in Nat /\ call[r].op = "incr" /\ call[r].st = "called"
    BY <1>2, <1>4 DEF C!R!Incr, C!R!Pending, C!TypeOK
  <2>2. /\ next' \in [Convs -> Nat] /\ issued' \in [Convs -> SUBSET Nat]
        /\ \A d \in Convs : next'[d] = IF d = c THEN next[c] + 1 ELSE next[d]
    BY <1>2, <1>4 DEF C!R!Incr, C!R!Take, C!TypeOK
  <2>3. C!R!Finish(r, next[c])
    BY <1>4 DEF C!R!Incr
  <2>4. C!TypeOK'
    BY <1>1, <1>3, <2>1, <2>2, <2>3 DEF C!TypeOK, C!Calls
  <2>5. C!upcoming' = next'
    BY <1>1, <2>4 DEF C!upcoming, C!TypeOK
  <2> QED BY <1>2, <1>3, <2>1, <2>2, <2>3, <2>4, <2>5 DEF Works, Counts, Puts
<1>5. CASE C!R!Set(r)
  <2>1. call[r].op = "set" /\ call[r].st = "called" /\ call[r].res \in Nat
        /\ C!R!Rewind(c, call[r].res + C!R!Lag) /\ C!R!Finish(r, 0) /\ C!R!Lag = 0
    BY <1>1, <1>5 DEF C!R!Set, C!R!Pending, C!R!Lag, Running
  <2>2. /\ next' \in [Convs -> Nat] /\ issued' \in [Convs -> SUBSET Nat]
        /\ \A d \in Convs : next'[d] = IF d = c THEN call[r].res ELSE next[d]
    BY <1>2, <2>1 DEF C!R!Rewind, C!TypeOK
  <2>3. C!TypeOK'
    BY <1>1, <1>3, <2>1, <2>2 DEF C!TypeOK, C!Calls
  <2>4. C!upcoming' = next'
    BY <1>1, <2>3 DEF C!upcoming, C!TypeOK
  <2> QED BY <1>2, <1>3, <2>1, <2>2, <2>3, <2>4 DEF Works, Sets, Puts
<1>6. CASE C!R!Get(r)
  <2>1. call[r].op = "get" /\ call[r].st = "called" /\ UNCHANGED <<next, issued>>
        /\ C!R!Finish(r, next[c] - C!R!Lag) /\ C!R!Lag = 0 /\ next[c] \in Nat
    BY <1>1, <1>2, <1>6 DEF C!R!Get, C!R!Pending, C!R!Lag, C!TypeOK
  <2>2. C!TypeOK' /\ Keeps
    BY <1>1, <1>3, <2>1, SameUpcoming DEF C!TypeOK, C!Calls, Keeps
  <2> QED BY <1>2, <1>3, <2>1, <2>2 DEF Works, Gets
<1>7. CASE C!R!Fail(r)
  <2>1. call[r].st \in {"called", "done"} /\ UNCHANGED <<next, issued>>
        /\ call' = [call EXCEPT ![r].st = "failed"]
    BY <1>7 DEF C!R!Fail
  <2>2. call' \in [Requests -> C!Calls] /\ call'[r].st = "failed" /\ Works(r)
    BY <2>1 DEF C!TypeOK, C!Calls, Works
  <2>3. C!TypeOK' /\ Keeps
    BY <1>1, <2>1, <2>2, SameUpcoming DEF C!TypeOK, Keeps
  <2> QED BY <2>2, <2>3 DEF Fails
<1> QED BY <1>4, <1>5, <1>6, <1>7

\* The turn of p leaves a queue of callers.
LEMMA QueueTurns ==
  ASSUME C!TypeOK, NEW r \in Requests, micro # << >>
  PROVE  Tail(micro) \in Seq(Requests) /\ Append(Tail(micro), r) \in Seq(Requests)
  BY DEF C!TypeOK

\* The Map with one number stored.
LEMMA StoredInMap ==
  ASSUME C!TypeOK, manager = "memory", UNCHANGED <<manager, next>>,
         NEW c \in Convs, NEW n \in Nat, C!M!Write(c, n)
  PROVE  /\ DOMAIN activityInc' \subseteq Convs
         /\ \A d \in DOMAIN activityInc' : activityInc'[d] \in Nat
         /\ Puts(c, n + 1)
<1>1. /\ DOMAIN activityInc' = DOMAIN activityInc \cup {c}
      /\ \A d \in DOMAIN activityInc' : activityInc'[d] = IF d = c THEN n ELSE activityInc[d]
  BY DEF C!M!Write
<1>2. \A d \in Convs : C!upcoming'[d] = IF d \in DOMAIN activityInc' THEN activityInc'[d] + 1 ELSE 0
  BY DEF C!upcoming, C!M!promisedNext, C!M!Has
<1> QED BY <1>1, <1>2, UpcomingInMemory DEF C!TypeOK, Puts

\* The Map does so too, but for an incr that another call overtakes in its await.
LEMMA MemoryWork ==
  ASSUME C!TypeOK, NEW r \in Requests, Running(r), C!Memory,
         C!M!IncrFirst(r) \/ C!M!IncrRead(r) \/ C!M!IncrWrite(r) \/ C!M!Set(r) \/ C!M!Get(r)
  PROVE  /\ C!TypeOK' /\ Works(r)
         /\ Reads(r) \/ Counts(r) \/ Sets(r) \/ Gets(r)
<1> DEFINE c == call[r].conv
<1>1. manager = "memory" /\ UNCHANGED <<manager, next>> /\ c \in Convs /\ C!Lag = 1
  BY LagIs DEF C!Memory, Running
<1>2. micro # << >> /\ micro' \in {Tail(micro), Append(Tail(micro), r)}
  BY DEF C!M!IncrFirst, C!M!IncrRead, C!M!IncrWrite, C!M!Set, C!M!Get, C!M!Runs, C!M!Due,
         C!M!Answers, C!M!Awaits
<1>3. micro' \in Seq(Requests)
  BY <1>2, QueueTurns
<1>4. ASSUME NEW st \in {"awaiting", "done"}, NEW n \in Int, C!M!Goto(r, st, n)
      PROVE  /\ call' \in [Requests -> C!Calls] /\ call'[r].st = st /\ call'[r].res = n
             /\ call'[r].op = call[r].op /\ call'[r].conv = call[r].conv
             /\ \A q \in Requests \ {r} : call'[q] = call[q]
  BY <1>4 DEF C!M!Goto, C!TypeOK, C!Calls
<1>5. ASSUME NEW n \in Nat, C!M!Issue(c, n)
      PROVE  issued' \in [Convs -> SUBSET Nat]
  BY <1>1, <1>5 DEF C!M!Issue, C!TypeOK
<1>6. C!upcoming[c] = IF c \in DOMAIN activityInc THEN activityInc[c] + 1 ELSE 0
  BY <1>1, UpcomingInMemory
<1>7. CASE C!M!IncrFirst(r)
  <2>1. /\ call[r].op = "incr" /\ call[r].st = "called" /\ c \notin DOMAIN activityInc
        /\ C!M!Write(c, 0) /\ C!M!Issue(c, 0) /\ C!M!Goto(r, "done", 0) /\ rewritten' = rewritten
    BY <1>7 DEF C!M!IncrFirst, C!M!Runs, C!M!Due, C!M!Has
  <2>2. C!TypeOK' /\ Puts(c, 1)
    BY <1>1, <1>3, <1>4, <1>5, <2>1, StoredInMap DEF C!TypeOK
  <2> QED BY <1>4, <1>6, <2>1, <2>2 DEF Works, Counts
<1>8. CASE C!M!IncrRead(r)
  <2>1. /\ call[r].op = "incr" /\ call[r].st = "called" /\ activityInc[c] \in Nat
        /\ C!M!Goto(r, "awaiting", activityInc[c]) /\ UNCHANGED <<activityInc, issued, rewritten>>
    BY <1>8 DEF C!M!IncrRead, C!M!Runs, C!M!Due, C!M!Has, C!TypeOK
  <2>2. C!TypeOK' /\ Keeps
    BY <1>1, <1>3, <1>4, <2>1, SameUpcoming DEF C!TypeOK, Keeps
  <2> QED BY <1>4, <2>1, <2>2 DEF Works, Reads
<1>9. CASE C!M!IncrWrite(r)
  <2> DEFINE n == C!M!PlusOne(call[r].res)
  <2>1. call[r].st = "awaiting" /\ call[r].op = "incr" /\ call[r].res \in Nat
    BY <1>9 DEF C!M!IncrWrite, Running
  <2>2. n \in Nat /\ (call[r].res < MaxCount => n = call[r].res + 1)
    BY <2>1, RelayAssumption DEF C!M!PlusOne
  <2>3. C!M!Write(c, n) /\ C!M!Issue(c, n) /\ C!M!Goto(r, "done", n) /\ rewritten' = rewritten
    BY <1>9 DEF C!M!IncrWrite
  <2> HIDE DEF n
  <2>4. C!TypeOK' /\ Puts(c, n + 1)
    BY <1>1, <1>3, <1>4, <1>5, <2>2, <2>3, StoredInMap DEF C!TypeOK
  <2>5. call'[r].st = "done" /\ call'[r].res = n
    BY <1>4, <2>2, <2>3
  <2>6. n = C!upcoming[c] \/ C!Clash(r)
    BY <1>1, <1>6, <2>1, <2>2, <2>5 DEF C!Clash, C!M!Undisturbed, C!M!Has
  <2> QED BY <1>4, <2>1, <2>2, <2>3, <2>4, <2>5, <2>6 DEF Works, Counts
<1>10. CASE C!M!Set(r)
  <2>1. /\ call[r].op = "set" /\ call[r].st = "called" /\ call[r].res \in Nat
        /\ C!M!Write(c, call[r].res) /\ C!M!Goto(r, "done", 0)
        /\ issued' = [issued EXCEPT ![c] = {i \in @ : i <= call[r].res}]
        /\ rewritten' = rewritten \cup {c}
    BY <1>10 DEF C!M!Set, C!M!Runs, C!M!Due, Running
  <2>2. issued' \in [Convs -> SUBSET Nat] /\ rewritten' \subseteq Convs
    BY <1>1, <2>1 DEF C!TypeOK
  <2>3. C!TypeOK' /\ Puts(c, call[r].res + 1)
    BY <1>1, <1>3, <1>4, <2>1, <2>2, StoredInMap DEF C!TypeOK
  <2> QED BY <1>1, <1>4, <2>1, <2>3 DEF Works, Sets
<1>11. CASE C!M!Get(r)
  <2> DEFINE n == IF c \in DOMAIN activityInc THEN activityInc[c] ELSE -1
  <2>1. /\ call[r].op = "get" /\ call[r].st = "called"
        /\ C!M!Goto(r, "done", n) /\ UNCHANGED <<activityInc, issued, rewritten>>
    BY <1>11 DEF C!M!Get, C!M!Runs, C!M!Due, C!M!Has
  <2>2. n \in Int /\ n = C!upcoming[c] - 1
    BY <1>6 DEF C!TypeOK
  <2> HIDE DEF n
  <2>3. C!TypeOK' /\ Keeps
    BY <1>1, <1>3, <1>4, <2>1, <2>2, SameUpcoming DEF C!TypeOK, Keeps
  <2> QED BY <1>1, <1>4, <2>1, <2>2, <2>3 DEF Works, Gets
<1> QED BY <1>7, <1>8, <1>9, <1>10, <1>11

\* The work of either manager on a call.
LEMMA WorkFacts ==
  ASSUME C!TypeOK, Standing, Calling, NEW r \in Requests, C!Work(r)
  PROVE  /\ C!TypeOK' /\ Works(r) /\ manager' = manager /\ call[r].conv \in Convs
         /\ Reads(r) \/ Counts(r) \/ Sets(r) \/ Gets(r) \/ Fails(r)
<1>1. call[r].st # "idle"
  BY DEF C!Work, C!R!Incr, C!R!Set, C!R!Get, C!R!Fail, C!R!Pending, C!M!IncrFirst, C!M!IncrRead,
         C!M!IncrWrite, C!M!Set, C!M!Get, C!M!Runs, C!M!Due
<1>2. Running(r)
  BY <1>1, CallFacts
<1>3. manager' = manager /\ call[r].conv \in Convs
  BY <1>2 DEF C!Work, C!Redis, C!Memory, Running
<1> QED BY <1>2, <1>3, RedisWork, MemoryWork DEF C!Work

\* A call that is over does not work; of one that counts, nothing is known before.
LEMMA WorkingIncr ==
  ASSUME C!TypeOK, NEW r \in Requests, Counter(r), Counts(r)
  PROVE  call[r].st # "done"
<1>1. C!R!Fail(r) => call'[r].st = "failed"
  BY DEF C!R!Fail, C!TypeOK
<1> QED BY <1>1 DEF Counter, Counts, C!Work, C!R!Incr, C!R!Set, C!R!Get, C!R!Pending,
                C!M!IncrFirst, C!M!IncrRead, C!M!IncrWrite, C!M!Set, C!M!Get, C!M!Runs, C!M!Due

\* A call begins, or its result is taken.
LEMMA CallReturnFacts ==
  ASSUME C!TypeOK, NEW r \in Requests,
         \/ C!Return(r)
         \/ \E op \in {"incr", "get", "set"}, c \in Convs, n \in Int : C!Call(r, op, c, n)
  PROVE  C!TypeOK' /\ Keeps /\ manager' = manager
<1>1. UNCHANGED <<manager, next, activityInc, issued, rewritten>>
      /\ micro' \in Seq(Requests) /\ call' \in [Requests -> C!Calls]
  <2>1. CASE C!Return(r)
    <3>1. UNCHANGED <<manager, next, activityInc, issued, rewritten, micro>>
      BY <2>1 DEF C!Return, C!Redis, C!Memory, C!R!Return, C!M!Return
    <3>2. call' \in [Requests -> C!Calls]
      <4> DEFINE none == [op |-> "none", st |-> "idle", conv |-> NoConv, res |-> 0]
      <4>1. none \in C!Calls
        BY DEF C!Calls
      <4>2. call' = [call EXCEPT ![r] = none]
        BY <2>1 DEF C!Return, C!R!Return, C!M!Return, C!R!NoCall, C!M!NoCall
      <4> HIDE DEF none
      <4> QED BY <4>1, <4>2 DEF C!TypeOK
    <3> QED BY <3>1, <3>2 DEF C!TypeOK
  <2>2. ASSUME NEW op \in {"incr", "get", "set"}, NEW c \in Convs, NEW n \in Int, C!Call(r, op, c, n)
        PROVE  /\ UNCHANGED <<manager, next, activityInc, issued, rewritten>>
               /\ micro' \in Seq(Requests) /\ call' \in [Requests -> C!Calls]
    <3>1. /\ UNCHANGED <<manager, next, activityInc, issued, rewritten>>
          /\ micro' \in {micro, Append(micro, r)}
      BY <2>2 DEF C!Call, C!Redis, C!Memory, C!R!Call, C!M!Call
    <3>2. call' \in [Requests -> C!Calls]
      BY <2>2 DEF C!Call, C!R!Call, C!M!Call, C!TypeOK, C!Calls
    <3>3. micro \in Seq(Requests)
      BY DEF C!TypeOK
    <3>4. Append(micro, r) \in Seq(Requests)
      BY <3>3
    <3> QED BY <3>1, <3>2, <3>3, <3>4
  <2> QED BY <2>1, <2>2
<1> QED BY <1>1, SameUpcoming DEF C!TypeOK, Keeps

\* What the two do to the calls.
LEMMA ReturnIs ==
  ASSUME C!TypeOK, NEW r \in Requests, C!Return(r)
  PROVE  /\ call[r].st \in {"done", "failed"} /\ call'[r].st = "idle"
         /\ \A q \in Requests \ {r} : call'[q] = call[q]
  BY DEF C!Return, C!R!Return, C!M!Return, C!R!NoCall, C!M!NoCall, C!TypeOK

LEMMA CallIs ==
  ASSUME C!TypeOK, NEW r \in Requests, NEW op, NEW c, NEW n, C!Call(r, op, c, n)
  PROVE  /\ call'[r] = [op |-> op, st |-> "called", conv |-> c, res |-> n]
         /\ \A q \in Requests \ {r} : call'[q] = call[q]
  BY DEF C!Call, C!R!Call, C!M!Call, C!TypeOK

LEMMA CalledIs ==
  ASSUME C!TypeOK, NEW r \in Requests, NEW op, NEW c, NEW n, C!Call(r, op, c, n)
  PROVE  call'[r].st = "called" /\ \A q \in Requests \ {r} : call'[q] = call[q]
<1>1. [op |-> op, st |-> "called", conv |-> c, res |-> n].st = "called"
  OBVIOUS
<1>2. /\ call'[r] = [op |-> op, st |-> "called", conv |-> c, res |-> n]
      /\ \A q \in Requests \ {r} : call'[q] = call[q]
  BY CallIs
<1> QED BY <1>1, <1>2

\* A command that Redis runs once more, and a key that ends there.
LEMMA RedisFacts ==
  ASSUME C!TypeOK, Standing, Calling,
         (\E r \in Requests : C!Resend(r)) \/ (\E c \in Convs : C!Expire(c))
  PROVE  /\ C!TypeOK' /\ manager' = manager /\ call' = call
         /\ \/ Keeps /\ manager = "memory"
            \/ manager = "redis" /\ C!upcoming \in [Convs -> Nat] /\ C!upcoming' \in [Convs -> Nat]
<1>1. ASSUME NEW r \in Requests, C!Resend(r)
      PROVE  C!TypeOK' /\ manager = "redis" /\ manager' = manager /\ call' = call
  <2>1. UNCHANGED <<manager, activityInc, micro, rewritten, call>> /\ manager = "redis"
    BY <1>1 DEF C!Resend, C!Redis, C!R!Lost
  <2>2. call[r].conv \in Convs /\ (C!R!Pending(r, "set") => call[r].res \in Nat)
    BY <1>1, CallFacts DEF C!Resend, C!R!Lost, C!R!Pending, Running
  <2>3. ASSUME C!R!Take(call[r].conv)
        PROVE  next' \in [Convs -> Nat] /\ issued' \in [Convs -> SUBSET Nat]
    BY <2>2, <2>3 DEF C!R!Take, C!TypeOK
  <2>4. ASSUME C!R!Pending(r, "set"), C!R!Rewind(call[r].conv, call[r].res + C!R!Lag)
        PROVE  next' \in [Convs -> Nat] /\ issued' \in [Convs -> SUBSET Nat]
    BY <2>1, <2>2, <2>4 DEF C!R!Rewind, C!R!Lag, C!TypeOK
  <2> QED BY <1>1, <2>1, <2>3, <2>4 DEF C!Resend, C!R!Lost, C!TypeOK
<1>2. ASSUME NEW c \in Convs, C!Expire(c)
      PROVE  C!TypeOK' /\ manager' = manager /\ call' = call
  <2>1. UNCHANGED <<manager, activityInc, micro, rewritten, call>>
    BY <1>2 DEF C!Expire, C!Redis, C!R!Forget
  <2>2. next' \in [Convs -> Nat] /\ issued' \in [Convs -> SUBSET Nat]
    BY <1>2 DEF C!Expire, C!R!Forget, C!TypeOK
  <2> QED BY <2>1, <2>2 DEF C!TypeOK
<1>3. C!TypeOK' /\ manager' = manager /\ call' = call
  BY <1>1, <1>2
<1>4. CASE manager = "redis"
  <2>1. C!upcoming \in [Convs -> Nat]
    BY UpcomingIs
  <2>2. C!upcoming' \in [Convs -> Nat]
    BY <1>3 DEF C!upcoming, C!M!promisedNext, C!M!Has, C!TypeOK
  <2> QED BY <1>3, <1>4, <2>1, <2>2
<1>5. CASE manager # "redis"
  <2>1. manager = "memory" /\ activityInc' = activityInc
    BY <1>1, <1>5, RelayAssumption DEF C!Expire, C!Redis, C!TypeOK
  <2>2. Keeps
    BY <1>3, <2>1 DEF Keeps, C!upcoming, C!M!promisedNext, C!M!Has
  <2> QED BY <1>3, <2>1, <2>2
<1> QED BY <1>4, <1>5

\* The counter keeps its type under the steps of the relay.
LEMMA CounterType ==
  ASSUME C!TypeOK, Standing, Calling, CounterTurn \/ Restart
  PROVE  C!TypeOK' /\ (CounterTurn => manager' = manager)
<1>1. CASE UNCHANGED counter
  BY <1>1 DEF counter, C!TypeOK
<1>2. CASE Restart
  <2>1. C!Restart
    BY <1>2 DEF Restart
  <2>2. /\ call' \in [Requests -> C!Calls] /\ activityInc' = << >> /\ micro' = << >>
        /\ rewritten' = {} /\ manager' \in Managers /\ next' = next
        /\ issued' \in [Convs -> SUBSET Nat]
    BY <2>1 DEF C!Restart, C!R!NoCall, C!Calls, C!TypeOK
  <2>3. DOMAIN << >> = {} /\ << >> \in Seq(Requests)
    OBVIOUS
  <2>4. C!TypeOK'
    BY <2>2, <2>3 DEF C!TypeOK
  <2>5. CounterTurn => manager' = manager
    BY DEF CounterTurn, counter, C!Call, C!Work, C!Resend, C!Return, C!Expire, C!Redis, C!Memory
  <2> QED BY <2>4, <2>5
<1> QED BY <1>1, <1>2, WorkFacts, CallReturnFacts, RedisFacts DEF CounterTurn

\* Whatever happens to a counter that is not below Lag, it is not after.
LEMMA Floor ==
  ASSUME C!TypeOK, Standing, Calling, CounterTurn, NEW c \in Convs, C!upcoming[c] >= C!Lag
  PROVE  C!upcoming'[c] >= C!Lag
<1>1. CASE Keeps
  BY <1>1 DEF Keeps
<1>2. C!Lag \in {0, 1} /\ (manager = "redis" => C!Lag = 0)
  BY LagIs
<1>3. ASSUME NEW r \in Requests, C!Work(r)
      PROVE  C!upcoming'[c] >= C!Lag
  BY <1>1, <1>2, <1>3, WorkFacts DEF Reads, Counts, Sets, Gets, Fails, Puts
<1>4. CASE (\E r \in Requests : C!Resend(r)) \/ (\E d \in Convs : C!Expire(d))
  BY <1>1, <1>2, <1>4, RedisFacts
<1>5. UNCHANGED counter => Keeps
  BY SameUpcoming DEF counter, Keeps
<1> QED BY <1>1, <1>3, <1>4, <1>5, CallReturnFacts DEF CounterTurn

-----------------------------------------------------------------------------
(* Calls and the requests that wait for them *)

\* A request that calls nothing.
LEMMA IdleCalling ==
  ASSUME Calling, NEW r \in Requests, call'[r].st = "idle",
         \A q \in Requests \ {r} : req'[q] = req[q] /\ call'[q] = call[q]
  PROVE  Calling'
  BY DEF Calling, At

\* A request goes on without a call, or takes the result of one.
LEMMA MovesCalling ==
  ASSUME Calling, NEW r \in Requests, NEW pc, Moves(r, pc),
         \/ call[r].st = "idle" /\ call' = call
         \/ C!TypeOK /\ C!Return(r)
  PROVE  Calling'
<1>1. call'[r].st = "idle" /\ \A q \in Requests \ {r} : call'[q] = call[q]
  BY ReturnIs
<1> QED BY <1>1, IdleCalling DEF Moves

\* Every handler waits for its own call.
LEMMA TurnCalling ==
  ASSUME ReqOK, Standing, C!TypeOK, Calling, NEW r \in Requests, Turn(r)
  PROVE  Calling'
<1>1. CASE Stored(r)
  <2>1. C!Return(r) /\ \E code \in Codes : Answer(r, code)
    BY <1>1 DEF Stored, Codes
  <2> QED BY <2>1, AnswerFacts, MovesCalling
<1>2. CASE Numbered(r)
  BY <1>2, NumberedFacts, MovesCalling DEF Numbered
<1>3. CASE Marked(r)
  BY <1>3, MarkedFacts, MovesCalling DEF Marked
<1>4. ASSUME call[r].st = "idle", UNCHANGED counter,
             (\E pc \in PCs : Goto(r, pc)) \/ (\E code \in Codes : Answer(r, code))
      PROVE  Calling'
  <2>1. PICK pc : Moves(r, pc)
    BY <1>4, GotoFacts, AnswerFacts
  <2>2. call[r].st = "idle" /\ call' = call
    BY <1>4 DEF counter
  <2> QED BY <2>1, <2>2, MovesCalling
<1>5. CASE Upload(r) \/ TypingId(r)
  <2>1. call[r].st = "idle"
    BY <1>5 DEF Upload, TypingId, Calling, At
  <2>2. AfterNumber(r) \in PCs
    BY DEF AfterNumber, PCs
  <2> QED BY <1>5, <2>1, <2>2, <1>4 DEF Upload, TypingId, PCs, Codes
<1>6. CASE FindBot(r) \/ PostToBot(r) \/ BotAccepts(r) \/ PostFails(r) \/ Send(r) \/ Sent(r)
  <2>1. call[r].st = "idle"
    BY <1>6 DEF FindBot, PostToBot, BotAccepts, PostFails, Send, Sent, Calling, At
  <2>2. /\ UNCHANGED counter
        /\ \/ \E pc \in {"post", "wait", "send", "sending"} : Goto(r, pc)
           \/ \E code \in {200, 400, 500} : Answer(r, code)
    BY <1>6 DEF FindBot, PostToBot, BotAccepts, PostFails, Send, Sent
  <2> QED BY <2>1, <2>2, <1>4 DEF PCs, Codes
<1>7. CASE AskNumber(r) \/ AskMark(r)
  <2> DEFINE op == IF At(r, "number") THEN "incr" ELSE "get"
             new == [op |-> op, st |-> "called", conv |-> req[r].conv, res |-> 0]
  <2>1. C!Call(r, op, req[r].conv, 0) /\ req' = req
    BY <1>7 DEF AskNumber, AskMark, own, At
  <2>2. \/ At(r, "number") /\ ~req[r].typing /\ new.op = "incr"
        \/ At(r, "stamp") /\ new.op = "get"
    BY <1>7 DEF AskNumber, AskMark, At
  <2>3. new.st = "called" /\ new.conv = req[r].conv
    OBVIOUS
  <2>4. call'[r] = new /\ \A q \in Requests \ {r} : call'[q] = call[q]
    BY <2>1, CallIs
  <2> HIDE DEF new
  <2> QED BY <2>1, <2>2, <2>3, <2>4 DEF Calling, At
<1>8. CASE Retry(r)
  BY <1>8 DEF Retry, Calling, At, own, counter
<1> QED BY <1>1, <1>2, <1>3, <1>5, <1>6, <1>7, <1>8 DEF Turn

\* Every step keeps the calls those of their requests.
LEMMA CallingStep ==
  ASSUME ReqOK, Standing, C!TypeOK, Calling, Steps
  PROVE  Calling'
<1>1. ASSUME NEW r \in Requests, Turn(r)
      PROVE  Calling'
  BY <1>1, TurnCalling
<1>2. ASSUME NEW r \in Requests, At(r, "new"), UNCHANGED counter,
             \A q \in Requests \ {r} : req'[q] = req[q]
      PROVE  Calling'
  <2>1. call[r].st = "idle"
    BY <1>2 DEF Calling, At
  <2> QED BY <1>2, <2>1, IdleCalling DEF counter
<1>3. ASSUME NEW r \in Requests, NEW c \in Convs, Resync(r, c)
      PROVE  Calling'
  <2>1. CASE UNCHANGED counter /\ Answer(r, 200)
    BY <1>3, <2>1, <1>2, AnswerFacts DEF Resync, Codes, Moves
  <2>2. ASSUME NEW w \in Watermarks, C!Call(r, "set", c, w), Goto(r, "store")
        PROVE  Calling'
    <3>1. Moves(r, "store")
      BY <2>2, GotoFacts DEF PCs
    <3>2. /\ call'[r] = [op |-> "set", st |-> "called", conv |-> c, res |-> w]
          /\ \A q \in Requests \ {r} : call'[q] = call[q]
      BY <2>2, CallIs
    <3>3. w \in Nat
      BY RelayAssumption
    <3> QED BY <3>1, <3>2, <3>3 DEF Calling, Moves, At
  <2> QED BY <1>3, <2>1, <2>2 DEF Resync
<1>4. ASSUME NEW r \in Requests, Arrive(r)
      PROVE  Calling'
  <2>1. CASE Refuse(r)
    <3>1. \E code \in Codes : Answer(r, code)
      BY <2>1 DEF Refuse, Codes
    <3> QED BY <2>1, <3>1, <1>2, AnswerFacts DEF Refuse, Moves
  <2>2. ASSUME NEW c \in Convs, NEW typing \in BOOLEAN, NEW form \in Forms,
               UserPost(r, c, typing, form)
        PROVE  Calling'
    BY <2>2, <1>2, PostFacts DEF UserPost, Starts
  <2>3. ASSUME NEW c \in Convs, NEW typing \in BOOLEAN, BotReply(r, c, typing)
        PROVE  Calling'
    BY <2>3, <1>2, ReplyFacts DEF BotReply, Starts
  <2> QED BY <1>3, <1>4, <2>1, <2>2, <2>3 DEF Arrive
<1>5. ASSUME NEW r \in Requests, Counter(r)
      PROVE  Calling'
  <2>1. req' = req /\ C!Work(r)
    BY <1>5 DEF Counter, own
  <2>2. /\ Works(r)
        /\ \/ call'[r].st = "failed"
           \/ call[r].op = "incr" /\ call'[r].st \in {"awaiting", "done"} /\ call'[r].res \in Nat
           \/ call[r].op \in {"set", "get"} /\ call'[r].st = "done"
    BY <2>1, WorkFacts DEF Reads, Counts, Sets, Gets, Fails
  <2> QED BY <2>1, <2>2 DEF Calling, Works, At
<1>6. CASE Restart
  BY <1>6 DEF Restart, C!Restart, C!R!NoCall, Calling
<1>7. CASE Connections \/ (\E r \in Requests : BotTakes(r))
  BY <1>7 DEF Connections, BotTakes, own, counter, Calling, At
<1>8. CASE (\E c \in Convs : KeyExpires(c)) \/ (\E r \in Requests : CounterResends(r))
  <2>1. req' = req /\ call' = call
    BY <1>8, RedisFacts DEF KeyExpires, CounterResends, own
  <2> QED BY <2>1 DEF Calling, At
<1> QED BY <1>1, <1>4, <1>5, <1>6, <1>7, <1>8 DEF Steps

-----------------------------------------------------------------------------
(* Files *)

\* Nothing that FiledOf looks at changes, or the request goes where its files are
\* all there.
LEMMA SameFiled ==
  ASSUME NEW r \in Posts, FiledOf(r), req'[r] = req[r],
         stored'[r] = stored[r], location'[r] = location[r],
         r \in flight' \cup inbox' => r \in flight \cup inbox
  PROVE  FiledOf(r)'
  BY DEF FiledOf, At, OnlyOne

\* A post goes on with its files in the bucket.
LEMMA MovedFiled ==
  ASSUME NEW r \in Posts, FiledOf(r), NEW pc \in PCs \ {"new", "upload"},
         req'[r].pc = pc, req'[r].form = req[r].form,
         stored'[r] = stored[r], location'[r] = location[r],
         stored[r] = Len(req[r].form.files) \/ pc \in {"answered", "aborted"},
         r \in flight' \cup inbox' =>
           /\ pc \notin {"number", "find", "post"}
           /\ stored[r] = Len(req[r].form.files)
  PROVE  FiledOf(r)'
  BY DEF FiledOf, At, OnlyOne

\* The files and attachments of a form.
LEMMA FormFacts ==
  ASSUME ReqOK, NEW r \in Requests
  PROVE  req[r].form.files \in Seq(Names) /\ req[r].form.attach \in Seq(Names)
<1>1. req[r].form \in Forms \/ req[r].form = NoForm
  BY DEF ReqOK, Records
<1>2. NoForm.files \in Seq(Names) /\ NoForm.attach \in Seq(Names)
  BY DEF NoForm
<1>3. ASSUME req[r].form \in Forms
      PROVE  req[r].form \in [files : Seq(Names), attach : Seq(Names)]
  BY <1>3, RelayAssumption
<1> QED BY <1>1, <1>2, <1>3

\* putObject files one more of a post's files, and its attachment finds it.
LEMMA UploadFiled ==
  ASSUME ReqOK, Standing, Filed, NEW r \in Requests, Upload(r)
  PROVE  Filed'
<1> DEFINE form == req[r].form  k == stored[r] + 1
           new == [i \in DOMAIN location[r] |->
                     IF IsFirst(form.attach, form.files[k], i) THEN k ELSE location[r][i]]
<1>1. At(r, "upload") /\ r \in Posts /\ UNCHANGED <<flight, inbox>>
  BY DEF Upload, Standing, At
<1>2. FiledOf(r) /\ stored[r] < Len(form.files) /\ stored[r] \in Nat
  BY <1>1 DEF Filed, FiledOf
<1>3. r \notin flight \cup inbox
  BY <1>1, <1>2 DEF FiledOf, At
<1>4. ASSUME NEW q \in Posts \ {r}, req'[q] = req[q], stored'[q] = stored[q],
             location'[q] = location[q]
      PROVE  FiledOf(q)'
  BY <1>1, <1>4, SameFiled DEF Filed
<1>7. form.attach \in Seq(Names)
  BY FormFacts
<1>5. CASE Answer(r, 500) /\ UNCHANGED Bucket
  <2>1. Moves(r, "answered")
    BY <1>5, AnswerFacts DEF Codes
  <2>2. FiledOf(r)'
    BY <1>1, <1>2, <1>3, <1>5, <2>1, MovedFiled DEF Moves, Bucket, PCs
  <2>3. \A q \in Posts \ {r} : FiledOf(q)'
    BY <1>4, <1>5, <2>1 DEF Moves, Bucket, Requests
  <2> QED BY <1>1, <1>5, <2>2, <2>3 DEF Filed, Bucket
<1>6. ASSUME NEW pc \in {"upload", "number"}, Goto(r, pc),
             pc = IF k = Len(form.files) THEN "number" ELSE "upload",
             stored' = [stored EXCEPT ![r] = k], location' = [location EXCEPT ![r] = new]
      PROVE  Filed'
  <2>1. Moves(r, pc)
    BY <1>6, GotoFacts DEF PCs
  <2>2. /\ DOMAIN stored' = Posts /\ DOMAIN location' = Posts
        /\ stored'[r] = k /\ location'[r] = new
        /\ \A q \in Posts \ {r} : stored'[q] = stored[q] /\ location'[q] = location[q]
    BY <1>1, <1>6 DEF Filed
  <2>3. /\ location[r] \in [DOMAIN form.attach -> 0..stored[r]]
        /\ Len(form.files) \in Nat /\ k \in 1..Len(form.files)
    BY <1>2 DEF FiledOf
  <2>4. new \in [DOMAIN form.attach -> 0..k]
    BY <1>2, <2>3
  <2>5. ASSUME NEW i \in DOMAIN form.attach, NEW j \in 1..k,
               form.attach[i] = form.files[j],
               OnlyOne(form.attach, i), OnlyOne(form.files, j)
        PROVE  new[i] = j
    <3>1. new[i] = IF IsFirst(form.attach, form.files[k], i) THEN k ELSE location[r][i]
      BY <2>3
    <3>2. CASE j = k
      <4>1. IsFirst(form.attach, form.files[k], i)
        BY <1>7, <2>5, <3>2 DEF IsFirst, OnlyOne
      <4> QED BY <3>1, <3>2, <4>1
    <3>3. CASE j # k
      <4>1. ~IsFirst(form.attach, form.files[k], i)
        BY <2>3, <2>5, <3>3 DEF IsFirst, OnlyOne
      <4>2. location[r][i] = j
        BY <1>2, <2>5, <3>3 DEF FiledOf
      <4> QED BY <3>1, <4>1, <4>2
    <3> QED BY <3>2, <3>3
  <2> HIDE DEF new
  <2>6. FiledOf(r)'
    BY <1>1, <1>3, <1>6, <2>1, <2>2, <2>3, <2>4, <2>5 DEF FiledOf, Moves, At, OnlyOne
  <2>7. \A q \in Posts \ {r} : FiledOf(q)'
    BY <1>4, <2>1, <2>2 DEF Moves, Requests
  <2> QED BY <1>1, <2>2, <2>6, <2>7 DEF Filed
<1> QED BY <1>5, <1>6 DEF Upload


\* What one request does is no matter to the files of another.
LEMMA OthersFiled ==
  ASSUME Filed, UNCHANGED Bucket, NEW r \in Requests,
         \A q \in Requests \ {r} : req'[q] = req[q],
         flight' \subseteq Posts, inbox' \subseteq Posts,
         flight' \cup inbox' \subseteq flight \cup inbox \cup {r},
         r \in Posts => FiledOf(r)'
  PROVE  Filed'
<1>1. ASSUME NEW q \in Posts, q # r
      PROVE  FiledOf(q)'
  <2>1. req'[q] = req[q] /\ stored'[q] = stored[q] /\ location'[q] = location[q]
    BY <1>1 DEF Requests, Bucket
  <2> QED BY <1>1, <2>1, SameFiled DEF Filed
<1> QED BY <1>1 DEF Filed, Bucket

\* A request goes on with its files in the bucket.
LEMMA MovesFiled ==
  ASSUME Filed, NEW r \in Requests, NEW pc \in PCs \ {"new", "upload"}, Moves(r, pc),
         UNCHANGED <<Bucket, inbox>>, flight' \in {flight, flight \cup {r}},
         r \in Posts => stored[r] = Len(req[r].form.files) \/ pc = "answered",
         r \in Posts /\ r \in flight' \cup inbox => pc \notin {"number", "find", "post"},
         flight' # flight => r \in Posts /\ pc # "answered"
  PROVE  Filed'
<1>1. ASSUME r \in Posts
      PROVE  FiledOf(r)'
  <2>1. FiledOf(r)
    BY <1>1 DEF Filed
  <2>2. r \in flight \cup inbox => stored[r] = Len(req[r].form.files)
    BY <2>1 DEF FiledOf
  <2>3. r \in flight' \cup inbox' => /\ pc \notin {"number", "find", "post"}
                                    /\ stored[r] = Len(req[r].form.files)
    BY <1>1, <2>2
  <2> QED BY <1>1, <2>1, <2>3, MovedFiled DEF Moves, Bucket
<1> QED BY <1>1, OthersFiled DEF Filed, Moves

\* A post past its uploads.
LEMMA BusyFacts ==
  ASSUME Filed, NEW r \in Posts, req[r].pc \in {"number", "find", "post", "wait", "send", "sending"}
  PROVE  /\ stored[r] = Len(req[r].form.files)
         /\ req[r].pc \in {"number", "find", "post"} => r \notin flight \cup inbox
  BY DEF Filed, FiledOf

\* Every handler keeps the bucket consistent.
LEMMA TurnFiled ==
  ASSUME ReqOK, Standing, Calling, C!TypeOK, Filed, NEW r \in Requests, Turn(r)
  PROVE  Filed'
<1> USE DEF At
<1>1. ASSUME UNCHANGED <<Bucket, flight, inbox>>, NEW code \in Codes, Answer(r, code)
      PROVE  Filed'
  BY <1>1, AnswerFacts, MovesFiled DEF PCs
<1>2. CASE Upload(r)
  BY <1>2, UploadFiled
<1>3. CASE Stored(r) \/ PostFails(r) \/ Sent(r)
  BY <1>3, <1>1 DEF Stored, PostFails, Sent, Outside, Codes
<1>4. ASSUME req[r].pc \in {"number", "find", "post", "wait", "stamp", "send"},
             NEW pc \in {"find", "post", "stamp", "send", "sending"}, Moves(r, pc),
             pc \in {"find", "post"} => req[r].pc \in {"number", "find"},
             req[r].pc = "stamp" => r \notin Posts,
             UNCHANGED <<Bucket, flight, inbox>>
      PROVE  Filed'
  <2>1. r \in Posts => /\ stored[r] = Len(req[r].form.files)
                       /\ pc \in {"find", "post"} => r \notin flight \cup inbox
    BY <1>4, BusyFacts
  <2> QED BY <1>4, <2>1, MovesFiled DEF PCs
<1>5. CASE TypingId(r)
  <2>1. At(r, "number") /\ AfterNumber(r) \in {"find", "send"} /\ Goto(r, AfterNumber(r))
    BY <1>5, AfterNumberOf DEF TypingId, Standing
  <2> QED BY <1>5, <2>1, <1>4, GotoFacts DEF TypingId, Outside, PCs
<1>6. CASE Numbered(r)
  <2>1. At(r, "number") /\ AfterNumber(r) \in {"find", "stamp"}
        /\ (Moves(r, AfterNumber(r)) \/ Moves(r, "answered"))
    BY <1>6, NumberedFacts, AfterNumberOf DEF Standing
  <2> QED BY <1>6, <2>1, <1>4, MovesFiled DEF Numbered, Outside, PCs
<1>7. CASE FindBot(r) \/ BotAccepts(r) \/ Send(r)
  <2>1. /\ UNCHANGED <<Bucket, flight, inbox>>
        /\ \/ At(r, "find") /\ Goto(r, "post")
           \/ At(r, "wait") /\ Goto(r, "send")
           \/ At(r, "send") /\ Goto(r, "sending")
           \/ \E code \in Codes : Answer(r, code)
    BY <1>7 DEF FindBot, BotAccepts, Send, Outside, Codes
  <2> QED BY <2>1, <1>1, <1>4, GotoFacts DEF PCs
<1>8. CASE PostToBot(r)
  <2>1. r \in Posts /\ Moves(r, "wait")
    BY <1>8, GotoFacts DEF PostToBot, Standing, PCs
  <2>2. stored[r] = Len(req[r].form.files)
    BY <1>8, <2>1, BusyFacts DEF PostToBot
  <2> QED BY <1>8, <2>1, <2>2, MovesFiled DEF PostToBot, PCs
<1>9. CASE Marked(r)
  <2>1. r \notin Posts /\ At(r, "stamp") /\ (Moves(r, "send") \/ Moves(r, "answered"))
    BY <1>9, MarkedFacts, RelayAssumption DEF Standing
  <2> QED BY <1>9, <2>1, MovesFiled DEF Marked, Outside, PCs
<1>10. CASE AskNumber(r) \/ AskMark(r) \/ Retry(r)
  BY <1>10 DEF AskNumber, AskMark, Retry, own, Filed, FiledOf
<1> QED BY <1>2, <1>3, <1>5, <1>6, <1>7, <1>8, <1>9, <1>10 DEF Turn

\* Every step keeps the bucket consistent.
LEMMA FiledStep ==
  ASSUME ReqOK, Standing, Calling, C!TypeOK, Filed, Steps
  PROVE  Filed'
<1> USE DEF At
<1>1. ASSUME NEW r \in Requests, Turn(r)
      PROVE  Filed'
  BY <1>1, TurnFiled
<1>2. ASSUME NEW r \in Requests, Refuse(r)
      PROVE  Filed'
  <2>1. Moves(r, "answered")
    BY <1>2, AnswerFacts DEF Refuse, Codes
  <2> QED BY <1>2, <2>1, MovesFiled DEF Refuse, Outside, PCs
<1>3. ASSUME NEW r \in Requests, NEW c \in Convs, NEW typing \in BOOLEAN, NEW form \in Forms,
             UserPost(r, c, typing, form)
      PROVE  Filed'
  <2> DEFINE empty == [i \in DOMAIN form.attach |-> 0]
  <2>1. r \in Posts /\ FiledOf(r) /\ req[r].pc = "new"
    BY <1>3 DEF UserPost, Filed
  <2>2. stored[r] = 0 /\ r \notin flight \cup inbox
    BY <2>1 DEF FiledOf
  <2>3. /\ UNCHANGED <<stored, flight, inbox>> /\ DOMAIN location' = Posts
        /\ location'[r] = empty
        /\ \A q \in Posts \ {r} : location'[q] = location[q]
    BY <1>3, <2>1 DEF UserPost, Filed
  <2>4. empty \in [DOMAIN form.attach -> 0..0]
    OBVIOUS
  <2> HIDE DEF empty
  <2>5. req'[r].form = form /\ form.files \in Seq(Names)
        /\ req'[r].pc = (IF form.files # <<>> THEN "upload" ELSE "number")
    BY <1>3, PostFacts, RelayAssumption DEF Starts
  <2>6. Len(form.files) \in Nat /\ (form.files # <<>> => Len(form.files) > 0)
        /\ (form.files = <<>> => Len(form.files) = 0)
    BY <2>5
  <2>7. FiledOf(r)'
    BY <2>2, <2>3, <2>4, <2>5, <2>6 DEF FiledOf, OnlyOne
  <2>8. ASSUME NEW q \in Posts, q # r
        PROVE  FiledOf(q)'
    <3>1. req'[q] = req[q]
      BY <1>3, <2>8, PostFacts DEF Starts, Requests
    <3> QED BY <2>3, <2>8, <3>1, SameFiled DEF Filed
  <2> QED BY <2>3, <2>7, <2>8 DEF Filed
<1>4. ASSUME NEW r \in Requests, NEW c \in Convs, NEW typing \in BOOLEAN, BotReply(r, c, typing)
      PROVE  Filed'
  <2>1. r \notin Posts /\ \A q \in Requests \ {r} : req'[q] = req[q]
    BY <1>4, ReplyFacts, RelayAssumption DEF Starts
  <2> QED BY <1>4, <2>1, OthersFiled DEF BotReply, Outside, Filed
<1>5. ASSUME NEW r \in Requests, NEW c \in Convs, Resync(r, c)
      PROVE  Filed'
  <2>1. r \notin Posts /\ (Moves(r, "store") \/ Moves(r, "answered"))
    BY <1>5, GotoFacts, AnswerFacts, RelayAssumption DEF Resync, PCs, Codes
  <2> QED BY <1>5, <2>1, OthersFiled DEF Resync, Outside, Filed, Moves
<1>6. CASE Restart
  <2>1. ASSUME NEW q \in Posts
        PROVE  FiledOf(q)'
    <3>1. FiledOf(q) /\ UNCHANGED <<Bucket, flight, inbox>>
      BY <1>6 DEF Filed, Restart, Outside
    <3>2. CASE req[q].pc \in {"new", "answered"}
      BY <1>6, <3>1, <3>2, RestartFacts, SameFiled DEF Bucket, Requests
    <3>3. CASE req[q].pc \notin {"new", "answered"}
      <4>1. req'[q].pc = "aborted" /\ req'[q].form = req[q].form
        BY <1>6, <3>3, RestartFacts DEF Requests
      <4>2. q \in flight \cup inbox => stored[q] = Len(req[q].form.files)
        BY <3>1 DEF FiledOf
      <4> QED BY <3>1, <4>1, <4>2, MovedFiled DEF Bucket, PCs
    <3> QED BY <3>2, <3>3
  <2> QED BY <1>6, <2>1 DEF Filed, Restart, Outside, Bucket
<1>7. CASE Connections \/ (\E c \in Convs : KeyExpires(c))
           \/ \E r \in Requests : Counter(r) \/ CounterResends(r)
  BY <1>7 DEF Connections, KeyExpires, Counter, CounterResends, own, Filed, FiledOf
<1>8. ASSUME NEW r \in Requests, BotTakes(r)
      PROVE  Filed'
  <2>1. UNCHANGED <<req, stored, location>> /\ flight' \cup inbox' = flight \cup inbox
        /\ flight' \subseteq Posts /\ inbox' \subseteq Posts
    BY <1>8 DEF BotTakes, Bucket, Filed
  <2> QED BY <2>1 DEF Filed, FiledOf
<1> QED BY <1>1, <1>2, <1>3, <1>4, <1>5, <1>6, <1>7, <1>8 DEF Steps, Arrive

-----------------------------------------------------------------------------
(* Numbers *)

Early == {"new", "upload", "number"}

\* The step gives q no number.
NoNumberFor(q) ==
  /\ req'[q].id = req[q].id
  /\ req'[q].conv = req[q].conv \/ At(q, "new")
  /\ call'[q] = call[q] \/ call'[q].st # "done" \/ call'[q].op # "incr"
  /\ req'[q].pc \in Early => req[q].pc \in Early

\* A request that goes on gets no number.
LEMMA MovesNoNumber ==
  ASSUME C!TypeOK, NEW r \in Requests, NEW pc, Moves(r, pc), req'[r].id = req[r].id,
         call' = call \/ C!Return(r),
         pc \in Early => req[r].pc \in Early
  PROVE  \A q \in Requests : NoNumberFor(q)
<1>1. \A q \in Requests : call'[q] = call[q] \/ call'[q].st = "idle"
  BY ReturnIs
<1> QED BY <1>1 DEF Moves, NoNumberFor

\* The only steps that number a request.
LEMMA NumberCases ==
  ASSUME ReqOK, Standing, Calling, C!TypeOK, Steps
  PROVE  \/ \A q \in Requests : NoNumberFor(q)
         \/ \E r \in Requests : Numbered(r) /\ Moves(r, AfterNumber(r))
         \/ \E r \in Requests : Counter(r) /\ Counts(r)
<1> DEFINE None == \A q \in Requests : NoNumberFor(q)
<1> USE DEF At
<1>1. ASSUME NEW r \in Requests, NEW code \in Codes, Answer(r, code),
             UNCHANGED counter \/ C!Return(r)
      PROVE  None
  BY <1>1, AnswerFacts, MovesNoNumber DEF Holds, Early, counter
<1>2. ASSUME NEW r \in Requests, NEW pc \in PCs, Goto(r, pc), UNCHANGED counter,
             pc \in Early => req[r].pc \in Early
      PROVE  None
  BY <1>2, GotoFacts, MovesNoNumber DEF Holds, counter
<1>3. ASSUME NEW r \in Requests,
           \/ Upload(r) \/ TypingId(r) \/ FindBot(r) \/ PostToBot(r) \/ BotAccepts(r)
           \/ PostFails(r) \/ Send(r) \/ Sent(r) \/ Stored(r) \/ Refuse(r)
      PROVE  None
  <2>1. \/ \E pc \in {"upload", "number"} : At(r, "upload") /\ Goto(r, pc) /\ UNCHANGED counter
        \/ \E pc \in {"find", "stamp", "post", "wait", "send", "sending"} :
              Goto(r, pc) /\ UNCHANGED counter
        \/ \E code \in Codes : Answer(r, code) /\ (UNCHANGED counter \/ C!Return(r))
    BY <1>3 DEF Upload, TypingId, FindBot, PostToBot, BotAccepts, PostFails, Send, Sent, Stored,
                Refuse, AfterNumber, Codes
  <2> QED BY <2>1, <1>1, <1>2 DEF PCs, Early
<1>4. ASSUME req' = req, \A q \in Requests : \/ call'[q] = call[q] \/ call'[q].st # "done"
                                          \/ call'[q].op # "incr"
      PROVE  None
  BY <1>4 DEF NoNumberFor
<1>5. ASSUME NEW r \in Requests, AskNumber(r) \/ AskMark(r) \/ Retry(r)
      PROVE  None
  <2>1. req' = req /\ (call' = call \/ \E op, c, n : C!Call(r, op, c, n))
    BY <1>5 DEF AskNumber, AskMark, Retry, own, counter
  <2>2. ASSUME NEW op, NEW c, NEW n, C!Call(r, op, c, n), NEW q \in Requests
        PROVE  call'[q] = call[q] \/ call'[q].st = "called"
    BY <2>2, CalledIs
  <2> QED BY <2>1, <2>2, <1>4
<1>6. ASSUME NEW r \in Requests, Numbered(r), ~Moves(r, AfterNumber(r))
      PROVE  None
  BY <1>6, NumberedFacts, MovesNoNumber DEF Numbered, Holds, Early
<1>7. ASSUME NEW r \in Requests, Marked(r)
      PROVE  None
  BY <1>7, MarkedFacts, MovesNoNumber DEF Marked, Holds, Early
<1>8. ASSUME NEW r \in Requests, NEW c \in Convs, NEW typing \in BOOLEAN, NEW form \in Forms,
             UserPost(r, c, typing, form)
      PROVE  None
  BY <1>8, PostFacts DEF UserPost, Starts, Holds, NoNumberFor, counter, Early
<1>9. ASSUME NEW r \in Requests, NEW c \in Convs, NEW typing \in BOOLEAN, BotReply(r, c, typing)
      PROVE  None
  BY <1>9, ReplyFacts DEF BotReply, Starts, Holds, NoNumberFor, counter, Early
<1>10. ASSUME NEW r \in Requests, NEW c \in Convs, Resync(r, c)
       PROVE  None
  <2>1. CASE UNCHANGED counter /\ Answer(r, 200)
    BY <2>1, <1>1 DEF Codes
  <2>2. ASSUME NEW w, C!Call(r, "set", c, w), Goto(r, "store")
        PROVE  None
    <3>1. Moves(r, "store") /\ req'[r].id = req[r].id
      BY <2>2, GotoFacts DEF PCs, Holds
    <3>2. \A q \in Requests : call'[q] = call[q] \/ call'[q].st = "called"
      BY <2>2, CalledIs
    <3> QED BY <3>1, <3>2 DEF Moves, NoNumberFor, Early
  <2> QED BY <1>10, <2>1, <2>2 DEF Resync
<1>11. ASSUME NEW r \in Requests, Counter(r), ~Counts(r)
       PROVE  None
  <2>1. req' = req /\ Works(r) /\ (Reads(r) \/ Sets(r) \/ Gets(r) \/ Fails(r))
    BY <1>11, WorkFacts DEF Counter, own
  <2>2. call'[r].st # "done" \/ call'[r].op # "incr"
    BY <2>1 DEF Works, Reads, Sets, Gets, Fails
  <2> QED BY <2>1, <2>2, <1>4 DEF Works
<1>12. CASE Connections \/ (\E c \in Convs : KeyExpires(c))
            \/ \E r \in Requests : CounterResends(r) \/ BotTakes(r)
  <2>1. req' = req /\ call' = call
    BY <1>12, RedisFacts DEF Connections, KeyExpires, CounterResends, BotTakes, own, counter
  <2> QED BY <2>1, <1>4
<1>13. CASE Restart
  <2>1. \A q \in Requests : call'[q].st = "idle"
    BY <1>13 DEF Restart, C!Restart, C!R!NoCall
  <2>2. \A q \in Requests : /\ req'[q].id = req[q].id /\ req'[q].conv = req[q].conv
                            /\ req'[q].pc \in Early => req[q].pc \in Early
    BY <1>13, RestartFacts DEF Early
  <2> QED BY <2>1, <2>2 DEF NoNumberFor
<1> HIDE DEF None
<1>14. ASSUME NEW r \in Requests, Counter(r)
       PROVE  None \/ Counts(r)
  BY <1>14, <1>11
<1>15. ASSUME NEW r \in Requests, Arrive(r)
       PROVE  None
  BY <1>15, <1>3, <1>8, <1>9, <1>10 DEF Arrive
<1>16. ASSUME NEW r \in Requests, Turn(r)
       PROVE  None \/ (Numbered(r) /\ Moves(r, AfterNumber(r)))
  BY <1>16, <1>3, <1>5, <1>6, <1>7 DEF Turn
<1> QED BY <1>12, <1>13, <1>14, <1>15, <1>16 DEF Steps, None


\* What the history variables tell of a step.
Noted ==
  /\ rewound \subseteq rewound' /\ clashed \subseteq clashed'
  /\ \A c \in Convs : manager' # manager \/ C!upcoming'[c] < C!upcoming[c] => c \in rewound'
  /\ \A r \in Requests : C!Clash(r) /\ call[r].conv \in Convs => call[r].conv \in clashed'

\* Every step keeps the numbers below the next one, and different.
LEMMA NumbersStep ==
  ASSUME ReqOK, Standing, Calling, C!TypeOK, C!TypeOK', Numbers, Steps, Noted
  PROVE  Numbers'
<1>1. \A c \in Convs : C!upcoming[c] \in Nat /\ C!upcoming'[c] \in Nat
  <2>1. C!upcoming' \in [Convs -> Nat]
    BY DEF C!TypeOK, C!upcoming, C!M!promisedNext, C!M!Has
  <2> QED BY <2>1, UpcomingIs
<1>0. /\ rewound \subseteq rewound' /\ clashed \subseteq clashed'
      /\ \A c \in Convs : C!upcoming'[c] < C!upcoming[c] => c \in rewound'
  BY DEF Noted
<1>2. ASSUME NEW q \in Requests, NoNumberFor(q)
      PROVE  /\ Has(q)' => Has(q) /\ Number(q)' = Number(q) /\ req'[q].conv = req[q].conv
             /\ HasNumber(q)' => req'[q].pc \notin Early
  <2>1. At(q, "new") => ~HasNumber(q) /\ call[q].st = "idle"
    BY DEF Numbers, Calling, At
  <2> QED BY <1>2, <2>1 DEF NoNumberFor, Has, HasNumber, Number, Numbers, Early
<1>3. ASSUME \A q \in Requests :
               /\ Has(q)' => Has(q) /\ Number(q)' = Number(q) /\ req'[q].conv = req[q].conv
               /\ HasNumber(q)' => req'[q].pc \notin Early
      PROVE  Numbers'
  <2>1. \A q \in Requests : Has(q)' =>
          /\ req'[q].conv \in Convs /\ Number(q)' \in Nat
          /\ req'[q].conv \notin rewound' => Number(q)' < C!upcoming'[req'[q].conv]
    BY <1>0, <1>1, <1>3 DEF Numbers
  <2>2. \A r, q \in Requests :
          r # q /\ Has(r)' /\ Has(q)' /\ req'[r].conv = req'[q].conv /\ Number(r)' = Number(q)'
          => req'[r].conv \in rewound' \cup clashed'
    BY <1>0, <1>3 DEF Numbers
  <2> QED BY <1>3, <2>1, <2>2 DEF Numbers, Early
<1>4. CASE \A q \in Requests : NoNumberFor(q)
  BY <1>2, <1>3, <1>4
\* the number comes from the call to the request
<1>5. ASSUME NEW r \in Requests, Numbered(r), Moves(r, AfterNumber(r))
      PROVE  Numbers'
  <2>1. /\ At(r, "number") /\ call[r].st = "done" /\ call[r].op = "incr"
        /\ req'[r].id = call[r].res
    BY <1>5, NumberedFacts DEF Moves, Holds, AfterNumber
  <2>2. Has(r) /\ ~HasNumber(r)
    BY <2>1 DEF Has, Numbers, At
  <2>3. Number(r) = call[r].res /\ Number(r) \in Nat /\ req'[r].conv = req[r].conv
    BY <1>5, <2>2 DEF Number, Numbers, Moves
  <2>4. HasNumber(r)' /\ Number(r)' = Number(r) /\ req'[r].pc \notin Early
    BY <1>5, <2>1, <2>3 DEF HasNumber, Number, NoNumber, Moves, AfterNumber, Early
  <2>5. \A q \in Requests \ {r} : req'[q] = req[q] /\ call'[q] = call[q]
    BY <1>5, ReturnIs DEF Moves, Numbered
  <2>6. ASSUME NEW q \in Requests, q # r
        PROVE  NoNumberFor(q)
    BY <2>5, <2>6 DEF NoNumberFor
  <2> QED BY <1>2, <1>3, <2>2, <2>3, <2>4, <2>6
\* a new number is the next one, and so above the others of its conversation, or the
\* counter moves back to it, or the call clashed
<1>6. ASSUME NEW r \in Requests, Counter(r), Counts(r)
      PROVE  Numbers'
  <2> DEFINE c == req[r].conv  new == call'[r].res
  <2>0. req' = req /\ Works(r)
    BY <1>6, WorkFacts DEF Counter, own
  <2>1. At(r, "number") /\ call[r].st # "done" /\ call[r].conv = c /\ c \in Convs
    <3>1. At(r, "number") /\ call[r].conv = c
      BY <1>6, <2>0 DEF Counts, Works, Calling
    <3>2. call[r].st # "done"
      BY <1>6, WorkingIncr
    <3> QED BY <3>1, <3>2 DEF Standing, At
  <2>2. ~HasNumber(r) /\ ~Has(r)
    BY <2>1 DEF Numbers, Has, At
  <2>3. /\ call'[r].st = "done" /\ call'[r].op = "incr" /\ new \in Nat
        /\ \A q \in Requests \ {r} : call'[q] = call[q]
        /\ \A d \in Convs : C!upcoming'[d] = IF d = c THEN new + 1 ELSE C!upcoming[d]
        /\ new = C!upcoming[c] \/ c \in clashed'
    BY <1>6, <2>0, <2>1 DEF Counts, Works, Puts, Noted
  <2>4. ~HasNumber(r)' /\ Has(r)' /\ Number(r)' = new
    BY <2>0, <2>2, <2>3 DEF HasNumber, Has, Number
  <2> HIDE DEF new
  <2>5. ASSUME NEW q \in Requests, q # r
        PROVE  /\ Has(q)' <=> Has(q)
               /\ Number(q)' = Number(q) /\ req'[q] = req[q]
               /\ HasNumber(q)' => req'[q].pc \notin Early
    BY <2>0, <2>3, <2>5 DEF HasNumber, Has, Number, Numbers, Early
  <2>6. \A q \in Requests : HasNumber(q)' => req'[q].pc \notin Early
    BY <2>4, <2>5
  <2>7. ASSUME NEW q \in Requests, Has(q)'
        PROVE  /\ req'[q].conv \in Convs /\ Number(q)' \in Nat
               /\ req'[q].conv \notin rewound' => Number(q)' < C!upcoming'[req'[q].conv]
    <3>1. CASE q = r
      BY <1>1, <2>0, <2>1, <2>3, <2>4, <3>1
    <3>2. CASE q # r
      BY <1>0, <1>1, <2>5, <2>7, <3>2 DEF Numbers
    <3> QED BY <3>1, <3>2
  <2>8. ASSUME NEW q \in Requests, q # r, Has(q)', req'[q].conv = c, Number(q)' = new
        PROVE  c \in rewound' \cup clashed'
    <3>1. Has(q) /\ Number(q) = new /\ req[q].conv = c
      BY <2>5, <2>8
    <3>2. CASE new = C!upcoming[c]
      <4>1. ~(C!upcoming[c] < C!upcoming[c])
        BY <1>1, <2>1
      <4> QED BY <1>0, <3>1, <3>2, <4>1 DEF Numbers
    <3> QED BY <2>3, <3>2
  <2>9. ASSUME NEW p \in Requests, NEW q \in Requests, p # q, Has(p)', Has(q)',
               req'[p].conv = req'[q].conv, Number(p)' = Number(q)'
        PROVE  req'[p].conv \in rewound' \cup clashed'
    <3>1. CASE p # r /\ q # r
      BY <1>0, <2>5, <2>9, <3>1 DEF Numbers
    <3>2. CASE p = r \/ q = r
      BY <2>0, <2>4, <2>8, <2>9, <3>2
    <3> QED BY <3>1, <3>2
  <2> QED BY <2>6, <2>7, <2>9 DEF Numbers, Early
<1> QED BY <1>4, <1>5, <1>6, NumberCases

-----------------------------------------------------------------------------
(* Watermarks *)

\* A request that has no watermark to answer for.
LEMMA NoMarks ==
  ASSUME NEW r \in Requests, req'[r].pc # "stamp",
         req'[r].pc # "number" \/ call'[r].st # "done",
         \/ r \notin Replies \/ req'[r].typing
         \/ req'[r].pc \notin {"send", "sending", "answered"}
         \/ req'[r].pc = "answered" /\ req'[r].code # 200
  PROVE  MarksOf(r)'
  BY DEF MarksOf, At, IsMarked

\* Nothing changes for r, but what others do to the counter.
LEMMA SameMarks ==
  ASSUME C!TypeOK, Standing, Calling, CounterTurn,
         NEW r \in Requests, MarksOf(r), req'[r] = req[r], call'[r] = call[r],
         rewound \subseteq rewound'
  PROVE  MarksOf(r)'
<1>1. C!Lag' = C!Lag
  BY CounterType DEF C!Lag, C!R!Lag
<1>2. At(r, "stamp") \/ At(r, "number") => req[r].conv \in Convs
  BY DEF Standing, At
<1>3. /\ C!upcoming[req[r].conv] >= C!Lag
      /\ At(r, "stamp") \/ (At(r, "number") /\ call[r].st = "done")
      => C!upcoming'[req[r].conv] >= C!Lag
  BY <1>2, Floor
<1> QED BY <1>1, <1>3 DEF MarksOf, At, IsMarked, HasNumber

\* Every handler keeps the watermark of its request.
LEMMA TurnMarks ==
  ASSUME ReqOK, Standing, Calling, C!TypeOK, Numbers, Marks,
         NEW r \in Requests, Turn(r), rewound \subseteq rewound', CounterTurn
  PROVE  MarksOf(r)'
<1> USE DEF At
<1>1. MarksOf(r) /\ C!Lag' = C!Lag
  BY CounterType DEF Marks, C!Lag, C!R!Lag
<1>2. CASE Stored(r)
  <2>1. r \notin Replies /\ \E code \in Codes : Answer(r, code)
    BY <1>2, RelayAssumption DEF Stored, Standing, Codes
  <2> QED BY <2>1, AnswerFacts, NoMarks DEF Moves
<1>3. CASE Upload(r) \/ FindBot(r) \/ PostToBot(r) \/ BotAccepts(r) \/ PostFails(r)
  <2>1. r \notin Replies /\ call[r].st = "idle" /\ UNCHANGED counter
    BY <1>3, RelayAssumption
    DEF Upload, FindBot, PostToBot, BotAccepts, PostFails, Standing, Calling
  <2>2. \/ \E pc \in {"upload", "number", "post", "wait", "send"} : Goto(r, pc)
        \/ \E code \in Codes : Answer(r, code)
    BY <1>3 DEF Upload, FindBot, PostToBot, BotAccepts, PostFails, Codes
  <2>3. ASSUME NEW pc \in {"upload", "number", "post", "wait", "send"}, Goto(r, pc)
        PROVE  MarksOf(r)'
    <3>1. req'[r].pc = pc
      BY <2>3, GotoFacts DEF PCs, Moves
    <3> QED BY <2>1, <2>3, <3>1, NoMarks DEF counter
  <2> QED BY <2>1, <2>2, <2>3, AnswerFacts, NoMarks DEF Moves
<1>4. CASE TypingId(r)
  <2>1. req[r].typing /\ AfterNumber(r) \in {"find", "send"} /\ Goto(r, AfterNumber(r))
    BY <1>4, AfterNumberOf DEF TypingId, Standing
  <2>2. req'[r].typing /\ req'[r].pc \in {"find", "send"}
    BY <2>1, GotoFacts DEF Moves, PCs
  <2> QED BY <2>2, NoMarks
<1>5. CASE AskNumber(r) \/ AskMark(r)
  <2>1. PICK op \in {"incr", "get"} : C!Call(r, op, req[r].conv, 0) /\ req' = req
    BY <1>5 DEF AskNumber, AskMark, own
  <2>2. call'[r].st = "called" /\ req[r].conv \in Convs
    <3>1. call'[r].st = "called"
      BY <2>1, CalledIs
    <3> QED BY <1>5, <3>1 DEF AskNumber, AskMark, Standing
  <2>3. C!upcoming' = C!upcoming
    BY <2>1, <2>2, CallReturnFacts DEF Keeps
  <2> QED BY <1>1, <2>1, <2>2, <2>3 DEF MarksOf, IsMarked, HasNumber
<1>6. CASE Numbered(r)
  <2>1. CASE Moves(r, AfterNumber(r)) /\ call[r].st = "done" /\ req'[r].id = call[r].res
    <3>1. /\ C!upcoming[req[r].conv] >= C!Lag /\ call[r].res \in Nat /\ call'[r].st = "idle"
          /\ C!upcoming' = C!upcoming
      BY <1>1, <1>6, <2>1, ReturnIs, CallReturnFacts DEF Numbered, MarksOf, Calling, Keeps
    <3>2. r \notin Resyncs /\ ~req[r].typing
      BY <1>6, NumberedFacts DEF Standing
    <3>3. AfterNumber(r) = "find" \/ AfterNumber(r) = "stamp"
      BY <3>2, AfterNumberOf
    <3>4. CASE AfterNumber(r) = "find"
      BY <2>1, <3>4, NoMarks DEF Moves
    <3>5. CASE AfterNumber(r) = "stamp"
      <4>1. HasNumber(r)'
        BY <2>1, <3>1 DEF HasNumber, NoNumber
      <4>2. req'[r].pc = "stamp" /\ req'[r].conv = req[r].conv
        BY <2>1, <3>5 DEF Moves
      <4> QED BY <1>1, <3>1, <4>1, <4>2 DEF MarksOf, IsMarked
    <3> QED BY <3>3, <3>4, <3>5
  <2>2. CASE Moves(r, "answered") /\ req'[r].code = 500
    BY <2>2, NoMarks DEF Moves
  <2> QED BY <1>6, <2>1, <2>2, NumberedFacts DEF Holds
<1>7. CASE Marked(r)
  <2>1. CASE Moves(r, "answered") /\ req'[r].code = 500
    BY <2>1, NoMarks DEF Moves
  <2>2. CASE /\ Moves(r, "send") /\ call[r].st = "done"
             /\ Holds(r, req[r].id, call[r].res, req[r].code)
    <3>1. /\ HasNumber(r) /\ call[r].res >= 0
          /\ req[r].conv \notin rewound => req[r].id < call[r].res + C!Lag
      BY <1>1, <1>7, <2>2 DEF Marked, MarksOf
    <3> QED BY <1>1, <2>2, <3>1 DEF MarksOf, IsMarked, HasNumber, Moves, Holds
  <2> QED BY <1>7, <2>1, <2>2, MarkedFacts DEF Holds
<1>8. CASE Send(r) \/ Sent(r)
  <2>1. /\ \/ Moves(r, "sending") /\ At(r, "send")
           \/ Moves(r, "answered") /\ At(r, "sending")
        /\ req'[r].id = req[r].id /\ req'[r].mark = req[r].mark
    BY <1>8, GotoFacts, AnswerFacts DEF Send, Sent, PCs, Codes, Holds
  <2>2. IsMarked(r)' => IsMarked(r)
    BY <2>1 DEF IsMarked, Moves
  <2> QED BY <1>1, <2>1, <2>2 DEF MarksOf, HasNumber, Moves
<1>9. CASE Retry(r)
  <2>1. UNCHANGED <<req, call>> /\ C!upcoming' = C!upcoming
    BY <1>9, SameUpcoming DEF Retry, own, counter
  <2> QED BY <1>1, <2>1 DEF MarksOf, IsMarked, HasNumber
<1> QED BY <1>2, <1>3, <1>4, <1>5, <1>6, <1>7, <1>8, <1>9 DEF Turn

\* One request's handler leaves the others alone.
LEMMA OthersSame ==
  ASSUME ReqOK, Standing, Calling, C!TypeOK, NEW r \in Requests, Turn(r) \/ Arrive(r),
         NEW q \in Requests, q # r
  PROVE  req'[q] = req[q] /\ call'[q] = call[q]
<1>1. \A p \in Requests \ {r} : call'[p] = call[p]
  BY ReturnIs, CallIs
  DEF Turn, Arrive, Refuse, UserPost, BotReply, Resync, Stored, Upload, TypingId, AskNumber,
         Numbered, FindBot, PostToBot, BotAccepts, PostFails, AskMark, Marked, Send, Retry, Sent,
         counter
<1>2. (\E pc : Goto(r, pc)) \/ (\E code : Answer(r, code)) => req'[q] = req[q]
  BY DEF Goto, Answer, ReqOK
<1>3. ASSUME NEW c \in Convs, NEW typing \in BOOLEAN, NEW form \in Forms,
             UserPost(r, c, typing, form)
      PROVE  req'[q] = req[q]
  BY <1>3, PostFacts DEF Starts
<1>4. ASSUME NEW c \in Convs, NEW typing \in BOOLEAN, BotReply(r, c, typing)
      PROVE  req'[q] = req[q]
  BY <1>4, ReplyFacts DEF Starts
<1>5. ASSUME Arrive(r)
      PROVE  req'[q] = req[q]
  BY <1>2, <1>3, <1>4, <1>5 DEF Arrive, Refuse, Resync
<1>6. ASSUME Numbered(r) \/ Marked(r)
      PROVE  req'[q] = req[q]
  BY <1>6, NumberedFacts, MarkedFacts DEF Moves
<1>7. ASSUME Turn(r), ~Numbered(r), ~Marked(r)
      PROVE  req'[q] = req[q]
  BY <1>2, <1>7
  DEF Turn, Stored, Upload, TypingId, AskNumber, FindBot, PostToBot, BotAccepts, PostFails,
      AskMark, Send, Retry, Sent, own
<1> QED BY <1>1, <1>5, <1>6, <1>7

\* The counter gives a watermark that covers the request's number.
LEMMA CounterMarks ==
  ASSUME ReqOK, Standing, Calling, C!TypeOK, Numbers, NEW r \in Requests, MarksOf(r), Counter(r),
         rewound \subseteq rewound', CounterTurn
  PROVE  MarksOf(r)'
<1> DEFINE c == req[r].conv
<1>1. /\ req' = req /\ C!Lag' = C!Lag /\ C!Lag \in {0, 1} /\ Works(r)
      /\ Reads(r) \/ Counts(r) \/ Sets(r) \/ Gets(r) \/ Fails(r)
  BY LagIs, CounterType, WorkFacts DEF Counter, own, C!Lag, C!R!Lag
<1>2. CASE Counts(r)
  <2>1. At(r, "number") /\ call[r].conv = c /\ c \in Convs
    BY <1>1, <1>2 DEF Counts, Works, Calling, Standing, At
  <2>2. C!upcoming'[c] >= C!Lag
    BY <1>1, <1>2, <2>1 DEF Counts, Puts
  <2> QED BY <1>1, <2>1, <2>2 DEF MarksOf, At, IsMarked
<1>3. CASE Sets(r)
  <2>1. At(r, "store")
    BY <1>1, <1>3 DEF Sets, Works, Calling, At
  <2> QED BY <1>1, <2>1 DEF MarksOf, At, IsMarked
<1>4. CASE Gets(r)
  <2>1. At(r, "stamp") /\ call[r].conv = c /\ c \in Convs
    BY <1>1, <1>4 DEF Gets, Works, Calling, Standing, At
  <2>2. /\ C!upcoming' = C!upcoming /\ call'[r].res = C!upcoming[c] - C!Lag
        /\ C!upcoming[c] \in Nat
    BY <1>4, <2>1, UpcomingIs DEF Gets, Keeps
  <2>3. /\ HasNumber(r) /\ C!upcoming[c] >= C!Lag /\ req[r].id \in Nat
        /\ c \notin rewound => req[r].id < C!upcoming[c]
    BY <2>1 DEF MarksOf, Numbers, Has, Number
  <2>4. call'[r].res >= 0 /\ (c \notin rewound => req[r].id < call'[r].res + C!Lag)
    BY <1>1, <2>2, <2>3
  <2> QED BY <1>1, <2>1, <2>2, <2>3, <2>4 DEF MarksOf, At, IsMarked, HasNumber
<1>5. CASE Reads(r) \/ Fails(r)
  <2>1. call'[r].st # "done" /\ C!upcoming' = C!upcoming
    BY <1>5 DEF Reads, Fails, Keeps
  <2> QED BY <1>1, <2>1 DEF MarksOf, At, IsMarked, HasNumber
<1> QED BY <1>1, <1>2, <1>3, <1>4, <1>5

\* Every step keeps the watermarks.
LEMMA MarksStep ==
  ASSUME ReqOK, Standing, Calling, C!TypeOK, Numbers, Marks, Steps, Noted
  PROVE  Marks'
<1> SUFFICES ASSUME NEW q \in Requests
             PROVE  MarksOf(q)'
  BY DEF Marks
<1>1. MarksOf(q) /\ rewound \subseteq rewound'
  BY DEF Marks, Noted
<1>2. CASE Restart
  <2>1. req[q].pc = "answered" => req'[q] = req[q]
    BY <1>2, RestartFacts
  <2>2. req'[q].pc \in {"new", "answered", "aborted"}
    BY <1>2, RestartFacts
  <2>3. req'[q].pc = "answered" => req'[q] = req[q]
    BY <1>2, RestartFacts
  <2>4. manager' = manager => C!Lag' = C!Lag
    BY DEF C!Lag, C!R!Lag
  <2>5. IsMarked(q)' => IsMarked(q) /\ req'[q] = req[q]
    BY <2>2, <2>3 DEF IsMarked, At
  <2>6. IsMarked(q) => req[q].conv \in Convs
    BY <1>1 DEF MarksOf, Numbers, Has
  \* the other manager's numbers are no continuation of these
  <2>7. IsMarked(q)' /\ req'[q].conv \notin rewound' => manager' = manager
    BY <2>5, <2>6 DEF Noted
  <2> QED BY <1>1, <2>2, <2>4, <2>5, <2>7 DEF MarksOf, At, HasNumber
<1>3. ASSUME CounterTurn, NEW r \in Requests, Turn(r) \/ Arrive(r)
      PROVE  MarksOf(q)'
  <2>1. CASE q # r
    BY <1>1, <1>3, <2>1, OthersSame, SameMarks
  <2>2. CASE q = r /\ Turn(r)
    BY <1>1, <1>3, <2>2, TurnMarks
  <2>3. CASE q = r /\ Arrive(r)
    <3>1. At(r, "new") /\ call[r].st = "idle"
      BY <2>3 DEF Arrive, Refuse, UserPost, BotReply, Resync, Calling, At
    <3>2. CASE Refuse(r)
      <4>1. req'[r].pc = "answered" /\ req'[r].code # 200
        BY <3>2, AnswerFacts DEF Refuse, Codes, Moves, Holds
      <4> QED BY <2>3, <4>1, NoMarks
    <3>3. ASSUME NEW c \in Convs, NEW typing \in BOOLEAN, NEW form \in Forms,
                 UserPost(r, c, typing, form)
          PROVE  MarksOf(r)'
      <4>1. req'[r].pc \in {"upload", "number"} /\ call' = call
        BY <3>3, PostFacts DEF UserPost, Starts, counter
      <4> QED BY <3>1, <4>1, NoMarks
    <3>4. ASSUME NEW c \in Convs, NEW typing \in BOOLEAN, BotReply(r, c, typing)
          PROVE  MarksOf(r)'
      <4>1. req'[r].pc = "number" /\ call' = call
        BY <3>4, ReplyFacts DEF BotReply, Starts, counter
      <4> QED BY <3>1, <4>1, NoMarks
    <3>5. ASSUME NEW c \in Convs, Resync(r, c)
          PROVE  MarksOf(r)'
      <4>1. r \notin Replies /\ req'[r].pc \in {"store", "answered"}
        BY <3>5, GotoFacts, AnswerFacts, RelayAssumption DEF Resync, Moves, PCs, Codes
      <4> QED BY <4>1, NoMarks
    <3> QED BY <2>3, <3>2, <3>3, <3>4, <3>5 DEF Arrive
  <2> QED BY <1>3, <2>1, <2>2, <2>3
<1>4. ASSUME CounterTurn, NEW r \in Requests, Counter(r)
      PROVE  MarksOf(q)'
  <2>1. CASE q # r
    <3>1. req'[q] = req[q] /\ call'[q] = call[q]
      BY <1>4, <2>1, WorkFacts DEF Counter, own, Works
    <3> QED BY <1>1, <1>4, <3>1, SameMarks
  <2>2. CASE q = r
    BY <1>1, <1>4, <2>2, CounterMarks
  <2> QED BY <2>1, <2>2
<1>5. ASSUME CounterTurn,
             Connections \/ (\E c \in Convs : KeyExpires(c))
             \/ \E r \in Requests : CounterResends(r) \/ BotTakes(r)
      PROVE  MarksOf(q)'
  <2>1. req' = req /\ call' = call
    BY <1>5, RedisFacts DEF Connections, KeyExpires, CounterResends, BotTakes, own, counter
  <2> QED BY <1>1, <1>5, <2>1, SameMarks
<1> QED BY <1>2, <1>3, <1>4, <1>5, CounterCases DEF Steps


-----------------------------------------------------------------------------
(* Transcripts and the requests that send them *)

\* A request that does nothing.
LEMMA SameDelivery ==
  ASSUME NEW r \in Requests, DeliveryOf(r), req'[r] = req[r], snd'[r] = snd[r],
         inbox \subseteq inbox'
  PROVE  DeliveryOf(r)'
  BY DEF DeliveryOf, Told, At

\* A request that sends nothing.
LEMMA IdleDelivery ==
  ASSUME NEW r \in Requests, snd'[r].st = "idle",
         r \in Posts => /\ req'[r].pc = "send" => r \in inbox'
                        /\ req'[r].pc = "answered" => req'[r].code # 200
  PROVE  DeliveryOf(r)'
  BY DEF DeliveryOf, Told, At

\* Every handler keeps the delivery of its request.
LEMMA TurnDelivery ==
  ASSUME ReqOK, Standing, Calling, C!TypeOK, G!TypeOK, NEW r \in Requests, DeliveryOf(r), Turn(r)
  PROVE  DeliveryOf(r)' /\ inbox' = inbox /\ \A q \in Requests \ {r} : snd'[q] = snd[q]
<1> USE DEF At
<1>1. /\ inbox' = inbox
      /\ ~Send(r) /\ ~Retry(r) => snd' = snd
      /\ \A q \in Requests \ {r} : snd'[q] = snd[q]
  BY DEF Turn, Stored, Upload, TypingId, AskNumber, Numbered, FindBot, PostToBot, BotAccepts,
         PostFails, AskMark, Marked, Send, Retry, Sent, Outside, own, gateway,
         G!Send, G!Wake, G!Attempt, G!TypeOK
<1>2. CASE Send(r)
  <2>1. req[r].pc = "send" /\ Moves(r, "sending")
    BY <1>2, GotoFacts DEF Send, PCs
  <2>2. snd'[r].st \in {"sent", "sleeping"}
    BY <1>2 DEF Send, G!Send, G!Attempt, G!TypeOK
  <2>3. DeliveryOf(r)'
    BY <1>1, <2>1, <2>2 DEF DeliveryOf, Told, Moves
  <2> QED BY <1>1, <2>3
<1>3. CASE Retry(r)
  <2>1. req' = req /\ snd[r].st = "sleeping"
    BY <1>3 DEF Retry, own, G!Wake
  <2>2. DeliveryOf(r)'
    BY <1>1, <2>1 DEF DeliveryOf, Told
  <2> QED BY <1>1, <2>2
<1>4. CASE Sent(r)
  <2>1. req[r].pc = "sending" /\ snd[r].st \in {"sent", "dropped"}
    BY <1>4 DEF Sent
  <2>2. Moves(r, "answered") /\ req'[r].code = 200
    BY <1>4, AnswerFacts DEF Sent, Codes, Holds
  <2>3. snd' = snd
    BY <1>4 DEF Sent, gateway
  <2>4. DeliveryOf(r)'
    BY <1>1, <2>1, <2>2, <2>3 DEF DeliveryOf, Told, Moves
  <2> QED BY <1>1, <2>4
\* in the other turns there is nothing to send yet
<1>5. ASSUME ~Send(r), ~Retry(r), req[r].pc \notin {"sending", "answered", "aborted"},
             r \in Posts => /\ req'[r].pc = "send" => r \in inbox
                            /\ req'[r].pc = "answered" => req'[r].code # 200
      PROVE  DeliveryOf(r)' /\ inbox' = inbox /\ \A q \in Requests \ {r} : snd'[q] = snd[q]
  <2>1. snd'[r].st = "idle"
    BY <1>1, <1>5 DEF DeliveryOf, Told
  <2> QED BY <1>1, <1>5, <2>1, IdleDelivery
<1>6. ASSUME NEW code \in {400, 500}, Answer(r, code)
      PROVE  req'[r].pc = "answered" /\ req'[r].code # 200
  BY <1>6, AnswerFacts DEF Moves, Holds, Codes
<1>7. ASSUME NEW pc \in PCs \ {"answered"}, Goto(r, pc)
      PROVE  req'[r].pc = pc /\ pc # "answered"
  BY <1>7, GotoFacts DEF Moves
<1>8. CASE (Stored(r) \/ Upload(r) \/ FindBot(r) \/ PostToBot(r) \/ BotAccepts(r) \/ PostFails(r))
           /\ ~Send(r) /\ ~Retry(r)
  <2>1. req[r].pc \notin {"sending", "answered", "aborted"} /\ (req[r].pc = "store" => r \notin Posts)
    BY <1>8, RelayAssumption
    DEF Stored, Upload, FindBot, PostToBot, BotAccepts, PostFails, Standing
  <2>2. \/ req[r].pc = "store"
        \/ \E code \in {400, 500} : Answer(r, code)
        \/ \E pc \in {"upload", "number", "post", "wait"} : Goto(r, pc)
        \/ Goto(r, "send") /\ r \in inbox
    BY <1>8 DEF Stored, Upload, FindBot, PostToBot, BotAccepts, PostFails
  <2> QED BY <1>5, <1>6, <1>7, <1>8, <2>1, <2>2 DEF PCs
<1>9. CASE TypingId(r) /\ ~Send(r) /\ ~Retry(r)
  <2>1. req[r].pc = "number" /\ Goto(r, AfterNumber(r))
    BY <1>9 DEF TypingId
  <2>2. AfterNumber(r) \in {"find", "send", "stamp"} /\ (r \in Posts => AfterNumber(r) = "find")
    BY DEF AfterNumber
  <2> QED BY <1>5, <1>7, <1>9, <2>1, <2>2 DEF PCs
<1>10. CASE Numbered(r) /\ ~Send(r) /\ ~Retry(r)
  <2>1. req[r].pc = "number"
    BY <1>10 DEF Numbered
  <2>2. r \in Posts => req'[r].pc = "find" \/ (req'[r].pc = "answered" /\ req'[r].code = 500)
    BY <1>10, NumberedFacts DEF AfterNumber, Moves, Holds
  <2> QED BY <1>5, <1>10, <2>1, <2>2
<1>11. CASE Marked(r) /\ ~Send(r) /\ ~Retry(r)
  <2>1. req[r].pc = "stamp" /\ r \notin Posts
    BY <1>11, RelayAssumption DEF Marked, Standing
  <2> QED BY <1>5, <1>11, <2>1
<1>12. CASE (AskNumber(r) \/ AskMark(r)) /\ ~Send(r) /\ ~Retry(r)
  <2>1. req' = req /\ snd' = snd
    BY <1>1, <1>12 DEF AskNumber, AskMark, own
  <2> QED BY <1>1, <2>1, SameDelivery
<1> QED BY <1>2, <1>3, <1>4, <1>8, <1>9, <1>10, <1>11, <1>12 DEF Turn

\* Every step keeps the deliveries.
LEMMA DeliveryStep ==
  ASSUME ReqOK, Standing, Calling, C!TypeOK, G!TypeOK, Delivery, Steps
  PROVE  Delivery'
<1> SUFFICES ASSUME NEW q \in Requests
             PROVE  DeliveryOf(q)'
  BY DEF Delivery
<1>1. DeliveryOf(q)
  BY DEF Delivery
<1>2. ASSUME NEW r \in Requests, Turn(r)
      PROVE  DeliveryOf(q)'
  <2>1. DeliveryOf(r)
    BY DEF Delivery
  <2>2. CASE q = r
    BY <1>2, <2>1, <2>2, TurnDelivery
  <2>3. CASE q # r
    BY <1>1, <1>2, <2>1, <2>3, TurnDelivery, OthersSame, SameDelivery
  <2> QED BY <2>2, <2>3
<1>3. ASSUME NEW r \in Requests, Arrive(r)
      PROVE  DeliveryOf(q)'
  <2>1. snd' = snd /\ inbox' = inbox /\ At(r, "new")
    BY <1>3 DEF Arrive, Refuse, UserPost, BotReply, Resync, Outside, gateway
  <2>2. CASE q # r
    BY <1>1, <1>3, <2>1, <2>2, OthersSame, SameDelivery
  <2>3. CASE q = r
    <3>1. snd'[r].st = "idle"
      BY <1>1, <2>1, <2>3 DEF DeliveryOf, Told, At
    <3>2. ASSUME Refuse(r)
          PROVE  req'[r].pc = "answered" /\ req'[r].code # 200
      BY <3>2, AnswerFacts DEF Refuse, Codes, Moves, Holds
    <3>3. ASSUME NEW c \in Convs, NEW typing \in BOOLEAN, NEW form \in Forms,
                 UserPost(r, c, typing, form)
          PROVE  req'[r].pc \in {"upload", "number"}
      BY <3>3, PostFacts DEF Starts
    <3>4. ASSUME NEW c \in Convs, (\E typing \in BOOLEAN : BotReply(r, c, typing)) \/ Resync(r, c)
          PROVE  r \notin Posts
      BY <3>4, RelayAssumption DEF BotReply, Resync
    <3>5. r \in Posts => /\ req'[r].pc # "send"
                         /\ req'[r].pc = "answered" => req'[r].code # 200
      BY <1>3, <3>2, <3>3, <3>4 DEF Arrive
    <3> QED BY <2>3, <3>1, <3>5, IdleDelivery
  <2> QED BY <2>2, <2>3
<1>4. CASE Restart
  <2>1. inbox' = inbox /\ (snd[q].st # "sleeping" => snd'[q] = snd[q])
        /\ (snd[q].st = "sleeping" => snd'[q].st = "aborted")
    BY <1>4 DEF Restart, Outside, G!Restart, G!TypeOK
  <2> QED BY <1>1, <1>4, <2>1, RestartFacts DEF DeliveryOf, Told, At
<1>5. CASE Connections \/ (\E c \in Convs : KeyExpires(c))
           \/ \E r \in Requests : Counter(r) \/ CounterResends(r) \/ BotTakes(r)
  <2>1. req' = req /\ snd' = snd /\ inbox \subseteq inbox'
    BY <1>5 DEF Connections, KeyExpires, Counter, CounterResends, BotTakes, own, gateway,
                G!Connections, G!HandleConnection, G!Register, G!Refuse, G!PeerLeaves, G!HandleClose
  <2> QED BY <1>1, <2>1, SameDelivery
<1> QED BY <1>2, <1>3, <1>4, <1>5 DEF Steps

-----------------------------------------------------------------------------
(* The gateway that the requests share *)

\* Every step of the relay is a step of the gateway, or none.
LEMMA GatewayTurn ==
  ASSUME Standing, Steps
  PROVE  [GP!Next]_(GP!vars)
<1> USE DEF GP!Next, GP!Connections, GP!HandleConnection, GP!Register, GP!Refuse, GP!PeerLeaves,
            GP!HandleClose, GP!Send, GP!Wake, GP!Attempt, GP!Attempts, GP!Restart, GP!vars
<1>1. ASSUME NEW r \in Requests, Send(r)
      PROVE  GP!Next
  <2>1. req[r].conv \in Convs
    BY <1>1 DEF Send, Standing, At
  <2>2. GP!Send(r, req[r].conv)
    BY <1>1 DEF Send, G!Send, G!Attempt
  <2> HIDE DEF GP!Send
  <2> QED BY <2>1, <2>2
<1>2. ASSUME NEW r \in Requests, Retry(r)
      PROVE  GP!Next
  <2>1. GP!Wake(r)
    BY <1>2 DEF Retry, G!Wake, G!Attempt, G!Attempts
  <2> HIDE DEF GP!Wake
  <2> QED BY <2>1
<1>3. CASE Connections
  <2>1. GP!Connections
    BY <1>3 DEF Connections, G!Connections, G!HandleConnection, G!Register, G!Refuse,
                G!PeerLeaves, G!HandleClose
  <2> HIDE DEF GP!Connections
  <2> QED BY <2>1
<1>4. CASE Restart
  <2>1. GP!Restart
    BY <1>4 DEF Restart, G!Restart
  <2> HIDE DEF GP!Restart
  <2> QED BY <2>1
<1>5. ASSUME NEW r \in Requests,
             Arrive(r) \/ (Turn(r) /\ ~Send(r) /\ ~Retry(r))
             \/ Counter(r) \/ CounterResends(r) \/ BotTakes(r)
      PROVE  UNCHANGED gateway
  BY <1>5
  DEF Arrive, Refuse, UserPost, BotReply, Resync, Turn, Stored, Upload, TypingId, AskNumber,
      Numbered, FindBot, PostToBot, BotAccepts, PostFails, AskMark, Marked, Sent, Counter,
      CounterResends, BotTakes
<1>6. ASSUME NEW c \in Convs, KeyExpires(c)
      PROVE  UNCHANGED gateway
  BY <1>6 DEF KeyExpires
<1>7. UNCHANGED gateway => UNCHANGED GP!vars
  BY DEF gateway
<1> HIDE DEF GP!Next, GP!vars
<1> QED BY <1>1, <1>2, <1>3, <1>4, <1>5, <1>6, <1>7 DEF Steps

\* The gateway's own proofs carry its invariant over the step.
LEMMA GatewayStep ==
  ASSUME GatewayInv, [GP!Next]_(GP!vars)
  PROVE  GatewayInv'
<1>1. GP!TypeOK' /\ GP!SleepsForConv'
  BY RelayAssumption, GP!TypeStep DEF GatewayInv, GP!GatewayAssumption
<1>2. GP!MapFacts'
  BY RelayAssumption, GP!MapStep DEF GatewayInv, GP!GatewayAssumption
<1>3. GP!Streams'
  BY RelayAssumption, GP!StreamStep DEF GatewayInv, GP!GatewayAssumption
<1> QED BY <1>1, <1>2, <1>3 DEF GatewayInv

\* The two instances of the gateway have the same type invariant.
LEMMA GatewayTypes == GP!TypeOK <=> G!TypeOK
  BY DEF GP!TypeOK, G!TypeOK, GP!SocketStates, G!SocketStates, GP!SenderStates, G!SenderStates,
         GP!Attempts, G!Attempts

-----------------------------------------------------------------------------
(* The invariant holds *)

\* The relay starts with the invariant.
LEMMA InvInit ==
  ASSUME Init
  PROVE  Inv
<1> USE RelayAssumption
<1>1. GatewayInv
  BY DEF Init, G!Init, GatewayInv, GP!TypeOK, GP!SleepsForConv, GP!MapFacts, GP!NewestOwned,
         GP!MapTracksNewest, GP!Streams, GP!OwnStream, GP!OncePerTranscript, GP!LiveSocket,
         GP!SocketStates, GP!SenderStates, GP!Attempts
<1>2. C!TypeOK
  <2>1. /\ manager \in Managers /\ next \in [Convs -> Nat] /\ issued \in [Convs -> SUBSET Nat]
        /\ call \in [Requests -> C!Calls]
        /\ activityInc = << >> /\ micro = << >> /\ rewritten = {}
    BY DEF Init, C!Init, C!R!Init, C!M!Init, C!R!NoCall, C!Calls
  <2>2. DOMAIN << >> = {} /\ << >> \in Seq(Requests)
    OBVIOUS
  <2> QED BY <2>1, <2>2 DEF C!TypeOK
<1>3. ReqOK /\ rewound \subseteq Convs /\ clashed \subseteq Convs
  BY DEF Init, ReqOK, Records, PCs, Codes
<1>4. \A r \in Requests : /\ req[r].pc = "new" /\ req[r].form = NoForm /\ req[r].id = NoNumber
                          /\ call[r].st = "idle" /\ snd[r].st = "idle"
  BY DEF Init, C!Init, C!R!Init, C!R!NoCall, G!Init
<1>5. Standing /\ Calling /\ Numbers /\ Marks /\ Delivery
  BY <1>4 DEF Standing, Calling, Numbers, Marks, MarksOf, Delivery, DeliveryOf, At, Has,
              HasNumber, IsMarked, Told
<1>6. Filed
  <2>1. /\ DOMAIN stored = Posts /\ DOMAIN location = Posts
        /\ flight = {} /\ inbox = {}
        /\ \A r \in Posts : stored[r] = 0 /\ location[r] = <<>>
    BY DEF Init
  <2>2. NoForm.files = <<>> /\ NoForm.attach = <<>>
    BY DEF NoForm
  <2>3. ASSUME NEW r \in Posts
        PROVE  FiledOf(r)
    <3>1. r \in Requests
      BY DEF Requests
    <3>2. location[r] \in [DOMAIN <<>> -> 0..0]
      <4>1. <<>> \in Seq(0..0) /\ Len(<<>>) = 0
        OBVIOUS
      <4>2. <<>> \in [1..0 -> 0..0] /\ DOMAIN <<>> = 1..0
        BY <4>1
      <4> QED BY <2>1, <4>2
    <3> QED BY <1>4, <2>1, <2>2, <3>1, <3>2 DEF FiledOf, At
  <2> QED BY <2>1, <2>3 DEF Filed
<1> QED BY <1>1, <1>2, <1>3, <1>5, <1>6 DEF Inv

\* Every step keeps the invariant.
LEMMA InvStep ==
  ASSUME Inv, [Next]_vars
  PROVE  Inv'
<1>1. CASE UNCHANGED vars
  <2>1. GatewayInv'
    <3>1. UNCHANGED GP!vars
      BY <1>1 DEF vars, gateway, GP!vars
    <3> QED BY <3>1, GatewayStep DEF Inv
  <2>2. /\ C!TypeOK' /\ ReqOK' /\ Standing' /\ Calling' /\ Delivery'
        /\ rewound' \subseteq Convs /\ clashed' \subseteq Convs
    BY <1>1 DEF vars, gateway, counter, own, Inv, C!TypeOK, ReqOK, Standing, Calling, Delivery,
                DeliveryOf, Told, At
  <2>3. Filed' /\ Numbers' /\ Marks'
    BY <1>1, SameUpcoming DEF vars, gateway, counter, own, Inv, Filed, FiledOf, Numbers, Has, HasNumber, Number,
                Marks, MarksOf, IsMarked, At, OnlyOne
  <2> QED BY <2>1, <2>2, <2>3 DEF Inv
<1>2. CASE Next
  <2>1. Steps /\ Noted /\ rewound' \subseteq Convs /\ clashed' \subseteq Convs
    BY <1>2 DEF Next, Notes, Noted, Inv
  <2>2. GatewayInv'
    BY <2>1, GatewayTurn, GatewayStep DEF Inv
  <2>3. ReqOK' /\ Standing'
    BY <2>1, StandingStep DEF Inv
  <2>4. C!TypeOK'
    BY <2>1, CounterCases, CounterType DEF Inv
  <2>5. Calling'
    BY <2>1, CallingStep DEF Inv
  <2>6. Filed'
    BY <2>1, FiledStep DEF Inv
  <2>7. Numbers'
    BY <2>1, <2>4, NumbersStep DEF Inv
  <2>8. Marks'
    BY <2>1, MarksStep DEF Inv
  <2>9. Delivery'
    BY <2>1, DeliveryStep, GatewayTypes DEF Inv, GatewayInv
  <2> QED BY <2>1, <2>2, <2>3, <2>4, <2>5, <2>6, <2>7, <2>8, <2>9 DEF Inv
<1> QED BY <1>1, <1>2

\* The inductive invariant.
LEMMA Invariance == Spec => []Inv
<1>1. Init => Inv
  BY InvInit
<1>2. Inv /\ [Next]_vars => Inv'
  BY InvStep
<1> QED BY <1>1, <1>2, PTL DEF Spec

-----------------------------------------------------------------------------
(* What follows *)

\* Type correctness of the relay: of the requests, the bucket and the bots' inboxes,
\* with the gateway and the counter that they share.
THEOREM RelayType == Spec => []TypeOK
<1>1. Inv => TypeOK
  <2> SUFFICES ASSUME Inv
               PROVE  TypeOK
    OBVIOUS
  <2>1. G!TypeOK
    BY GatewayTypes DEF Inv, GatewayInv
  <2>2. req \in [Requests -> [pc : PCs, conv : Convs \cup {NoConv}, typing : BOOLEAN,
                              form : Forms \cup {NoForm}, id : Nat \cup {NoNumber},
                              mark : Int, code : Codes]]
    BY DEF Inv, ReqOK, Records
  <2> QED BY <2>1, <2>2 DEF Inv, TypeOK, Filed, FiledOf
<1> QED BY <1>1, Invariance, PTL

\* No activity reaches a bot before all its files are in the bucket, and an attachment
\* that has its name for itself points at the file of that name.
THEOREM RelayAttachmentsBeforeBot == Spec => []AttachmentsBeforeBot
<1>1. Inv => AttachmentsBeforeBot
  <2> SUFFICES ASSUME Inv, NEW r \in flight \cup inbox
               PROVE  /\ stored[r] = Len(req[r].form.files)
                      /\ \A i \in DOMAIN req[r].form.attach, k \in DOMAIN req[r].form.files :
                           /\ req[r].form.attach[i] = req[r].form.files[k]
                           /\ OnlyOne(req[r].form.attach, i) /\ OnlyOne(req[r].form.files, k)
                           => location[r][i] = k
    BY DEF AttachmentsBeforeBot
  <2>1. r \in Posts /\ r \in Requests /\ FiledOf(r)
    BY DEF Inv, Filed, Requests
  <2>2. stored[r] = Len(req[r].form.files)
    BY <2>1 DEF FiledOf
  <2>3. DOMAIN req[r].form.files = 1..stored[r]
    BY <2>1, <2>2, FormFacts DEF Inv
  <2> QED BY <2>1, <2>2, <2>3 DEF FiledOf
<1> QED BY <1>1, Invariance, PTL

\* A transcript on a stream is one whose call of sendToConversation is over.
LEMMA OnStreamSent ==
  ASSUME Inv, NEW r \in Requests, OnStream(r)
  PROVE  snd[r].st = "sent"
  BY DEF Inv, GatewayInv, GP!Streams, OnStream

\* Nothing of a request that was answered with an error is on any client's stream.
THEOREM RelayFailedIsUnseen == Spec => []FailedIsUnseen
<1>1. Inv => FailedIsUnseen
  <2> SUFFICES ASSUME Inv, NEW r \in Requests, At(r, "answered"), req[r].code # 200
               PROVE  ~OnStream(r)
    BY DEF FailedIsUnseen
  <2> QED BY OnStreamSent DEF Inv, Delivery, DeliveryOf, Told, At
<1> QED BY <1>1, Invariance, PTL

\* A user whose message is echoed, or whose request is answered 200, has a message
\* that the bot took.
THEOREM RelayEchoMeansTaken == Spec => []EchoMeansTaken
<1>1. Inv => EchoMeansTaken
  <2> SUFFICES ASSUME Inv, NEW r \in Posts, OnStream(r) \/ (At(r, "answered") /\ req[r].code = 200)
               PROVE  r \in inbox
    BY DEF EchoMeansTaken
  <2>1. r \in Requests
    BY DEF Requests
  <2> QED BY <2>1, OnStreamSent DEF Inv, Delivery, DeliveryOf, Told
<1> QED BY <1>1, Invariance, PTL

\* Two requests of a conversation have one id only if its counter moved back, or their
\* calls overlapped in the memory manager.
THEOREM RelayIdsRepeatOnlyAfterRewind == Spec => []IdsRepeatOnlyAfterRewind
<1>1. Inv => IdsRepeatOnlyAfterRewind
  BY DEF Inv, Numbers, IdsRepeatOnlyAfterRewind, Has, HasNumber, Number
<1> QED BY <1>1, Invariance, PTL

\* The watermark of a bot's reply is a number, also when the process that numbered it
\* counts in memory, and a client that stores it is not given that number again.
THEOREM RelayWatermarkCoversOwnId == Spec => []WatermarkCoversOwnId
<1>1. Inv => WatermarkCoversOwnId
  BY DEF Inv, Marks, MarksOf, WatermarkCoversOwnId, Requests
<1> QED BY <1>1, Invariance, PTL

-----------------------------------------------------------------------------
(* The relay takes the steps of Exchange *)

Phase(r) == IF At(r, "new") THEN "new" ELSE IF At(r, "aborted") THEN "lost"
            ELSE IF ~At(r, "answered") THEN "open"
            ELSE IF req[r].code = 200 THEN "ok" ELSE "error"
Shown == {r \in Requests : OnStream(r)}

SameExcept(r) == \A q \in Requests \ {r} : Phase(q)' = Phase(q)

\* A request that moves alone moves in the abstract exchange.
LEMMA PhaseMoves ==
  ASSUME NEW r \in Requests, SameExcept(r), NEW to, Phase(r)' = to
  PROVE  Promise!Move(r, to)
<1> DEFINE phase == [q \in Requests |-> Phase(q)]
<1>1. phase' = [q \in Requests |-> Phase(q)'] /\ Requests' = Requests
  OBVIOUS
<1>2. phase' = [phase EXCEPT ![r] = to]
  <2> HIDE DEF Phase
  <2> QED BY <1>1 DEF SameExcept
<1> QED BY <1>2 DEF Phase, Promise!Move, At

\* The phase of one request in the abstract state.
LEMMA PhaseIs ==
  ASSUME NEW r \in Requests
  PROVE  [q \in Requests |-> Phase(q)][r] = Phase(r)
  OBVIOUS

\* A step that shows nothing is none of the abstract exchange.
LEMMA Stutters ==
  ASSUME \A r \in Requests : Phase(r)' = Phase(r), inbox' = inbox, Shown' = Shown
  PROVE  UNCHANGED Promise!vars
  BY DEF Phase, Shown, Promise!vars

\* What the clients were sent decides what is shown.
LEMMA SameShown ==
  ASSUME wire' = wire
  PROVE  Shown' = Shown
  BY DEF Shown, OnStream

\* A request that is not lost moves on as Exchange lets it.
LEMMA RequestMoves ==
  ASSUME FailedIsUnseen', EchoMeansTaken', UNCHANGED <<wire, inbox>>,
         NEW r \in Requests, SameExcept(r),
         Phase(r) \in {"new", "open"}, Phase(r)' \in {"open", "ok", "error"}
  PROVE  [Promise!Next]_(Promise!vars)
<1> USE DEF Promise!Requests
<1>1. Shown' = Shown /\ \A to : Phase(r)' = to => Promise!Move(r, to)
  BY PhaseMoves, SameShown
<1>2. CASE Phase(r) = "open" /\ Phase(r)' = "open"
  BY <1>1, <1>2, Stutters DEF SameExcept
<1>3. CASE Phase(r) = "new" /\ Phase(r)' = "open"
  <2>1. Promise!Open(r)
    BY <1>1, <1>3 DEF Promise!Open, Phase, Shown
  <2> QED BY <2>1 DEF Promise!Next, Requests
<1>4. CASE Phase(r)' = "ok"
  <2>1. r \in Posts => r \in inbox
    BY <1>4 DEF EchoMeansTaken, Phase, At
  <2>2. Promise!Succeed(r)
    BY <1>1, <1>4, <2>1 DEF Promise!Succeed, Phase, Shown
  <2> QED BY <2>2 DEF Promise!Next, Requests
<1>5. CASE Phase(r)' = "error"
  <2>1. ~OnStream(r)
    BY <1>5 DEF FailedIsUnseen, Phase, At, OnStream
  <2>2. Promise!Fail(r)
    BY <1>1, <1>5, <2>1 DEF Promise!Fail, Phase, Shown
  <2> QED BY <2>2 DEF Promise!Next, Requests
<1> QED BY <1>2, <1>3, <1>4, <1>5

\* What a handler is to the abstract exchange.
LEMMA TurnPhase ==
  ASSUME Inv, NEW r \in Requests, Turn(r)
  PROVE  /\ SameExcept(r) /\ Phase(r) = "open" /\ inbox' = inbox
         /\ Phase(r)' \in {"open", "ok", "error"}
         /\ ~Send(r) /\ ~Retry(r) => wire' = wire
<1>1. SameExcept(r)
  BY OthersSame DEF Inv, SameExcept, Phase, At
<1>2. inbox' = inbox /\ (~Send(r) /\ ~Retry(r) => wire' = wire)
  BY DEF Turn, Stored, Upload, TypingId, AskNumber, Numbered, FindBot, PostToBot, BotAccepts,
         PostFails, AskMark, Marked, Send, Retry, Sent, Outside, own, gateway
<1>3. req[r].pc \notin {"new", "answered", "aborted"}
  <2>1. CASE Retry(r)
    BY <2>1 DEF Retry, G!Wake, Inv, Delivery, DeliveryOf, At
  <2>2. CASE ~Retry(r)
    BY <2>2 DEF Turn, Stored, Upload, TypingId, AskNumber, Numbered, FindBot, PostToBot,
                BotAccepts, PostFails, AskMark, Marked, Send, Sent, At
  <2> QED BY <2>1, <2>2
<1>4. req'[r].pc \notin {"new", "aborted"}
  <2>1. ReqOK
    BY DEF Inv
  <2>2. ASSUME NEW pc \in PCs \ {"new", "aborted"}, Goto(r, pc)
        PROVE  req'[r].pc \notin {"new", "aborted"}
    BY <2>1, <2>2, GotoFacts DEF Moves
  <2>3. ASSUME NEW code \in Codes, Answer(r, code)
        PROVE  req'[r].pc \notin {"new", "aborted"}
    BY <2>1, <2>3, AnswerFacts DEF Moves
  <2>4. AfterNumber(r) \in PCs \ {"new", "aborted"}
    BY DEF AfterNumber, PCs
  <2>5. CASE Numbered(r) \/ Marked(r)
    BY <2>1, <2>4, <2>5, NumberedFacts, MarkedFacts DEF Inv, Moves
  <2>6. CASE Stored(r) \/ Upload(r) \/ TypingId(r) \/ FindBot(r) \/ PostToBot(r)
             \/ BotAccepts(r) \/ PostFails(r) \/ Send(r) \/ Sent(r)
    <3>1. \/ \E code \in {200, 400, 500} : Answer(r, code)
          \/ \E pc \in {"upload", "number", "post", "wait", "send", "sending"} : Goto(r, pc)
          \/ Goto(r, AfterNumber(r))
      BY <2>6 DEF Stored, Upload, TypingId, FindBot, PostToBot, BotAccepts, PostFails, Send, Sent
    <3> QED BY <2>2, <2>3, <2>4, <3>1 DEF PCs, Codes
  <2>7. CASE AskNumber(r) \/ AskMark(r) \/ Retry(r)
    BY <1>3, <2>7 DEF AskNumber, AskMark, Retry, own
  <2> QED BY <2>5, <2>6, <2>7 DEF Turn
<1> QED BY <1>1, <1>2, <1>3, <1>4 DEF Phase, At

\* One turn of the send loop shows its own transcript, and for the first time, or nothing.
LEMMA SendShows ==
  ASSUME Inv, NEW r \in Requests, Turn(r), Send(r) \/ Retry(r)
  PROVE  [Promise!Next]_(Promise!vars)
<1> USE DEF At
<1>1. /\ \A q \in Requests : Phase(q)' = Phase(q)
      /\ inbox' = inbox /\ Phase(r) = "open"
  <2>1. Phase(r)' = "open"
    <3>1. CASE Send(r)
      BY <3>1, GotoFacts DEF Inv, Send, Moves, PCs, Phase
    <3>2. CASE Retry(r)
      BY <3>2, TurnPhase DEF Retry, own, Phase
    <3> QED BY <3>1, <3>2
  <2> QED BY <2>1, TurnPhase DEF SameExcept
<1>2. /\ snd[r].st # "sent" /\ r \notin Resyncs
      /\ r \in Posts => r \in inbox
  <2>1. CASE Send(r)
    BY <2>1 DEF Send, G!Send, Inv, Standing, Delivery, DeliveryOf
  <2>2. CASE Retry(r)
    BY <2>2 DEF Retry, G!Wake, Inv, Standing, Delivery, DeliveryOf
  <2> QED BY <2>1, <2>2
<1>3. ~OnStream(r)
  BY <1>2, OnStreamSent
<1>4. CASE wire' = wire
  BY <1>1, <1>4, SameShown, Stutters
<1>5. CASE wire' # wire
  <2>1. wire \in [Sockets -> Seq(Requests)] /\ meta \in [Convs -> Sockets \cup {NoSocket}]
    BY GatewayTypes DEF Inv, GatewayInv, G!TypeOK
  <2>2. \E c \in Convs, i \in Int : G!Attempt(r, c, i)
    <3>1. CASE Send(r)
      BY <3>1 DEF Send, G!Send, Inv, Standing
    <3>2. CASE Retry(r)
      <4>1. snd[r].st = "sleeping" /\ G!Attempt(r, snd[r].conv, snd[r].try + 1)
        BY <1>5, <3>2 DEF Retry, G!Wake
      <4>2. snd[r].conv \in Convs
        BY <4>1 DEF Inv, GatewayInv, GP!SleepsForConv
      <4>3. snd[r].try + 1 \in Int
        BY GatewayTypes DEF Inv, GatewayInv, G!TypeOK, G!Attempts
      <4> QED BY <4>1, <4>2, <4>3
    <3> QED BY <3>1, <3>2
  <2>3. PICK s \in Sockets : wire' = [wire EXCEPT ![s] = Append(@, r)]
    BY <1>5, <2>1, <2>2 DEF G!Attempt
  <2>4. /\ DOMAIN wire'[s] = 1..(Len(wire[s]) + 1) /\ DOMAIN wire[s] = 1..Len(wire[s])
        /\ Len(wire[s]) \in Nat /\ wire'[s][Len(wire[s]) + 1] = r
        /\ \A j \in 1..Len(wire[s]) : wire'[s][j] = wire[s][j]
        /\ \A t \in Sockets \ {s} : wire'[t] = wire[t]
    BY <2>1, <2>3
  <2>5. ASSUME NEW q \in Requests
        PROVE  OnStream(q)' <=> OnStream(q) \/ q = r
    <3>1. OnStream(q) => OnStream(q)'
      BY <2>4 DEF OnStream
    <3>2. OnStream(q)' => OnStream(q) \/ q = r
      BY <2>4 DEF OnStream
    <3>3. OnStream(r)'
      BY <2>4 DEF OnStream
    <3> QED BY <3>1, <3>2, <3>3
  <2>6. Shown' = Shown \cup {r}
    BY <2>5 DEF Shown
  <2>7. Promise!Show(r)
    BY <1>1, <1>2, <1>3, <2>6 DEF Promise!Show, Phase, Shown
  <2> QED BY <2>7 DEF Promise!Next, Requests, Promise!Requests
<1> QED BY <1>4, <1>5

\* Every step is a step of the abstract exchange, or none.
LEMMA ExchangeStep ==
  ASSUME Inv, FailedIsUnseen', EchoMeansTaken', [Next]_vars
  PROVE  [Promise!Next]_(Promise!vars)
<1> USE DEF At
<1>1. CASE UNCHANGED <<req, inbox, wire>>
  BY <1>1, SameShown, Stutters DEF Phase
<1>2. ASSUME NEW r \in Requests, Turn(r)
      PROVE  [Promise!Next]_(Promise!vars)
  BY <1>2, TurnPhase, SendShows, RequestMoves
<1>3. ASSUME NEW r \in Requests, Arrive(r)
      PROVE  [Promise!Next]_(Promise!vars)
  <2>1. SameExcept(r)
    BY <1>3, OthersSame DEF Inv, SameExcept, Phase
  <2>2. Phase(r) = "new" /\ UNCHANGED <<wire, inbox>>
    BY <1>3 DEF Arrive, Refuse, UserPost, BotReply, Resync, Outside, gateway, Phase
  <2>3. Phase(r)' \in {"open", "ok", "error"}
    <3>1. ASSUME NEW code \in Codes, Answer(r, code)
          PROVE  req'[r].pc = "answered"
      BY <3>1, AnswerFacts DEF Inv, Moves
    <3>2. ASSUME Goto(r, "store")
          PROVE  req'[r].pc = "store"
      BY <3>2, GotoFacts DEF Inv, Moves, PCs
    <3>3. ASSUME NEW c \in Convs, NEW typing \in BOOLEAN, NEW form \in Forms,
                 UserPost(r, c, typing, form)
          PROVE  req'[r].pc \in {"upload", "number"}
      BY <3>3, PostFacts DEF Inv, Starts
    <3>4. ASSUME NEW c \in Convs, NEW typing \in BOOLEAN, BotReply(r, c, typing)
          PROVE  req'[r].pc = "number"
      BY <3>4, ReplyFacts DEF Inv, Starts
    <3>5. req'[r].pc \in {"answered", "store", "upload", "number"}
      BY <1>3, <3>1, <3>2, <3>3, <3>4 DEF Arrive, Refuse, Resync, Codes
    <3> QED BY <3>5 DEF Phase
  <2> QED BY <2>1, <2>2, <2>3, RequestMoves
<1>4. CASE Connections \/ (\E c \in Convs : KeyExpires(c))
           \/ \E r \in Requests : Counter(r) \/ CounterResends(r)
  <2>1. UNCHANGED <<req, inbox, wire>>
    BY <1>4 DEF Connections, KeyExpires, Counter, CounterResends, own, gateway,
                G!Connections, G!HandleConnection, G!Register, G!Refuse, G!PeerLeaves, G!HandleClose
  <2> QED BY <1>1, <2>1
<1>5. ASSUME NEW r \in Requests, BotTakes(r)
      PROVE  [Promise!Next]_(Promise!vars)
  <2>1. r \in Posts /\ req[r].pc # "new"
    BY <1>5 DEF BotTakes, Inv, Filed, FiledOf
  <2>2. req' = req /\ wire' = wire /\ inbox' = inbox \cup {r}
    BY <1>5 DEF BotTakes, gateway
  <2>3. CASE r \in inbox
    BY <1>1, <2>2, <2>3
  <2>4. CASE r \notin inbox
    <3>1. Shown' = Shown /\ \A q \in Requests : Phase(q)' = Phase(q)
      BY <2>2, SameShown DEF Phase
    <3>2. Promise!Take(r)
      BY <2>1, <2>2, <2>4, <3>1 DEF Promise!Take, Promise!Requests, Phase, Shown
    <3> QED BY <3>2 DEF Promise!Next, Promise!Requests, Requests
  <2> QED BY <2>3, <2>4
<1>6. CASE Restart
  <2>1. inbox' = inbox /\ wire' = wire
    BY <1>6 DEF Restart, Outside, G!Restart
  <2>2. \A r \in Requests : Phase(r)' = IF Phase(r) = "open" THEN "lost" ELSE Phase(r)
    BY <1>6, RestartFacts DEF Inv, Phase
  <2>3. Promise!Restart
    BY <2>1, <2>2, SameShown DEF Promise!Restart, Promise!Requests, Requests, Phase, Shown
  <2> QED BY <2>3 DEF Promise!Next
<1> QED BY <1>1, <1>2, <1>3, <1>4, <1>5, <1>6 DEF Next, Steps, vars, own, gateway

\* The relay implements Exchange, step by step: the answer to a request, the bot that
\* takes the activity and the client that is shown it agree as Exchange says, however
\* requests, sockets, timers and a restart interleave.
THEOREM RelayImplementsExchange == Spec => Promise!Init /\ [][Promise!Next]_(Promise!vars)
<1>1. Init => Promise!Init
  <2> SUFFICES ASSUME Init
               PROVE  Promise!Init
    OBVIOUS
  <2>1. \A r \in Requests : Phase(r) = "new" /\ ~OnStream(r)
    <3>1. \A r \in Requests : Phase(r) = "new"
      BY DEF Init, Phase, At
    <3>2. \A s \in Sockets : DOMAIN wire[s] = {}
      <4>1. wire \in [Sockets -> Seq(Requests)] /\ \A s \in Sockets : Len(wire[s]) = 0
        BY DEF Init, G!Init
      <4>2. \A s \in Sockets : DOMAIN wire[s] = 1..0
        BY <4>1
      <4> QED BY <4>2
    <3> QED BY <3>1, <3>2 DEF OnStream
  <2>2. Shown = {} /\ inbox = {}
    BY <2>1 DEF Init, Shown
  <2>3. [r \in Requests |-> Phase(r)] = [r \in Requests |-> "new"]
    BY <2>1
  <2> QED BY <2>2, <2>3 DEF Promise!Init, Promise!Requests, Requests, Phase, Shown, At
<1>2. Inv /\ FailedIsUnseen' /\ EchoMeansTaken' /\ [Next]_vars => [Promise!Next]_(Promise!vars)
  BY ExchangeStep
<1> QED
  BY <1>1, <1>2, Invariance, RelayFailedIsUnseen, RelayEchoMeansTaken, PTL DEF Spec

=============================================================================
