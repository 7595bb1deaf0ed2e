------------------------------ MODULE AdminClient ------------------------------
(***************************************************************************)
(* The administrator's pages in one tab, on top of Session: the hook       *)
(* useFetch, the page handlers that change something and fetch again, and  *)
(* the calls under way.  A call survives the page that made it: its answer *)
(* is then ignored by the screen, but not by the interceptor, and a change *)
(* is still made and still followed by its refetch.                        *)
(*                                                                         *)
(* What a page shows is a set of items; an edit replaces an item, and the  *)
(* page of one bot shows that bot's only item.  Every page is one of Urls: *)
(* the list of bots, and for each bot its details, credentials and         *)
(* channels.  Alerts, texts and the two counts on a bot's page, which are  *)
(* queries of the same hook that nothing fetches again, are left out.      *)
(***************************************************************************)
EXTENDS Session, Integers

CONSTANTS Urls,         \* the pages, records of a kind and a bot
          Calls,        \* slots for calls under way
          Scenarios,    \* model bounds, one of which is chosen at the beginning: the
                        \* pages visited, the tokens, whether other tabs sign in and
                        \* out, and the number of items made
          NoView, NoUrl

ASSUME AdminClientAssumption ==
  /\ Calls \subseteq Nat /\ NoUrl \notin Urls
  /\ Scenarios \subseteq [urls : SUBSET Urls, tokens : SUBSET Tokens,
                            tabs : BOOLEAN, items : Nat]

Items == UNION {0..s.items : s \in Scenarios}

VARIABLES scene,        \* the scenario
          rows,         \* the server's tables, by the page that shows them
          made,         \* items made so far
          url,          \* the page, shown or to be shown after signing in
          view,         \* useFetch: data, unless it is loading and hides them
          loading,      \* useFetch: loading
          dialog,       \* the dialog that is open, named for what it submits
          filled,       \* the page whose data filled the form of an update
          target,       \* the item it replaces
          secret,       \* the new secret in the dialog
          busy,         \* a form is being submitted
          call,         \* calls under way
          crossed,      \* history: a refetch may answer for another bot's page
          astray,       \* history: the form may belong to another bot
          overlap,      \* history: two queries were under way at once
          missed        \* history: a change was made behind the page's back

screen == <<view, loading, dialog, filled, target, secret, busy>>
notes  == <<crossed, astray, overlap, missed>>
server == <<rows, made>>
vars   == <<scene, session, server, url, screen, call, notes>>

\* how: which code sent it.  An update replaces del by add.  live: the page that
\* made the call, and for an effect the run of that effect, is still there.
Ops  == {"load", "create", "update", "delete"}
Hows == {"effect", "submit", "row", "done"}
Idle == [st |-> "idle"]
Request == [st : {"sent", "ok", "refused", "failed"}, op : Ops, how : Hows,
            url : Urls \cup {NoUrl}, del : SUBSET Items, add : SUBSET Items,
            tok : Tokens \cup {None, Old}, live : BOOLEAN, got : SUBSET Items]

TypeOK ==
  /\ SessionTypeOK /\ scene \in Scenarios
  /\ rows \in [Urls -> SUBSET Items] /\ made \in Items
  /\ url \in Urls
  /\ view = NoView \/ (~loading /\ view \in [url : Urls, items : SUBSET Items])
  /\ loading \in BOOLEAN /\ busy \in BOOLEAN
  /\ dialog \in {"none", "create", "update", "secret"}
  /\ filled \in Urls \cup {NoUrl}
  /\ target \subseteq Items /\ secret \subseteq Items
  /\ \A c \in Calls : call[c] = Idle \/ call[c] \in Request
  /\ {crossed, astray, overlap, missed} \subseteq BOOLEAN

-----------------------------------------------------------------------------
(* Calls, the hook useFetch *)

Free(c) == call[c] = Idle
Live(c) == ~Free(c) /\ call[c].live
Querying(c) == Live(c) /\ call[c].op = "load"

\* Slots are alike: a new call takes the first that is free.
Slot(c) == Free(c) /\ \A k \in Calls : k < c => ~Free(k)

\* The request interceptor attaches the token that is stored.
Sent(op, how, u, del, add, tok, live) ==
  [st |-> "sent", op |-> op, how |-> how, url |-> u, del |-> del, add |-> add,
   tok |-> tok, live |-> live, got |-> {}]

Query(how, u, tok) == Sent("load", how, u, {}, {}, tok, TRUE)

\* A query that nobody heeds any more: only the answer 401 to it matters.
Unheeded(tok) == Sent("load", "effect", NoUrl, {}, {}, tok, FALSE)

\* The screen a call was made for is gone.
Abandoned(q) ==
  IF q = Idle \/ (q.op = "load" /\ q.st \in {"ok", "failed"}) THEN Idle
  ELSE IF q.op = "load" THEN [Unheeded(q.tok) EXCEPT !.st = q.st]
  ELSE [q EXCEPT !.live = FALSE]

\* A query that the page will heed is sent: history.
NoteQuery(c) == /\ overlap' = \E k \in Calls \ {c} : Querying(k)
                /\ missed' = FALSE

\* The state of a page is gone, or not yet there.
Blank == /\ view' = NoView
         /\ dialog' = "none" /\ filled' = NoUrl /\ target' = {} /\ secret' = {}
         /\ busy' = FALSE
         /\ crossed' = FALSE /\ astray' = FALSE /\ overlap' = FALSE /\ missed' = FALSE

\* A page appears, and its effect runs.
Mount(c, u, tok) ==
  /\ Blank /\ loading' = TRUE
  /\ call' = [k \in Calls |-> IF k = c THEN Query("effect", u, tok) ELSE Abandoned(call[k])]

\* The page gives way to the login page (RequireAuth).
Unmount(done) ==
  /\ Blank /\ loading' = FALSE
  /\ call' = [k \in Calls |-> IF k \in done THEN Idle ELSE Abandoned(call[k])]

\* executeQuery, in the slot of the call it follows.
ExecuteQuery(c, how, u, live) ==
  \/ /\ live
     /\ call' = [call EXCEPT ![c] = Query(how, u, stored)]
     /\ loading' = TRUE /\ view' = NoView /\ NoteQuery(c)
  \/ /\ ~live
     /\ call' = [call EXCEPT ![c] = Unheeded(stored)]
     /\ UNCHANGED <<view, loading, overlap, missed>>

Init ==
  /\ scene \in Scenarios
  /\ SessionInit /\ stored \in scene.tokens \cup {None, Old}
  /\ rows = [u \in Urls |-> {0}] /\ made = 0
  /\ url \in scene.urls
  /\ view = NoView /\ dialog = "none" /\ filled = NoUrl /\ target = {} /\ secret = {}
  /\ busy = FALSE /\ loading = auth
  /\ crossed = FALSE /\ astray = FALSE /\ overlap = FALSE /\ missed = FALSE
  /\ LET first == CHOOSE c \in Calls : \A k \in Calls : c <= k IN
     call = [c \in Calls |-> IF auth /\ c = first THEN Query("effect", url, stored) ELSE Idle]

-----------------------------------------------------------------------------
(* The session *)

NewToken(tok) ==
  tok \in scene.tokens \ ({stored, login.tok} \cup {call[c].tok : c \in {k \in Calls : ~Free(k)}})

\* The pages appear, at the place where the tab was.
Enter(c) ==
  /\ SignedIn /\ Slot(c)
  /\ Mount(c, url, login.tok)
  /\ UNCHANGED <<server, url>>

SignOut ==
  /\ auth /\ Unauthorized /\ UNCHANGED login /\ Unmount({})
  /\ UNCHANGED <<server, url>>

\* Mutant: the interceptor does not look at the status.
RejectedForAnyError(c) ==
  /\ ~Free(c) /\ call[c].st \in {"refused", "failed"}
  /\ Unauthorized /\ UNCHANGED login /\ Unmount({c})
  /\ UNCHANGED <<server, url>>

\* Any answer 401 in this tab.
Rejected(c) ==
  /\ ~Free(c) /\ call[c].st = "refused"
  /\ Unauthorized /\ UNCHANGED login /\ Unmount({c})
  /\ UNCHANGED <<server, url>>

\* The login page, and the other tabs.
Elsewhere ==
  /\ \/ SubmitLogin \/ LoginRefused \/ DenyUserToken
     \/ \E tok \in Tokens : NewToken(tok) /\ GenerateUserToken(tok)
     \/ scene.tabs /\ (OtherClears \/ \E tok \in Tokens : NewToken(tok) /\ OtherSignsIn(tok))
  /\ UNCHANGED <<server, url, screen, call, notes>>

TokenExpires(tok) ==
  /\ ~NewToken(tok) /\ Expire(tok)
  /\ call' = [c \in Calls |-> IF Free(c) THEN Idle ELSE [call[c] EXCEPT !.tok = Aged(tok, @)]]
  /\ UNCHANGED <<server, url, screen, notes>>

-----------------------------------------------------------------------------
(* Navigation *)

\* A link or the browser's history leads to a page of another route.
Go(c, u) ==
  /\ auth /\ Slot(c) /\ u.kind # url.kind
  /\ url' = u
  /\ Mount(c, u, stored)
  /\ UNCHANGED <<session, server>>

\* Mutant: the effect of the former bot is not told that it is over.
JumpUnnoticed(c, u) ==
  /\ auth /\ Slot(c) /\ u.kind = url.kind /\ u # url
  /\ url' = u /\ loading' = TRUE /\ view' = NoView
  /\ call' = [call EXCEPT ![c] = Query("effect", u, stored)]
  /\ crossed' = \E k \in Calls : Live(k) /\ call[k].how # "effect" /\ call[k].url # u
  /\ astray' = (astray \/ dialog = "update")
  /\ NoteQuery(c)
  /\ UNCHANGED <<session, server, dialog, filled, target, secret, busy>>

\* The history leads to the same route for another bot: the page stays with its
\* state, and the effect runs again.
Jump(c, u) ==
  /\ auth /\ Slot(c) /\ u.kind = url.kind /\ u # url
  /\ url' = u /\ loading' = TRUE /\ view' = NoView
  /\ call' = [k \in Calls |->
                IF k = c THEN Query("effect", u, stored)
                ELSE IF Live(k) /\ call[k].how = "effect" THEN Abandoned(call[k])
                ELSE call[k]]
  /\ crossed' = \E k \in Calls : Live(k) /\ call[k].how # "effect" /\ call[k].url # u
  /\ astray' = (astray \/ dialog = "update")
  /\ overlap' = \E k \in Calls : Querying(k) /\ call[k].how # "effect"
  /\ missed' = FALSE
  /\ UNCHANGED <<session, server, dialog, filled, target, secret, busy>>

-----------------------------------------------------------------------------
(* What the pages change *)

IsList == url.kind # "bot"
Shown == auth /\ ~loading /\ view # NoView

\* A dialog covers the page; the page of a bot shows nothing while it loads.
OpenCreate ==
  /\ auth /\ IsList /\ dialog = "none" /\ made < scene.items
  /\ dialog' = "create"
  /\ UNCHANGED <<session, server, url, view, loading, filled, target, secret, busy, call, notes>>

\* The form of an update is filled from item i of the view.
Edit(i) ==
  /\ Shown /\ i \in view.items /\ dialog = "none" /\ made < scene.items
  /\ dialog' = "update" /\ filled' = view.url /\ target' = {i}
  /\ astray' = crossed
  /\ UNCHANGED <<session, server, url, view, loading, secret, busy, call,
                 crossed, overlap, missed>>

EditOfBots(i) == url.kind = "bots" /\ Edit(i)
EditOfBot(i)  == url.kind = "bot" /\ Edit(i)

CloseForm == dialog' = "none" /\ filled' = NoUrl /\ target' = {} /\ astray' = FALSE

Cancel ==
  /\ dialog \in {"create", "update"} /\ (IsList \/ Shown)
  /\ CloseForm
  /\ UNCHANGED <<session, server, url, view, loading, secret, busy, call,
                 crossed, overlap, missed>>

\* Mutant: the button of the dialog stays enabled.
SendAgain(c, op) ==
  /\ dialog = op /\ Slot(c) /\ made < scene.items
  /\ made' = made + 1 /\ busy' = TRUE
  /\ call' = [call EXCEPT ![c] = Sent(op, "submit", url, target, {made'}, stored, TRUE)]
  /\ UNCHANGED <<session, rows, url, view, loading, dialog, filled, target, secret, notes>>

\* The button of the dialog, disabled while busy, sends the form.
Send(c, op) ==
  /\ dialog = op /\ ~busy /\ Slot(c) /\ made < scene.items
  /\ made' = made + 1 /\ busy' = TRUE
  /\ call' = [call EXCEPT ![c] = Sent(op, "submit", url, target, {made'}, stored, TRUE)]
  /\ UNCHANGED <<session, rows, url, view, loading, dialog, filled, target, secret, notes>>

SubmitBots(c)    == url.kind = "bots" /\ (Send(c, "create") \/ Send(c, "update"))
SubmitBot(c)     == url.kind = "bot" /\ Shown /\ Send(c, "update")
CreateSecret(c)  == url.kind = "credentials" /\ Send(c, "create")
CreateChannel(c) == url.kind = "webchat" /\ Send(c, "create")

Submit(c) == SubmitBots(c) \/ SubmitBot(c) \/ CreateSecret(c) \/ CreateChannel(c)

\* onDelete, of item i of the list.
OnDelete(c, i) ==
  /\ Shown /\ i \in view.items /\ dialog = "none" /\ Slot(c)
  /\ call' = [call EXCEPT ![c] = Sent("delete", "row", url, {i}, {}, stored, TRUE)]
  /\ UNCHANGED <<session, server, url, screen, notes>>

DeleteBot(c, i)     == url.kind = "bots" /\ OnDelete(c, i)
DeleteSecret(c, i)  == url.kind = "credentials" /\ OnDelete(c, i)
DeleteChannel(c, i) == url.kind = "webchat" /\ OnDelete(c, i)

\* The secret is seen only here; closing the dialog fetches the list.
CloseSecret(c) ==
  /\ dialog = "secret" /\ Slot(c)
  /\ dialog' = "none" /\ secret' = {}
  /\ ExecuteQuery(c, "done", url, TRUE)
  /\ UNCHANGED <<session, server, url, filled, target, busy, crossed, astray>>

-----------------------------------------------------------------------------
(* The server *)

Answer(c, a) == call' = [call EXCEPT ![c] = IF a.live THEN a ELSE Abandoned(a)]

\* A query of a list or of a bot.
Read(c) ==
  LET q == call[c] IN
  /\ q.op = "load" /\ ~Refuses(q.tok)
  /\ Answer(c, [q EXCEPT !.st = "ok", !.got = IF q.live THEN rows[q.url] ELSE {}])
  /\ UNCHANGED <<rows, missed>>

\* What the request names is there.  A channel cannot be deleted: its id is not
\* the UUID the route demands.
Possible(q) ==
  /\ ~(q.op = "delete" /\ q.url.kind = "webchat")
  /\ q.url.kind = "bot" \/ q.del \subseteq rows[q.url]

\* A bot's page names the bot, whatever its form shows.
Replaced(q) == IF q.url.kind = "bot" THEN rows[q.url] ELSE q.del

\* The answer may be lost after the change was made.
Change(c) ==
  LET q == call[c] IN
  /\ q.op # "load" /\ ~Refuses(q.tok) /\ Possible(q)
  /\ rows' = [rows EXCEPT ![q.url] = (@ \ Replaced(q)) \cup q.add]
  /\ \/ Answer(c, [q EXCEPT !.st = "ok"]) /\ missed' = (missed \/ ~q.live)
     \/ Answer(c, [q EXCEPT !.st = "failed"]) /\ missed' = TRUE

Refuse(c) == Refuses(call[c].tok) /\ Answer(c, [call[c] EXCEPT !.st = "refused"])
Fails(c)  == ~Refuses(call[c].tok) /\ Answer(c, [call[c] EXCEPT !.st = "failed"])

Serve(c) ==
  /\ ~Free(c) /\ call[c].st = "sent"
  /\ Read(c) \/ Change(c) \/ ((Refuse(c) \/ Fails(c)) /\ UNCHANGED <<rows, missed>>)
  /\ UNCHANGED <<session, made, url, screen, crossed, astray, overlap>>

-----------------------------------------------------------------------------
(* Answers that arrive, other than 401 *)

\* Mutant: an error leaves the page loading.
LoadedOnly(c) ==
  LET q == call[c] IN
  /\ q.op = "load"
  /\ view' = IF q.st = "ok" THEN [url |-> q.url, items |-> q.got] ELSE NoView
  /\ loading' = (loading /\ q.st # "ok")
  /\ busy' = (busy /\ q.how # "submit")
  /\ call' = [call EXCEPT ![c] = Idle]
  /\ UNCHANGED <<dialog, filled, target, secret, notes>>

\* setState after the query; a query nobody heeds has been freed by its answer.
Loaded(c) ==
  LET q == call[c] IN
  /\ q.op = "load"
  /\ view' = IF q.st = "ok" THEN [url |-> q.url, items |-> q.got] ELSE NoView
  /\ loading' = FALSE
  /\ busy' = (busy /\ q.how # "submit")
  /\ call' = [call EXCEPT ![c] = Idle]
  /\ UNCHANGED <<dialog, filled, target, secret, notes>>

\* create of CredentialsPage opens the dialog with the secret.
ShowSecret(c) ==
  LET q == call[c] IN
  /\ q.op = "create" /\ q.url.kind = "credentials" /\ q.st = "ok"
  /\ call' = [call EXCEPT ![c] = Idle]
  /\ \/ q.live /\ dialog' = "secret" /\ secret' = q.add /\ busy' = FALSE
     \/ ~q.live /\ UNCHANGED <<dialog, secret, busy>>
  /\ UNCHANGED <<view, loading, filled, target, notes>>

\* Mutant: the page relies on what it showed before.
NoRefetch(c) ==
  LET q == call[c] IN
  /\ q.op # "load" /\ ~(q.op = "create" /\ q.url.kind = "credentials") /\ q.st = "ok"
  /\ call' = [call EXCEPT ![c] = Idle]
  /\ \/ q.live /\ dialog = q.op /\ CloseForm
     \/ ~(q.live /\ dialog = q.op) /\ UNCHANGED <<dialog, filled, target, astray>>
  /\ busy' = (busy /\ ~(q.live /\ q.how = "submit"))
  /\ UNCHANGED <<view, loading, secret, crossed, overlap, missed>>

\* The other changes close their dialog, if it is open, and await the refetch.
Refetch(c) ==
  LET q == call[c] IN
  /\ q.op # "load" /\ ~(q.op = "create" /\ q.url.kind = "credentials") /\ q.st = "ok"
  /\ ExecuteQuery(c, q.how, q.url, q.live)
  /\ \/ q.live /\ dialog = q.op /\ CloseForm
     \/ ~(q.live /\ dialog = q.op) /\ UNCHANGED <<dialog, filled, target, astray>>
  /\ UNCHANGED <<secret, busy, crossed>>

ChangeFailed(c) ==
  LET q == call[c] IN
  /\ q.op # "load" /\ q.st = "failed"
  /\ call' = [call EXCEPT ![c] = Idle]
  /\ busy' = (busy /\ ~(q.live /\ q.how = "submit"))
  /\ UNCHANGED <<view, loading, dialog, filled, target, secret, notes>>

Arrive(c) ==
  /\ ~Free(c) /\ call[c].st \in {"ok", "failed"}
  /\ Loaded(c) \/ ShowSecret(c) \/ Refetch(c) \/ ChangeFailed(c)
  /\ UNCHANGED <<session, server, url>>

-----------------------------------------------------------------------------

Step ==
  \/ Elsewhere \/ SignOut \/ \E tok \in Tokens : TokenExpires(tok)
  \/ OpenCreate \/ Cancel \/ \E i \in Items : EditOfBots(i) \/ EditOfBot(i)
  \/ \E c \in Calls :
       \/ Enter(c) \/ Rejected(c) \/ Serve(c) \/ Arrive(c)
       \/ \E u \in scene.urls : Go(c, u) \/ Jump(c, u)
       \/ Submit(c) \/ CloseSecret(c)
       \/ \E i \in Items : DeleteBot(c, i) \/ DeleteSecret(c, i) \/ DeleteChannel(c, i)

Next == Step /\ UNCHANGED scene

\* The server answers or the connection fails, and the answer is handled.
Fairness == \A c \in Calls : /\ WF_vars(Serve(c) /\ UNCHANGED scene)
                             /\ WF_vars((Arrive(c) \/ Rejected(c)) /\ UNCHANGED scene)

Spec == Init /\ [][Next]_vars /\ Fairness

-----------------------------------------------------------------------------
(* Properties *)

\* If this tab was the last to change the store, the pages are shown exactly when
\* a token is stored; they disagree only on account of another tab.
LastWriterAgrees == mine => (auth <=> stored # None)

\* A session that the server still accepts ends by signing out, by another tab or
\* a refused sign-in, or by the late 401 of a request that carried another token
\* or none; never by its own requests, whatever their answers.
EndsForAReason ==
  [][stored' = None /\ stored \in Tokens
     => SignOut \/ LoginRefused \/ OtherClears
        \/ (\E c \in Calls : Rejected(c) /\ call[c].tok # stored)]_vars

\* What is shown belongs to the page's bot, unless the administrator went to
\* another bot while a change or a refetch was under way.
ViewOfUrl == Shown /\ view.url # url => crossed

\* When nothing is under way any more, a page shows the outcome of the changes
\* made on it, unless two of its queries overlapped, an answer was lost, or a
\* change was made by a page left before.
QuietViewIsCurrent ==
  Shown /\ view.url = url /\ dialog # "secret" /\ (\A c \in Calls : ~Live(c))
    => overlap \/ missed \/ view.items = rows[url]

\* A new secret, which is shown once, stays on the screen until the administrator
\* closes it or leaves the page, or the session ends.
SecretStays ==
  [][secret # {} /\ secret' # secret
     => ~auth' \/ url'.kind # url.kind \/ (\E c \in Calls : CloseSecret(c))]_vars

\* The form of an update is submitted for the bot whose data filled it, unless the
\* administrator went to another bot with the form open or on a crossed page.
EditsStayHome ==
  [][\A c \in Calls : Submit(c) /\ dialog = "update" /\ filled # url => astray]_vars

\* A page does not load for ever, unless the administrator never stays on one.
LoadingEnds == []<>~loading \/ []<><<url' # url>>_url
===============================================================================
