--------------------------- MODULE AdminClientProofs --------------------------
(***************************************************************************)
(* Proofs about AdminClient, for every number of pages, tokens, calls and  *)
(* items, and every scenario.                                              *)
(***************************************************************************)
EXTENDS AdminClient, TLAPS

\* A sign-in is under way only while the login page is shown, and ends with a token;
\* the pages and the store agree if this tab changed the store last.
SessionOK ==
  /\ login.st = "ok" => login.tok # None
  /\ auth => login = NoLogin
  /\ LastWriterAgrees

\* A call that the page heeds is about a page; a query that nobody heeds ends with its
\* answer; a form is what makes an item; only a token that is not good is refused.
Good(q) ==
  q # Idle => /\ q \in Request
              /\ q.live => q.url \in Urls
              /\ q.op = "load" /\ q.st \in {"ok", "failed"} => q.live
              /\ q.op = "create" => q.how = "submit"
              /\ q.st = "refused" => Refuses(q.tok)

CallsOK == call = [c \in Calls |-> call[c]] /\ \A c \in Calls : Good(call[c])

\* The page that heeds a call, or has a dialog open, is shown; what is shown or fetched
\* for another page is there because the page was crossed.
Own ==
  /\ \A c \in Calls : Live(c) => auth /\ (call[c].url # url => crossed)
  /\ view # NoView /\ view.url # url => crossed
  /\ dialog # "none" => auth

\* A form that another page filled is astray.
Form == dialog = "update" /\ filled # url => astray

\* One form at a time is on its way, and none while a secret is shown.
OnItsWay(c) == Live(c) /\ call[c].how = "submit"

Submitting ==
  /\ \A c \in Calls : OnItsWay(c) => busy /\ dialog # "secret"
  /\ \A c, d \in Calls : OnItsWay(c) /\ OnItsWay(d) => c = d

Secret == secret # {} => dialog = "secret"

\* A change was made whose answer will make the page fetch again.
Changed(c) == Live(c) /\ call[c].op # "load" /\ call[c].st = "ok"

\* What is shown, or read and about to be shown, is what the server has, unless a
\* change is still to be answered, or its secret to be closed.
Current ==
  overlap \/ missed \/ dialog = "secret" \/ (\E c \in Calls : Changed(c))
  \/ /\ view # NoView /\ view.url = url => view.items = rows[url]
     /\ \A c \in Calls : Querying(c) /\ call[c].st = "ok" /\ call[c].url = url
                         => call[c].got = rows[url]

AnyToken == Tokens \cup {None, Old}
ItemSets == SUBSET Items

\* TypeOK, cut by what the actions change.
BaseOK == /\ scene \in Scenarios /\ rows \in [Urls -> ItemSets] /\ made \in Items
          /\ url \in Urls
ViewOK == /\ view = NoView \/ (~loading /\ view \in [url : Urls, items : ItemSets])
          /\ loading \in BOOLEAN
DialogOK == /\ dialog \in {"none", "create", "update", "secret"} /\ busy \in BOOLEAN
            /\ filled \in Urls \cup {NoUrl} /\ target \in ItemSets /\ secret \in ItemSets
NotesOK == crossed \in BOOLEAN /\ astray \in BOOLEAN /\ overlap \in BOOLEAN /\ missed \in BOOLEAN

Typed   == CallsOK /\ ViewOK /\ DialogOK /\ NotesOK
Screens == Own /\ Form /\ Submitting /\ Secret /\ Current
Inv     == BaseOK /\ SessionTypeOK /\ SessionOK /\ Typed /\ Screens

\* The parts of the invariant give every variable its type.
LEMMA InvType == Inv => TypeOK
  BY DEF Inv, BaseOK, Typed, CallsOK, Good, ViewOK, DialogOK, NotesOK, TypeOK, ItemSets

-----------------------------------------------------------------------------
(* Calls *)

Dead(q) == q = Idle \/ ~q.live

\* A slot without a call is no request.
LEMMA IdleFacts == Idle \notin Request /\ Good(Idle) /\ Dead(Idle)
<1>1. Idle.st = "idle"
  BY DEF Idle
<1>2. \A q \in Request : q.st # "idle"
  BY DEF Request
<1> QED BY <1>1, <1>2 DEF Good, Dead

\* A call that has just been sent for a page that is there.
New(q, op, how, u) ==
  /\ Good(q) /\ q # Idle /\ q.st = "sent" /\ q.op = op /\ q.how = how /\ q.url = u
  /\ q.live = TRUE

\* executeQuery sends a new call that the page heeds.
LEMMA QueryFacts ==
  ASSUME NEW how \in Hows, NEW u \in Urls, NEW tok \in AnyToken
  PROVE  New(Query(how, u, tok), "load", how, u)
<1> DEFINE q == Query(how, u, tok)
<1>1. q \in Request
  BY DEF Query, Sent, Request, Ops, AnyToken
<1>2. /\ q # Idle /\ q.st = "sent" /\ q.op = "load" /\ q.how = how /\ q.url = u
      /\ q.tok = tok /\ q.live = TRUE
  BY <1>1, IdleFacts DEF Query, Sent
<1> HIDE DEF q
<1>3. Good(q)
  BY <1>1, <1>2 DEF Good
<1>4. New(q, "load", how, u)
  BY <1>2, <1>3 DEF New
<1> QED BY <1>4 DEF q

\* A query without a page is heeded by nobody.
LEMMA UnheededFacts ==
  ASSUME NEW tok \in AnyToken, NEW q, q = Unheeded(tok)
  PROVE  /\ Good(q) /\ Dead(q) /\ q \in Request /\ q.st = "sent" /\ q.op = "load"
         /\ q.live = FALSE /\ q.how = "effect" /\ q.tok = tok
<1>1. q \in Request
  BY DEF Unheeded, Sent, Request, Ops, Hows, AnyToken
<1>2. /\ q # Idle /\ q.st = "sent" /\ q.op = "load" /\ q.how = "effect"
      /\ q.tok = tok /\ q.live = FALSE
  BY <1>1, IdleFacts DEF Unheeded, Sent
<1>3. Good(q) /\ Dead(q)
  BY <1>1, <1>2 DEF Good, Dead
<1> QED BY <1>1, <1>2, <1>3

\* A call whose screen is gone is still a call, which nobody heeds.
LEMMA AbandonedFacts ==
  ASSUME NEW q, Good(q)
  PROVE  Good(Abandoned(q)) /\ Dead(Abandoned(q))
<1>1. CASE Abandoned(q) = Idle
  BY <1>1, IdleFacts
<1>2. CASE q # Idle /\ q.op = "load" /\ q.st \notin {"ok", "failed"}
  <2>1. q \in Request /\ q.tok \in AnyToken /\ q.st \in {"sent", "refused"}
    BY <1>2 DEF Good, Request, AnyToken
  <2> DEFINE u == Unheeded(q.tok)
             a == [u EXCEPT !.st = q.st]
  <2>2. /\ Good(u) /\ Dead(u) /\ u \in Request /\ u.st = "sent" /\ u.op = "load"
        /\ u.live = FALSE /\ u.how = "effect" /\ u.tok = q.tok
    BY <2>1, UnheededFacts
  <2> HIDE DEF u
  <2>3. /\ a \in Request /\ a.st = q.st /\ a.op = "load" /\ a.live = FALSE /\ a.how = "effect"
        /\ a.tok = q.tok
    BY <2>1, <2>2 DEF Request
  <2>4. Abandoned(q) = a
    BY <1>2 DEF Abandoned, u
  <2> HIDE DEF a
  <2> QED BY <1>2, <2>3, <2>4 DEF Good, Dead
<1>3. CASE q # Idle /\ q.op # "load"
  <2> DEFINE a == [q EXCEPT !.live = FALSE]
  <2>1. q \in Request
    BY <1>3 DEF Good
  <2>2. /\ a \in Request /\ a.st = q.st /\ a.op = q.op /\ a.live = FALSE /\ a.how = q.how
        /\ a.tok = q.tok
    BY <2>1 DEF Request
  <2>3. Abandoned(q) = a
    BY <1>3 DEF Abandoned
  <2> HIDE DEF a
  <2> QED BY <1>3, <2>2, <2>3 DEF Good, Dead
<1> QED BY <1>1, <1>2, <1>3 DEF Abandoned

\* What the server makes of a call.
LEMMA AnsweredFacts ==
  ASSUME NEW q \in Request, Good(q), NEW st \in {"ok", "refused", "failed"},
         NEW got \in SUBSET Items, NEW a \in Request,
         a.st = st, a.op = q.op, a.how = q.how, a.url = q.url, a.tok = q.tok, a.live = q.live,
         st = "refused" => Refuses(q.tok)
  PROVE  /\ a.live => Good(a) /\ ~Dead(a)
         /\ ~a.live => Good(Abandoned(a)) /\ Dead(Abandoned(a))
<1>1. q # Idle /\ a # Idle
  BY IdleFacts
<1>2. CASE a.live
  BY <1>1, <1>2 DEF Good, Dead
<1>3. CASE ~a.live /\ ~(a.op = "load" /\ st \in {"ok", "failed"})
  <2>1. Good(a)
    BY <1>1, <1>3 DEF Good
  <2> QED BY <1>3, <2>1, AbandonedFacts
<1>4. CASE ~a.live /\ a.op = "load" /\ st \in {"ok", "failed"}
  <2>1. Abandoned(a) = Idle
    BY <1>4 DEF Abandoned
  <2> QED BY <1>4, <2>1, IdleFacts
<1> QED BY <1>2, <1>3, <1>4

-----------------------------------------------------------------------------
(* Pages that come and go *)

\* Only an empty page is left, and only the calls of alive are heeded.
LEMMA BlankKeeps ==
  ASSUME Blank, loading' \in BOOLEAN, CallsOK', NEW alive \in SUBSET Calls,
         \A k \in Calls : Live(k)' => k \in alive,
         \A k \in alive : call'[k].url = url' /\ call'[k].st = "sent" /\ call'[k].how = "effect",
         alive # {} => auth'
  PROVE  Typed' /\ Screens'
<1>1. ViewOK' /\ DialogOK' /\ NotesOK'
  BY DEF Blank, ViewOK, DialogOK, NotesOK, ItemSets
<1>2. Own' /\ Form' /\ Submitting' /\ Secret'
  BY DEF Blank, Own, Form, Submitting, OnItsWay, Secret
<1>3. Current'
  BY DEF Blank, Current, Querying
<1> QED BY <1>1, <1>2, <1>3 DEF Typed, Screens

\* A page that appears is empty, and heeds only the query of its effect.
LEMMA MountKeeps ==
  ASSUME CallsOK, NEW c \in Calls, NEW u \in Urls, NEW tok \in AnyToken, Mount(c, u, tok),
         url' = u, auth'
  PROVE  Typed' /\ Screens'
<1> DEFINE q == Query("effect", u, tok)
<1>1. /\ call' = [k \in Calls |-> IF k = c THEN q ELSE Abandoned(call[k])]
      /\ Blank /\ loading' \in BOOLEAN
  BY DEF Mount
<1> HIDE DEF q
<1>2. Good(q) /\ q # Idle /\ q.st = "sent" /\ q.how = "effect" /\ q.url = u
  <2>1. q = Query("effect", u, tok) /\ "effect" \in Hows
    BY DEF q, Hows
  <2>2. New(q, "load", "effect", u)
    BY <2>1, QueryFacts
  <2> QED BY <2>2 DEF New
<1>3. \A k \in Calls : Good(Abandoned(call[k])) /\ Dead(Abandoned(call[k]))
  BY AbandonedFacts DEF CallsOK
<1>4. CallsOK' /\ \A k \in Calls : Live(k)' => k \in {c}
  BY <1>1, <1>2, <1>3 DEF CallsOK, Live, Free, Dead
<1>5. \A k \in {c} : call'[k].url = url' /\ call'[k].st = "sent" /\ call'[k].how = "effect"
  BY <1>1, <1>2
<1>6. {c} \in SUBSET Calls
  OBVIOUS
<1> QED BY <1>1, <1>4, <1>5, <1>6, BlankKeeps

\* Once the login page is shown no call is heeded.
LEMMA UnmountKeeps ==
  ASSUME CallsOK, NEW done \in SUBSET Calls, Unmount(done)
  PROVE  Typed' /\ Screens'
<1>1. /\ call' = [k \in Calls |-> IF k \in done THEN Idle ELSE Abandoned(call[k])]
      /\ Blank /\ loading' \in BOOLEAN
  BY DEF Unmount
<1>2. \A k \in Calls : Good(Abandoned(call[k])) /\ Dead(Abandoned(call[k]))
  BY AbandonedFacts DEF CallsOK
<1>3. CallsOK' /\ \A k \in Calls : Live(k)' => k \in {}
  BY <1>1, <1>2, IdleFacts DEF CallsOK, Live, Free, Dead
<1>4. /\ {} \in SUBSET Calls
      /\ \A k \in {} : call'[k].url = url' /\ call'[k].st = "sent" /\ call'[k].how = "effect"
  OBVIOUS
<1> QED BY <1>1, <1>3, <1>4, BlankKeeps

\* The tab opens with the invariant.
LEMMA InitInv == Init => Inv
<1> SUFFICES ASSUME Init
             PROVE  Inv
  OBVIOUS
<1>1. SessionTypeOK /\ SessionOK
  BY SessionAssumption DEF Init, SessionInit, SessionTypeOK, SessionOK, NoLogin, LastWriterAgrees
<1>2. BaseOK
  <2>1. scene \in Scenarios /\ scene.urls \subseteq Urls /\ scene.items \in Nat
    BY AdminClientAssumption DEF Init
  <2>2. 0 \in Items
    BY <2>1 DEF Items
  <2> QED BY <2>1, <2>2 DEF Init, BaseOK, ItemSets
<1>3. ViewOK /\ DialogOK /\ NotesOK
  BY <1>1 DEF Init, ViewOK, DialogOK, NotesOK, ItemSets, SessionTypeOK
<1> DEFINE first == CHOOSE c \in Calls : \A k \in Calls : c <= k
           q == Query("effect", url, stored)
<1>4. call = [c \in Calls |-> IF auth /\ c = first THEN q ELSE Idle]
  BY DEF Init
<1> HIDE DEF first, q
<1>5. Good(q) /\ q # Idle /\ q.st = "sent" /\ q.how = "effect" /\ q.url = url
  <2>1. url \in Urls /\ stored \in AnyToken
    BY <1>1, <1>2 DEF BaseOK, SessionTypeOK, AnyToken
  <2>2. q = Query("effect", url, stored) /\ "effect" \in Hows
    BY DEF q, Hows
  <2>3. New(q, "load", "effect", url)
    BY <2>1, <2>2, QueryFacts
  <2> QED BY <2>3 DEF New
<1>6. CallsOK
  BY <1>4, <1>5, IdleFacts DEF CallsOK
<1>7. \A c \in Calls : Live(c) => auth /\ call[c] = q /\ c = first
  BY <1>4 DEF Live, Free
<1>8. Own /\ Form /\ Submitting /\ Secret /\ Current
  BY <1>5, <1>7 DEF Init, Own, Form, Submitting, OnItsWay, Secret, Current, Querying
<1> QED BY <1>1, <1>2, <1>3, <1>6, <1>8 DEF Inv, Typed, Screens

-----------------------------------------------------------------------------
(* Steps of the screen alone *)

\* Calls change in what the page does not look at, and nothing else changes.
LEMMA SameKeeps ==
  ASSUME Typed, Screens, CallsOK',
         \A c \in Calls : /\ Dead(call'[c]) <=> Dead(call[c])
                          /\ ~Dead(call[c]) => /\ call'[c].url = call[c].url
                                               /\ call'[c].how = call[c].how
                                               /\ call'[c].op = call[c].op
                                               /\ call'[c].st = call[c].st
                                               /\ call'[c].got = call[c].got,
         UNCHANGED <<auth, rows, url, screen, notes>>
  PROVE  Typed' /\ Screens'
<1>1. ViewOK' /\ DialogOK' /\ NotesOK'
  BY DEF screen, notes, Typed, ViewOK, DialogOK, NotesOK
<1>2. \A c \in Calls : /\ Live(c)' <=> Live(c)
                       /\ OnItsWay(c)' <=> OnItsWay(c)
                       /\ Querying(c)' <=> Querying(c)
                       /\ Changed(c)' <=> Changed(c)
                       /\ Live(c) => /\ call'[c].url = call[c].url /\ call'[c].st = call[c].st
                                     /\ call'[c].got = call[c].got
  BY DEF Dead, Live, Free, OnItsWay, Querying, Changed
<1>3. Own' /\ Form' /\ Submitting' /\ Secret'
  BY <1>2 DEF screen, notes, Screens, Own, Form, Submitting, Secret
<1>4. Current'
  <2>1. \A c \in Calls : Querying(c) => Live(c)
    BY DEF Querying
  <2> QED BY <1>2, <2>1 DEF screen, notes, Screens, Current
<1> QED BY <1>1, <1>3, <1>4 DEF Typed, Screens

\* A dialog other than that of a secret is opened or closed.
LEMMA DialogKeeps ==
  ASSUME Typed, Screens, dialog # "secret", dialog' # "secret", dialog' # "none" => auth,
         DialogOK', NotesOK', Form',
         UNCHANGED <<auth, rows, url, view, loading, secret, busy, call, crossed, overlap, missed>>
  PROVE  Typed' /\ Screens'
<1>1. CallsOK' /\ ViewOK'
  BY DEF Typed, CallsOK, ViewOK
<1>2. Own' /\ Submitting' /\ Secret'
  BY DEF Screens, Own, Submitting, OnItsWay, Secret, Live, Free
<1>3. Current'
  BY DEF Screens, Current, Querying, Changed, Live, Free
<1> QED BY <1>1, <1>2, <1>3 DEF Typed, Screens

\* A form opens over the page.
LEMMA OpenCreateKeeps ==
  ASSUME Typed, Screens, OpenCreate
  PROVE  Typed' /\ Screens'
<1>1. /\ DialogOK' /\ NotesOK' /\ Form'
      /\ dialog # "secret" /\ dialog' # "secret" /\ auth
  BY DEF OpenCreate, notes, Typed, DialogOK, NotesOK, Form
<1>2. UNCHANGED <<auth, rows, url, view, loading, secret, busy, call, crossed, overlap, missed>>
  BY DEF OpenCreate, session, server, notes
<1> QED BY <1>1, <1>2, DialogKeeps

\* The form of an update is filled from what is shown.
LEMMA EditKeeps ==
  ASSUME Typed, Screens, NEW i \in Items, Edit(i)
  PROVE  Typed' /\ Screens'
<1>1. view # NoView /\ view.url \in Urls
  BY DEF Edit, Shown, Typed, ViewOK
<1>2. DialogOK' /\ NotesOK' /\ dialog # "secret" /\ dialog' # "secret" /\ auth
  BY <1>1 DEF Edit, Shown, Typed, DialogOK, NotesOK, ItemSets
<1>3. Form'
  BY <1>1 DEF Edit, Form, Screens, Own
<1>4. UNCHANGED <<auth, rows, url, view, loading, secret, busy, call, crossed, overlap, missed>>
  BY DEF Edit, session, server
<1> QED BY <1>2, <1>3, <1>4, DialogKeeps

\* A form is closed without being sent.
LEMMA CancelKeeps ==
  ASSUME Typed, Screens, Cancel
  PROVE  Typed' /\ Screens'
<1>1. DialogOK' /\ NotesOK' /\ Form' /\ dialog # "secret" /\ dialog' = "none"
  BY DEF Cancel, CloseForm, Typed, DialogOK, NotesOK, Form, ItemSets
<1>2. UNCHANGED <<auth, rows, url, view, loading, secret, busy, call, crossed, overlap, missed>>
  BY DEF Cancel, session, server
<1> QED BY <1>1, <1>2, DialogKeeps

-----------------------------------------------------------------------------
(* Calls that are sent *)

\* A call is put into one slot; the others stay.
LEMMA SlotFacts ==
  ASSUME CallsOK, NEW c \in Calls, NEW q, Good(q), call' = [call EXCEPT ![c] = q]
  PROVE  CallsOK' /\ call'[c] = q /\ \A k \in Calls \ {c} : call'[k] = call[k]
<1>1. call = [k \in Calls |-> call[k]]
  BY DEF CallsOK
<1>2. call'[c] = q /\ \A k \in Calls \ {c} : call'[k] = call[k]
  BY <1>1
<1>3. call' = [k \in Calls |-> call'[k]]
  BY <1>1
<1> QED BY <1>2, <1>3 DEF CallsOK

\* A change is sent.
LEMMA SendingKeeps ==
  ASSUME Typed, Screens, auth, NEW c \in Calls, Free(c), NEW op \in {"create", "update", "delete"},
         NEW how, NEW q, New(q, op, how, url), call' = [call EXCEPT ![c] = q],
         how = "submit" => ~busy /\ busy' /\ dialog # "secret", how # "submit" => busy' = busy,
         busy' \in BOOLEAN,
         UNCHANGED <<auth, rows, url, view, loading, dialog, filled, target, secret, notes>>
  PROVE  Typed' /\ Screens'
<1>1. CallsOK' /\ call'[c] = q /\ \A k \in Calls \ {c} : call'[k] = call[k]
  BY SlotFacts DEF Typed, New
<1>2. q # Idle /\ q.op # "load" /\ q.st = "sent" /\ q.live /\ q.how = how /\ q.url = url
  BY DEF New
<1>3. ViewOK' /\ DialogOK' /\ NotesOK'
  BY DEF notes, Typed, ViewOK, DialogOK, NotesOK
<1>4. /\ \A k \in Calls \ {c} : /\ Live(k)' <=> Live(k)
                                /\ OnItsWay(k)' <=> OnItsWay(k)
                                /\ Querying(k)' <=> Querying(k)
                                /\ Changed(k)' <=> Changed(k)
      /\ ~Live(c) /\ ~OnItsWay(c) /\ ~Querying(c) /\ ~Changed(c)
      /\ Live(c)' /\ (OnItsWay(c)' <=> how = "submit") /\ ~Querying(c)' /\ ~Changed(c)'
  BY <1>1, <1>2 DEF Live, Free, OnItsWay, Querying, Changed
<1>5. Own' /\ Form' /\ Secret'
  BY <1>1, <1>2, <1>4 DEF notes, Screens, Own, Form, Secret
<1>6. Submitting'
  BY <1>4 DEF Screens, Submitting
<1>7. Current'
  BY <1>1, <1>4 DEF notes, Screens, Current
<1> QED BY <1>1, <1>3, <1>5, <1>6, <1>7 DEF Typed, Screens

\* A form or a row sends a new call that the page heeds.
LEMMA ChangeFacts ==
  ASSUME NEW op \in {"create", "update", "delete"}, NEW how \in {"submit", "row"},
         op = "create" => how = "submit", NEW u \in Urls, NEW del \in ItemSets,
         NEW add \in ItemSets, NEW tok \in AnyToken
  PROVE  New(Sent(op, how, u, del, add, tok, TRUE), op, how, u)
<1> DEFINE q == Sent(op, how, u, del, add, tok, TRUE)
<1>1. q \in Request
  BY DEF Sent, Request, Ops, Hows, AnyToken, ItemSets
<1>2. /\ q # Idle /\ q.st = "sent" /\ q.op = op /\ q.how = how /\ q.url = u
      /\ q.tok = tok /\ q.live = TRUE
  BY <1>1, IdleFacts DEF Sent
<1> HIDE DEF q
<1>3. Good(q)
  BY <1>1, <1>2 DEF Good
<1>4. New(q, op, how, u)
  BY <1>2, <1>3 DEF New
<1> QED BY <1>4 DEF q

\* Within the bound there is always another item to make.
LEMMA MadeFacts ==
  ASSUME BaseOK, made < scene.items
  PROVE  made + 1 \in Items /\ {made + 1} \in ItemSets
<1>1. scene \in Scenarios /\ scene.items \in Nat
  BY AdminClientAssumption DEF BaseOK
<1>2. \A s \in Scenarios : s.items \in Nat
  BY AdminClientAssumption
<1>3. made \in Nat
  BY <1>2 DEF BaseOK, Items
<1>4. made + 1 \in 0 .. scene.items
  BY <1>1, <1>3
<1> QED BY <1>1, <1>4 DEF Items, ItemSets

\* The button of a dialog sends its form.
LEMMA SendKeeps ==
  ASSUME BaseOK, SessionTypeOK, Typed, Screens, auth, NEW c \in Calls,
         NEW op \in {"create", "update"}, Send(c, op)
  PROVE  Typed' /\ Screens' /\ made' \in Items
<1> DEFINE q == Sent(op, "submit", url, target, {made'}, stored, TRUE)
<1>1. /\ made' = made + 1 /\ made < scene.items /\ ~busy /\ busy' /\ busy' \in BOOLEAN
      /\ dialog # "secret" /\ Free(c)
      /\ call' = [call EXCEPT ![c] = q]
      /\ UNCHANGED <<auth, rows, url, view, loading, dialog, filled, target, secret, notes>>
  BY DEF Send, Slot, session
<1>2. made' \in Items /\ {made'} \in ItemSets
  BY <1>1, MadeFacts
<1>3. url \in Urls /\ target \in ItemSets /\ stored \in AnyToken
  BY DEF BaseOK, Typed, DialogOK, SessionTypeOK, AnyToken
<1>4. New(q, op, "submit", url)
  BY <1>2, <1>3, ChangeFacts
<1> HIDE DEF q
<1> QED BY <1>1, <1>2, <1>4, SendingKeeps

\* onDelete sends the item of a row.
LEMMA OnDeleteKeeps ==
  ASSUME BaseOK, SessionTypeOK, Typed, Screens, NEW c \in Calls, NEW i \in Items, OnDelete(c, i)
  PROVE  Typed' /\ Screens'
<1> DEFINE q == Sent("delete", "row", url, {i}, {}, stored, TRUE)
<1>1. /\ auth /\ Free(c) /\ call' = [call EXCEPT ![c] = q]
      /\ UNCHANGED <<auth, rows, url, view, loading, dialog, filled, target, secret, busy, notes>>
  BY DEF OnDelete, Shown, Slot, session, server, screen
<1>2. url \in Urls /\ stored \in AnyToken /\ {i} \in ItemSets /\ {} \in ItemSets
  BY DEF BaseOK, SessionTypeOK, AnyToken, ItemSets
<1>3. New(q, "delete", "row", url)
  BY <1>2, ChangeFacts
<1> HIDE DEF q
<1>4. busy' \in BOOLEAN
  BY <1>1 DEF Typed, DialogOK
<1> QED BY <1>1, <1>3, <1>4, SendingKeeps

\* A query is sent in place of nothing, or of a call that has been answered.
LEMMA FetchKeeps ==
  ASSUME Typed, Screens, auth, NEW c \in Calls, NEW how, NEW u, NEW q, New(q, "load", how, u),
         call' = [call EXCEPT ![c] = q], u # url => crossed,
         loading' = TRUE, view' = NoView, NoteQuery(c),
         how = "submit" => OnItsWay(c), dialog' = "secret" => dialog = "secret",
         DialogOK', Form', Secret', UNCHANGED <<auth, rows, url, busy, crossed>>,
         astray' \in BOOLEAN
  PROVE  Typed' /\ Screens'
<1>1. CallsOK' /\ call'[c] = q /\ \A k \in Calls \ {c} : call'[k] = call[k]
  BY SlotFacts DEF Typed, New
<1>2. q # Idle /\ q.op = "load" /\ q.st = "sent" /\ q.live /\ q.how = how /\ q.url = u
  BY DEF New
<1>3. \A k \in Calls \ {c} : /\ Live(k)' <=> Live(k)
                             /\ OnItsWay(k)' <=> OnItsWay(k)
                             /\ Querying(k)' <=> Querying(k)
  BY <1>1 DEF Live, Free, OnItsWay, Querying
<1>4. Live(c)' /\ (OnItsWay(c)' => OnItsWay(c)) /\ call'[c].st # "ok"
  BY <1>1, <1>2 DEF Live, Free, OnItsWay
<1>5. overlap' = (\E k \in Calls \ {c} : Querying(k)) /\ missed' = FALSE
  BY DEF NoteQuery
<1>6. ViewOK' /\ NotesOK'
  BY <1>5 DEF Typed, ViewOK, NotesOK
<1>7. Own'
  BY <1>1, <1>2, <1>3 DEF Screens, Own
<1>8. Submitting'
  BY <1>3, <1>4 DEF Screens, Submitting
<1>9. Current'
  <2>1. CASE overlap'
    BY <2>1 DEF Current
  <2>2. CASE ~overlap'
    <3>1. \A k \in Calls : Querying(k)' => call'[k].st # "ok"
      BY <1>3, <1>4, <1>5, <2>2
    <3> QED BY <3>1 DEF Current
  <2> QED BY <2>1, <2>2
<1> QED BY <1>1, <1>6, <1>7, <1>8, <1>9 DEF Typed, Screens

\* Closing the dialog of a secret fetches the list.
LEMMA CloseSecretKeeps ==
  ASSUME BaseOK, SessionTypeOK, Typed, Screens, auth, NEW c \in Calls, CloseSecret(c)
  PROVE  Typed' /\ Screens'
<1> DEFINE q == Query("done", url, stored)
<1>1. /\ Free(c) /\ call' = [call EXCEPT ![c] = q] /\ loading' = TRUE /\ view' = NoView
      /\ NoteQuery(c) /\ dialog' = "none" /\ secret' = {}
      /\ UNCHANGED <<auth, rows, url, filled, target, busy, crossed, astray>>
  BY DEF CloseSecret, Slot, ExecuteQuery, session, server
<1>2. url \in Urls /\ stored \in AnyToken /\ "done" \in Hows
  BY DEF BaseOK, SessionTypeOK, AnyToken, Hows
<1>3. New(q, "load", "done", url)
  BY <1>2, QueryFacts
<1> HIDE DEF q
<1>4. DialogOK' /\ Form' /\ Secret' /\ astray' \in BOOLEAN
  BY <1>1 DEF Typed, DialogOK, NotesOK, Form, Secret, ItemSets
<1> QED BY <1>1, <1>3, <1>4, FetchKeeps

\* The history leads to another bot.
LEMMA JumpKeeps ==
  ASSUME SessionTypeOK, Typed, Screens, NEW c \in Calls, NEW u \in Urls, Jump(c, u)
  PROVE  Typed' /\ Screens'
<1> DEFINE q == Query("effect", u, stored)
           Stays(k) == k # c /\ ~(Live(k) /\ call[k].how = "effect")
<1>1. /\ auth /\ auth' = auth /\ rows' = rows /\ url' = u /\ loading' = TRUE /\ view' = NoView
      /\ call' = [k \in Calls |-> IF k = c THEN q
                                  ELSE IF Live(k) /\ call[k].how = "effect" THEN Abandoned(call[k])
                                  ELSE call[k]]
      /\ crossed' = \E k \in Calls : Live(k) /\ call[k].how # "effect" /\ call[k].url # u
      /\ astray' = (astray \/ dialog = "update")
      /\ overlap' = \E k \in Calls : Querying(k) /\ call[k].how # "effect"
      /\ missed' = FALSE /\ Free(c)
      /\ UNCHANGED <<dialog, filled, target, secret, busy>>
  BY DEF Jump, Slot, session, server
<1>2. q = Query("effect", u, stored) /\ stored \in AnyToken /\ "effect" \in Hows
  BY DEF SessionTypeOK, AnyToken, Hows
<1> HIDE DEF q
<1>3. Good(q) /\ q # Idle /\ q.st = "sent" /\ q.op = "load" /\ q.how = "effect" /\ q.url = u
  <2>1. New(q, "load", "effect", u)
    BY <1>2, QueryFacts
  <2> QED BY <2>1 DEF New
<1>4. \A k \in Calls : Good(Abandoned(call[k])) /\ Dead(Abandoned(call[k]))
  BY AbandonedFacts DEF Typed, CallsOK
<1>5. CallsOK'
  BY <1>1, <1>3, <1>4 DEF Typed, CallsOK
<1>6. \A k \in Calls \ {c} : Live(k)' => Live(k) /\ call'[k] = call[k] /\ call[k].how # "effect"
  BY <1>1, <1>4 DEF Live, Free, Dead
<1>7. call'[c] = q
  BY <1>1
<1>8. ViewOK' /\ DialogOK' /\ NotesOK'
  BY <1>1 DEF Typed, ViewOK, DialogOK, NotesOK
<1>9. Own'
  <2>1. ASSUME NEW k \in Calls, Live(k)', call'[k].url # url'
        PROVE  crossed'
    BY <1>1, <1>3, <1>6, <1>7, <2>1
  <2> QED BY <1>1, <2>1 DEF Own
<1>10. Form' /\ Secret'
  BY <1>1 DEF Screens, Form, Secret
<1>11. Submitting'
  <2>1. \A k \in Calls : OnItsWay(k)' => OnItsWay(k)
    BY <1>3, <1>6, <1>7 DEF OnItsWay
  <2> QED BY <1>1, <2>1 DEF Screens, Submitting
<1>12. Current'
  <2>1. CASE overlap'
    BY <2>1 DEF Current
  <2>2. CASE ~overlap'
    <3>1. \A k \in Calls : Querying(k)' => call'[k].st # "ok"
      BY <1>1, <1>3, <1>6, <1>7, <2>2 DEF Querying
    <3> QED BY <1>1, <3>1 DEF Current
  <2> QED BY <2>1, <2>2
<1> QED BY <1>5, <1>8, <1>9, <1>10, <1>11, <1>12 DEF Typed, Screens

-----------------------------------------------------------------------------
(* The server *)

\* An answer replaces its call if the page heeds it, and else abandons it.
LEMMA AnswerFacts ==
  ASSUME CallsOK, NEW c \in Calls, ~Free(c), NEW st \in {"ok", "refused", "failed"},
         NEW a \in Request, Answer(c, a), a.st = st, a.op = call[c].op, a.how = call[c].how,
         a.url = call[c].url, a.tok = call[c].tok, a.live = call[c].live,
         st = "refused" => Refuses(call[c].tok)
  PROVE  /\ CallsOK' /\ \A k \in Calls \ {c} : call'[k] = call[k]
         /\ call[c].live => call'[c] = a /\ ~Dead(call'[c])
         /\ ~call[c].live => Dead(call'[c])
<1>1. Good(call[c]) /\ call[c] \in Request
  BY DEF CallsOK, Good, Free
<1>2. /\ a.live => Good(a) /\ ~Dead(a)
      /\ ~a.live => Good(Abandoned(a)) /\ Dead(Abandoned(a))
  BY <1>1, AnsweredFacts
<1>3. CASE a.live
  <2>1. call' = [call EXCEPT ![c] = a]
    BY <1>3 DEF Answer
  <2>2. CallsOK' /\ call'[c] = a /\ \A k \in Calls \ {c} : call'[k] = call[k]
    BY <1>2, <1>3, <2>1, SlotFacts
  <2> QED BY <1>2, <1>3, <2>2
<1>4. CASE ~a.live
  <2> DEFINE r == Abandoned(a)
  <2>1. call' = [call EXCEPT ![c] = r]
    BY <1>4 DEF Answer
  <2>2. Good(r) /\ Dead(r)
    BY <1>2, <1>4
  <2> HIDE DEF r
  <2>3. CallsOK' /\ call'[c] = r /\ \A k \in Calls \ {c} : call'[k] = call[k]
    BY <2>1, <2>2, SlotFacts
  <2> QED BY <1>4, <2>2, <2>3
<1> QED BY <1>3, <1>4

\* An answer changes nothing of the screen until it arrives.
LEMMA AnswerKeeps ==
  ASSUME Typed, Screens, NEW c \in Calls, ~Free(c), NEW a, CallsOK',
         a.op = call[c].op, a.how = call[c].how, a.url = call[c].url,
         \A k \in Calls \ {c} : call'[k] = call[k],
         call[c].live => call'[c] = a /\ ~Dead(call'[c]),
         ~call[c].live => Dead(call'[c]),
         UNCHANGED <<auth, url, screen, crossed, astray, overlap>>, missed' \in BOOLEAN, Current'
  PROVE  Typed' /\ Screens'
<1>1. ViewOK' /\ DialogOK' /\ NotesOK'
  BY DEF screen, Typed, ViewOK, DialogOK, NotesOK
<1>2. \A k \in Calls : /\ Live(k)' <=> Live(k)
                       /\ Live(k) => call'[k].how = call[k].how /\ call'[k].url = call[k].url
  BY DEF Live, Free, Dead
<1>3. Own' /\ Form' /\ Submitting' /\ Secret'
  BY <1>2 DEF screen, Screens, Own, Form, Submitting, OnItsWay, Secret
<1> QED BY <1>1, <1>3 DEF Typed, Screens

\* The server reads, changes, refuses or fails, or its answer is lost.
LEMMA ServeKeeps ==
  ASSUME BaseOK, Typed, Screens, NEW c \in Calls, Serve(c)
  PROVE  Typed' /\ Screens' /\ rows' \in [Urls -> ItemSets]
<1> DEFINE q == call[c]
<1>1. /\ ~Free(c) /\ q.st = "sent"
      /\ UNCHANGED <<auth, url, screen, crossed, astray, overlap>> /\ UNCHANGED dialog
      /\ UNCHANGED view
  BY DEF Serve, session, screen
<1>2. q \in Request /\ CallsOK
  BY <1>1 DEF Typed, CallsOK, Good, Free
<1>3. CASE Read(c)
  <2> DEFINE got == IF q.live THEN rows[q.url] ELSE {}
             a   == [q EXCEPT !.st = "ok", !.got = got]
  <2>1. q.op = "load" /\ Answer(c, a) /\ rows' = rows /\ missed' = missed
    BY <1>3 DEF Read
  <2>2. got \in SUBSET Items /\ (q.live => got = rows[q.url])
    BY <1>1, <1>2 DEF BaseOK, ItemSets, Typed, CallsOK, Good, Free
  <2> HIDE DEF got
  <2>3. /\ a \in Request /\ a.st = "ok" /\ a.op = q.op /\ a.how = q.how /\ a.url = q.url
        /\ a.tok = q.tok /\ a.live = q.live /\ a.got = got
    BY <1>2, <2>2 DEF Request
  <2> HIDE DEF a
  <2>4. /\ CallsOK' /\ \A k \in Calls \ {c} : call'[k] = call[k]
        /\ q.live => call'[c] = a /\ ~Dead(call'[c])
        /\ ~q.live => Dead(call'[c])
    BY <1>1, <1>2, <2>1, <2>3, AnswerFacts
  <2>5. Current'
    <3>1. \A k \in Calls \ {c} : (Changed(k)' <=> Changed(k)) /\ (Querying(k)' <=> Querying(k))
      BY <2>4 DEF Changed, Querying, Live, Free
    <3>2. ~Changed(c) /\ (Querying(c)' => call'[c].got = rows[call'[c].url])
      BY <2>1, <2>2, <2>3, <2>4 DEF Changed, Querying, Live, Free, Dead
    <3> QED BY <1>1, <2>1, <2>4, <3>1, <3>2 DEF Screens, Current
  <2>6. missed' \in BOOLEAN /\ rows' \in [Urls -> ItemSets]
    BY <2>1 DEF Typed, NotesOK, BaseOK
  <2> QED BY <1>1, <2>3, <2>4, <2>5, <2>6, AnswerKeeps
<1>4. CASE Change(c)
  <2>1. PICK st \in {"ok", "failed"} :
          /\ Answer(c, [q EXCEPT !.st = st])
          /\ missed' = (missed \/ st = "failed" \/ ~q.live)
    BY <1>4 DEF Typed, NotesOK, Change
  <2> DEFINE a == [q EXCEPT !.st = st]
  <2>2. q.op # "load" /\ rows' = [rows EXCEPT ![q.url] = (@ \ Replaced(q)) \cup q.add]
    BY <1>4 DEF Change
  <2>3. /\ a \in Request /\ a.st = st /\ a.op = q.op /\ a.how = q.how /\ a.url = q.url
        /\ a.tok = q.tok /\ a.live = q.live
    BY <1>2, <2>1 DEF Request
  <2>4. Answer(c, a)
    BY <2>1
  <2> HIDE DEF a
  <2>5. /\ CallsOK' /\ \A k \in Calls \ {c} : call'[k] = call[k]
        /\ q.live => call'[c] = a /\ ~Dead(call'[c])
        /\ ~q.live => Dead(call'[c])
    BY <1>1, <1>2, <2>1, <2>3, <2>4, AnswerFacts
  <2>6. Current'
    <3>1. CASE missed'
      BY <3>1 DEF Current
    <3>2. CASE ~missed'
      BY <2>1, <2>2, <2>3, <2>5, <3>2 DEF Current, Changed, Live, Free, Dead
    <3> QED BY <3>1, <3>2
  <2>7. missed' \in BOOLEAN
    BY <2>1
  <2>8. rows' \in [Urls -> ItemSets]
    BY <1>2, <2>2 DEF BaseOK, ItemSets, Request
  <2> QED BY <1>1, <2>3, <2>5, <2>6, <2>7, <2>8, AnswerKeeps
<1>5. CASE (Refuse(c) \/ Fails(c)) /\ UNCHANGED <<rows, missed>>
  <2>1. PICK st \in {"refused", "failed"} :
          Answer(c, [q EXCEPT !.st = st]) /\ (st = "refused" => Refuses(q.tok))
    BY <1>5 DEF Refuse, Fails
  <2> DEFINE a == [q EXCEPT !.st = st]
  <2>2. /\ a \in Request /\ a.st = st /\ a.op = q.op /\ a.how = q.how /\ a.url = q.url
        /\ a.tok = q.tok /\ a.live = q.live
    BY <1>2, <2>1 DEF Request
  <2>3. Answer(c, a)
    BY <2>1
  <2> HIDE DEF a
  <2>4. /\ CallsOK' /\ \A k \in Calls \ {c} : call'[k] = call[k]
        /\ q.live => call'[c] = a /\ ~Dead(call'[c])
        /\ ~q.live => Dead(call'[c])
    BY <1>1, <1>2, <2>1, <2>2, <2>3, AnswerFacts
  <2>5. Current'
    <3>1. \A k \in Calls \ {c} : (Changed(k)' <=> Changed(k)) /\ (Querying(k)' <=> Querying(k))
      BY <2>4 DEF Changed, Querying, Live, Free
    <3>2. ~Changed(c) /\ (Querying(c)' => call'[c].st # "ok")
      BY <1>1, <2>1, <2>2, <2>4 DEF Changed, Querying, Live, Free, Dead
    <3> QED BY <1>1, <1>5, <2>4, <3>1, <3>2 DEF Screens, Current
  <2>6. missed' \in BOOLEAN /\ rows' \in [Urls -> ItemSets]
    BY <1>5 DEF Typed, NotesOK, BaseOK
  <2> QED BY <1>1, <2>2, <2>4, <2>5, <2>6, AnswerKeeps
<1> QED BY <1>3, <1>4, <1>5 DEF Serve

-----------------------------------------------------------------------------
(* Answers that arrive *)

\* The slot of a call that has ended is free.
LEMMA EndFacts ==
  ASSUME CallsOK, NEW c \in Calls, call' = [call EXCEPT ![c] = Idle]
  PROVE  /\ CallsOK' /\ call'[c] = Idle /\ ~Live(c)'
         /\ \A k \in Calls \ {c} : call'[k] = call[k] /\ (Live(k)' <=> Live(k))
<1>1. CallsOK' /\ call'[c] = Idle /\ \A k \in Calls \ {c} : call'[k] = call[k]
  BY IdleFacts, SlotFacts
<1> QED BY <1>1 DEF Live, Free

\* The last answer to what the page did ends its business.
LEMMA EndKeeps ==
  ASSUME Typed, Screens, NEW c \in Calls, call' = [call EXCEPT ![c] = Idle],
         busy' = (busy /\ ~OnItsWay(c)), ViewOK', Current',
         view' # NoView /\ view'.url # url => crossed,
         UNCHANGED <<auth, url, dialog, filled, target, secret, notes>>
  PROVE  Typed' /\ Screens'
<1>1. /\ CallsOK' /\ call'[c] = Idle /\ ~Live(c)'
      /\ \A k \in Calls \ {c} : call'[k] = call[k] /\ (Live(k)' <=> Live(k))
  BY EndFacts DEF Typed
<1>2. DialogOK' /\ NotesOK'
  BY DEF notes, Typed, DialogOK, NotesOK
<1>3. Own' /\ Form' /\ Secret'
  BY <1>1 DEF notes, Screens, Own, Form, Secret
<1>4. Submitting'
  BY <1>1 DEF Screens, Submitting, OnItsWay
<1> QED BY <1>1, <1>2, <1>3, <1>4 DEF Typed, Screens

\* The answer to a query is shown.
LEMMA LoadedKeeps ==
  ASSUME Typed, Screens, NEW c \in Calls, ~Free(c), call[c].st \in {"ok", "failed"}, Loaded(c),
         UNCHANGED <<auth, rows, url>>
  PROVE  Typed' /\ Screens'
<1> DEFINE q == call[c]
           shown == [url |-> q.url, items |-> q.got]
<1>1. /\ q.op = "load" /\ view' = IF q.st = "ok" THEN shown ELSE NoView
      /\ loading' = FALSE /\ busy' = (busy /\ q.how # "submit")
      /\ call' = [call EXCEPT ![c] = Idle]
      /\ UNCHANGED <<dialog, filled, target, secret, notes>>
  BY DEF Loaded
<1>2. q \in Request /\ q.live /\ q.url \in Urls /\ q.got \in ItemSets
  BY <1>1 DEF Typed, CallsOK, Good, Free, Request, ItemSets
<1>3. shown \in [url : Urls, items : ItemSets] /\ shown.url = q.url /\ shown.items = q.got
  BY <1>2
<1> HIDE DEF shown
<1>4. Live(c) /\ Querying(c) /\ ~Changed(c)
  BY <1>1, <1>2 DEF Live, Querying, Changed
<1>5. ViewOK' /\ (view' # NoView /\ view'.url # url => crossed)
  BY <1>1, <1>3, <1>4 DEF ViewOK, Screens, Own
<1>6. busy' = (busy /\ ~OnItsWay(c))
  BY <1>1, <1>4 DEF OnItsWay
<1>7. Current'
  <2>1. /\ CallsOK' /\ call'[c] = Idle /\ ~Live(c)'
        /\ \A k \in Calls \ {c} : call'[k] = call[k] /\ (Live(k)' <=> Live(k))
    BY <1>1, EndFacts DEF Typed
  <2>2. /\ \A k \in Calls \ {c} : (Changed(k)' <=> Changed(k)) /\ (Querying(k)' <=> Querying(k))
        /\ ~Changed(c)' /\ ~Querying(c)'
    BY <2>1 DEF Changed, Querying
  <2> QED BY <1>1, <1>3, <1>4, <2>1, <2>2 DEF notes, Screens, Current
<1> QED BY <1>1, <1>5, <1>6, <1>7, EndKeeps

\* A change that failed leaves the page as it is.
LEMMA ChangeFailedKeeps ==
  ASSUME Typed, Screens, NEW c \in Calls, ~Free(c), ChangeFailed(c),
         UNCHANGED <<auth, rows, url>>
  PROVE  Typed' /\ Screens'
<1> DEFINE q == call[c]
<1>1. /\ q.op # "load" /\ q.st = "failed" /\ busy' = (busy /\ ~(q.live /\ q.how = "submit"))
      /\ call' = [call EXCEPT ![c] = Idle]
      /\ UNCHANGED <<view, loading, dialog, filled, target, secret, notes>>
  BY DEF ChangeFailed
<1>2. ViewOK' /\ (view' # NoView /\ view'.url # url => crossed)
  BY <1>1 DEF Typed, ViewOK, Screens, Own
<1>3. busy' = (busy /\ ~OnItsWay(c))
  BY <1>1 DEF OnItsWay, Live
<1>4. Current'
  <2>1. /\ CallsOK' /\ call'[c] = Idle /\ ~Live(c)'
        /\ \A k \in Calls \ {c} : call'[k] = call[k] /\ (Live(k)' <=> Live(k))
    BY <1>1, EndFacts DEF Typed
  <2>2. /\ \A k \in Calls : Changed(k)' <=> Changed(k)
        /\ \A k \in Calls : Querying(k)' <=> Querying(k)
    BY <1>1, <2>1 DEF Changed, Querying
  <2>3. \A k \in Calls : Querying(k)' => call'[k] = call[k]
    BY <2>1 DEF Querying
  <2> QED BY <1>1, <2>2, <2>3 DEF notes, Screens, Current
<1> QED BY <1>1, <1>2, <1>3, <1>4, EndKeeps

\* A new credential shows its secret, on the page that asked for it.
LEMMA ShowSecretKeeps ==
  ASSUME Typed, Screens, NEW c \in Calls, ~Free(c), ShowSecret(c),
         UNCHANGED <<auth, rows, url>>
  PROVE  Typed' /\ Screens'
<1> DEFINE q == call[c]
<1>1. /\ q.op = "create" /\ q.st = "ok" /\ call' = [call EXCEPT ![c] = Idle]
      /\ UNCHANGED <<view, loading, filled, target, notes>>
  BY DEF ShowSecret
<1>2. q \in Request /\ q.how = "submit" /\ q.add \in ItemSets
  BY <1>1 DEF Typed, CallsOK, Good, Free, Request, ItemSets
<1>3. /\ CallsOK' /\ call'[c] = Idle /\ ~Live(c)'
      /\ \A k \in Calls \ {c} : call'[k] = call[k] /\ (Live(k)' <=> Live(k))
  BY <1>1, EndFacts DEF Typed
<1>4. CASE q.live /\ dialog' = "secret" /\ secret' = q.add /\ busy' = FALSE
  <2>1. OnItsWay(c) /\ auth
    BY <1>2, <1>4 DEF OnItsWay, Live, Screens, Own
  <2>2. ViewOK' /\ DialogOK' /\ NotesOK'
    BY <1>1, <1>2, <1>4 DEF notes, Typed, ViewOK, DialogOK, NotesOK
  <2>3. Own' /\ Form' /\ Secret' /\ Current'
    BY <1>1, <1>3, <1>4, <2>1 DEF notes, Screens, Own, Form, Secret, Current
  <2>4. Submitting'
    <3>1. \A k \in Calls : OnItsWay(k)' => OnItsWay(k) /\ k # c
      BY <1>3 DEF OnItsWay
    <3>2. \A k \in Calls : ~OnItsWay(k)'
      BY <2>1, <3>1 DEF Screens, Submitting
    <3> QED BY <3>2 DEF Submitting
  <2> QED BY <1>3, <2>2, <2>3, <2>4 DEF Typed, Screens
<1>5. CASE ~q.live /\ UNCHANGED <<dialog, secret, busy>>
  <2>1. UNCHANGED screen
    BY <1>1, <1>5 DEF screen
  <2>2. \A k \in Calls : /\ Dead(call'[k]) <=> Dead(call[k])
                         /\ ~Dead(call[k]) => call'[k] = call[k]
    BY <1>3, <1>5, IdleFacts DEF Dead
  <2> QED BY <1>1, <1>3, <2>1, <2>2, SameKeeps
<1> QED BY <1>4, <1>5 DEF ShowSecret

\* A change closes its dialog and fetches again, with or without its page.
LEMMA RefetchKeeps ==
  ASSUME SessionTypeOK, Typed, Screens, NEW c \in Calls, ~Free(c), Refetch(c),
         UNCHANGED <<auth, rows, url>>
  PROVE  Typed' /\ Screens'
<1> DEFINE q == call[c]
<1>1. q.op # "load" /\ UNCHANGED <<secret, busy, crossed>> /\ ExecuteQuery(c, q.how, q.url, q.live)
  BY DEF Refetch
<1>2. q \in Request /\ q.how \in Hows /\ stored \in AnyToken /\ (q.live => q.url \in Urls)
  BY DEF Typed, CallsOK, Good, Free, Request, SessionTypeOK, AnyToken
<1>3. CASE q.live
  <2> DEFINE r == Query(q.how, q.url, stored)
  <2>1. /\ call' = [call EXCEPT ![c] = r]
        /\ loading' = TRUE /\ view' = NoView /\ NoteQuery(c)
    BY <1>1, <1>3 DEF ExecuteQuery
  <2>2. New(r, "load", q.how, q.url)
    BY <1>2, <1>3, QueryFacts
  <2> HIDE DEF r
  <2>3. Live(c) /\ auth /\ (q.url # url => crossed) /\ (q.how = "submit" => OnItsWay(c))
    BY <1>3 DEF Live, OnItsWay, Screens, Own
  <2>4. \/ dialog = q.op /\ CloseForm
        \/ UNCHANGED <<dialog, filled, target, astray>>
    BY DEF Refetch
  <2>5. q.op # "secret"
    BY <1>2 DEF Request, Ops
  <2>6. /\ dialog' = "secret" => dialog = "secret"
        /\ DialogOK' /\ Form' /\ Secret' /\ astray' \in BOOLEAN
    <3>1. CASE dialog = q.op /\ CloseForm
      BY <1>1, <2>5, <3>1
      DEF CloseForm, Typed, DialogOK, ItemSets, Screens, Form, Secret
    <3>2. CASE UNCHANGED <<dialog, filled, target, astray>>
      <4>1. Form' /\ Secret'
        BY <3>2, <1>1 DEF Screens, Form, Secret
      <4> QED BY <1>1, <3>2, <4>1 DEF Typed, DialogOK, NotesOK
    <3> QED BY <2>4, <3>1, <3>2
  <2> QED BY <1>1, <2>1, <2>2, <2>3, <2>6, FetchKeeps
<1>4. CASE ~q.live
  <2> DEFINE r == Unheeded(stored)
  <2>1. /\ call' = [call EXCEPT ![c] = r]
        /\ UNCHANGED <<view, loading, overlap, missed>> /\ UNCHANGED <<dialog, filled, target, astray>>
    BY <1>1, <1>4 DEF ExecuteQuery, Refetch
  <2>2. Good(r) /\ Dead(r)
    BY <1>2, UnheededFacts
  <2> HIDE DEF r
  <2>3. CallsOK' /\ call'[c] = r /\ \A k \in Calls \ {c} : call'[k] = call[k]
    BY <2>1, <2>2, SlotFacts DEF Typed
  <2>4. \A k \in Calls : /\ Dead(call'[k]) <=> Dead(call[k])
                         /\ ~Dead(call[k]) => call'[k] = call[k]
    BY <1>4, <2>2, <2>3 DEF Dead
  <2>5. UNCHANGED <<screen, notes>>
    BY <1>1, <2>1 DEF screen, notes
  <2> QED BY <2>3, <2>4, <2>5, SameKeeps
<1> QED BY <1>3, <1>4

\* Any answer but 401 arrives.
LEMMA ArriveKeeps ==
  ASSUME SessionTypeOK, Typed, Screens, NEW c \in Calls, Arrive(c)
  PROVE  Typed' /\ Screens'
<1>1. ~Free(c) /\ call[c].st \in {"ok", "failed"} /\ UNCHANGED <<auth, rows, url>>
  BY DEF Arrive, session, server
<1> QED BY <1>1, LoadedKeeps, ShowSecretKeeps, RefetchKeeps, ChangeFailedKeeps DEF Arrive

-----------------------------------------------------------------------------
(* The session *)

\* No sign-in under way.
LEMMA NoLoginFacts == NoLogin.st = "idle" /\ NoLogin.tok = None
  BY DEF NoLogin

\* The login page and the other tabs keep the session consistent, and the pages as they are.
LEMMA ElsewhereSession ==
  ASSUME SessionTypeOK, SessionOK, Elsewhere
  PROVE  SessionTypeOK' /\ SessionOK' /\ auth' = auth
<1>1. CASE SubmitLogin
  BY <1>1, SessionAssumption DEF SubmitLogin, SessionTypeOK, SessionOK, LastWriterAgrees
<1>2. CASE LoginRefused
  BY <1>2, NoLoginFacts
  DEF LoginRefused, Unauthorized, Keep, SessionTypeOK, SessionOK, LastWriterAgrees, NoLogin
<1>3. CASE DenyUserToken
  BY <1>3, NoLoginFacts
  DEF DenyUserToken, SessionTypeOK, SessionOK, LastWriterAgrees, NoLogin
<1>4. ASSUME NEW tok \in Tokens, GenerateUserToken(tok)
      PROVE  SessionTypeOK' /\ SessionOK' /\ auth' = auth
  BY <1>4, NoLoginFacts, SessionAssumption
  DEF GenerateUserToken, SessionTypeOK, SessionOK, LastWriterAgrees
<1>5. CASE OtherClears
  BY <1>5 DEF OtherClears, SessionTypeOK, SessionOK, LastWriterAgrees
<1>6. ASSUME NEW tok \in Tokens, OtherSignsIn(tok)
      PROVE  SessionTypeOK' /\ SessionOK' /\ auth' = auth
  BY <1>6 DEF OtherSignsIn, SessionTypeOK, SessionOK, LastWriterAgrees
<1> QED BY <1>1, <1>2, <1>3, <1>4, <1>5, <1>6 DEF Elsewhere

\* A token that expires stays a token: nothing in the tab notices.
LEMMA ExpireSession ==
  ASSUME SessionTypeOK, SessionOK, NEW tok \in Tokens, Expire(tok)
  PROVE  SessionTypeOK' /\ SessionOK' /\ auth' = auth
<1> DEFINE l == [login EXCEPT !.tok = Aged(tok, @)]
<1>1. login' = l /\ stored' = Aged(tok, stored) /\ UNCHANGED <<auth, mine>>
  BY DEF Expire
<1>2. tok # None
  BY SessionAssumption
<1>3. /\ l \in [st : {"idle", "sent", "ok", "refused"}, tok : Tokens \cup {None, Old}]
      /\ l.st = login.st /\ l.tok = Aged(tok, login.tok)
  BY DEF SessionTypeOK, Aged
<1>4. login = NoLogin => l = NoLogin
  BY <1>2 DEF NoLogin, Aged
<1> HIDE DEF l
<1>5. SessionTypeOK'
  BY <1>1, <1>3 DEF SessionTypeOK, Aged
<1>6. SessionOK'
  BY <1>1, <1>2, <1>3, <1>4, SessionAssumption DEF SessionOK, LastWriterAgrees, Aged
<1> QED BY <1>1, <1>5, <1>6

\* A sign-in stores its token and shows the pages.
LEMMA SignedInSession ==
  ASSUME SessionTypeOK, SessionOK, SignedIn
  PROVE  SessionTypeOK' /\ SessionOK' /\ auth' /\ login.tok \in AnyToken
  BY NoLoginFacts
  DEF SignedIn, Keep, SessionTypeOK, SessionOK, LastWriterAgrees, NoLogin, AnyToken

\* A session ends in the store and on the screen at once.
LEMMA UnauthorizedSession ==
  ASSUME SessionTypeOK, SessionOK, Unauthorized, UNCHANGED login
  PROVE  SessionTypeOK' /\ SessionOK'
  BY DEF Unauthorized, Keep, SessionTypeOK, SessionOK, LastWriterAgrees

\* A token that expires ages in the calls that carry it.
LEMMA TokenExpiresKeeps ==
  ASSUME Typed, Screens, NEW tok \in Tokens, TokenExpires(tok)
  PROVE  Typed' /\ Screens'
<1> DEFINE Older(q) == IF q = Idle THEN Idle ELSE [q EXCEPT !.tok = Aged(tok, @)]
<1>1. /\ call' = [c \in Calls |-> Older(call[c])]
      /\ UNCHANGED <<auth, rows, url, screen, notes>>
  BY DEF TokenExpires, Expire, server, Free
<1>2. ASSUME NEW q, Good(q)
      PROVE  /\ Good(Older(q)) /\ (Dead(Older(q)) <=> Dead(q))
             /\ q # Idle => /\ Older(q).url = q.url /\ Older(q).how = q.how
                            /\ Older(q).op = q.op /\ Older(q).st = q.st
                            /\ Older(q).got = q.got
  <2>1. CASE q = Idle
    BY <2>1, <1>2
  <2>2. CASE q # Idle
    <3> DEFINE a == [q EXCEPT !.tok = Aged(tok, @)]
    <3>1. q \in Request
      BY <1>2, <2>2 DEF Good
    <3>2. /\ a \in Request /\ a.st = q.st /\ a.op = q.op /\ a.how = q.how /\ a.url = q.url
          /\ a.live = q.live /\ a.got = q.got /\ a.tok = Aged(tok, q.tok)
      BY <3>1 DEF Request, Aged
    <3>3. Older(q) = a
      BY <2>2
    <3> HIDE DEF a, Older
    <3>4. a # Idle
      BY <3>2, IdleFacts
    <3>5. Good(a) /\ (Dead(a) <=> Dead(q))
      BY <1>2, <2>2, <3>2, <3>4 DEF Good, Dead, Refuses, Aged
    <3> QED BY <3>2, <3>3, <3>5
  <2> QED BY <2>1, <2>2
<1> HIDE DEF Older
<1>3. \A c \in Calls : Good(call[c])
  BY DEF Typed, CallsOK
<1>4. CallsOK'
  BY <1>1, <1>2, <1>3 DEF CallsOK
<1>5. \A c \in Calls : /\ Dead(call'[c]) <=> Dead(call[c])
                       /\ ~Dead(call[c]) => /\ call'[c].url = call[c].url
                                            /\ call'[c].how = call[c].how
                                            /\ call'[c].op = call[c].op
                                            /\ call'[c].st = call[c].st
                                            /\ call'[c].got = call[c].got
  BY <1>1, <1>2, <1>3 DEF Dead
<1> QED BY <1>1, <1>4, <1>5, SameKeeps

-----------------------------------------------------------------------------
(* The invariant *)

\* The pages of a scenario are pages.
LEMMA SceneFacts == BaseOK => scene.urls \subseteq Urls
  BY AdminClientAssumption DEF BaseOK

\* What leaves the session alone.
LEMMA SessionKept ==
  ASSUME SessionTypeOK, SessionOK, UNCHANGED session
  PROVE  SessionTypeOK' /\ SessionOK' /\ auth' = auth
  BY DEF session, SessionTypeOK, SessionOK, LastWriterAgrees

\* What leaves the server and the page alone.
LEMMA BaseKept ==
  ASSUME BaseOK, UNCHANGED <<scene, server, url>>
  PROVE  BaseOK' /\ UNCHANGED <<rows, url>>
  BY DEF BaseOK, server

\* One action at a time.
LEMMA InvNext == Inv /\ Next => Inv'
<1> SUFFICES ASSUME Inv, Next
             PROVE  Inv'
  OBVIOUS
<1> USE DEF Inv
<1>0. UNCHANGED scene
  BY DEF Next
<1>1. CASE Elsewhere
  <2>1. SessionTypeOK' /\ SessionOK' /\ auth' = auth
    BY <1>1, ElsewhereSession
  <2>2. UNCHANGED <<screen, notes, call>> /\ BaseOK' /\ UNCHANGED <<rows, url>>
    BY <1>0, <1>1, BaseKept DEF Elsewhere
  <2>3. CallsOK'
    BY <2>2 DEF Typed, CallsOK
  <2> QED BY <2>1, <2>2, <2>3, SameKeeps
<1>2. CASE SignOut
  <2>1. SessionTypeOK' /\ SessionOK'
    BY <1>2, UnauthorizedSession DEF SignOut
  <2>2. BaseOK'
    BY <1>0, <1>2, BaseKept DEF SignOut
  <2>3. Unmount({}) /\ {} \in SUBSET Calls /\ CallsOK
    BY <1>2 DEF SignOut, Typed
  <2> QED BY <2>1, <2>2, <2>3, UnmountKeeps
<1>3. ASSUME NEW tok \in Tokens, TokenExpires(tok)
      PROVE  Inv'
  <2>1. SessionTypeOK' /\ SessionOK'
    BY <1>3, ExpireSession DEF TokenExpires
  <2>2. BaseOK'
    BY <1>0, <1>3, BaseKept DEF TokenExpires
  <2> QED BY <1>3, <2>1, <2>2, TokenExpiresKeeps
<1>4. CASE OpenCreate \/ Cancel \/ \E i \in Items : Edit(i)
  <2>1. UNCHANGED <<session, server, url>>
    BY <1>4 DEF OpenCreate, Cancel, Edit
  <2>2. Typed' /\ Screens'
    BY <1>4, OpenCreateKeeps, CancelKeeps, EditKeeps
  <2> QED BY <1>0, <2>1, <2>2, SessionKept, BaseKept
<1>5. ASSUME NEW c \in Calls, Enter(c)
      PROVE  Inv'
  <2>1. SignedIn /\ Mount(c, url, login.tok) /\ UNCHANGED <<server, url>>
    BY <1>5 DEF Enter
  <2>2. SessionTypeOK' /\ SessionOK' /\ auth' /\ login.tok \in AnyToken
    BY <2>1, SignedInSession
  <2>3. BaseOK' /\ url' = url /\ url \in Urls /\ CallsOK
    BY <1>0, <2>1, BaseKept DEF BaseOK, Typed
  <2> QED BY <2>1, <2>2, <2>3, MountKeeps
<1>6. ASSUME NEW c \in Calls, Rejected(c)
      PROVE  Inv'
  <2>1. SessionTypeOK' /\ SessionOK'
    BY <1>6, UnauthorizedSession DEF Rejected
  <2>2. BaseOK'
    BY <1>0, <1>6, BaseKept DEF Rejected
  <2>3. Unmount({c}) /\ {c} \in SUBSET Calls /\ CallsOK
    BY <1>6 DEF Rejected, Typed
  <2> QED BY <2>1, <2>2, <2>3, UnmountKeeps
<1>7. ASSUME NEW c \in Calls, Serve(c)
      PROVE  Inv'
  <2>1. Typed' /\ Screens' /\ rows' \in [Urls -> ItemSets]
    BY <1>7, ServeKeeps
  <2>2. UNCHANGED <<session, made, url>>
    BY <1>7 DEF Serve
  <2>3. BaseOK'
    BY <1>0, <2>1, <2>2 DEF BaseOK
  <2> QED BY <2>1, <2>2, <2>3, SessionKept
<1>8. ASSUME NEW c \in Calls, Arrive(c)
      PROVE  Inv'
  <2>1. UNCHANGED <<session, server, url>>
    BY <1>8 DEF Arrive
  <2> QED BY <1>0, <1>8, <2>1, ArriveKeeps, SessionKept, BaseKept
<1>9. ASSUME NEW c \in Calls, NEW u \in scene.urls, Go(c, u)
      PROVE  Inv'
  <2>1. auth /\ url' = u /\ Mount(c, u, stored) /\ UNCHANGED <<session, server>>
    BY <1>9 DEF Go
  <2>2. u \in Urls /\ stored \in AnyToken /\ CallsOK
    BY SceneFacts DEF SessionTypeOK, AnyToken, Typed
  <2>3. SessionTypeOK' /\ SessionOK' /\ auth'
    BY <2>1, SessionKept
  <2>4. BaseOK'
    BY <1>0, <2>1, <2>2 DEF BaseOK, server
  <2> QED BY <2>1, <2>2, <2>3, <2>4, MountKeeps
<1>10. ASSUME NEW c \in Calls, NEW u \in scene.urls, Jump(c, u)
       PROVE  Inv'
  <2>1. url' = u /\ UNCHANGED <<session, server>> /\ u \in Urls
    BY <1>10, SceneFacts DEF Jump
  <2>2. BaseOK'
    BY <1>0, <2>1 DEF BaseOK, server
  <2> QED BY <1>10, <2>1, <2>2, JumpKeeps, SessionKept
<1>11. ASSUME NEW c \in Calls, Submit(c)
       PROVE  Inv'
  <2>1. PICK op \in {"create", "update"} : Send(c, op)
    BY <1>11 DEF Submit, SubmitBots, SubmitBot, CreateSecret, CreateChannel
  <2>2. auth
    BY <2>1 DEF Send, Screens, Own
  <2>3. UNCHANGED <<session, rows, url>>
    BY <2>1 DEF Send
  <2>4. Typed' /\ Screens' /\ made' \in Items
    BY <2>1, <2>2, SendKeeps
  <2>5. BaseOK'
    BY <1>0, <2>3, <2>4 DEF BaseOK
  <2> QED BY <2>3, <2>4, <2>5, SessionKept
<1>12. ASSUME NEW c \in Calls, CloseSecret(c)
       PROVE  Inv'
  <2>1. UNCHANGED <<session, server, url>> /\ auth
    BY <1>12 DEF CloseSecret, Screens, Own
  <2> QED BY <1>0, <1>12, <2>1, CloseSecretKeeps, SessionKept, BaseKept
<1>13. ASSUME NEW c \in Calls, NEW i \in Items, OnDelete(c, i)
       PROVE  Inv'
  <2>1. UNCHANGED <<session, server, url>>
    BY <1>13 DEF OnDelete
  <2> QED BY <1>0, <1>13, <2>1, OnDeleteKeeps, SessionKept, BaseKept
<1> QED
  BY <1>1, <1>2, <1>3, <1>4, <1>5, <1>6, <1>7, <1>8, <1>9, <1>10, <1>11, <1>12, <1>13
  DEF Next, Step, EditOfBots, EditOfBot, DeleteBot, DeleteSecret, DeleteChannel

\* Stuttering keeps the invariant.
LEMMA InvSame == Inv /\ UNCHANGED vars => Inv'
<1> SUFFICES ASSUME Inv, UNCHANGED vars
             PROVE  Inv'
  OBVIOUS
<1>1. UNCHANGED <<scene, session, server, url, screen, call, notes>>
  BY DEF vars
<1>2. BaseOK' /\ SessionTypeOK' /\ SessionOK' /\ auth' = auth /\ UNCHANGED <<rows, url>>
  BY <1>1, BaseKept, SessionKept DEF Inv
<1>3. CallsOK'
  BY <1>1 DEF Inv, Typed, CallsOK
<1> QED BY <1>1, <1>2, <1>3, SameKeeps DEF Inv

\* The inductive invariant.
LEMMA Invariance == Spec => []Inv
<1>1. Inv /\ [Next]_vars => Inv'
  BY InvNext, InvSame
<1> QED BY InitInv, <1>1, PTL DEF Spec

\* Every variable keeps its type: the pages, their calls and the session.
THEOREM AdminType == Spec => []TypeOK
BY InvType, Invariance, PTL

\* The pages are shown exactly when a token is stored, if this tab was the last to
\* change the store: AuthContext and localStorage part only on account of other tabs.
THEOREM AdminLastWriterAgrees == Spec => []LastWriterAgrees
<1>1. Inv => LastWriterAgrees
  BY DEF Inv, SessionOK
<1> QED BY <1>1, Invariance, PTL

\* What useFetch shows belongs to the page's bot, unless the administrator went to
\* another bot while a change or a refetch was under way.
THEOREM AdminViewOfUrl == Spec => []ViewOfUrl
<1>1. Inv => ViewOfUrl
  BY DEF Inv, Screens, Own, Shown, ViewOfUrl
<1> QED BY <1>1, Invariance, PTL

\* A page with nothing under way shows what the server has, unless its queries
\* overlapped, an answer was lost, or a page left before changed something.
THEOREM AdminQuietViewIsCurrent == Spec => []QuietViewIsCurrent
<1>1. Inv => QuietViewIsCurrent
  BY DEF Inv, Screens, Current, Changed, Shown, QuietViewIsCurrent
<1> QED BY <1>1, Invariance, PTL

-----------------------------------------------------------------------------
(* Action properties *)

\* Which steps end a session that the server still accepts.
LEMMA EndStep ==
  ASSUME Inv, Next, stored' = None, stored \in Tokens
  PROVE  SignOut \/ LoginRefused \/ OtherClears
         \/ (\E c \in Calls : Rejected(c) /\ call[c].tok # stored)
<1>1. None \notin Tokens /\ Old \notin Tokens /\ None # Old
  BY SessionAssumption
<1>2. ASSUME NEW c \in Calls, Rejected(c)
      PROVE  call[c].tok # stored
  <2>1. Refuses(call[c].tok)
    BY <1>2 DEF Rejected, Free, Inv, Typed, CallsOK, Good
  <2> QED BY <1>1, <2>1 DEF Refuses
<1>3. stored' # stored
  BY <1>1
<1>4. ~UNCHANGED session
  BY <1>3 DEF session
<1>5. ASSUME Elsewhere
      PROVE  LoginRefused \/ OtherClears
  BY <1>1, <1>3, <1>5
  DEF Elsewhere, SubmitLogin, DenyUserToken, GenerateUserToken, OtherSignsIn
<1>6. ASSUME NEW tok \in Tokens, TokenExpires(tok)
      PROVE  FALSE
  BY <1>1, <1>3, <1>6 DEF TokenExpires, Expire, Aged
<1>7. ASSUME NEW c \in Calls, Enter(c)
      PROVE  FALSE
  <2>1. login.st = "ok" /\ stored' = login.tok
    BY <1>7 DEF Enter, SignedIn, Keep
  <2> QED BY <2>1 DEF Inv, SessionOK
<1>8. /\ ~OpenCreate /\ ~Cancel /\ \A i \in Items : ~Edit(i)
      /\ \A c \in Calls : /\ ~Serve(c) /\ ~Arrive(c) /\ ~CloseSecret(c) /\ ~Submit(c)
                          /\ \A u : ~Go(c, u) /\ ~Jump(c, u)
                          /\ \A i : ~OnDelete(c, i)
  BY <1>4 DEF OpenCreate, Cancel, Edit, Serve, Arrive, CloseSecret, Go, Jump, OnDelete, Submit,
              SubmitBots, SubmitBot, CreateSecret, CreateChannel, Send
<1> QED
  BY <1>2, <1>5, <1>6, <1>7, <1>8
  DEF Next, Step, EditOfBots, EditOfBot, DeleteBot, DeleteSecret, DeleteChannel

\* A session that the server still accepts is never ended by the answer to a request
\* of its own: the response interceptor's 401 came to another token, or to none.
THEOREM AdminEndsForAReason == Spec => EndsForAReason
<1>1. Inv /\ [Next]_vars =>
        [stored' = None /\ stored \in Tokens
         => SignOut \/ LoginRefused \/ OtherClears
            \/ (\E c \in Calls : Rejected(c) /\ call[c].tok # stored)]_vars
  BY EndStep
<1> QED BY <1>1, Invariance, PTL DEF Spec, EndsForAReason

\* Which steps take a secret off the screen.
LEMMA SecretStep ==
  ASSUME Inv, Next, secret # {}, secret' # secret
  PROVE  ~auth' \/ url'.kind # url.kind \/ (\E c \in Calls : CloseSecret(c))
<1>1. dialog = "secret" /\ auth /\ login = NoLogin
  BY DEF Inv, Screens, Own, Secret, SessionOK
<1>2. ~UNCHANGED screen
  BY DEF screen
<1>3. SignOut \/ (\E c \in Calls : Rejected(c)) => ~auth'
  BY DEF SignOut, Rejected, Unauthorized
<1>4. ASSUME NEW c \in Calls, Enter(c)
      PROVE  FALSE
  BY <1>1, <1>4, NoLoginFacts DEF Enter, SignedIn
<1>5. ASSUME NEW c \in Calls, NEW u, Go(c, u)
      PROVE  url'.kind # url.kind
  BY <1>5 DEF Go
<1>6. ASSUME NEW c \in Calls, Arrive(c)
      PROVE  FALSE
  <2>1. ShowSecret(c) /\ ~Free(c) /\ call[c].live
    BY <1>6 DEF Arrive, Loaded, Refetch, ChangeFailed, ShowSecret
  <2>2. call[c].op = "create"
    BY <2>1 DEF ShowSecret
  <2>3. OnItsWay(c)
    BY <2>1, <2>2 DEF OnItsWay, Live, Free, Inv, Typed, CallsOK, Good
  <2> QED BY <1>1, <2>3 DEF Inv, Screens, Submitting
<1>7. /\ ~Elsewhere /\ ~OpenCreate /\ ~Cancel /\ \A i \in Items : ~Edit(i)
      /\ \A tok \in Tokens : ~TokenExpires(tok)
      /\ \A c \in Calls : /\ ~Serve(c) /\ ~Submit(c)
                          /\ \A u : ~Jump(c, u)
                          /\ \A i : ~OnDelete(c, i)
  BY <1>2 DEF Elsewhere, OpenCreate, Cancel, Edit, TokenExpires, Serve, Jump, OnDelete, Submit,
              SubmitBots, SubmitBot, CreateSecret, CreateChannel, Send, screen
<1> QED
  BY <1>3, <1>4, <1>5, <1>6, <1>7
  DEF Next, Step, EditOfBots, EditOfBot, DeleteBot, DeleteSecret, DeleteChannel

\* The dialog with a new secret, which CredentialsPage shows once, is not replaced by
\* any answer or dialog: only closing it, leaving the page or the end of the session.
THEOREM AdminSecretStays == Spec => SecretStays
<1>1. Inv /\ [Next]_vars =>
        [secret # {} /\ secret' # secret
         => ~auth' \/ url'.kind # url.kind \/ (\E c \in Calls : CloseSecret(c))]_vars
  BY SecretStep
<1> QED BY <1>1, Invariance, PTL DEF Spec, SecretStays

\* The form of an update is submitted for the bot whose data filled it, unless the
\* administrator went to another bot with the form open or on a crossed page.
THEOREM AdminEditsStayHome == Spec => EditsStayHome
<1>1. Inv => (\A c \in Calls : Submit(c) /\ dialog = "update" /\ filled # url => astray)
  BY DEF Inv, Screens, Form
<1>2. Inv /\ [Next]_vars =>
        [\A c \in Calls : Submit(c) /\ dialog = "update" /\ filled # url => astray]_vars
  BY <1>1
<1> QED BY <1>2, Invariance, PTL DEF Spec, EditsStayHome
=============================================================================
