----------------------------- MODULE TokensProofs -----------------------------
(***************************************************************************)
(* Proofs about Tokens, for every number of sites, conversations and       *)
(* requests, and every life of tokens and cache entries.                   *)
(***************************************************************************)
EXTENDS Tokens, TLAPS

\* Requests, tokens and answers about a site's existence are about a site that was
\* created, and answers fit the query: only that of existence says false.
Placed ==
  /\ \A r \in Requests : req[r].st # "new" => req[r].site \in made /\ req[r].conv \in Convs
  /\ \A t \in toks : t.site \in made
  /\ \A s \in Sites : /\ look[s] # NoLook /\ look[s].kind = "site" => s \in made
                      /\ look[s].st = "none" => look[s] = NoLook

\* Every negative answer, on its way, cached or given, is about a site that was
\* created and is gone.
Gone ==
  /\ \A r \in Requests : req[r].st \in {"null", "refused"} => req[r].site \notin alive
  /\ \A s \in Sites : look[s].st = "false" \/ (known[s] # NoEntry /\ known[s].val = "false")
                      => s \in made \ alive

\* Every positive answer is about a site, or a bot, that is still there, or is
\* cached until TTL after it was.
Timed ==
  /\ \A k \in Truthy, s \in Sites : seen[k][s] <= now /\ (There(k, s) => seen[k][s] = now)
  /\ \A s \in Sites : entry[s] # NoEntry => entry[s].end <= seen["site"][s] + TTL
  /\ \A s \in Sites : known[s] # NoEntry /\ known[s].val \in Truthy
                      => known[s].end <= seen[known[s].val][s] + TTL
  /\ EndsWithSite

Inv == TypeOK /\ Placed /\ Gone /\ Timed

\* The service starts with the invariant.
LEMMA InitInv == Init => Inv
  BY TokensAssumption, NoEntryAssumption
  DEF Init, Inv, TypeOK, Placed, Gone, Timed, EndsWithSite, LongAgo, NoLook, Lookups, Truthy

-----------------------------------------------------------------------------
(* Types and places *)

States == {"new", "finding", "row", "null", "asking",
           "issued", "refused", "missing", "forbidden", "failed"}

\* TypeOK and Placed, cut by what the actions change.
RequestsOK ==
  /\ req \in [Requests -> [st : States, site : Sites \cup {NoSite}, conv : Convs \cup {NoConv}]]
  /\ \A r \in Requests : req[r].st # "new" => req[r].site \in made /\ req[r].conv \in Convs

TokensOK == toks \subseteq Tokens /\ \A t \in toks : t.site \in made

SitesOK ==
  /\ made \subseteq Sites /\ alive \subseteq made
  /\ bot \in [Sites -> {"never", "there", "gone"}]
  /\ entry \in [Sites -> [row : {"row"}, end : Nat] \cup {NoEntry}]
  /\ known \in [Sites -> [val : Settled, end : Nat] \cup {NoEntry}]
  /\ look \in [Sites -> Lookups]
  /\ \A s \in Sites : /\ look[s] # NoLook /\ look[s].kind = "site" => s \in made
                      /\ look[s].st = "none" => look[s] = NoLook

Process == RequestsOK /\ TokensOK /\ SitesOK

\* The type invariant and what it rests on, cut by what the actions change.
LEMMA Parts == TypeOK /\ Placed <=> now \in Nat /\ seen \in [Truthy -> [Sites -> Int]] /\ Process
  BY DEF TypeOK, Placed, Process, RequestsOK, TokensOK, SitesOK, States

\* A request goes on, still about a site that was created.
LEMMA BecomeKeeps ==
  ASSUME RequestsOK, SitesOK, NEW r \in Requests, NEW st \in States,
         NEW s \in made, NEW v \in Convs, Become(r, st, s, v), made' = made
  PROVE  RequestsOK'
<1> DEFINE new == [st |-> st, site |-> s, conv |-> v]
<1>1. req' = [req EXCEPT ![r] = new]
  BY DEF Become
<1>2. new \in [st : States, site : Sites \cup {NoSite}, conv : Convs \cup {NoConv}]
  BY DEF SitesOK
<1>3. \A q \in Requests : req'[q] = IF q = r THEN new ELSE req[q]
  BY <1>1 DEF RequestsOK
<1> QED BY <1>1, <1>2, <1>3 DEF RequestsOK

\* A token is issued.
LEMMA IssueKeeps ==
  ASSUME RequestsOK, TokensOK, SitesOK, now \in Nat, NEW r \in Requests,
         NEW s \in made, NEW v \in Convs, NEW by \in Truthy \cup {"token"},
         Issue(r, s, v, by), made' = made
  PROVE  RequestsOK' /\ TokensOK'
<1>1. RequestsOK'
  BY BecomeKeeps DEF Issue, States
<1>2. Token(s, v, by) \in Tokens /\ Token(s, v, by).site = s
  BY TokensAssumption DEF Token, Tokens, SitesOK
<1> QED BY <1>1, <1>2 DEF Issue, TokensOK

\* A look-up of key s goes on, or starts, and nothing else of the sites changes.
LEMMA LookKeeps ==
  ASSUME SitesOK, NEW s \in Sites, NEW l \in Lookups,
         l # NoLook /\ l.kind = "site" => s \in made, l.st = "none" => l = NoLook,
         look' = [look EXCEPT ![s] = l], UNCHANGED <<db, entry, known>>
  PROVE  SitesOK'
  BY DEF SitesOK, db

\* Asking keeps the look-ups in order.
LEMMA AskKeeps ==
  ASSUME SitesOK, NEW s \in Sites, NEW kind \in {"site", "bot", "credential"},
         kind = "site" => s \in made, Ask(s, kind), UNCHANGED <<db, entry, known>>
  PROVE  SitesOK'
<1>1. CASE look' = look
  BY <1>1 DEF SitesOK, db
<1>2. CASE look' = [look EXCEPT ![s] = [kind |-> kind, st |-> "asked"]]
  <2>1. [kind |-> kind, st |-> "asked"] \in Lookups
    BY DEF Lookups
  <2> QED BY <1>2, <2>1, LookKeeps
<1> QED BY <1>1, <1>2 DEF Ask

\* An answer is cached.
LEMMA CacheKeeps ==
  ASSUME SitesOK, now \in Nat, NEW s \in Sites, NEW val \in Settled, Cache(s, val)
  PROVE  known' \in [Sites -> [val : Settled, end : Nat] \cup {NoEntry}]
<1>1. [val |-> val, end |-> now + TTL] \in [val : Settled, end : Nat]
  BY TokensAssumption
<1> QED BY <1>1 DEF Cache, SitesOK

\* Every refresh that joined the look-up of a key is answered.
LEMMA AnswerKeeps ==
  ASSUME RequestsOK, NEW s \in Sites, NEW st \in {"issued", "refused", "missing", "failed"},
         Answer(s, st), made' = made
  PROVE  RequestsOK'
<1> DEFINE new(r) == IF r \in Asking(s) THEN [req[r] EXCEPT !.st = st] ELSE req[r]
<1>1. req' = [r \in Requests |-> new(r)]
  BY DEF Answer
<1>2. ASSUME NEW r \in Requests
      PROVE  /\ new(r) \in [st : States, site : Sites \cup {NoSite}, conv : Convs \cup {NoConv}]
             /\ new(r).st # "new" => new(r).site \in made /\ new(r).conv \in Convs
  BY <1>2 DEF RequestsOK, Asking, States
<1> HIDE DEF new
<1> QED BY <1>1, <1>2 DEF RequestsOK

\* The look-up of a key is over.
LEMMA NoLookIs == NoLook \in Lookups /\ NoLook.st = "none" /\ NoLook.kind = "site"
  BY DEF NoLook, Lookups

\* The tokens of the refreshes that joined are tokens of the site.
LEMMA PassKeeps ==
  ASSUME RequestsOK, TokensOK, now \in Nat, NEW s \in Sites, Pass(s), made' = made
  PROVE  TokensOK'
<1>1. \A r \in Asking(s) : /\ s \in made
                           /\ Token(s, req[r].conv, look[s].st) \in Tokens
                           /\ Token(s, req[r].conv, look[s].st).site = s
  BY TokensAssumption DEF Asking, Token, Tokens, RequestsOK, Pass
<1> QED BY <1>1 DEF Pass, TokensOK

\* Every handler keeps the types and each token with its site.
LEMMA ProcessStep ==
  ASSUME Process, now \in Nat, Turn
  PROVE  Process'
<1> USE TokensAssumption DEF Process
<1>1. ASSUME NEW r \in Requests, NEW s \in Sites, NEW v \in Convs, Generate(r, s, v)
      PROVE  Process'
  <2>1. s \in made /\ SitesOK' /\ made' = made
    BY <1>1 DEF Generate, SitesOK, db, caches
  <2>2. CASE Issue(r, s, v, "site")
    BY <2>1, <2>2, IssueKeeps DEF Truthy
  <2>3. CASE Become(r, "finding", s, v) /\ UNCHANGED toks
    BY <2>1, <2>3, BecomeKeeps DEF States, TokensOK
  <2> QED BY <1>1, <2>2, <2>3 DEF Generate
<1>2. ASSUME NEW r \in Requests, NEW t \in toks, Refresh(r, t)
      PROVE  Process'
  <2>1. t.site \in made /\ t.site \in Sites /\ t.conv \in Convs /\ made' = made
    BY <1>2 DEF Refresh, Forbid, db, TokensOK, Tokens
  <2>2. SitesOK'
    <3>1. CASE UNCHANGED <<db, caches>>
      BY <3>1 DEF SitesOK, db, caches
    <3>2. CASE Ask(t.site, "site") /\ UNCHANGED <<db, entry, known>>
      BY <2>1, <3>2, AskKeeps
    <3> QED BY <1>2, <3>1, <3>2 DEF Refresh, Forbid
  <2>3. ASSUME NEW by \in Truthy, Issue(r, t.site, t.conv, by)
        PROVE  Process'
    BY <2>1, <2>2, <2>3, IssueKeeps
  <2>4. CASE \E st \in {"forbidden", "refused", "asking"} :
               Become(r, st, t.site, t.conv) /\ UNCHANGED toks
    BY <2>1, <2>2, <2>4, BecomeKeeps DEF States, TokensOK
  <2> QED BY <1>2, <2>3, <2>4 DEF Refresh, Forbid
<1>3. ASSUME NEW r \in Requests, NEW t \in toks, Recreate(r, t)
      PROVE  Process'
  <2>1. t.site \in made /\ t.conv \in Convs /\ SitesOK' /\ made' = made
    BY <1>3 DEF Recreate, Forbid, TokensOK, Tokens, SitesOK, db, caches
  <2>2. CASE Issue(r, t.site, t.conv, "token")
    BY <2>1, <2>2, IssueKeeps
  <2>3. CASE Become(r, "forbidden", t.site, t.conv) /\ UNCHANGED toks
    BY <2>1, <2>3, BecomeKeeps DEF States, TokensOK
  <2> QED BY <1>3, <2>2, <2>3 DEF Recreate, Forbid
<1>4. ASSUME NEW r \in Requests, Finding(r)
      PROVE  Process'
  <2>1. req[r].site \in made /\ req[r].conv \in Convs /\ made' = made
    BY <1>4 DEF Finding, FindSite, StoreSite, FindFails, db, RequestsOK
  <2>2. SitesOK'
    <3> DEFINE s == req[r].site  new == [row |-> "row", end |-> now + TTL]
    <3>1. CASE UNCHANGED <<db, caches>>
      BY <3>1 DEF SitesOK, db, caches
    <3>2. CASE entry' = [entry EXCEPT ![s] = new] /\ UNCHANGED <<db, known, look>>
      <4>1. new \in [row : {"row"}, end : Nat]
        OBVIOUS
      <4> QED BY <3>2, <4>1 DEF SitesOK, db
    <3> QED BY <1>4, <3>1, <3>2 DEF Finding, FindSite, StoreSite, FindFails
  <2>3. CASE Issue(r, req[r].site, req[r].conv, "site")
    BY <2>1, <2>2, <2>3, IssueKeeps DEF Truthy
  <2>4. CASE \E st \in {"row", "null", "refused", "failed"} :
               Become(r, st, req[r].site, req[r].conv) /\ UNCHANGED toks
    BY <2>1, <2>2, <2>4, BecomeKeeps DEF States, TokensOK
  <2> QED BY <1>4, <2>3, <2>4 DEF Finding, FindSite, StoreSite, FindFails
<1>5. ASSUME NEW s \in Sites, Looking(s)
      PROVE  Process'
  <2>1. made' = made /\ bot' = bot /\ alive' = alive /\ entry' = entry
    BY <1>5 DEF Looking, Exists, Tell, ExistsFails, db
  <2>2. CASE Exists(s)
    <3>1. ASSUME NEW a \in Answers, look' = [look EXCEPT ![s].st = a]
          PROVE  SitesOK'
      <4> DEFINE l == [kind |-> look[s].kind, st |-> a]
      <4>1. /\ look[s] \in Lookups /\ look[s] # NoLook
            /\ look[s].kind = "site" => s \in made
        <5>1. look[s].st = "asked"
          BY <2>2 DEF Exists
        <5>2. look[s] # NoLook
          BY <5>1 DEF NoLook
        <5> QED BY <5>2 DEF SitesOK
      <4>2. look[s].kind \in {"site", "bot", "credential"} /\ [look[s] EXCEPT !.st = a] = l
        BY <4>1 DEF Lookups
      <4>3. l \in Lookups /\ l.st # "none" /\ l.kind = look[s].kind
        BY <4>2 DEF Lookups, Answers, Settled, Truthy
      <4>4. look' = [look EXCEPT ![s] = l]
        BY <3>1, <4>2
      <4> HIDE DEF l
      <4> QED BY <2>2, <4>1, <4>3, <4>4, LookKeeps DEF Exists
    <3>2. "site" \in Answers /\ "false" \in Answers /\ "bot" \in Answers /\ "missing" \in Answers
      BY DEF Answers, Settled, Truthy
    <3>3. SitesOK'
      <4>1. CASE look[s].kind = "site"
        BY <2>2, <3>1, <3>2, <4>1 DEF Exists
      <4>2. CASE look[s].kind = "bot"
        BY <2>2, <3>1, <3>2, <4>2 DEF Exists
      <4>3. CASE look[s].kind \notin {"site", "bot"}
        BY <2>2, <3>1, <3>2, <4>3 DEF Exists
      <4> QED BY <4>1, <4>2, <4>3
    <3> QED BY <2>1, <2>2, <3>3 DEF Exists, RequestsOK, TokensOK
  <2>3. CASE ExistsFails(s)
    <3>1. RequestsOK' /\ TokensOK'
      BY <2>1, <2>3, AnswerKeeps DEF ExistsFails, TokensOK
    <3>2. SitesOK'
      BY <2>3, LookKeeps, NoLookIs DEF ExistsFails
    <3> QED BY <3>1, <3>2
  <2>4. CASE Tell(s)
    <3>1. RequestsOK'
      BY <2>1, <2>4, AnswerKeeps DEF Tell, Pass, RequestsOK
    <3>2. known' \in [Sites -> [val : Settled, end : Nat] \cup {NoEntry}]
      BY <2>4, CacheKeeps DEF Tell, Pass, SitesOK, Settled
    <3>3. SitesOK'
      BY <2>1, <2>4, <3>2, NoLookIs DEF Tell, SitesOK
    <3>4. TokensOK'
      BY <2>1, <2>4, PassKeeps DEF Tell, TokensOK
    <3> QED BY <3>1, <3>3, <3>4
  <2> QED BY <1>5, <2>2, <2>3, <2>4 DEF Looking
<1>6. ASSUME NEW s \in Sites, NEW kind \in {"bot", "credential"}, Borrow(s, kind)
      PROVE  Process'
  <2>1. SitesOK'
    BY <1>6, AskKeeps DEF Borrow
  <2> QED BY <1>6, <2>1 DEF Borrow, RequestsOK, TokensOK, db
<1>7. ASSUME NEW s \in Sites, CreateSite(s) \/ DeleteSite(s) \/ CreateBot(s) \/ DeleteBot(s)
      PROVE  Process'
  <2>1. CASE CreateSite(s) \/ DeleteSite(s)
    <3>1. /\ made \subseteq made' /\ made' \subseteq Sites /\ alive' \subseteq made'
          /\ UNCHANGED <<bot, caches, req, toks>>
      BY <2>1 DEF CreateSite, DeleteSite, SitesOK
    <3>2. RequestsOK' /\ TokensOK'
      BY <3>1 DEF RequestsOK, TokensOK
    <3>3. UNCHANGED <<bot, entry, known, look>>
      BY <3>1 DEF caches
    <3>4. SitesOK'
      <4>1. \A k \in Sites : k \in made => k \in made'
        BY <3>1
      <4> HIDE DEF Process
      <4>2. SitesOK
        BY DEF Process
      <4> QED BY <3>1, <3>3, <4>1, <4>2 DEF SitesOK
    <3> QED BY <3>2, <3>4
  <2>2. CASE CreateBot(s) \/ DeleteBot(s)
    <3>1. bot' \in [Sites -> {"never", "there", "gone"}] /\ UNCHANGED <<made, alive, caches, req, toks>>
      BY <2>2 DEF CreateBot, DeleteBot, SitesOK
    <3> QED BY <3>1 DEF RequestsOK, TokensOK, SitesOK, caches
  <2> QED BY <1>7, <2>1, <2>2
<1>8. CASE Restart
  <2>1. RequestsOK' /\ TokensOK'
    BY <1>8 DEF Restart, RequestsOK, TokensOK, States, db
  <2>2. SitesOK'
    BY <1>8, NoLookIs DEF Restart, SitesOK, db
  <2> QED BY <2>1, <2>2
<1> QED BY <1>1, <1>2, <1>3, <1>4, <1>5, <1>6, <1>7, <1>8 DEF Turn

-----------------------------------------------------------------------------
(* Negative answers *)

NoneRefused == \A r \in Requests : req[r].st \in {"null", "refused"} => req[r].site \notin alive
NoneDenied  ==
  \A s \in Sites : look[s].st = "false" \/ (known[s] # NoEntry /\ known[s].val = "false")
                  => s \in made \ alive

\* A request that is refused is one of a site that is gone.
LEMMA BecomeGone ==
  ASSUME RequestsOK, NoneRefused, NEW r \in Requests, NEW st, NEW s, NEW v,
         st \in {"null", "refused"} => s \notin alive,
         Become(r, st, s, v), alive' = alive
  PROVE  NoneRefused'
  BY DEF Become, RequestsOK, NoneRefused

\* Asking denies nothing.
LEMMA AskDenies ==
  ASSUME SitesOK, NoneDenied, NEW s \in Sites, NEW kind, Ask(s, kind),
         UNCHANGED <<made, alive, known>>
  PROVE  NoneDenied'
<1>1. \A k \in Sites : look'[k].st = "false" => look[k].st = "false"
  BY DEF Ask, SitesOK
<1> QED BY <1>1 DEF NoneDenied

\* Every step keeps the refused requests those of sites that are gone.
LEMMA GoneStep ==
  ASSUME Process, Gone, Turn
  PROVE  Gone'
<1> USE DEF Process
<1> SUFFICES ASSUME NoneRefused, NoneDenied
             PROVE  NoneRefused' /\ NoneDenied'
  BY DEF Gone, NoneRefused, NoneDenied
<1>1. ASSUME NEW r \in Requests, NEW s \in Sites, NEW v \in Convs, Generate(r, s, v)
      PROVE  NoneRefused' /\ NoneDenied'
  <2>1. UNCHANGED <<db, caches>> /\ \E st \in {"issued", "finding"} : Become(r, st, s, v)
    BY <1>1 DEF Generate, Issue
  <2> QED BY <2>1, BecomeGone DEF NoneDenied, db, caches
<1>2. ASSUME NEW r \in Requests, NEW t \in toks, Refresh(r, t)
      PROVE  NoneRefused' /\ NoneDenied'
  <2>1. t.site \in Sites
    BY DEF TokensOK, Tokens
  <2>2. /\ alive' = alive
        /\ \E st \in {"forbidden", "issued", "refused", "asking"} :
             /\ Become(r, st, t.site, t.conv)
             /\ st = "refused" => t.site \notin alive
    BY <1>2, <2>1 DEF Refresh, Forbid, Issue, NoneDenied, Live, db
  <2>3. NoneDenied'
    <3>1. CASE UNCHANGED <<db, caches>>
      BY <3>1 DEF NoneDenied, db, caches
    <3>2. CASE Ask(t.site, "site") /\ UNCHANGED <<db, known>>
      BY <2>1, <3>2, AskDenies DEF db
    <3> QED BY <1>2, <3>1, <3>2 DEF Refresh, Forbid
  <2> QED BY <2>2, <2>3, BecomeGone
<1>3. ASSUME NEW r \in Requests, NEW t \in toks, Recreate(r, t)
      PROVE  NoneRefused' /\ NoneDenied'
  <2>1. UNCHANGED <<db, caches>>
        /\ \E st \in {"forbidden", "issued"} : Become(r, st, t.site, t.conv)
    BY <1>3 DEF Recreate, Forbid, Issue
  <2> QED BY <2>1, BecomeGone DEF NoneDenied, db, caches
<1>4. ASSUME NEW r \in Requests, Finding(r)
      PROVE  NoneRefused' /\ NoneDenied'
  <2>1. /\ UNCHANGED <<db, known, look>>
        /\ \E st \in {"row", "null", "issued", "refused", "failed"} :
             /\ Become(r, st, req[r].site, req[r].conv)
             /\ st \in {"null", "refused"} => req[r].site \notin alive
    BY <1>4 DEF Finding, FindSite, StoreSite, FindFails, Issue, NoneRefused, caches
  <2> QED BY <2>1, BecomeGone DEF NoneDenied, db
<1>5. ASSUME NEW s \in Sites, Looking(s)
      PROVE  NoneRefused' /\ NoneDenied'
  <2>1. UNCHANGED <<made, alive>>
    BY <1>5 DEF Looking, Exists, Tell, ExistsFails, db
  <2>2. ASSUME NEW st \in {"issued", "refused", "missing", "failed"}, Answer(s, st),
               st = "refused" => s \notin alive
        PROVE  NoneRefused'
    BY <2>1, <2>2 DEF Answer, Asking, RequestsOK, NoneRefused
  <2>3. look[s].st = "false" => s \in made \ alive
    BY DEF NoneDenied
  <2>4. CASE Exists(s)
    <3>1. look[s].kind = "site" /\ look[s] # NoLook => s \in made
      BY DEF SitesOK
    <3>2. look[s].st = "asked" /\ look[s] # NoLook
      BY <2>4 DEF Exists, NoLook
    <3>3. look[s].kind \in {"site", "bot", "credential"}
      BY DEF SitesOK, Lookups
    <3>4. look'[s].st = "false" => s \in made \ alive
      BY <2>4, <3>1, <3>2, <3>3 DEF Exists, SitesOK, Lookups
    <3>5. \A k \in Sites \ {s} : look'[k] = look[k]
      BY <2>4 DEF Exists, SitesOK
    <3> QED BY <2>1, <2>4, <3>4, <3>5 DEF Exists, NoneDenied, NoneRefused
  <2>5. CASE Tell(s)
    <3>1. NoneRefused'
      BY <2>1, <2>2, <2>3, <2>5 DEF Tell, Pass, NoneRefused
    <3>2. \A k \in Sites : look'[k].st = "false" => look[k].st = "false"
      BY <2>5, NoLookIs DEF Tell, SitesOK
    <3>3. ASSUME NEW val \in Settled, Cache(s, val), val = "false" => s \in made \ alive
          PROVE  NoneDenied'
      <4> DEFINE new == [val |-> val, end |-> now + TTL]
      <4>1. known' = [known EXCEPT ![s] = new] /\ new.val = val
        BY <3>3 DEF Cache
      <4> HIDE DEF new
      <4> QED BY <2>1, <3>2, <3>3, <4>1 DEF NoneDenied, SitesOK
    <3>4. NoneDenied'
      <4>1. CASE Pass(s)
        BY <3>3, <4>1 DEF Pass, Settled, Truthy
      <4>2. CASE look[s].st = "false" /\ Cache(s, "false")
        BY <2>3, <3>3, <4>2 DEF Settled
      <4>3. CASE known' = known
        BY <2>1, <3>2, <4>3 DEF NoneDenied
      <4> QED BY <2>5, <4>1, <4>2, <4>3 DEF Tell
    <3> QED BY <3>1, <3>4
  <2>6. CASE ExistsFails(s)
    <3>1. \A k \in Sites : look'[k].st = "false" => look[k].st = "false"
      BY <2>6, NoLookIs DEF ExistsFails, SitesOK
    <3> QED BY <2>1, <2>2, <2>6, <3>1 DEF ExistsFails, NoneDenied
  <2> QED BY <1>5, <2>4, <2>5, <2>6 DEF Looking
<1>6. ASSUME NEW s \in Sites, NEW kind \in {"bot", "credential"}, Borrow(s, kind)
      PROVE  NoneRefused' /\ NoneDenied'
  BY <1>6, AskDenies DEF Borrow, db, NoneRefused
<1>7. ASSUME NEW s \in Sites, CreateSite(s) \/ DeleteSite(s) \/ CreateBot(s) \/ DeleteBot(s)
      PROVE  NoneRefused' /\ NoneDenied'
  BY <1>7
  DEF CreateSite, DeleteSite, CreateBot, DeleteBot, caches, NoneRefused, NoneDenied,
      RequestsOK, SitesOK
<1>8. CASE Restart
  BY <1>8, NoLookIs DEF Restart, db, NoneRefused, NoneDenied, RequestsOK
<1> QED BY <1>1, <1>2, <1>3, <1>4, <1>5, <1>6, <1>7, <1>8 DEF Turn

-----------------------------------------------------------------------------
(* Positive answers *)

\* seen never goes back, and is the present time for what is there.
LEMMA SeenStep ==
  ASSUME now \in Nat, seen \in [Truthy -> [Sites -> Int]],
         \A k \in Truthy, s \in Sites : seen[k][s] <= now,
         now' \in Nat, now <= now', Notes
  PROVE  /\ seen' \in [Truthy -> [Sites -> Int]]
         /\ \A k \in Truthy, s \in Sites : /\ seen[k][s] <= seen'[k][s] /\ seen'[k][s] <= now'
                                           /\ There(k, s)' => seen'[k][s] = now'
<1> DEFINE there(k, s) == There(k, s)'
<1>1. seen' = [k \in Truthy |-> [s \in Sites |-> IF there(k, s) THEN now' ELSE seen[k][s]]]
  BY DEF Notes
<1> HIDE DEF there
<1>2. /\ seen' \in [Truthy -> [Sites -> Int]]
      /\ \A k \in Truthy, s \in Sites : /\ seen[k][s] <= seen'[k][s] /\ seen'[k][s] <= now'
                                        /\ there(k, s) => seen'[k][s] = now'
  BY <1>1
<1> QED BY <1>2 DEF there

\* Time has passed no promised end: what is known may be acted on.
InTime(k, s) == now <= seen[k][s] + TTL

\* What a turn does to the cache of sites' rows.
LEMMA EntryTurn ==
  ASSUME Process, Turn
  PROVE  \/ entry' = entry
         \/ entry' = [s \in Sites |-> NoEntry]
         \/ \E s \in Sites : /\ There("site", s)
                             /\ entry' = [entry EXCEPT ![s] = [row |-> "row", end |-> now + TTL]]
<1>1. ASSUME NEW r \in Requests, Finding(r), entry' # entry
      PROVE  \E s \in Sites : /\ There("site", s)
                              /\ entry' = [entry EXCEPT ![s] = [row |-> "row", end |-> now + TTL]]
  BY <1>1 DEF Finding, FindSite, StoreSite, FindFails, caches, There, Process, RequestsOK, SitesOK
<1> QED
  BY <1>1
  DEF Turn, Generate, Refresh, Recreate, Forbid, Looking, Exists, Tell, ExistsFails, Borrow,
      CreateSite, DeleteSite, CreateBot, DeleteBot, Restart, caches

\* What a turn does to the cache under the bare id.
LEMMA KnownTurn ==
  ASSUME Process, Turn
  PROVE  \/ known' = known
         \/ known' = [s \in Sites |-> NoEntry]
         \/ \E s \in Sites : look[s].st \in Settled /\ Cache(s, look[s].st)
<1>1. ASSUME NEW s \in Sites, Tell(s)
      PROVE  known' = known \/ (look[s].st \in Settled /\ Cache(s, look[s].st))
  BY <1>1 DEF Tell, Pass, Settled
<1> QED
  BY <1>1
  DEF Turn, Generate, Refresh, Recreate, Forbid, Finding, FindSite, StoreSite, FindFails,
      Looking, Exists, ExistsFails, Borrow, CreateSite, DeleteSite, CreateBot, DeleteBot,
      Restart, caches

\* A token is issued in time, or by creating its conversation again.
LEMMA TokenTurn ==
  ASSUME Process, Timed, now \in Nat, seen \in [Truthy -> [Sites -> Int]], Turn,
         NEW k \in toks' \ toks
  PROVE  /\ k.site \in Sites /\ k.exp = now + Life
         /\ k.by = "token" \/ (k.by \in Truthy /\ InTime(k.by, k.site))
<1> USE TokensAssumption
<1> DEFINE Goal == /\ k.site \in Sites /\ k.exp = now + Life
                   /\ k.by = "token" \/ (k.by \in Truthy /\ InTime(k.by, k.site))
<1>1. ASSUME NEW r \in Requests, NEW s \in Sites, NEW v \in Convs, NEW by,
             Issue(r, s, v, by), by = "token" \/ (by \in Truthy /\ InTime(by, s))
      PROVE  Goal
  BY <1>1 DEF Issue, Token
<1>2. ASSUME NEW by \in Truthy, NEW s \in Sites, There(by, s)
      PROVE  InTime(by, s)
  BY <1>2 DEF Timed, InTime
<1>3. ASSUME NEW r \in Requests, NEW s \in Sites, NEW v \in Convs, Generate(r, s, v)
      PROVE  Goal
  <2>1. Issue(r, s, v, "site") /\ Live(entry[s])
    BY <1>3 DEF Generate
  <2>2. entry[s].end \in Nat /\ now <= entry[s].end /\ entry[s].end <= seen["site"][s] + TTL
    BY <2>1 DEF Live, Process, SitesOK, Timed
  <2>3. seen["site"][s] \in Int /\ "site" \in Truthy
    BY DEF Truthy
  <2>4. InTime("site", s)
    BY <2>2, <2>3 DEF InTime
  <2> QED BY <1>1, <2>1, <2>3, <2>4
<1>4. \A t \in toks : t.site \in Sites /\ t.conv \in Convs
  BY DEF Process, TokensOK, Tokens
<1>5. ASSUME NEW r \in Requests, NEW t \in toks, Refresh(r, t)
      PROVE  Goal
  <2> DEFINE by == known[t.site].val
  <2>1. Issue(r, t.site, t.conv, by) /\ Live(known[t.site]) /\ by \in Truthy
    BY <1>5 DEF Refresh, Forbid
  <2>2. known[t.site].end \in Nat /\ now <= known[t.site].end
        /\ known[t.site].end <= seen[by][t.site] + TTL
    BY <1>4, <2>1 DEF Live, Process, SitesOK, Timed
  <2>3. seen[by][t.site] \in Int
    BY <1>4, <2>1
  <2>4. InTime(by, t.site)
    BY <2>2, <2>3 DEF InTime
  <2> QED BY <1>1, <1>4, <2>1, <2>4
<1>6. ASSUME NEW r \in Requests, NEW t \in toks, Recreate(r, t)
      PROVE  Goal
  <2>1. Issue(r, t.site, t.conv, "token")
    BY <1>6 DEF Recreate, Forbid
  <2> QED BY <1>1, <1>4, <2>1
<1>7. ASSUME NEW r \in Requests, Finding(r)
      PROVE  Goal
  <2>1. Issue(r, req[r].site, req[r].conv, "site") /\ There("site", req[r].site)
        /\ req[r].site \in Sites /\ req[r].conv \in Convs
    BY <1>7 DEF Finding, FindSite, StoreSite, FindFails, There, Process, RequestsOK, SitesOK
  <2> QED BY <1>1, <1>2, <2>1 DEF Truthy
<1>8. ASSUME NEW s \in Sites, Looking(s)
      PROVE  Goal
  <2>1. Pass(s)
    BY <1>8 DEF Looking, Exists, Tell, ExistsFails
  <2>2. k.site = s /\ k.by = look[s].st /\ k.exp = now + Life
    BY <2>1 DEF Pass, Token
  <2>3. look[s].st \in Truthy /\ There(look[s].st, s)
    BY <2>1 DEF Pass, There
  <2> QED BY <1>2, <2>2, <2>3
<1>9. ASSUME NEW s \in Sites, CreateSite(s) \/ DeleteSite(s) \/ CreateBot(s) \/ DeleteBot(s)
      PROVE  Goal
  BY <1>9 DEF CreateSite, DeleteSite, CreateBot, DeleteBot
<1>10. ASSUME NEW s \in Sites, NEW kind \in {"bot", "credential"}, Borrow(s, kind)
      PROVE  Goal
  BY <1>10 DEF Borrow
<1>11. ASSUME Restart
       PROVE  Goal
  BY <1>11 DEF Restart
<1> HIDE DEF Goal
<1>12. ASSUME NEW r \in Requests,
              \/ \E s \in Sites, v \in Convs : Generate(r, s, v)
              \/ \E t \in toks : Refresh(r, t) \/ Recreate(r, t)
              \/ Finding(r)
       PROVE  Goal
  BY <1>3, <1>5, <1>6, <1>7, <1>12
<1>13. ASSUME NEW s \in Sites,
              \/ Looking(s) \/ CreateSite(s) \/ DeleteSite(s) \/ CreateBot(s) \/ DeleteBot(s)
              \/ \E kind \in {"bot", "credential"} : Borrow(s, kind)
       PROVE  Goal
  BY <1>8, <1>9, <1>10, <1>13
<1>14. Goal
  BY <1>11, <1>12, <1>13 DEF Turn
<1> QED BY <1>14 DEF Goal

\* Every step keeps the times of tokens and of the caches.
LEMMA TimedStep ==
  ASSUME Process, Process', Timed, now \in Nat, seen \in [Truthy -> [Sites -> Int]],
         (Turn /\ now' = now) \/ Tick, Notes
  PROVE  Timed' /\ now' \in Nat /\ seen' \in [Truthy -> [Sites -> Int]]
<1> USE TokensAssumption
<1>1. now' \in Nat /\ now <= now'
  BY DEF Tick
<1>2. /\ seen' \in [Truthy -> [Sites -> Int]]
      /\ \A k \in Truthy, s \in Sites : /\ seen[k][s] <= seen'[k][s] /\ seen'[k][s] <= now'
                                        /\ There(k, s)' => seen'[k][s] = now'
  BY <1>1, SeenStep DEF Timed
<1>3. ASSUME NEW k \in Truthy, NEW s \in Sites
      PROVE  /\ seen[k][s] \in Int /\ seen'[k][s] \in Int /\ seen[k][s] <= seen'[k][s]
             /\ There(k, s) => seen[k][s] = now
  <2>1. seen[k] \in [Sites -> Int] /\ seen'[k] \in [Sites -> Int]
    BY <1>2
  <2>2. There(k, s) => seen[k][s] = now
    BY DEF Timed
  <2> QED BY <1>2, <2>1, <2>2
<1>4. ASSUME NEW s \in Sites, entry'[s] # NoEntry
      PROVE  entry'[s].end <= seen'["site"][s] + TTL
  <2>1. "site" \in Truthy /\ entry'[s].end \in Nat
    BY <1>4 DEF Process, SitesOK, Truthy
  <2>2. CASE entry'[s] = entry[s]
    <3>1. entry'[s].end <= seen["site"][s] + TTL
      BY <1>4, <2>2 DEF Timed
    <3> QED BY <1>3, <2>1, <3>1
  <2>3. CASE There("site", s) /\ entry'[s].end = now + TTL
    BY <1>3, <2>1, <2>3
  <2> QED BY <1>4, <2>2, <2>3, EntryTurn DEF Tick, caches, Process, SitesOK
<1>5. ASSUME NEW s \in Sites, known'[s] # NoEntry, known'[s].val \in Truthy
      PROVE  known'[s].end <= seen'[known'[s].val][s] + TTL
  <2> DEFINE by == known'[s].val
  <2>1. by \in Truthy /\ known'[s].end \in Nat
    BY <1>5 DEF Process, SitesOK
  <2>2. CASE known'[s] = known[s]
    <3>1. known'[s].end <= seen[by][s] + TTL
      BY <1>5, <2>2 DEF Timed
    <3> QED BY <1>3, <2>1, <3>1
  <2>3. CASE There(by, s) /\ known'[s].end = now + TTL
    BY <1>3, <2>1, <2>3
  <2>4. ASSUME NEW k \in Sites, Cache(k, look[k].st)
        PROVE  \/ known'[s] = known[s]
               \/ There(by, s) /\ known'[s].end = now + TTL
    BY <2>4 DEF Cache, There, Process, SitesOK
  <2>5. CASE known' = [k \in Sites |-> NoEntry]
    BY <1>5, <2>5
  <2>6. CASE Turn
    BY <2>2, <2>3, <2>4, <2>5, <2>6, KnownTurn
  <2>7. CASE Tick
    BY <2>2, <2>7 DEF Tick, caches
  <2> QED BY <2>6, <2>7
<1>6. ASSUME NEW k \in toks', k.by # "token"
      PROVE  k.exp <= seen'[k.by][k.site] + TTL + Life
  <2>1. k.site \in Sites /\ k.exp \in Nat /\ k.by \in Truthy
    BY <1>6 DEF Process, TokensOK, Tokens
  <2>2. CASE k \in toks
    <3>1. k.exp <= seen[k.by][k.site] + TTL + Life
      BY <1>6, <2>2 DEF Timed, EndsWithSite
    <3> QED BY <1>3, <2>1, <3>1
  <2>3. CASE k \notin toks
    <3>1. Turn /\ k \in toks' \ toks
      BY <2>3 DEF Tick
    <3>2. k.exp = now + Life /\ InTime(k.by, k.site)
      BY <1>6, <3>1, TokenTurn
    <3> QED BY <1>3, <2>1, <3>2 DEF InTime
  <2> QED BY <2>2, <2>3
<1> QED BY <1>1, <1>2, <1>4, <1>5, <1>6 DEF Timed, EndsWithSite

-----------------------------------------------------------------------------
(* Theorems *)

\* Every step keeps the invariant.
LEMMA StepInv ==
  ASSUME Inv, [Next]_vars
  PROVE  Inv'
<1>1. now \in Nat /\ seen \in [Truthy -> [Sites -> Int]] /\ Process /\ Gone /\ Timed
  BY Parts DEF Inv
<1>2. CASE UNCHANGED vars
  BY <1>2 DEF vars, Inv, TypeOK, Placed, Gone, Timed, There, EndsWithSite
<1>3. CASE Next
  <2>1. ((Turn /\ now' = now) \/ Tick) /\ Notes
    BY <1>3 DEF Next
  <2>2. Process' /\ Gone'
    <3>1. CASE Turn
      BY <1>1, <3>1, ProcessStep, GoneStep
    <3>2. CASE Tick
      BY <1>1, <3>2 DEF Tick, db, caches, Process, RequestsOK, TokensOK, SitesOK, Gone
    <3> QED BY <2>1, <3>1, <3>2
  <2>3. Timed' /\ now' \in Nat /\ seen' \in [Truthy -> [Sites -> Int]]
    BY <1>1, <2>1, <2>2, TimedStep
  <2> QED BY <2>2, <2>3 DEF Inv, TypeOK, Placed, Process, RequestsOK, TokensOK, SitesOK, States
<1> QED BY <1>2, <1>3

\* The inductive invariant.
LEMMA Invariance == Spec => []Inv
  BY InitInv, StepInv, PTL DEF Spec

\* Type correctness of tokens, sites and their caches.
THEOREM TokensType == Spec => []TypeOK
<1>1. Inv => TypeOK
  BY DEF Inv
<1> QED BY <1>1, Invariance, PTL

\* However long a chain of refreshes: a token that was not made by creating the
\* conversation again expires within TTL + Life of the deletion of what vouched for
\* it: its site or, where a bot's entry was met under the same key, that bot.
THEOREM TokensEndWithSite == Spec => []EndsWithSite
<1>1. Inv => EndsWithSite
  BY DEF Inv, Timed
<1> QED BY <1>1, Invariance, PTL

\* Only a request whose site is gone is answered 401: a cached false never becomes
\* wrong, whoever's look-ups share the key.
THEOREM TokensRefusedIsGone == Spec => []RefusedIsGone
<1>1. Inv => RefusedIsGone
  BY DEF Inv, Gone, RefusedIsGone
<1> QED BY <1>1, Invariance, PTL
=============================================================================
