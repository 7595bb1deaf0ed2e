-------------------------------- MODULE Tokens --------------------------------
(***************************************************************************)
(* DirectLine tokens and the web-chat sites (channels) they are made for.  *)
(* A site's secret buys a token and a new conversation; a token buys       *)
(* another one for its conversation, by refresh or by creating the         *)
(* conversation again.  Tokens are kept nowhere: a token is good until it  *)
(* expires, so the only way to end a conversation is to delete its site.   *)
(*                                                                         *)
(* Sites are looked up through two cache entries of different rules:       *)
(* findByIdCached reads, queries and writes, and keeps no misses;          *)
(* existsByIdCached is wrapped, so calls of one key share a query, and     *)
(* keeps false as well as true.  Its key is the bare id, which is also the *)
(* key of a look-up of a bot by handle, and of a credential by the id that *)
(* a caller sent: they fill the entry, or start the query, that a refresh  *)
(* meets.  What they make of it themselves is Bots and Credentials; no     *)
(* credential has a site's id.  Users, regions and signatures are left     *)
(* out; a site's secret is right in every request.                         *)
(***************************************************************************)
EXTENDS Integers

CONSTANTS Sites, Convs,
          Requests,     \* each used once, in their order
          TTL,          \* life of a cache entry
          Life,         \* life of a token
          MaxTime,      \* model bound: the clock stops there
          NoSite, NoConv, NoEntry

ASSUME TokensAssumption ==
  /\ TTL \in Nat /\ Life \in Nat /\ MaxTime \in Nat /\ Requests \subseteq Nat
  /\ NoSite \notin Sites /\ NoConv \notin Convs

VARIABLES now,          \* the clock
          made,         \* sites created so far
          alive,        \* sites with a row
          bot,          \* for each site, its namesake: the bot with its id as handle
          entry,        \* cache of findByIdCached
          known,        \* cache under the bare id
          look,         \* the query under way for that key, if any
          req,          \* requests
          toks,         \* tokens issued
          seen          \* history: when each site, or its namesake, was there last

db     == <<made, alive, bot>>
caches == <<entry, known, look>>
vars   == <<now, made, alive, bot, entry, known, look, req, toks, seen>>

Truthy   == {"site", "bot"}      \* answers: the site exists, a bot's row
Settled  == Truthy \cup {"false"}   \* what is cached
Answers  == Settled \cup {"missing"}
Lookups  == [kind : {"site", "bot", "credential"}, st : {"none", "asked"} \cup Answers]
NoLook   == [kind |-> "site", st |-> "none"]

ASSUME NoEntryAssumption ==
  NoEntry \notin [row : {"row"}, end : Nat] \cup [val : Settled, end : Nat]

\* by: history, what vouched for the token, an answer or only another token.
Tokens == [site : Sites, conv : Convs, exp : Nat, by : Truthy \cup {"token"}]

TypeOK ==
  /\ now \in Nat /\ made \subseteq Sites /\ alive \subseteq made
  /\ bot \in [Sites -> {"never", "there", "gone"}]
  /\ entry \in [Sites -> [row : {"row"}, end : Nat] \cup {NoEntry}]
  /\ known \in [Sites -> [val : Settled, end : Nat] \cup {NoEntry}]
  /\ look \in [Sites -> Lookups]
  /\ req \in [Requests -> [st : {"new", "finding", "row", "null", "asking",
                                 "issued", "refused", "missing", "forbidden", "failed"},
                           site : Sites \cup {NoSite}, conv : Convs \cup {NoConv}]]
  /\ toks \subseteq Tokens
  /\ seen \in [Truthy -> [Sites -> Int]]

\* A site's row is in the table, or a bot with its id for a handle, or an answer
\* that says so is on its way.
There(k, s) ==
  \/ look[s].st = k
  \/ k = "site" /\ (s \in alive \/ \E r \in Requests : req[r].st = "row" /\ req[r].site = s)
  \/ k = "bot" /\ bot[s] = "there"

LongAgo == 0 - TTL - 1

Init ==
  /\ now = 0 /\ toks = {}
  /\ made \in SUBSET Sites /\ alive = made
  /\ bot \in [Sites -> {"never", "there"}]
  /\ entry = [s \in Sites |-> NoEntry]
  /\ known = [s \in Sites |-> NoEntry]
  /\ look = [s \in Sites |-> NoLook]
  /\ req = [r \in Requests |-> [st |-> "new", site |-> NoSite, conv |-> NoConv]]
  /\ seen = [k \in Truthy |-> [s \in Sites |-> IF There(k, s) THEN 0 ELSE LongAgo]]

-----------------------------------------------------------------------------

Live(e) == e # NoEntry /\ now <= e.end
Become(r, st, s, v) == req' = [req EXCEPT ![r] = [st |-> st, site |-> s, conv |-> v]]

\* createToken.
Token(s, v, by) == [site |-> s, conv |-> v, exp |-> now + Life, by |-> by]
Issue(r, s, v, by) ==
  /\ Become(r, "issued", s, v)
  /\ toks' = toks \cup {Token(s, v, by)}

\* verifyDirectLineToken: an expired token is answered 403.
Expired(t) == t.exp <= now
Forbid(r, t) == /\ Become(r, "forbidden", t.site, t.conv)
                /\ UNCHANGED <<db, caches, toks>>

First(r) == \A q \in Requests : req[q].st = "new" <=> r <= q
NewConv(v) == \A r \in Requests : req[r].conv # v

-----------------------------------------------------------------------------
(* generateToken, also for createConversation with a secret *)

Generate(r, s, v) ==
  /\ First(r) /\ s \in made /\ NewConv(v)
  /\ \/ Live(entry[s]) /\ Issue(r, s, v, "site")
     \/ ~Live(entry[s]) /\ Become(r, "finding", s, v) /\ UNCHANGED toks
  /\ UNCHANGED <<db, caches>>

FindSite(r) ==
  /\ req[r].st = "finding"
  /\ Become(r, IF req[r].site \in alive THEN "row" ELSE "null", req[r].site, req[r].conv)
  /\ UNCHANGED <<db, caches, toks>>

\* Mutant: misses are cached.
StoreMisses(r) ==
  LET s == req[r].site IN
  /\ req[r].st \in {"row", "null"}
  /\ entry' = [entry EXCEPT ![s] = [row |-> req[r].st, end |-> now + TTL]]
  /\ \/ req[r].st = "row" /\ Issue(r, s, req[r].conv, "site")
     \/ req[r].st = "null" /\ Become(r, "refused", s, req[r].conv) /\ UNCHANGED toks
  /\ UNCHANGED <<db, known, look>>

\* Misses are not cached.
StoreSite(r) ==
  LET s == req[r].site IN
  \/ /\ req[r].st = "row"
     /\ entry' = [entry EXCEPT ![s] = [row |-> "row", end |-> now + TTL]]
     /\ Issue(r, s, req[r].conv, "site")
     /\ UNCHANGED <<db, known, look>>
  \/ /\ req[r].st = "null"
     /\ Become(r, "refused", s, req[r].conv)
     /\ UNCHANGED <<db, caches, toks>>

FindFails(r) ==
  /\ req[r].st = "finding"
  /\ Become(r, "failed", req[r].site, req[r].conv)
  /\ UNCHANGED <<db, caches, toks>>

-----------------------------------------------------------------------------
(* refreshToken *)

\* Mutant: the site is not looked at.
RefreshUnchecked(r, t) ==
  /\ First(r)
  /\ \/ Expired(t) /\ Forbid(r, t)
     \/ ~Expired(t) /\ Issue(r, t.site, t.conv, "site") /\ UNCHANGED <<db, caches>>

\* Unless one is under way, a query of this kind starts.
Ask(s, kind) == look' = IF look[s] # NoLook THEN look
                        ELSE [look EXCEPT ![s] = [kind |-> kind, st |-> "asked"]]

\* Any answer that is not false passes for the site.
Refresh(r, t) ==
  /\ First(r)
  /\ LET s == t.site IN
     \/ Expired(t) /\ Forbid(r, t)
     \/ /\ ~Expired(t) /\ Live(known[s])
        /\ \/ known[s].val \in Truthy /\ Issue(r, s, t.conv, known[s].val)
           \/ known[s].val = "false" /\ Become(r, "refused", s, t.conv) /\ UNCHANGED toks
        /\ UNCHANGED <<db, caches>>
     \/ /\ ~Expired(t) /\ ~Live(known[s])
        /\ Become(r, "asking", s, t.conv)
        /\ Ask(s, "site")
        /\ UNCHANGED <<db, entry, known, toks>>

\* A post with a token of the namesake's sites, or a check of a credential of this id.
Borrow(s, kind) ==
  /\ kind = "bot" => bot[s] # "never"
  /\ ~Live(known[s]) /\ look[s] = NoLook
  /\ Ask(s, kind)
  /\ UNCHANGED <<db, entry, known, req, toks>>

Asking(s) == {r \in Requests : req[r].st = "asking" /\ req[r].site = s}

Answer(s, st) == req' = [r \in Requests |-> IF r \in Asking(s) THEN [req[r] EXCEPT !.st = st]
                                            ELSE req[r]]

\* The query of whoever started it: existsByIdCached, findByHandleCached or
\* OpenBotSecretService.findByIdCached.
Exists(s) ==
  /\ look[s].st = "asked"
  /\ look' = [look EXCEPT ![s].st =
       CASE look[s].kind = "site" -> IF s \in alive THEN "site" ELSE "false"
         [] look[s].kind = "bot"  -> IF bot[s] = "there" THEN "bot" ELSE "missing"
         [] OTHER                 -> "missing"]
  /\ UNCHANGED <<db, entry, known, req, toks>>

Cache(s, val) == known' = [known EXCEPT ![s] = [val |-> val, end |-> now + TTL]]

\* Every refresh that joined goes on, with a token that the answer vouches for.
Pass(s) ==
  /\ look[s].st \in Truthy
  /\ Cache(s, look[s].st) /\ Answer(s, "issued")
  /\ toks' = toks \cup {Token(s, req[r].conv, look[s].st) : r \in Asking(s)}

\* Mutant: a refresh of a site that is gone gets no answer.
TellTrue(s) ==
  /\ \/ Pass(s)
     \/ look[s].st = "false" /\ Cache(s, "false") /\ UNCHANGED <<req, toks>>
     \/ look[s].st = "missing" /\ Answer(s, "missing") /\ UNCHANGED <<known, toks>>
  /\ look' = [look EXCEPT ![s] = NoLook]
  /\ UNCHANGED <<db, entry>>

\* The answer is cached, except that the queries of the other services throw, and
\* whoever joined them is answered 404.
Tell(s) ==
  /\ \/ Pass(s)
     \/ look[s].st = "false" /\ Cache(s, "false") /\ Answer(s, "refused") /\ UNCHANGED toks
     \/ look[s].st = "missing" /\ Answer(s, "missing") /\ UNCHANGED <<known, toks>>
  /\ look' = [look EXCEPT ![s] = NoLook]
  /\ UNCHANGED <<db, entry>>

\* Mutant: a query that fails counts as a site that is gone.
FailsAsFalse(s) ==
  /\ look[s] # NoLook
  /\ Cache(s, "false") /\ Answer(s, "refused")
  /\ look' = [look EXCEPT ![s] = NoLook]
  /\ UNCHANGED <<db, entry, toks>>

ExistsFails(s) ==
  /\ look[s] # NoLook
  /\ Answer(s, "failed")
  /\ look' = [look EXCEPT ![s] = NoLook]
  /\ UNCHANGED <<db, entry, known, toks>>

-----------------------------------------------------------------------------

\* createConversation with a token: only the token is looked at.
Recreate(r, t) ==
  /\ First(r)
  /\ \/ Expired(t) /\ Forbid(r, t)
     \/ ~Expired(t) /\ Issue(r, t.site, t.conv, "token") /\ UNCHANGED <<db, caches>>

-----------------------------------------------------------------------------
(* Sites, bots, the clock, the process *)

\* WebChatService.createBotSecret: a new random id.
CreateSite(s) ==
  /\ s \notin made
  /\ made' = made \cup {s} /\ alive' = alive \cup {s}
  /\ UNCHANGED <<bot, caches, req, toks>>

\* The database deletes the sites of a bot with it (OpenBotService.delete).
DeleteSite(s) ==
  /\ s \in alive
  /\ alive' = alive \ {s}
  /\ UNCHANGED <<made, bot, caches, req, toks>>

\* A bot is created with the site's id for a handle, or such a bot is deleted.
CreateBot(s) ==
  /\ bot[s] # "there"
  /\ bot' = [bot EXCEPT ![s] = "there"]
  /\ UNCHANGED <<made, alive, caches, req, toks>>

DeleteBot(s) ==
  /\ bot[s] = "there"
  /\ bot' = [bot EXCEPT ![s] = "gone"]
  /\ UNCHANGED <<made, alive, caches, req, toks>>

Tick == /\ now < MaxTime /\ now' = now + 1
        /\ UNCHANGED <<db, caches, req, toks>>

Restart ==
  /\ entry' = [s \in Sites |-> NoEntry]
  /\ known' = [s \in Sites |-> NoEntry]
  /\ look' = [s \in Sites |-> NoLook]
  /\ req' = [r \in Requests |-> IF req[r].st \in {"finding", "row", "null", "asking"}
                                THEN [req[r] EXCEPT !.st = "failed"] ELSE req[r]]
  /\ UNCHANGED <<db, toks>>

Notes == seen' = [k \in Truthy |-> [s \in Sites |-> IF There(k, s)' THEN now' ELSE seen[k][s]]]

Finding(r) == FindSite(r) \/ StoreSite(r) \/ FindFails(r)
Looking(s) == Exists(s) \/ Tell(s) \/ ExistsFails(s)

Turn ==
  \/ \E r \in Requests :
       \/ \E s \in Sites, v \in Convs : Generate(r, s, v)
       \/ \E t \in toks : Refresh(r, t) \/ Recreate(r, t)
       \/ Finding(r)
  \/ \E s \in Sites :
       \/ Looking(s) \/ CreateSite(s) \/ DeleteSite(s) \/ CreateBot(s) \/ DeleteBot(s)
       \/ \E kind \in {"bot", "credential"} : Borrow(s, kind)
  \/ Restart

Next == ((Turn /\ UNCHANGED now) \/ Tick) /\ Notes

\* The database answers or fails.
Fairness ==
  /\ \A r \in Requests : WF_vars(Finding(r) /\ UNCHANGED now /\ Notes)
  /\ \A s \in Sites : WF_vars(Looking(s) /\ UNCHANGED now /\ Notes)

Spec == Init /\ [][Next]_vars /\ Fairness

-----------------------------------------------------------------------------
(* Properties *)

\* A deleted site's conversations end: a token made from the secret, or by a
\* refresh that an answer of the site's existence let pass, expires no later than a
\* token's life after the caches forgot the site.  There are two ways around that: a
\* token that the row of a bot of that handle let pass ends likewise with the bot,
\* whatever becomes of the site, and creating the conversation again asks nobody.
EndsWithSite == \A t \in toks : t.by # "token" => t.exp <= seen[t.by][t.site] + TTL + Life

\* A request with a right secret or a valid token is refused, 401, only if its site
\* is deleted: a false answer in the cache is never one that has become wrong, and
\* neither a failed query nor a miss of another service leaves one there.  A 404 says
\* less: a refresh gets it if it joined a query for a bot or a credential that is
\* missing, also when its site exists.
RefusedIsGone == \A r \in Requests : req[r].st = "refused" => req[r].site \notin alive

\* Every request is answered.
RequestsEnd ==
  \A r \in Requests : req[r].st \in {"finding", "row", "null", "asking"}
                      ~> req[r].st \in {"issued", "refused", "missing", "failed"}
=============================================================================
