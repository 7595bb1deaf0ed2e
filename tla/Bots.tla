--------------------------------- MODULE Bots ---------------------------------
(***************************************************************************)
(* Bots: the rows that administrators create, change and delete, and the   *)
(* cached look-up by handle through which a user's post finds the bot's    *)
(* endpoint.                                                               *)
(*                                                                         *)
(* The look-up is wrapped by the cache of the whole process, whose keys    *)
(* are bare ids: a credential is looked up by the id that the caller sent, *)
(* and if that is a bot's handle the two share an entry and, while it is   *)
(* under way, a query.  A call here is a post, or the check of such a      *)
(* credential.  No credential has a handle as its id, and no site here has *)
(* one either: a refresh under the same key is in Tokens, and a post that  *)
(* met its true or false would fail.  TypeORM's save is two queries, as in *)
(* Credentials.  Schema versions are left out.                             *)
(***************************************************************************)
EXTENDS Integers

CONSTANTS Ids, Handles, Endpoints,
          Admins,       \* admin requests, each used once, in their order
          Calls,        \* posts and credential checks, likewise
          TTL,          \* life of a cache entry
          MaxTime,      \* model bound: the clock stops there
          NoRow, NoId, NoHandle, NoEndpoint

Rows == [handle : Handles, endpoint : Endpoints]

ASSUME BotsAssumption ==
  /\ TTL \in Nat /\ MaxTime \in Nat /\ Admins \subseteq Nat /\ Calls \subseteq Nat
  /\ NoRow \notin Rows /\ NoId \notin Ids
  /\ NoHandle \notin Handles /\ NoEndpoint \notin Endpoints

VARIABLES now,          \* the clock
          row,          \* the table of bots
          adm,          \* admin requests
          look,         \* the query under way for each key, if any
          cache,        \* cache entries: the row and the time they end
          call,         \* posts and checks
          last,         \* history: when a bot was at an endpoint last, see At
          gap           \* history: keys that had no bot since their query started

cached == <<look, cache, call>>
vars   == <<now, row, adm, look, cache, call, last, gap>>

NoLook  == [st |-> "none", kind |-> "post", row |-> NoRow]
NoEntry == [row |-> NoRow, end |-> 0]
Kinds   == {"post", "check"}

\* held: the object in memory; disk: the row TypeORM loaded.
TypeOK ==
  /\ now \in Nat
  /\ row \in [Ids -> Rows \cup {NoRow}]
  /\ adm \in [Admins -> [op : {"none", "create", "update", "delete"},
                         st : {"new", "find", "insert", "load", "write", "remove",
                               "done", "conflict", "failed"},
                         id : Ids \cup {NoId}, handle : Handles \cup {NoHandle},
                         endpoint : Endpoints \cup {NoEndpoint},
                         disk : Rows \cup {NoRow}]]
  /\ look \in [Handles -> [st : {"none", "asked", "read"}, kind : Kinds,
                           row : Rows \cup {NoRow}]]
  /\ cache \in [Handles -> [row : Rows \cup {NoRow}, end : Nat]]
  /\ call \in [Calls -> [kind : Kinds, st : {"new", "waiting", "sent", "absent", "failed", "done"},
                         handle : Handles \cup {NoHandle},
                         endpoint : Endpoints \cup {NoEndpoint}]]
  /\ last \in [Rows -> Int] /\ gap \subseteq Handles

Named(r, h) == r # NoRow /\ r.handle = h
Bot(h) == {i \in Ids : Named(row[i], h)}

\* A bot has this handle and endpoint, or an answer that says so is on its way.
At(r) == (\E i \in Ids : row[i] = r) \/ \E h \in Handles : look[h].row = r

\* The handle is unique; a process starts with an empty cache.
Init ==
  /\ now = 0
  /\ row \in {r \in [Ids -> Rows \cup {NoRow}] :
                \A i, j \in Ids : i # j /\ r[i] # NoRow => ~Named(r[j], r[i].handle)}
  /\ adm = [a \in Admins |-> [op |-> "none", st |-> "new", id |-> NoId, handle |-> NoHandle,
                              endpoint |-> NoEndpoint, disk |-> NoRow]]
  /\ look = [h \in Handles |-> NoLook]
  /\ cache = [h \in Handles |-> NoEntry]
  /\ call = [q \in Calls |-> [kind |-> "post", st |-> "new", handle |-> NoHandle,
                              endpoint |-> NoEndpoint]]
  /\ last = [r \in Rows |-> IF At(r) THEN 0 ELSE 0 - TTL - 1] /\ gap = {}

-----------------------------------------------------------------------------
(* Administration *)

Goto(a, st) == adm' = [adm EXCEPT ![a].st = st]

\* Its answer is sent; of its data only the id is remembered.
End(a, st) == adm' = [adm EXCEPT ![a].st = st, ![a].handle = NoHandle,
                                 ![a].endpoint = NoEndpoint, ![a].disk = NoRow]

Request(a, op, st, i, h, e) ==
  /\ \A b \in Admins : adm[b].st = "new" <=> a <= b
  /\ adm' = [adm EXCEPT ![a].op = op, ![a].st = st, ![a].id = i, ![a].handle = h,
                        ![a].endpoint = e]

\* A request arrives.  The database chooses the id of a new row.
Administer(a) ==
  /\ \/ \E i \in Ids, h \in Handles, e \in Endpoints :
          /\ row[i] = NoRow /\ \A b \in Admins : adm[b].id # i
          /\ Request(a, "create", "insert", i, h, e)
     \/ \E i \in Ids, e \in Endpoints \cup {NoEndpoint} : Request(a, "update", "find", i, NoHandle, e)
     \/ \E i \in Ids : Request(a, "delete", "find", i, NoHandle, NoEndpoint)
  /\ UNCHANGED <<row, cached>>

\* Mutant: an endpoint that the payload leaves out is taken over.
FindAndTakeOver(a) ==
  /\ adm[a].st = "find"
  /\ LET r == row[adm[a].id] IN
     \/ r = NoRow /\ End(a, "failed")
     \/ r # NoRow /\ adm[a].op = "delete" /\ Goto(a, "remove")
     \/ /\ r # NoRow /\ adm[a].op = "update"
        /\ adm' = [adm EXCEPT ![a].st = "load", ![a].handle = r.handle]
  /\ UNCHANGED <<row, cached>>

\* findById.  An update takes the handle from the row, never from the payload, and
\* the endpoint if the payload has none.
FindById(a) ==
  /\ adm[a].st = "find"
  /\ LET r == row[adm[a].id] IN
     \/ r = NoRow /\ End(a, "failed")
     \/ r # NoRow /\ adm[a].op = "delete" /\ Goto(a, "remove")
     \/ /\ r # NoRow /\ adm[a].op = "update"
        /\ adm' = [adm EXCEPT ![a].st = "load", ![a].handle = r.handle,
                     ![a].endpoint = IF @ = NoEndpoint THEN r.endpoint ELSE @]
  /\ UNCHANGED <<row, cached>>

\* INSERT, under the unique index of the handle.
Insert(a, taken) ==
  \/ /\ Bot(adm[a].handle) = {}
     /\ row' = [row EXCEPT ![adm[a].id] = [handle |-> adm[a].handle,
                                           endpoint |-> adm[a].endpoint]]
     /\ End(a, "done")
  \/ /\ Bot(adm[a].handle) # {}
     /\ UNCHANGED row /\ End(a, taken)

\* create: a handle that is taken is answered 409.
Create(a) == adm[a].st = "insert" /\ Insert(a, "conflict") /\ UNCHANGED cached

\* save, first query.
Load(a) ==
  /\ adm[a].st = "load"
  /\ adm' = [adm EXCEPT ![a].disk = row[adm[a].id], ![a].st = "write"]
  /\ UNCHANGED <<row, cached>>

\* save, second query.  A bot that was deleted after findById is inserted again,
\* unless another has taken its handle, which is answered 500 here.
Write(a) ==
  /\ adm[a].st = "write"
  /\ LET i == adm[a].id IN
     \/ /\ adm[a].disk # NoRow
        /\ row' = IF row[i] = NoRow \/ adm[a].disk.endpoint = adm[a].endpoint THEN row
                  ELSE [row EXCEPT ![i].endpoint = adm[a].endpoint]
        /\ End(a, "done")
     \/ adm[a].disk = NoRow /\ row[i] = NoRow /\ Insert(a, "failed")
     \/ adm[a].disk = NoRow /\ row[i] # NoRow /\ UNCHANGED row /\ End(a, "failed")
  /\ UNCHANGED cached

Remove(a) ==
  /\ adm[a].st = "remove"
  /\ row' = [row EXCEPT ![adm[a].id] = NoRow]
  /\ End(a, "done")
  /\ UNCHANGED cached

\* A query fails and has done nothing: answered 500.
QueryFails(a) ==
  /\ adm[a].st \in {"find", "insert", "load", "write", "remove"}
  /\ End(a, "failed")
  /\ UNCHANGED <<row, cached>>

AdminStep(a) == FindById(a) \/ Create(a) \/ Load(a) \/ Write(a) \/ Remove(a) \/ QueryFails(a)

-----------------------------------------------------------------------------
(* Look-ups *)

Waiting(h) == {q \in Calls : call[q].st = "waiting" /\ call[q].handle = h}

\* What a check makes of its answer is of no concern here.
Outcome(kind, st, h, e) ==
  IF kind = "post" THEN [kind |-> kind, st |-> st, handle |-> h, endpoint |-> e]
  ELSE [kind |-> kind, st |-> "done", handle |-> NoHandle, endpoint |-> NoEndpoint]

Settle(h, st, e) ==
  call' = [q \in Calls |-> IF q \in Waiting(h) THEN Outcome(call[q].kind, st, h, e) ELSE call[q]]

\* findByHandleCached by a post, findByIdCached by a check: wrap answers from an
\* entry that has not ended, joins the query under way for the key, or starts one.
Wrap(q, kind, h) ==
  /\ \A k \in Calls : call[k].st = "new" <=> q <= k
  /\ \/ /\ cache[h].row # NoRow /\ now <= cache[h].end
        /\ call' = [call EXCEPT ![q] = Outcome(kind, "sent", h, cache[h].row.endpoint)]
        /\ UNCHANGED look
     \/ /\ cache[h].row = NoRow \/ cache[h].end < now
        /\ call' = [call EXCEPT ![q] = [kind |-> kind, st |-> "waiting", handle |-> h,
                                        endpoint |-> NoEndpoint]]
        /\ look' = IF look[h] # NoLook THEN look
                   ELSE [look EXCEPT ![h] = [st |-> "asked", kind |-> kind, row |-> NoRow]]
  /\ UNCHANGED <<row, adm, cache>>

\* The database answers the query of whoever started it.
Read(h) ==
  /\ look[h].st = "asked"
  /\ \E r \in IF look[h].kind = "post" /\ Bot(h) # {} THEN {row[i] : i \in Bot(h)} ELSE {NoRow} :
       look' = [look EXCEPT ![h].st = "read", ![h].row = r]
  /\ UNCHANGED <<row, adm, cache, call>>

\* Mutants: the entry has no end; a miss is cached; a miss answers nobody.
FillForGood(h) ==
  /\ look[h].st = "read"
  /\ LET r == look[h].row IN
     \/ /\ r # NoRow /\ cache' = [cache EXCEPT ![h] = [row |-> r, end |-> MaxTime]]
        /\ Settle(h, "sent", r.endpoint)
     \/ /\ r = NoRow /\ UNCHANGED cache
        /\ Settle(h, "absent", NoEndpoint)
  /\ look' = [look EXCEPT ![h] = NoLook]
  /\ UNCHANGED <<row, adm>>

FillOnlyFound(h) ==
  /\ look[h].st = "read"
  /\ LET r == look[h].row IN
     \/ /\ r # NoRow /\ cache' = [cache EXCEPT ![h] = [row |-> r, end |-> now + TTL]]
        /\ Settle(h, "sent", r.endpoint)
     \/ r = NoRow /\ UNCHANGED <<cache, call>>
  /\ look' = [look EXCEPT ![h] = NoLook]
  /\ UNCHANGED <<row, adm>>

\* A bot is cached and every call that joined goes on with it: a post is sent to
\* its endpoint.  A miss is not cached, and each of them is answered 404.
Fill(h) ==
  /\ look[h].st = "read"
  /\ LET r == look[h].row IN
     \/ /\ r # NoRow /\ cache' = [cache EXCEPT ![h] = [row |-> r, end |-> now + TTL]]
        /\ Settle(h, "sent", r.endpoint)
     \/ /\ r = NoRow /\ UNCHANGED cache
        /\ Settle(h, "absent", NoEndpoint)
  /\ look' = [look EXCEPT ![h] = NoLook]
  /\ UNCHANGED <<row, adm>>

\* Mutant: a failing query counts as a miss.
LookFailsAsMiss(h) ==
  /\ look[h] # NoLook
  /\ Settle(h, "absent", NoEndpoint)
  /\ look' = [look EXCEPT ![h] = NoLook]
  /\ UNCHANGED <<row, adm, cache>>

\* The query fails: every call that joined is answered 500, nothing is cached.
LookFails(h) ==
  /\ look[h] # NoLook
  /\ Settle(h, "failed", NoEndpoint)
  /\ look' = [look EXCEPT ![h] = NoLook]
  /\ UNCHANGED <<row, adm, cache>>

LookStep(h) == Read(h) \/ Fill(h) \/ LookFails(h)

-----------------------------------------------------------------------------

Tick == now < MaxTime /\ now' = now + 1 /\ UNCHANGED <<row, adm, cached>>

\* The process dies: requests under way end, the cache is empty again.
Restart ==
  /\ look' = [h \in Handles |-> NoLook]
  /\ cache' = [h \in Handles |-> NoEntry]
  /\ call' = [q \in Calls |-> IF call[q].st # "waiting" THEN call[q]
                           ELSE Outcome(call[q].kind, "failed", call[q].handle, NoEndpoint)]
  /\ adm' = [a \in Admins |-> IF adm[a].st \in {"new", "done", "conflict", "failed"} THEN adm[a]
                              ELSE [adm[a] EXCEPT !.st = "failed"]]
  /\ UNCHANGED row

Notes ==
  /\ last' = [r \in Rows |-> IF At(r)' THEN now' ELSE last[r]]
  /\ gap' = {h \in Handles : look'[h] # NoLook /\ (Bot(h)' = {} \/ h \in gap)}

Turn == \/ \E a \in Admins : Administer(a) \/ AdminStep(a)
        \/ \E q \in Calls, kind \in Kinds, h \in Handles : Wrap(q, kind, h)
        \/ \E h \in Handles : LookStep(h)
        \/ Restart

Next == ((Turn /\ UNCHANGED now) \/ Tick) /\ Notes

\* The database answers or fails.
Fairness == \A h \in Handles : WF_vars(LookStep(h) /\ UNCHANGED now /\ Notes)

Spec == Init /\ [][Next]_vars /\ Fairness

-----------------------------------------------------------------------------
(* Properties *)

\* A post goes to an endpoint that a bot of its handle had at most TTL ago, not
\* counting the time the row spent on the way from the database: moving, deleting
\* or replacing a bot takes effect within the cache's time.
SentWhereBotWas ==
  [][\A q \in Calls : call'[q].st = "sent" /\ call[q].st # "sent"
       => now - last'[[handle |-> call'[q].handle, endpoint |-> call'[q].endpoint]] <= TTL]_vars

\* A post is answered 404 only if at some moment since the query it waits for was
\* started there was no bot of its handle, or if that query is of a credential
\* check: an older miss, or a failure, is never held against it.
AbsentWasAbsent ==
  [][\A q \in Calls : call[q].kind = "post" /\ call'[q].st = "absent" /\ call[q].st = "waiting"
       => call[q].handle \in gap \/ look[call[q].handle].kind = "check"]_vars

\* Every call that waits for a query is answered, also one that joined it late.
CallsEnd == \A q \in Calls : call[q].st = "waiting" ~> call[q].st # "waiting"
===============================================================================
