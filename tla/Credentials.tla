----------------------------- MODULE Credentials -----------------------------
(***************************************************************************)
(* Bot credentials: the rows that administrators create, change and        *)
(* delete, the cached look-up in front of them, and the checks of bots     *)
(* that present a credential or a token made from one.                     *)
(*                                                                         *)
(* A request awaits every query, so queries of several requests interleave.*)
(* OpenBotSecretService.update reads a row, changes the object and saves   *)
(* it; TypeORM's save loads the row once more and then updates the columns *)
(* that differ, or inserts the object if there is no row.  The object was  *)
(* read without its bot.  Descriptions, hashes and names are left out.     *)
(* The cache's keys are bare ids: no bot's handle and no site's id is that *)
(* of a credential here, whose id is a UUID.                               *)
(***************************************************************************)
EXTENDS Integers

CONSTANTS Creds,        \* credential ids
          Bots,         \* bot ids
          Admins,       \* admin requests, each used once
          Checks,       \* calls that need a valid credential
          Expiries,     \* expiry times an administrator may ask for
          TTL,          \* life of a cache entry
          MaxTime,      \* model bound: the clock stops there
          Never, NoBot, NoRow, NoCred

ASSUME CredentialsAssumption ==
  /\ Expiries \subseteq Nat /\ TTL \in Nat /\ MaxTime \in Nat
  /\ Never \notin Nat /\ NoBot \notin Bots /\ NoCred \notin Creds

Times == Expiries \cup {Never}
Rows == [bot : Bots \cup {NoBot}, exp : Times]

ASSUME NoRowAssumption == NoRow \notin Rows

VARIABLES now,          \* the clock
          bots,         \* bots with a row
          row,          \* the table of credentials
          adm,          \* admin requests
          look,         \* the query under way for each credential, if any
          cache,        \* cache entries: the row and the time they end
          chk,          \* checks
          good,         \* history: when each credential was good last, see Good
          moved         \* history: updates whose row changed after they read it

db   == <<bots, row>>
looks == <<look, cache, chk>>
hist == <<good, moved>>
vars == <<now, bots, row, adm, look, cache, chk, good, moved>>

NoLook == [st |-> "none", row |-> NoRow]
NoEntry == [row |-> NoRow, end |-> 0]

\* held: the expiry of the object in memory; disk: the row TypeORM loaded.
AdminStates == {"new", "bot", "row", "insert", "load", "write", "delete", "drop",
                "done", "failed"}

TypeOK ==
  /\ now \in Nat
  /\ bots \subseteq Bots
  /\ row \in [Creds -> Rows \cup {NoRow}]
  /\ adm \in [Admins -> [op : {"none", "create", "update", "delete", "drop"},
                         st : AdminStates, cred : Creds \cup {NoCred},
                         bot : Bots \cup {NoBot}, want : Times,
                         held : Times, disk : Rows \cup {NoRow}]]
  /\ look \in [Creds -> [st : {"none", "asked", "read"}, row : Rows \cup {NoRow}]]
  /\ cache \in [Creds -> [row : Rows \cup {NoRow}, end : Nat]]
  /\ chk \in [Checks -> [st : {"new", "waiting", "accepted", "rejected", "lost"},
                         cred : Creds \cup {NoCred}]]
  /\ good \in [Creds -> Int] /\ moved \subseteq Admins

Valid(r) == r # NoRow /\ (r.exp = Never \/ r.exp > now)

\* A valid row, in the table or in the hands of a look-up.
Good(k) == Valid(row[k]) \/ (look[k].st = "read" /\ Valid(look[k].row))

Init ==
  /\ now = 0
  /\ bots = Bots
  /\ row \in [Creds -> [bot : Bots, exp : {Never}] \cup {NoRow}]
  /\ adm = [a \in Admins |-> [op |-> "none", st |-> "new", cred |-> NoCred, bot |-> NoBot,
                              want |-> Never, held |-> Never, disk |-> NoRow]]
  /\ look = [k \in Creds |-> NoLook]
  /\ cache = [k \in Creds |-> NoEntry]
  /\ chk = [q \in Checks |-> [st |-> "new", cred |-> NoCred]]
  /\ good = [k \in Creds |-> IF Good(k) THEN 0 ELSE 0 - TTL - 1] /\ moved = {}

-----------------------------------------------------------------------------
(* Administration *)

At(a, op, st) == adm[a].op = op /\ adm[a].st = st
Goto(a, st) == adm' = [adm EXCEPT ![a].st = st]

\* An id is chosen by the database when the row is inserted: no row has it, and no
\* other request or check knows it.
Fresh(k) == /\ row[k] = NoRow /\ look[k] = NoLook
            /\ \A a \in Admins : adm[a].cred # k
            /\ \A q \in Checks : chk[q].cred # k

\* A request arrives.  want = Never stands for a payload without an expiry.
Request(a, op, b, k, want) ==
  /\ adm[a].st = "new"
  /\ adm' = [adm EXCEPT ![a].op = op, ![a].st = "bot", ![a].bot = b,
                        ![a].cred = k, ![a].want = want]

Administer(a) ==
  /\ \E b \in Bots :
       \/ Request(a, "drop", b, NoCred, Never)
       \/ \E want \in Times :
            \/ \E k \in Creds : Fresh(k) /\ Request(a, "create", b, k, want)
            \/ \E k \in Creds : Request(a, "update", b, k, want)
       \/ \E k \in Creds : Request(a, "delete", b, k, Never)
  /\ UNCHANGED <<db, looks>>

\* OpenBotService.findById, first query of every operation.
FindBot(a) ==
  /\ adm[a].st = "bot"
  /\ \/ /\ adm[a].bot \in bots
        /\ Goto(a, CASE adm[a].op = "create" -> "insert"
                     [] adm[a].op = "drop" -> "drop"
                     [] OTHER -> "row")
     \/ adm[a].bot \notin bots /\ Goto(a, "failed")
  /\ UNCHANGED <<db, looks>>

OwnedBy(b, k) == row[k] \in [bot : {b}, exp : Times]

\* Mutant: a payload without an expiry clears it.
FindRowAndClear(a) ==
  /\ adm[a].st = "row"
  /\ \/ /\ OwnedBy(adm[a].bot, adm[a].cred)
        /\ adm' = [adm EXCEPT
                     ![a].st = IF adm[a].op = "update" THEN "load" ELSE "delete",
                     ![a].held = adm[a].want]
     \/ ~OwnedBy(adm[a].bot, adm[a].cred) /\ Goto(a, "failed")
  /\ UNCHANGED <<db, looks>>

\* findByIdInOpenBot: only a row of that bot is found.
FindRow(a) ==
  /\ adm[a].st = "row"
  /\ LET k == adm[a].cred IN
     \/ /\ OwnedBy(adm[a].bot, k)
        /\ adm' = [adm EXCEPT
                     ![a].st = IF adm[a].op = "update" THEN "load" ELSE "delete",
                     ![a].held = IF adm[a].want # Never THEN adm[a].want ELSE row[k].exp]
     \/ ~OwnedBy(adm[a].bot, k) /\ Goto(a, "failed")
  /\ UNCHANGED <<db, looks>>

\* createBotSecret: payload.expiresAt is not copied.  The foreign key makes the
\* insertion fail if the bot is gone.
Insert(a) ==
  /\ adm[a].st = "insert"
  /\ \/ /\ adm[a].bot \in bots
        /\ row' = [row EXCEPT ![adm[a].cred] = [bot |-> adm[a].bot, exp |-> Never]]
        /\ Goto(a, "done")
     \/ adm[a].bot \notin bots /\ UNCHANGED row /\ Goto(a, "failed")
  /\ UNCHANGED <<bots, looks>>

\* save, first query: the row to compare the object with.
Load(a) ==
  /\ adm[a].st = "load"
  /\ adm' = [adm EXCEPT ![a].disk = row[adm[a].cred], ![a].st = "write"]
  /\ UNCHANGED <<db, looks>>

\* save, second query.  UPDATE names the columns that differ from what Load found,
\* and does nothing if the row is gone by now.  If Load found none, the object is
\* inserted, without a bot; the primary key lets only one insertion succeed.
Write(a) ==
  /\ adm[a].st = "write"
  /\ LET k == adm[a].cred IN
     IF adm[a].disk # NoRow
     THEN /\ row' = IF row[k] = NoRow \/ adm[a].held = adm[a].disk.exp THEN row
                    ELSE [row EXCEPT ![k].exp = adm[a].held]
          /\ Goto(a, "done")
     ELSE IF row[k] = NoRow
     THEN /\ row' = [row EXCEPT ![k] = [bot |-> NoBot, exp |-> adm[a].held]]
          /\ Goto(a, "done")
     ELSE UNCHANGED row /\ Goto(a, "failed")
  /\ UNCHANGED <<bots, looks>>

\* delete({ id }), whoever owns the row by now.
Remove(a) ==
  /\ adm[a].st = "delete"
  /\ row' = [row EXCEPT ![adm[a].cred] = NoRow]
  /\ Goto(a, "done")
  /\ UNCHANGED <<bots, looks>>

\* OpenBotService.delete; the database deletes the credentials of the bot too.
RemoveBot(a) ==
  /\ adm[a].st = "drop"
  /\ bots' = bots \ {adm[a].bot}
  /\ row' = [k \in Creds |-> IF OwnedBy(adm[a].bot, k) THEN NoRow ELSE row[k]]
  /\ Goto(a, "done")
  /\ UNCHANGED looks

\* A query fails and has done nothing: the request is answered 500.
QueryFails(a) ==
  /\ adm[a].st \in AdminStates \ {"new", "done", "failed"}
  /\ Goto(a, "failed")
  /\ UNCHANGED <<db, looks>>

AdminStep(a) == FindBot(a) \/ FindRow(a) \/ Insert(a) \/ Load(a) \/ Write(a)
                \/ Remove(a) \/ RemoveBot(a) \/ QueryFails(a)

-----------------------------------------------------------------------------
(* Checks *)

Verdict(r) == IF Valid(r) THEN "accepted" ELSE "rejected"
Waiting(k) == {q \in Checks : chk[q].st = "waiting" /\ chk[q].cred = k}
Decide(k, verdict) ==
  chk' = [q \in Checks |-> IF q \in Waiting(k) THEN [chk[q] EXCEPT !.st = verdict] ELSE chk[q]]

\* Mutant: the expiry of a cached row is not looked at.
CheckFound(q, k) ==
  /\ chk[q].st = "new"
  /\ IF cache[k].row # NoRow /\ now <= cache[k].end
     THEN /\ chk' = [chk EXCEPT ![q] = [st |-> "accepted", cred |-> k]]
          /\ UNCHANGED look
     ELSE /\ chk' = [chk EXCEPT ![q] = [st |-> "waiting", cred |-> k]]
          /\ look' = IF look[k] # NoLook THEN look
                     ELSE [look EXCEPT ![k] = [st |-> "asked", row |-> NoRow]]
  /\ UNCHANGED <<db, adm, cache>>

\* A bot presents credential k, or a token made from it: findValidByIdCached.
\* wrap answers from an entry that has not ended; otherwise the call joins the
\* query under way for its key, or starts one.
Check(q, k) ==
  /\ chk[q].st = "new"
  /\ IF cache[k].row # NoRow /\ now <= cache[k].end
     THEN /\ chk' = [chk EXCEPT ![q] = [st |-> Verdict(cache[k].row), cred |-> k]]
          /\ UNCHANGED look
     ELSE /\ chk' = [chk EXCEPT ![q] = [st |-> "waiting", cred |-> k]]
          /\ look' = IF look[k] # NoLook THEN look
                     ELSE [look EXCEPT ![k] = [st |-> "asked", row |-> NoRow]]
  /\ UNCHANGED <<db, adm, cache>>

\* The database answers the query with the row as it is now.
Read(k) ==
  /\ look[k].st = "asked"
  /\ look' = [look EXCEPT ![k] = [st |-> "read", row |-> row[k]]]
  /\ UNCHANGED <<db, adm, cache, chk>>

\* Mutants: the entry has no end; a look-up that finds nothing answers nobody.
FillForGood(k) ==
  /\ look[k].st = "read"
  /\ cache' = IF look[k].row = NoRow THEN cache
              ELSE [cache EXCEPT ![k] = [row |-> look[k].row, end |-> Never]]
  /\ Decide(k, Verdict(look[k].row))
  /\ look' = [look EXCEPT ![k] = NoLook]
  /\ UNCHANGED <<db, adm>>

FillFound(k) ==
  /\ look[k].st = "read"
  /\ IF look[k].row = NoRow THEN UNCHANGED <<cache, chk>>
     ELSE /\ cache' = [cache EXCEPT ![k] = [row |-> look[k].row, end |-> now + TTL]]
          /\ Decide(k, Verdict(look[k].row))
  /\ look' = [look EXCEPT ![k] = NoLook]
  /\ UNCHANGED <<db, adm>>

\* The answer arrives: it is cached, unless there is no row, and every call that
\* joined is answered.
Fill(k) ==
  /\ look[k].st = "read"
  /\ cache' = IF look[k].row = NoRow THEN cache
              ELSE [cache EXCEPT ![k] = [row |-> look[k].row, end |-> now + TTL]]
  /\ Decide(k, Verdict(look[k].row))
  /\ look' = [look EXCEPT ![k] = NoLook]
  /\ UNCHANGED <<db, adm>>

\* The query fails: every call that joined is refused, nothing is cached.
LookFails(k) ==
  /\ look[k] # NoLook
  /\ Decide(k, "rejected")
  /\ look' = [look EXCEPT ![k] = NoLook]
  /\ UNCHANGED <<db, adm, cache>>

LookStep(k) == Read(k) \/ Fill(k) \/ LookFails(k)

-----------------------------------------------------------------------------
Tick ==
  /\ now < MaxTime
  /\ now' = now + 1
  /\ UNCHANGED <<db, adm, looks>>

\* The process dies: requests under way end, the cache is empty again.
Restart ==
  /\ look' = [k \in Creds |-> NoLook]
  /\ cache' = [k \in Creds |-> NoEntry]
  /\ chk' = [q \in Checks |-> IF chk[q].st = "waiting" THEN [chk[q] EXCEPT !.st = "lost"]
                              ELSE chk[q]]
  /\ adm' = [a \in Admins |-> IF adm[a].st \in {"new", "done", "failed"} THEN adm[a]
                              ELSE [adm[a] EXCEPT !.st = "failed"]]
  /\ UNCHANGED db

Updating(a) == adm[a].op = "update" /\ adm[a].st \in {"load", "write"}

Notes ==
  /\ good' = [k \in Creds |-> IF Good(k)' THEN now' ELSE good[k]]
  /\ moved' = {a \in Admins : /\ Updating(a)'
                              /\ a \in moved \/ row'[adm'[a].cred] # row[adm'[a].cred]}

Turn == \/ \E a \in Admins : Administer(a) \/ AdminStep(a)
        \/ \E q \in Checks, k \in Creds : Check(q, k)
        \/ \E k \in Creds : LookStep(k)
        \/ Restart

Next == ((Turn /\ UNCHANGED now) \/ Tick) /\ Notes

\* The database answers or fails.
Fairness == \A k \in Creds : WF_vars(LookStep(k) /\ UNCHANGED now /\ Notes)

Spec == Init /\ [][Next]_vars /\ Fairness

-----------------------------------------------------------------------------
(* Properties *)

\* A credential that is accepted was in the table, unexpired, at most TTL ago, not
\* counting the time its row spent on the way from the database: deletion and
\* expiry take effect within the cache's time, also when a look-up that
\* overlapped a deletion fills the cache after it.
AcceptedWasGood ==
  [][\A q \in Checks : chk'[q].st = "accepted" /\ chk[q].st # "accepted"
       => now - good'[chk'[q].cred] <= TTL]_vars

\* An update that nobody disturbs changes the expiry it names and nothing else;
\* it brings back no deleted row and undoes no other update.
UpdateAloneIsExact ==
  [][\A a \in Admins : At(a, "update", "write") /\ adm'[a].st = "done"
                      /\ a \notin moved /\ row' # row
       => LET k == adm[a].cred IN
          /\ adm[a].want # Never /\ row[k] # NoRow
          /\ row' = [row EXCEPT ![k].exp = adm[a].want]]_vars

\* A check is answered, unless the process dies: one that joined a query which
\* finds nothing, or fails, is not forgotten.
ChecksEnd == \A q \in Checks : chk[q].st = "waiting" ~> chk[q].st # "waiting"

\* docs/architecture/bot-nodes.md:47 on the bot of a credential: "Cascade delete".
\* A credential belongs to a bot that exists.
CascadeDeletes == \A k \in Creds : row[k] # NoRow => row[k].bot \in bots
=============================================================================
