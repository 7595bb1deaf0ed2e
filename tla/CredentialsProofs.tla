-------------------------- MODULE CredentialsProofs --------------------------
(***************************************************************************)
(* Proofs about Credentials, for every number of credentials, bots,        *)
(* administrators and checks, whatever expiries are asked for, and every   *)
(* life of cache entries.                                                  *)
(***************************************************************************)
EXTENDS Credentials, TLAPS

\* Every request but the deletion of a bot names a credential.
Named ==
  \A a \in Admins :
    /\ adm[a].st # "new" /\ adm[a].op # "drop" => adm[a].cred \in Creds
    /\ adm[a].st \in {"row", "load", "write"} => adm[a].op # "drop"

\* A good credential was good just now; the entry of one that is not expired ends
\* within TTL of the time when it was good last.
Recent ==
  \A k \in Creds :
    /\ good[k] <= now
    /\ Good(k) => good[k] = now
    /\ cache[k].row # NoRow /\ Valid(cache[k].row) => cache[k].end <= good[k] + TTL

\* An update whose row did not move holds what it will write, and the row it compares
\* that with is the one in the table.
Undisturbed ==
  \A a \in Admins : Updating(a) /\ a \notin moved =>
    LET k == adm[a].cred IN
    /\ row[k] # NoRow
    /\ adm[a].held = IF adm[a].want # Never THEN adm[a].want ELSE row[k].exp
    /\ adm[a].st = "write" => adm[a].disk = row[k]

Inv == TypeOK /\ Named /\ Recent /\ Undisturbed

AdminRecords == [op : {"none", "create", "update", "delete", "drop"},
                 st : AdminStates, cred : Creds \cup {NoCred},
                 bot : Bots \cup {NoBot}, want : Times,
                 held : Times, disk : Rows \cup {NoRow}]
CheckRecords == [st : {"new", "waiting", "accepted", "rejected", "lost"},
                 cred : Creds \cup {NoCred}]

\* TypeOK, cut by what the actions change.
DbOK   == bots \subseteq Bots /\ row \in [Creds -> Rows \cup {NoRow}]
AdmOK  == adm \in [Admins -> AdminRecords]
LookOK == /\ look \in [Creds -> [st : {"none", "asked", "read"}, row : Rows \cup {NoRow}]]
          /\ cache \in [Creds -> [row : Rows \cup {NoRow}, end : Nat]]
          /\ chk \in [Checks -> CheckRecords]
HistOK == good \in [Creds -> Int] /\ moved \subseteq Admins

\* The type invariant, cut by what the actions change.
LEMMA Parts == TypeOK <=> now \in Nat /\ DbOK /\ AdmOK /\ LookOK /\ HistOK
  BY DEF TypeOK, DbOK, AdmOK, LookOK, HistOK, AdminRecords, CheckRecords

\* The service starts with the invariant.
LEMMA InitInv == Init => Inv
<1> USE CredentialsAssumption, NoRowAssumption
<1>1. Init => TypeOK
  <2> SUFFICES ASSUME Init
               PROVE  TypeOK
    OBVIOUS
  <2>1. [bot : Bots, exp : {Never}] \subseteq Rows /\ Never \in Times
    BY DEF Rows, Times
  <2>2. DbOK
    BY <2>1 DEF Init, DbOK
  <2>3. AdmOK
    BY <2>1 DEF Init, AdmOK, AdminRecords, AdminStates
  <2>4. LookOK /\ HistOK /\ now \in Nat
    BY DEF Init, LookOK, HistOK, CheckRecords, NoLook, NoEntry
  <2> QED BY <2>2, <2>3, <2>4, Parts
<1>2. Init => Named /\ Undisturbed
  BY DEF Init, Named, Undisturbed, Updating
<1>3. Init => Recent
  <2> SUFFICES ASSUME Init, NEW k \in Creds
               PROVE  /\ good[k] <= now /\ (Good(k) => good[k] = now)
                      /\ cache[k].row = NoRow
    BY DEF Recent
  <2>1. good[k] <= now /\ (Good(k) => good[k] = now)
    BY CredentialsAssumption DEF Init
  <2>2. cache[k] = NoEntry
    BY DEF Init
  <2> QED BY <2>1, <2>2 DEF NoEntry
<1> QED BY <1>1, <1>2, <1>3 DEF Inv

-----------------------------------------------------------------------------
(* Administration *)

\* Only a's record changes, and of it neither what the request is nor what it is about.
Moves(a, st, held, disk) ==
  /\ \A b \in Admins \ {a} : adm'[b] = adm[b]
  /\ adm'[a].st = st /\ adm'[a].held = held /\ adm'[a].disk = disk
  /\ adm'[a].op = adm[a].op /\ adm'[a].cred = adm[a].cred
  /\ adm'[a].bot = adm[a].bot /\ adm'[a].want = adm[a].want

\* A request goes on.
LEMMA GotoFacts ==
  ASSUME AdmOK, NEW a \in Admins, NEW st \in AdminStates, Goto(a, st)
  PROVE  AdmOK' /\ Moves(a, st, adm[a].held, adm[a].disk)
  BY DEF AdmOK, AdminRecords, Goto, Moves

\* An update takes its expiry into the entity it holds.
LEMMA HoldFacts ==
  ASSUME AdmOK, NEW a \in Admins, NEW st \in AdminStates, NEW held \in Times,
         adm' = [adm EXCEPT ![a].st = st, ![a].held = held]
  PROVE  AdmOK' /\ Moves(a, st, held, adm[a].disk)
  BY DEF AdmOK, AdminRecords, Moves

\* save() loads the row before it writes.
LEMMA LoadFacts ==
  ASSUME AdmOK, NEW a \in Admins, NEW disk \in Rows \cup {NoRow},
         adm' = [adm EXCEPT ![a].disk = disk, ![a].st = "write"]
  PROVE  AdmOK' /\ Moves(a, "write", adm[a].held, disk)
  BY DEF AdmOK, AdminRecords, Moves, AdminStates

\* A new request of an administrator.
LEMMA RequestFacts ==
  ASSUME AdmOK, NEW a \in Admins, NEW op \in {"create", "update", "delete", "drop"},
         NEW b \in Bots, NEW k \in Creds \cup {NoCred}, NEW want \in Times,
         Request(a, op, b, k, want)
  PROVE  /\ AdmOK'
         /\ \A c \in Admins \ {a} : adm'[c] = adm[c]
         /\ adm'[a].st = "bot" /\ adm'[a].op = op /\ adm'[a].cred = k
  BY DEF AdmOK, AdminRecords, Request, AdminStates

\* A restart fails the requests under way and keeps the others.
LEMMA RestartFacts ==
  ASSUME AdmOK, Restart, NEW a \in Admins
  PROVE  /\ adm'[a] \in AdminRecords
         /\ adm'[a] = adm[a] \/ (adm'[a].st = "failed" /\ adm'[a].op = adm[a].op
                                 /\ adm'[a].cred = adm[a].cred)
<1> DEFINE ended == [adm[a] EXCEPT !.st = "failed"]
<1>1. adm'[a] = adm[a] \/ (adm'[a] = ended /\ adm[a].st # "new")
  BY DEF Restart
<1>2. /\ adm[a] \in AdminRecords /\ ended \in AdminRecords
      /\ ended.st = "failed" /\ ended.op = adm[a].op /\ ended.cred = adm[a].cred
  BY DEF AdmOK, AdminRecords, AdminStates
<1> HIDE DEF ended
<1> QED BY <1>1, <1>2

\* An admin step that leaves the table alone.
LEMMA AdminCases ==
  ASSUME TypeOK, Named, NEW a \in Admins, AdminStep(a)
  PROVE  /\ AdmOK' /\ DbOK'
         /\ \E st \in AdminStates \ {"new", "bot"}, held \in Times, disk \in Rows \cup {NoRow} :
              /\ Moves(a, st, held, disk)
              /\ st \in {"row", "load", "write"} => adm[a].op # "drop"
              /\ st \in {"row", "load", "write"} => row' = row
              /\ st = "load" /\ adm[a].op = "update" =>
                   /\ row[adm[a].cred] # NoRow
                   /\ held = IF adm[a].want # Never THEN adm[a].want ELSE row[adm[a].cred].exp
              /\ st = "write" => /\ adm[a].st = "load" /\ held = adm[a].held
                                /\ disk = row[adm[a].cred]
<1> USE Parts DEF DbOK
<1> DEFINE k == adm[a].cred
<1>1. /\ adm[a] \in AdminRecords /\ adm[a].held \in Times /\ adm[a].disk \in Rows \cup {NoRow}
      /\ adm[a].want \in Times
  BY DEF AdmOK, AdminRecords
<1>2. ASSUME NEW st \in AdminStates \ {"new", "bot", "load", "write"}, Goto(a, st),
             st = "row" => adm[a].op # "drop" /\ row' = row, DbOK'
      PROVE  AdmOK' /\ DbOK' /\ Moves(a, st, adm[a].held, adm[a].disk)
  BY <1>2, GotoFacts
<1>3. CASE FindBot(a)
  <2>1. DbOK' /\ row' = row
    BY <1>3 DEF FindBot, db
  <2>2. PICK st \in {"insert", "drop", "row", "failed"} :
          Goto(a, st) /\ (st = "row" => adm[a].op # "drop")
    BY <1>3 DEF FindBot
  <2> QED BY <1>1, <1>2, <2>1, <2>2 DEF AdminStates
<1>4. CASE FindRow(a)
  <2>1. DbOK' /\ row' = row /\ adm[a].op # "drop" /\ k \in Creds
    BY <1>4 DEF FindRow, db, Named
  <2>2. CASE Goto(a, "failed")
    BY <1>1, <1>2, <2>1, <2>2 DEF AdminStates
  <2>3. CASE OwnedBy(adm[a].bot, k)
             /\ adm' = [adm EXCEPT
                  ![a].st = IF adm[a].op = "update" THEN "load" ELSE "delete",
                  ![a].held = IF adm[a].want # Never THEN adm[a].want ELSE row[k].exp]
    <3> DEFINE st == IF adm[a].op = "update" THEN "load" ELSE "delete"
               held == IF adm[a].want # Never THEN adm[a].want ELSE row[k].exp
    <3>1. st \in {"load", "delete"} /\ (st = "load" <=> adm[a].op = "update")
      OBVIOUS
    <3>2. row[k] \in [bot : {adm[a].bot}, exp : Times]
      BY <2>3 DEF OwnedBy
    <3>3. row[k] # NoRow /\ held \in Times
      <4>1. row[k].exp \in Times /\ row[k].bot = adm[a].bot /\ adm[a].bot \in Bots \cup {NoBot}
        BY <1>1, <3>2 DEF AdminRecords
      <4>2. row[k] \in Rows
        BY <3>2, <4>1 DEF Rows
      <4> QED BY <1>1, <4>1, <4>2, NoRowAssumption
    <3>4. adm' = [adm EXCEPT ![a].st = st, ![a].held = held]
      BY <2>3
    <3> HIDE DEF st, held
    <3>5. st \in AdminStates
      BY <3>1 DEF AdminStates
    <3>6. AdmOK' /\ Moves(a, st, held, adm[a].disk)
      BY <3>3, <3>4, <3>5, HoldFacts
    <3>7. st = "load" => held = IF adm[a].want # Never THEN adm[a].want ELSE row[k].exp
      BY DEF held
    <3> QED BY <1>1, <2>1, <3>1, <3>3, <3>5, <3>6, <3>7
  <2> QED BY <1>4, <2>2, <2>3 DEF FindRow
<1>5. CASE Insert(a)
  <2>1. /\ Goto(a, "done") \/ Goto(a, "failed")
        /\ bots' = bots
        /\ row' = row \/ row' = [row EXCEPT ![k] = [bot |-> adm[a].bot, exp |-> Never]]
    BY <1>5 DEF Insert
  <2>2. [bot |-> adm[a].bot, exp |-> Never] \in Rows
    BY <1>1 DEF AdminRecords, Rows, Times
  <2>3. DbOK'
    BY <2>1, <2>2
  <2> QED BY <1>1, <1>2, <2>1, <2>3 DEF AdminStates
<1>6. CASE Load(a)
  <2>1. adm[a].st = "load" /\ DbOK' /\ row' = row
    BY <1>6 DEF Load, db
  <2>2. adm[a].op # "drop" /\ k \in Creds
    BY <2>1 DEF Named
  <2>3. row[k] \in Rows \cup {NoRow}
    BY <2>2
  <2>4. AdmOK' /\ Moves(a, "write", adm[a].held, row[k])
    BY <1>6, <2>3, LoadFacts DEF Load
  <2> QED BY <1>1, <2>1, <2>2, <2>3, <2>4 DEF AdminStates
<1>7. CASE Write(a)
  <2>1. k \in Creds /\ bots' = bots /\ (Goto(a, "done") \/ Goto(a, "failed"))
    BY <1>7 DEF Write, Named
  <2>2. \/ row' = row
        \/ row[k] # NoRow /\ row' = [row EXCEPT ![k].exp = adm[a].held]
        \/ row' = [row EXCEPT ![k] = [bot |-> NoBot, exp |-> adm[a].held]]
    BY <1>7 DEF Write
  <2>3. row[k] # NoRow => row[k] \in Rows /\ [row[k] EXCEPT !.exp = adm[a].held] \in Rows
    BY <1>1, <2>1 DEF Rows
  <2>4. [bot |-> NoBot, exp |-> adm[a].held] \in Rows
    BY <1>1 DEF Rows
  <2>5. DbOK'
    BY <2>1, <2>2, <2>3, <2>4
  <2> QED BY <1>1, <1>2, <2>1, <2>5 DEF AdminStates
<1>8. CASE Remove(a) \/ RemoveBot(a) \/ QueryFails(a)
  <2>1. DbOK' /\ (Goto(a, "done") \/ Goto(a, "failed"))
    BY <1>8 DEF Remove, RemoveBot, QueryFails, db
  <2> QED BY <1>1, <1>2, <2>1 DEF AdminStates
<1> QED BY <1>3, <1>4, <1>5, <1>6, <1>7, <1>8 DEF AdminStep

\* A request begins with the check of its bot and changes nothing else.
LEMMA AdministerCases ==
  ASSUME TypeOK, Named, NEW a \in Admins, Administer(a)
  PROVE  /\ AdmOK' /\ row' = row /\ bots' = bots
         /\ \A b \in Admins \ {a} : adm'[b] = adm[b]
         /\ adm'[a].st = "bot" /\ (adm'[a].op # "drop" => adm'[a].cred \in Creds)
<1> USE Parts
<1>1. PICK b \in Bots, op \in {"create", "update", "delete", "drop"}, k \in Creds \cup {NoCred},
           want \in Times :
        Request(a, op, b, k, want) /\ (op # "drop" => k \in Creds)
  BY DEF Administer, Times
<1>2. row' = row /\ bots' = bots
  BY DEF Administer, db
<1> QED BY <1>1, <1>2, RequestFacts

-----------------------------------------------------------------------------
(* Checks *)

\* Checks and lookups keep their types.
LEMMA LookStepType ==
  ASSUME TypeOK,
         (\E k \in Creds : LookStep(k)) \/ (\E q \in Checks, k \in Creds : Check(q, k))
  PROVE  LookOK'
<1> USE Parts, CredentialsAssumption DEF LookOK
<1>1. ASSUME NEW k \in Creds, NEW verdict \in {"accepted", "rejected"}, Decide(k, verdict)
      PROVE  chk' \in [Checks -> CheckRecords]
  BY <1>1 DEF Decide, CheckRecords
<1>2. \A r : Verdict(r) \in {"accepted", "rejected"}
  BY DEF Verdict
<1>3. ASSUME NEW q \in Checks, NEW k \in Creds, Check(q, k)
      PROVE  LookOK'
  <2>1. \E st \in {"waiting", "accepted", "rejected"} :
          chk' = [chk EXCEPT ![q] = [st |-> st, cred |-> k]]
    BY <1>2, <1>3 DEF Check
  <2>2. chk' \in [Checks -> CheckRecords]
    BY <2>1 DEF CheckRecords
  <2> QED BY <1>3, <2>2 DEF Check
<1>4. ASSUME NEW k \in Creds, Read(k)
      PROVE  LookOK'
  <2>1. row[k] \in Rows \cup {NoRow}
    BY DEF DbOK
  <2> QED BY <1>4, <2>1 DEF Read
<1>5. ASSUME NEW k \in Creds, Fill(k)
      PROVE  LookOK'
  <2>1. chk' \in [Checks -> CheckRecords]
    BY <1>1, <1>2, <1>5 DEF Fill
  <2>2. look[k].row \in Rows \cup {NoRow} /\ now + TTL \in Nat
    OBVIOUS
  <2> QED BY <1>5, <2>1, <2>2 DEF Fill, NoLook
<1>6. ASSUME NEW k \in Creds, LookFails(k)
      PROVE  LookOK'
  BY <1>1, <1>6 DEF LookFails, NoLook
<1> QED BY <1>3, <1>4, <1>5, <1>6 DEF LookStep

\* Every step keeps the types, and the credential that a request names.
LEMMA TypeStep ==
  ASSUME TypeOK, Named, Next
  PROVE  TypeOK' /\ Named'
<1> USE Parts
<1>1. now' \in Nat
  BY DEF Next, Tick
<1>2. HistOK'
  BY <1>1 DEF Next, Notes, HistOK
<1>3. ASSUME NEW a \in Admins, Administer(a)
      PROVE  AdmOK' /\ DbOK' /\ LookOK' /\ Named'
  BY <1>3, AdministerCases DEF Administer, looks, LookOK, DbOK, Named
<1>4. ASSUME NEW a \in Admins, AdminStep(a)
      PROVE  AdmOK' /\ DbOK' /\ LookOK' /\ Named'
  <2>1. AdmOK' /\ DbOK' /\ Named'
    <3>1. PICK st \in AdminStates \ {"new", "bot"}, held \in Times, disk \in Rows \cup {NoRow} :
            Moves(a, st, held, disk) /\ (st \in {"row", "load", "write"} => adm[a].op # "drop")
      BY <1>4, AdminCases
    <3>2. adm[a].st # "new"
      BY <1>4 DEF AdminStep, FindBot, FindRow, Insert, Load, Write, Remove, RemoveBot, QueryFails
    <3>3. Named'
      BY <3>1, <3>2 DEF Named, Moves
    <3> QED BY <1>4, <3>3, AdminCases
  <2>2. UNCHANGED looks
    BY <1>4 DEF AdminStep, FindBot, FindRow, Insert, Load, Write, Remove, RemoveBot, QueryFails
  <2> QED BY <2>1, <2>2 DEF looks, LookOK
<1>5. ASSUME (\E k \in Creds : LookStep(k)) \/ (\E q \in Checks, k \in Creds : Check(q, k))
      PROVE  AdmOK' /\ DbOK' /\ LookOK' /\ Named'
  <2>1. UNCHANGED <<db, adm>>
    BY <1>5 DEF LookStep, Check, Read, Fill, LookFails
  <2> QED BY <1>5, <2>1, LookStepType DEF db, AdmOK, DbOK, Named
<1>6. ASSUME Tick
      PROVE  AdmOK' /\ DbOK' /\ LookOK' /\ Named'
  BY <1>6 DEF Tick, db, looks, AdmOK, DbOK, LookOK, Named
<1>7. ASSUME Restart
      PROVE  AdmOK' /\ DbOK' /\ LookOK' /\ Named'
  <2>1. AdmOK'
    <3>1. adm' = [a \in Admins |-> adm'[a]]
      BY <1>7 DEF Restart
    <3> QED BY <1>7, <3>1, RestartFacts DEF AdmOK
  <2>2. Named'
    BY <1>7, RestartFacts DEF Named, Restart
  <2>3. LookOK'
    BY <1>7 DEF Restart, LookOK, CheckRecords, NoLook, NoEntry
  <2> QED BY <1>7, <2>1, <2>2, <2>3 DEF Restart, db, DbOK
<1>8. AdmOK' /\ DbOK' /\ LookOK' /\ Named'
  BY <1>3, <1>4, <1>5, <1>6, <1>7 DEF Next, Turn
<1> QED
  BY <1>1, <1>2, <1>8 DEF TypeOK, DbOK, AdmOK, LookOK, HistOK, AdminRecords, CheckRecords

-----------------------------------------------------------------------------
(* How long a row is good *)

\* A row that is valid was valid before.
LEMMA ValidBefore ==
  ASSUME now \in Nat, now' \in Nat, now <= now', NEW r \in Rows, r.exp = Never \/ r.exp > now'
  PROVE  Valid(r)
<1>1. r # NoRow /\ (r.exp = Never \/ r.exp \in Nat)
  BY CredentialsAssumption, NoRowAssumption DEF Rows, Times
<1> QED BY <1>1 DEF Valid

\* Time and the moments noted only grow; a credential that is good is good now.
LEMMA NotesFacts ==
  ASSUME TypeOK, TypeOK', Recent, Next, NEW k \in Creds
  PROVE  /\ now <= now' /\ good[k] <= good'[k] /\ good'[k] <= now'
         /\ Good(k)' => good'[k] = now'
<1>1. now \in Nat /\ now' \in Nat /\ good[k] \in Int
  BY DEF TypeOK
<1>2. now <= now' /\ good[k] <= now
  BY <1>1 DEF Next, Tick, Recent
<1>3. good'[k] = IF Good(k)' THEN now' ELSE good[k]
  BY DEF Next, Notes
<1> QED BY <1>1, <1>2, <1>3

\* What fills the cache was read from the table, and was good until now.
LEMMA CacheCases ==
  ASSUME TypeOK, Next, NEW k \in Creds
  PROVE  \/ cache'[k] = cache[k]
         \/ cache'[k].row = NoRow
         \/ /\ now' = now /\ look[k].st = "read" /\ cache'[k].row = look[k].row
            /\ cache'[k].end = now + TTL
<1>1. ASSUME UNCHANGED cache
      PROVE  cache'[k] = cache[k]
  BY <1>1
<1>2. ASSUME NEW j \in Creds, LookStep(j), UNCHANGED now
      PROVE  \/ cache'[k] = cache[k]
             \/ /\ now' = now /\ look[k].st = "read" /\ cache'[k].row = look[k].row
                /\ cache'[k].end = now + TTL
  <2>1. CASE Fill(j)
    BY <1>2, <2>1 DEF Fill, TypeOK
  <2> QED BY <1>2, <2>1 DEF LookStep, Read, LookFails
<1>3. ASSUME Restart
      PROVE  cache'[k].row = NoRow
  BY <1>3 DEF Restart, NoEntry
<1>4. ASSUME NEW a \in Admins, Administer(a) \/ AdminStep(a)
      PROVE  UNCHANGED cache
  BY <1>4 DEF Administer, AdminStep, FindBot, FindRow, Insert, Load, Write, Remove, RemoveBot,
              QueryFails, looks
<1>5. (\E q \in Checks, j \in Creds : Check(q, j)) \/ Tick => UNCHANGED cache
  BY DEF Check, Tick, looks
<1> QED BY <1>1, <1>2, <1>3, <1>4, <1>5 DEF Next, Turn

\* A cache entry that is still valid ends TTL after its credential was good, at most.
LEMMA RecentStep ==
  ASSUME TypeOK, TypeOK', Recent, Next
  PROVE  Recent'
<1> SUFFICES ASSUME NEW k \in Creds, cache'[k].row # NoRow, Valid(cache[k].row)'
             PROVE  cache'[k].end <= good'[k] + TTL
  BY NotesFacts DEF Recent
<1>1. /\ now <= now' /\ good[k] <= good'[k]
      /\ now \in Nat /\ now' \in Nat /\ good[k] \in Int /\ good'[k] \in Int /\ TTL \in Nat
      /\ cache[k].end \in Nat /\ cache'[k].row \in Rows
  BY NotesFacts, CredentialsAssumption DEF TypeOK
<1>2. Valid(cache'[k].row)
  BY <1>1, ValidBefore DEF Valid
<1>3. CASE cache'[k] = cache[k]
  BY <1>1, <1>2, <1>3 DEF Recent
<1>4. CASE /\ now' = now /\ look[k].st = "read" /\ cache'[k].row = look[k].row
           /\ cache'[k].end = now + TTL
  <2>1. good[k] = now
    BY <1>2, <1>4 DEF Recent, Good
  <2> QED BY <1>1, <1>4, <2>1
<1> QED BY <1>3, <1>4, CacheCases

-----------------------------------------------------------------------------
(* Updates that nobody disturbs *)

\* What one step does to a request: nothing, an arrival, its own step, or its end.
LEMMA AdminTurn ==
  ASSUME TypeOK, Named, Next, NEW a \in Admins
  PROVE  \/ adm'[a] = adm[a]
         \/ adm'[a].st \in {"bot", "failed"}
         \/ AdminStep(a)
<1>1. ASSUME NEW b \in Admins, Administer(b)
      PROVE  adm'[a] = adm[a] \/ adm'[a].st = "bot"
  BY <1>1, AdministerCases
<1>2. ASSUME NEW b \in Admins, AdminStep(b), b # a
      PROVE  adm'[a] = adm[a]
  <2>1. PICK st, held, disk : Moves(b, st, held, disk)
    BY <1>2, AdminCases
  <2> QED BY <1>2, <2>1 DEF Moves
<1>3. ASSUME Restart
      PROVE  adm'[a] = adm[a] \/ adm'[a].st = "failed"
  BY <1>3, RestartFacts, Parts
<1>4. (\E k \in Creds : LookStep(k)) \/ (\E q \in Checks, k \in Creds : Check(q, k)) \/ Tick
      => adm' = adm
  BY DEF LookStep, Read, Fill, LookFails, Check, Tick
<1> QED BY <1>1, <1>2, <1>3, <1>4 DEF Next, Turn

\* An update that nobody disturbed holds what the table holds.
LEMMA UndisturbedStep ==
  ASSUME TypeOK, Named, Undisturbed, Next
  PROVE  Undisturbed'
<1> SUFFICES ASSUME NEW a \in Admins, Updating(a)', a \notin moved'
             PROVE  (LET k == adm[a].cred IN
                     /\ row[k] # NoRow
                     /\ adm[a].held = IF adm[a].want # Never THEN adm[a].want ELSE row[k].exp
                     /\ adm[a].st = "write" => adm[a].disk = row[k])'
  BY DEF Undisturbed
<1>1. a \notin moved /\ row'[adm'[a].cred] = row[adm'[a].cred]
  BY DEF Next, Notes
<1>2. adm'[a].op = "update" /\ adm'[a].st \in {"load", "write"}
  BY DEF Updating
<1>3. CASE adm'[a] = adm[a]
  BY <1>1, <1>2, <1>3 DEF Undisturbed, Updating
<1>4. CASE AdminStep(a)
  <2>1. PICK st \in AdminStates \ {"new", "bot"}, held \in Times, disk \in Rows \cup {NoRow} :
          /\ Moves(a, st, held, disk)
          /\ st = "load" /\ adm[a].op = "update" =>
               /\ row[adm[a].cred] # NoRow
               /\ held = IF adm[a].want # Never THEN adm[a].want ELSE row[adm[a].cred].exp
          /\ st = "write" => /\ adm[a].st = "load" /\ held = adm[a].held
                            /\ disk = row[adm[a].cred]
    BY <1>4, AdminCases
  <2>2. /\ adm'[a].cred = adm[a].cred /\ adm'[a].op = adm[a].op /\ adm'[a].want = adm[a].want
        /\ adm'[a].st = st /\ adm'[a].held = held /\ adm'[a].disk = disk
    BY <2>1 DEF Moves
  <2>3. CASE st = "load"
    BY <1>1, <1>2, <2>1, <2>2, <2>3
  <2>4. CASE st = "write"
    BY <1>1, <1>2, <2>1, <2>2, <2>4 DEF Undisturbed, Updating
  <2> QED BY <1>2, <2>2, <2>3, <2>4
<1> QED BY <1>2, <1>3, <1>4, AdminTurn

-----------------------------------------------------------------------------
(* The invariant and what follows *)

\* Every step keeps the invariant.
LEMMA InvStep ==
  ASSUME Inv, [Next]_vars
  PROVE  Inv'
<1>1. CASE UNCHANGED vars
  BY <1>1 DEF vars, Inv, TypeOK, Named, Recent, Good, Valid, Undisturbed, Updating
<1>2. CASE Next
  BY <1>2, TypeStep, RecentStep, UndisturbedStep DEF Inv
<1> QED BY <1>1, <1>2

\* The inductive invariant.
LEMMA Invariance == Spec => []Inv
<1>1. Inv /\ [Next]_vars => Inv'
  BY InvStep
<1> QED BY <1>1, InitInv, PTL DEF Spec

\* Type correctness of the credentials, the requests and the cache.
THEOREM CredentialsType == Spec => []TypeOK
<1>1. Inv => TypeOK
  BY DEF Inv
<1> QED BY <1>1, Invariance, PTL

\* A check accepts only what was good TTL ago at most.
LEMMA AcceptedStep ==
  ASSUME Inv, TypeOK', Next, NEW q \in Checks, chk'[q].st = "accepted", chk[q].st # "accepted"
  PROVE  now - good'[chk'[q].cred] <= TTL
<1>1. /\ now \in Nat /\ TTL \in Nat
      /\ \A k \in Creds : good[k] \in Int /\ good'[k] \in Int /\ cache[k].end \in Nat
  BY CredentialsAssumption DEF Inv, TypeOK
<1>2. ASSUME NEW k \in Creds
      PROVE  good[k] <= good'[k]
  BY NotesFacts DEF Inv
<1>3. \A r : Verdict(r) = "accepted" => Valid(r)
  BY DEF Verdict
<1>4. ASSUME NEW p \in Checks, NEW k \in Creds, Check(p, k)
      PROVE  now - good'[chk'[q].cred] <= TTL
  <2>1. /\ p = q /\ chk'[q].cred = k
        /\ cache[k].row # NoRow /\ now <= cache[k].end /\ Valid(cache[k].row)
    BY <1>3, <1>4 DEF Check, Inv, TypeOK
  <2>2. cache[k].end <= good[k] + TTL
    BY <2>1 DEF Inv, Recent
  <2> QED BY <1>1, <1>2, <2>1, <2>2
<1>5. ASSUME NEW k \in Creds, LookStep(k)
      PROVE  now - good'[chk'[q].cred] <= TTL
  <2>1. /\ look[k].st = "read" /\ Valid(look[k].row)
        /\ chk[q].cred = k /\ chk'[q].cred = k
    BY <1>3, <1>5 DEF LookStep, Read, Fill, LookFails, Decide, Waiting, Inv, TypeOK
  <2>2. good[k] = now
    BY <2>1 DEF Inv, Recent, Good
  <2> QED BY <1>1, <1>2, <2>1, <2>2
<1>6. ASSUME NEW a \in Admins, Administer(a) \/ AdminStep(a)
      PROVE  chk' = chk
  BY <1>6 DEF Administer, AdminStep, FindBot, FindRow, Insert, Load, Write, Remove, RemoveBot,
              QueryFails, looks
<1>7. ~Restart /\ ~Tick
  BY DEF Restart, Tick, looks, Inv, TypeOK
<1> QED BY <1>4, <1>5, <1>6, <1>7 DEF Next, Turn

\* A credential that is accepted was in the table, not expired, TTL ago at most: what
\* an administrator deletes, or what expires, is refused after the life of a cache entry.
THEOREM CredentialsAcceptedWasGood == Spec => AcceptedWasGood
<1>1. Inv /\ TypeOK' /\ [Next]_vars =>
        [\A q \in Checks : chk'[q].st = "accepted" /\ chk[q].st # "accepted"
           => now - good'[chk'[q].cred] <= TTL]_vars
  BY AcceptedStep
<1> QED BY <1>1, Invariance, CredentialsType, PTL DEF Spec, AcceptedWasGood

\* An undisturbed update writes the expiry it names.
LEMMA UpdateStep ==
  ASSUME Inv, Next, NEW a \in Admins, At(a, "update", "write"), adm'[a].st = "done",
         a \notin moved, row' # row
  PROVE  LET k == adm[a].cred IN
         /\ adm[a].want # Never /\ row[k] # NoRow
         /\ row' = [row EXCEPT ![k].exp = adm[a].want]
<1> DEFINE k == adm[a].cred
<1>1. AdminStep(a)
  BY AdminTurn DEF Inv, At
<1>2. Write(a)
  <2>1. ~QueryFails(a)
    BY DEF QueryFails, Goto, Inv, TypeOK
  <2> QED BY <1>1, <2>1 DEF AdminStep, At, FindBot, FindRow, Insert, Load, Remove, RemoveBot
<1>3. /\ row[k] # NoRow /\ adm[a].disk = row[k]
      /\ adm[a].held = IF adm[a].want # Never THEN adm[a].want ELSE row[k].exp
  BY DEF Inv, Undisturbed, Updating, At
<1>4. /\ adm[a].held # adm[a].disk.exp
      /\ row' = [row EXCEPT ![k].exp = adm[a].held]
  BY <1>2, <1>3 DEF Write
<1> QED BY <1>3, <1>4

\* An update whose row nobody else changes or deletes while it is under way writes the
\* expiry it names and nothing else.
THEOREM CredentialsUpdateAloneIsExact == Spec => UpdateAloneIsExact
<1>1. Inv /\ [Next]_vars =>
        [\A a \in Admins : At(a, "update", "write") /\ adm'[a].st = "done"
                           /\ a \notin moved /\ row' # row
           => LET k == adm[a].cred IN
              /\ adm[a].want # Never /\ row[k] # NoRow
              /\ row' = [row EXCEPT ![k].exp = adm[a].want]]_vars
  BY UpdateStep
<1> QED BY <1>1, Invariance, PTL DEF Spec, UpdateAloneIsExact
=============================================================================
