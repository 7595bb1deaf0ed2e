------------------------------ MODULE BotsProofs ------------------------------
(***************************************************************************)
(* Proofs about Bots, for every number of bots, handles, endpoints,        *)
(* administrators and calls, and every life of cache entries.              *)
(***************************************************************************)
EXTENDS Bots, TLAPS

\* A request under way names a bot, and one that may insert it has all of its columns.
Aimed ==
  \A a \in Admins :
    /\ adm[a].st \in {"find", "insert", "load", "write", "remove"} => adm[a].id \in Ids
    /\ adm[a].st \in {"insert", "load", "write"}
       => adm[a].handle \in Handles /\ adm[a].endpoint \in Endpoints

\* What is looked up under a handle, or cached, is a bot of that handle; a bot was seen
\* just now if it is there or on its way, and at most TTL before its entry ends.
Recent ==
  /\ \A r \in Rows : last[r] <= now /\ (At(r) => last[r] = now)
  /\ \A h \in Handles :
       /\ look[h].row # NoRow => look[h].row.handle = h
       /\ cache[h].row # NoRow => /\ cache[h].row.handle = h
                                  /\ cache[h].end <= last[cache[h].row] + TTL

\* A post's query that found nothing ran while there was no bot.
Missing ==
  \A h \in Handles : look[h].st = "read" /\ look[h].row = NoRow /\ look[h].kind = "post"
                     => h \in gap

Inv == TypeOK /\ Aimed /\ Recent /\ Missing

AdminStates  == {"new", "find", "insert", "load", "write", "remove", "done", "conflict", "failed"}
AdminRecords == [op : {"none", "create", "update", "delete"}, st : AdminStates,
                 id : Ids \cup {NoId}, handle : Handles \cup {NoHandle},
                 endpoint : Endpoints \cup {NoEndpoint}, disk : Rows \cup {NoRow}]
CallRecords  == [kind : Kinds, st : {"new", "waiting", "sent", "absent", "failed", "done"},
                 handle : Handles \cup {NoHandle}, endpoint : Endpoints \cup {NoEndpoint}]

\* TypeOK, cut by what the actions change.
RowOK  == row \in [Ids -> Rows \cup {NoRow}]
AdmOK  == adm \in [Admins -> AdminRecords]
LookOK == /\ look \in [Handles -> [st : {"none", "asked", "read"}, kind : Kinds,
                                    row : Rows \cup {NoRow}]]
          /\ cache \in [Handles -> [row : Rows \cup {NoRow}, end : Nat]]
          /\ call \in [Calls -> CallRecords]
HistOK == last \in [Rows -> Int] /\ gap \subseteq Handles

\* The type invariant, cut by what the actions change.
LEMMA Parts == TypeOK <=> now \in Nat /\ RowOK /\ AdmOK /\ LookOK /\ HistOK
  BY DEF TypeOK, RowOK, AdmOK, LookOK, HistOK, AdminRecords, AdminStates, CallRecords

\* A bot that is found has a handle and an endpoint.
LEMMA RowFacts ==
  ASSUME NEW r \in Rows \cup {NoRow}
  PROVE  r # NoRow => r \in Rows /\ r.handle \in Handles /\ r.endpoint \in Endpoints
                      /\ r = [handle |-> r.handle, endpoint |-> r.endpoint]
  BY DEF Rows

\* The service starts with the invariant.
LEMMA InitInv == Init => Inv
<1> SUFFICES ASSUME Init
             PROVE  Inv
  OBVIOUS
<1> USE BotsAssumption
<1>1. RowOK /\ LookOK /\ HistOK /\ now \in Nat
  BY DEF Init, RowOK, LookOK, HistOK, CallRecords, Kinds, NoLook, NoEntry
<1>2. AdmOK /\ Aimed
  BY DEF Init, AdmOK, AdminRecords, AdminStates, Aimed
<1>3. \A h \in Handles : look[h] = NoLook /\ cache[h] = NoEntry
  BY DEF Init
<1>4. Missing
  BY <1>3 DEF Missing, NoLook
<1>5. now = 0 /\ \A r \in Rows : last[r] <= now /\ (At(r) => last[r] = now)
  BY DEF Init
<1>6. Recent
  BY <1>3, <1>5 DEF Recent, NoLook, NoEntry
<1> QED BY <1>1, <1>2, <1>4, <1>6, Parts DEF Inv

-----------------------------------------------------------------------------
(* Administration *)

\* A request becomes another record of its set.
LEMMA Becomes ==
  ASSUME AdmOK, NEW a \in Admins, NEW op \in {"none", "create", "update", "delete"},
         NEW st \in AdminStates, NEW i \in Ids \cup {NoId}, NEW h \in Handles \cup {NoHandle},
         NEW e \in Endpoints \cup {NoEndpoint}, NEW d \in Rows \cup {NoRow},
         adm' = [adm EXCEPT ![a] = [op |-> op, st |-> st, id |-> i, handle |-> h,
                                    endpoint |-> e, disk |-> d]]
  PROVE  AdmOK'
<1>1. [op |-> op, st |-> st, id |-> i, handle |-> h, endpoint |-> e, disk |-> d] \in AdminRecords
  BY DEF AdminRecords
<1> HIDE DEF AdminRecords
<1> QED BY <1>1 DEF AdmOK

\* The fields of an administrator's request.
LEMMA Record ==
  ASSUME AdmOK, NEW a \in Admins
  PROVE  /\ adm[a] = [op |-> adm[a].op, st |-> adm[a].st, id |-> adm[a].id,
                      handle |-> adm[a].handle, endpoint |-> adm[a].endpoint,
                      disk |-> adm[a].disk]
         /\ adm[a].op \in {"none", "create", "update", "delete"} /\ adm[a].st \in AdminStates
         /\ adm[a].id \in Ids \cup {NoId} /\ adm[a].handle \in Handles \cup {NoHandle}
         /\ adm[a].endpoint \in Endpoints \cup {NoEndpoint} /\ adm[a].disk \in Rows \cup {NoRow}
  BY DEF AdmOK, AdminRecords

\* The ends of requests, and steps that change the state of one only.
LEMMA EndKeeps ==
  ASSUME AdmOK, Aimed, NEW a \in Admins, NEW st \in {"done", "conflict", "failed"}, End(a, st)
  PROVE  AdmOK' /\ Aimed'
<1>1. AdmOK'
  <2>1. adm' = [adm EXCEPT ![a] = [op |-> adm[a].op, st |-> st, id |-> adm[a].id,
                                   handle |-> NoHandle, endpoint |-> NoEndpoint, disk |-> NoRow]]
    <3>1. adm' = [adm EXCEPT ![a] = adm'[a]]
      BY DEF End, AdmOK
    <3>2. adm[a] = [op |-> adm[a].op, st |-> adm[a].st, id |-> adm[a].id,
                    handle |-> adm[a].handle, endpoint |-> adm[a].endpoint, disk |-> adm[a].disk]
      BY Record
    <3>3. adm'[a] = [op |-> adm[a].op, st |-> st, id |-> adm[a].id,
                     handle |-> NoHandle, endpoint |-> NoEndpoint, disk |-> NoRow]
      BY <3>2 DEF End, AdmOK
    <3> QED BY <3>1, <3>3
  <2> QED BY <2>1, Record, Becomes DEF AdminStates
<1>2. adm'[a].st = st /\ \A b \in Admins \ {a} : adm'[b] = adm[b]
  BY DEF AdmOK, AdminRecords, End
<1> QED BY <1>1, <1>2 DEF Aimed

\* A new request of an administrator.
LEMMA RequestKeeps ==
  ASSUME AdmOK, Aimed, NEW a \in Admins, NEW op \in {"create", "update", "delete"},
         NEW i \in Ids, NEW h \in Handles \cup {NoHandle}, NEW e \in Endpoints \cup {NoEndpoint},
         NEW st \in {"insert", "find"}, Request(a, op, st, i, h, e),
         st = "insert" => h \in Handles /\ e \in Endpoints
  PROVE  AdmOK' /\ Aimed'
<1>1. AdmOK'
  <2>1. adm' = [adm EXCEPT ![a] = [op |-> op, st |-> st, id |-> i, handle |-> h,
                                   endpoint |-> e, disk |-> adm[a].disk]]
    <3>1. adm' = [adm EXCEPT ![a] = adm'[a]]
      BY DEF Request, AdmOK
    <3>2. adm[a] = [op |-> adm[a].op, st |-> adm[a].st, id |-> adm[a].id,
                    handle |-> adm[a].handle, endpoint |-> adm[a].endpoint, disk |-> adm[a].disk]
      BY Record
    <3>3. adm'[a] = [op |-> op, st |-> st, id |-> i, handle |-> h, endpoint |-> e,
                     disk |-> adm[a].disk]
      BY <3>2 DEF Request, AdmOK
    <3> QED BY <3>1, <3>3
  <2> QED BY <2>1, Record, Becomes DEF AdminStates
<1>2. /\ adm'[a].st = st /\ adm'[a].id = i /\ adm'[a].handle = h /\ adm'[a].endpoint = e
      /\ \A b \in Admins \ {a} : adm'[b] = adm[b]
  BY DEF AdmOK, AdminRecords, Request
<1> QED BY <1>1, <1>2 DEF Aimed

\* An administrator's step changes requests and rows, and nothing of the cache.
LEMMA AdminType ==
  ASSUME TypeOK, Aimed, NEW a \in Admins, Administer(a) \/ AdminStep(a)
  PROVE  AdmOK' /\ RowOK' /\ Aimed' /\ UNCHANGED cached
<1> USE Parts DEF RowOK
<1> DEFINE i == adm[a].id
<1>1. UNCHANGED cached
  BY DEF Administer, AdminStep, FindById, Create, Load, Write, Remove, QueryFails
<1>2. /\ adm[a] \in AdminRecords /\ adm[a].id \in Ids \cup {NoId}
      /\ adm[a].handle \in Handles \cup {NoHandle} /\ adm[a].endpoint \in Endpoints \cup {NoEndpoint}
  BY DEF AdmOK, AdminRecords
<1>3. CASE Administer(a)
  <2>1. row' = row
    BY <1>3 DEF Administer
  <2> QED BY <1>1, <1>3, <2>1, RequestKeeps DEF Administer
<1>4. CASE FindById(a)
  <2>1. i \in Ids /\ row' = row
    BY <1>4 DEF FindById, Aimed
  <2>2. CASE End(a, "failed")
    BY <1>1, <2>1, <2>2, EndKeeps
  <2>3. CASE Goto(a, "remove")
    <3>1. AdmOK'
      BY <2>3 DEF Goto, AdmOK, AdminRecords, AdminStates
    <3>2. /\ adm'[a].st = "remove" /\ adm'[a].id = i
          /\ \A b \in Admins \ {a} : adm'[b] = adm[b]
      BY <2>3 DEF Goto, AdmOK, AdminRecords
    <3> QED BY <1>1, <2>1, <3>1, <3>2 DEF Aimed
  <2>4. CASE /\ row[i] # NoRow
             /\ adm' = [adm EXCEPT ![a].st = "load", ![a].handle = row[i].handle,
                           ![a].endpoint = IF @ = NoEndpoint THEN row[i].endpoint ELSE @]
    <3> DEFINE h == row[i].handle
               e == IF adm[a].endpoint = NoEndpoint THEN row[i].endpoint ELSE adm[a].endpoint
    <3>1. h \in Handles /\ e \in Endpoints
      BY <1>2, <2>1, <2>4, RowFacts
    <3>2. adm' = [adm EXCEPT ![a].st = "load", ![a].handle = h, ![a].endpoint = e]
      BY <2>4 DEF AdmOK, AdminRecords
    <3> HIDE DEF h, e
    <3>3. AdmOK'
      <4>1. adm' = [adm EXCEPT ![a] = [op |-> adm[a].op, st |-> "load", id |-> i, handle |-> h,
                                       endpoint |-> e, disk |-> adm[a].disk]]
        <5>1. adm' = [adm EXCEPT ![a] = adm'[a]]
          BY <3>2 DEF AdmOK
        <5>2. adm[a] = [op |-> adm[a].op, st |-> adm[a].st, id |-> adm[a].id,
                        handle |-> adm[a].handle, endpoint |-> adm[a].endpoint,
                        disk |-> adm[a].disk]
          BY Record
        <5>3. adm'[a] = [op |-> adm[a].op, st |-> "load", id |-> adm[a].id, handle |-> h,
                         endpoint |-> e, disk |-> adm[a].disk]
          BY <3>2, <5>2 DEF AdmOK
        <5> QED BY <5>1, <5>3
      <4> QED BY <3>1, <4>1, Record, Becomes DEF AdminStates
    <3>4. /\ adm'[a].st = "load" /\ adm'[a].id = i /\ adm'[a].handle = h /\ adm'[a].endpoint = e
          /\ \A b \in Admins \ {a} : adm'[b] = adm[b]
      BY <3>2 DEF AdmOK, AdminRecords
    <3> QED BY <1>1, <2>1, <3>1, <3>3, <3>4 DEF Aimed
  <2> QED BY <1>4, <2>2, <2>3, <2>4 DEF FindById
<1>5. ASSUME NEW taken \in {"conflict", "failed"}, Insert(a, taken),
             i \in Ids, adm[a].handle \in Handles, adm[a].endpoint \in Endpoints
      PROVE  AdmOK' /\ RowOK' /\ Aimed'
  <2>1. [handle |-> adm[a].handle, endpoint |-> adm[a].endpoint] \in Rows
    BY <1>5 DEF Rows
  <2>2. RowOK'
    BY <1>5, <2>1 DEF Insert
  <2> QED BY <1>5, <2>2, EndKeeps DEF Insert
<1>6. CASE Create(a)
  BY <1>1, <1>5, <1>6 DEF Create, Aimed
<1>7. CASE Load(a)
  <2>1. row' = row /\ adm[a].st = "load" /\ i \in Ids /\ row[i] \in Rows \cup {NoRow}
    BY <1>7 DEF Load, Aimed
  <2>2. AdmOK'
    BY <1>7, <2>1 DEF Load, AdmOK, AdminRecords, AdminStates
  <2>3. /\ adm'[a].st = "write" /\ adm'[a].id = i /\ adm'[a].handle = adm[a].handle
        /\ adm'[a].endpoint = adm[a].endpoint
        /\ \A b \in Admins \ {a} : adm'[b] = adm[b]
    BY <1>7 DEF Load, AdmOK, AdminRecords
  <2> QED BY <1>1, <2>1, <2>2, <2>3 DEF Aimed
<1>8. CASE Write(a)
  <2>1. i \in Ids /\ adm[a].handle \in Handles /\ adm[a].endpoint \in Endpoints
    BY <1>8 DEF Write, Aimed
  <2>2. CASE Insert(a, "failed")
    BY <1>1, <1>5, <2>1, <2>2
  <2>3. CASE /\ End(a, "done") \/ End(a, "failed")
             /\ row' = row \/ (row[i] # NoRow /\ row' = [row EXCEPT ![i].endpoint = adm[a].endpoint])
    <3>1. row[i] # NoRow => [row[i] EXCEPT !.endpoint = adm[a].endpoint] \in Rows
      BY <2>1 DEF Rows
    <3>2. RowOK'
      BY <2>1, <2>3, <3>1
    <3> QED BY <1>1, <2>3, <3>2, EndKeeps
  <2> QED BY <1>8, <2>2, <2>3 DEF Write
<1>9. CASE Remove(a) \/ QueryFails(a)
  <2>1. RowOK' /\ (End(a, "done") \/ End(a, "failed"))
    BY <1>9 DEF Remove, QueryFails
  <2> QED BY <1>1, <2>1, EndKeeps
<1> QED BY <1>3, <1>4, <1>6, <1>7, <1>8, <1>9 DEF AdminStep

-----------------------------------------------------------------------------
(* Look-ups *)

\* What a call is told.
LEMMA OutcomeType ==
  ASSUME NEW kind \in Kinds, NEW st \in {"sent", "absent", "failed"},
         NEW h \in Handles \cup {NoHandle}, NEW e \in Endpoints \cup {NoEndpoint}
  PROVE  /\ Outcome(kind, st, h, e) \in CallRecords
         /\ Outcome(kind, st, h, e).st \in {st, "done"}
         /\ kind = "post" => Outcome(kind, st, h, e)
                            = [kind |-> kind, st |-> st, handle |-> h, endpoint |-> e]
         /\ kind # "post" => Outcome(kind, st, h, e).st = "done"
  BY DEF Outcome, CallRecords, Kinds

\* A lookup tells all the calls that wait for it.
LEMMA SettleType ==
  ASSUME LookOK, NEW h \in Handles, NEW st \in {"sent", "absent", "failed"},
         NEW e \in Endpoints \cup {NoEndpoint}, Settle(h, st, e)
  PROVE  call' \in [Calls -> CallRecords]
<1>1. \A q \in Calls : call[q] \in CallRecords /\ call[q].kind \in Kinds
  BY DEF LookOK, CallRecords
<1>2. \A q \in Calls : Outcome(call[q].kind, st, h, e) \in CallRecords
  BY <1>1, OutcomeType
<1> QED BY <1>1, <1>2 DEF Settle

\* The answer to a query is a bot of the handle, or none; for a post, none only if there
\* is none.
LEMMA ReadFacts ==
  ASSUME TypeOK, NEW h \in Handles, Read(h)
  PROVE  /\ UNCHANGED <<row, cache, call>>
         /\ \A g \in Handles \ {h} : look'[g] = look[g]
         /\ look'[h].st = "read" /\ look'[h].kind = look[h].kind
         /\ look'[h].row \in Rows \cup {NoRow}
         /\ look'[h].row # NoRow => look'[h].row.handle = h /\ \E i \in Ids : row[i] = look'[h].row
         /\ look'[h].row = NoRow /\ look[h].kind = "post" => Bot(h) = {}
         /\ LookOK'
<1>1. PICK r \in (IF look[h].kind = "post" /\ Bot(h) # {} THEN {row[i] : i \in Bot(h)} ELSE {NoRow}) :
        look' = [look EXCEPT ![h].st = "read", ![h].row = r]
  BY DEF Read
<1>2. r \in Rows \cup {NoRow}
      /\ (r # NoRow => r.handle = h /\ \E i \in Ids : row[i] = r)
      /\ (r = NoRow /\ look[h].kind = "post" => Bot(h) = {})
  BY <1>1 DEF Bot, Named, TypeOK
<1> HIDE DEF Bot
<1>3. UNCHANGED <<row, cache, call>>
  BY DEF Read
<1>4. /\ \A g \in Handles \ {h} : look'[g] = look[g]
      /\ look'[h].st = "read" /\ look'[h].kind = look[h].kind /\ look'[h].row = r
  BY <1>1 DEF TypeOK
<1>5. LookOK'
  BY <1>1, <1>2, <1>3, Parts DEF LookOK
<1> QED BY <1>2, <1>3, <1>4, <1>5

\* Calls and lookups keep their types.
LEMMA LookType ==
  ASSUME TypeOK,
         \/ \E h \in Handles : LookStep(h)
         \/ \E q \in Calls, kind \in Kinds, h \in Handles : Wrap(q, kind, h)
  PROVE  LookOK'
<1> USE BotsAssumption, Parts DEF LookOK
<1>1. ASSUME NEW h \in Handles, Read(h)
      PROVE  LookOK'
  BY <1>1, ReadFacts
<1>2. ASSUME NEW h \in Handles, Fill(h)
      PROVE  LookOK'
  <2>1. look[h].row # NoRow => look[h].row \in Rows /\ look[h].row.endpoint \in Endpoints
    BY RowFacts
  <2>2. call' \in [Calls -> CallRecords]
    BY <1>2, <2>1, SettleType DEF Fill
  <2>3. now + TTL \in Nat
    OBVIOUS
  <2> QED BY <1>2, <2>1, <2>2, <2>3 DEF Fill, NoLook, Kinds
<1>3. ASSUME NEW h \in Handles, LookFails(h)
      PROVE  LookOK'
  BY <1>3, SettleType DEF LookFails, NoLook, Kinds
<1>4. ASSUME NEW q \in Calls, NEW kind \in Kinds, NEW h \in Handles, Wrap(q, kind, h)
      PROVE  LookOK'
  <2>1. CASE /\ cache[h].row # NoRow
             /\ call' = [call EXCEPT ![q] = Outcome(kind, "sent", h, cache[h].row.endpoint)]
             /\ UNCHANGED <<look, cache>>
    <3>1. cache[h].row.endpoint \in Endpoints
      BY <2>1, RowFacts
    <3> QED BY <2>1, <3>1, OutcomeType
  <2>2. CASE /\ call' = [call EXCEPT ![q] = [kind |-> kind, st |-> "waiting", handle |-> h,
                                             endpoint |-> NoEndpoint]]
             /\ UNCHANGED cache
             /\ look' = IF look[h] # NoLook THEN look
                        ELSE [look EXCEPT ![h] = [st |-> "asked", kind |-> kind, row |-> NoRow]]
    <3>1. call' \in [Calls -> CallRecords]
      BY <2>2 DEF CallRecords
    <3> QED BY <2>2, <3>1
  <2> QED BY <1>4, <2>1, <2>2 DEF Wrap
<1> QED BY <1>1, <1>2, <1>3, <1>4 DEF LookStep

\* Every step keeps the types.
LEMMA TypeStep ==
  ASSUME TypeOK, Aimed, Next
  PROVE  TypeOK' /\ Aimed'
<1> USE Parts
<1>1. now' \in Nat
  BY DEF Next, Tick
<1>2. HistOK'
  BY <1>1 DEF Next, Notes, HistOK
<1>3. ASSUME NEW a \in Admins, Administer(a) \/ AdminStep(a)
      PROVE  RowOK' /\ AdmOK' /\ LookOK' /\ Aimed'
  BY <1>3, AdminType DEF cached, LookOK
<1>4. ASSUME \/ \E h \in Handles : LookStep(h)
             \/ \E q \in Calls, kind \in Kinds, h \in Handles : Wrap(q, kind, h)
      PROVE  RowOK' /\ AdmOK' /\ LookOK' /\ Aimed'
  <2>1. UNCHANGED <<row, adm>>
    BY <1>4 DEF LookStep, Read, Fill, LookFails, Wrap
  <2> QED BY <1>4, <2>1, LookType DEF RowOK, AdmOK, Aimed
<1>5. ASSUME Tick
      PROVE  RowOK' /\ AdmOK' /\ LookOK' /\ Aimed'
  BY <1>5 DEF Tick, cached, RowOK, AdmOK, LookOK, Aimed
<1>6. ASSUME Restart
      PROVE  RowOK' /\ AdmOK' /\ LookOK' /\ Aimed'
  <2>1. RowOK'
    BY <1>6 DEF Restart, RowOK
  <2>2. AdmOK' /\ Aimed'
    <3> DEFINE ended(a) == [adm[a] EXCEPT !.st = "failed"]
    <3>1. \A a \in Admins : ended(a) \in AdminRecords /\ ended(a).st = "failed"
      BY DEF AdmOK, AdminRecords, AdminStates
    <3>2. adm' = [a \in Admins |-> IF adm[a].st \in {"new", "done", "conflict", "failed"}
                                   THEN adm[a] ELSE ended(a)]
      BY <1>6 DEF Restart
    <3> HIDE DEF ended
    <3> QED BY <3>1, <3>2 DEF AdmOK, Aimed
  <2>3. LookOK'
    <3>1. \A q \in Calls : Outcome(call[q].kind, "failed", call[q].handle, NoEndpoint) \in CallRecords
      BY OutcomeType DEF LookOK, CallRecords
    <3> QED BY <1>6, <3>1 DEF Restart, LookOK, NoLook, NoEntry, Kinds
  <2> QED BY <2>1, <2>2, <2>3
<1>7. RowOK' /\ AdmOK' /\ LookOK' /\ Aimed'
  BY <1>3, <1>4, <1>5, <1>6 DEF Next, Turn
<1> QED
  BY <1>1, <1>2, <1>7
  DEF TypeOK, RowOK, AdmOK, LookOK, HistOK, AdminRecords, AdminStates, CallRecords
-----------------------------------------------------------------------------
(* How long ago a bot was there *)

\* Time and the moments noted only grow; a bot that is in the table is there now.
LEMMA NotesFacts ==
  ASSUME TypeOK, TypeOK', Recent, Next, NEW r \in Rows
  PROVE  /\ now <= now' /\ last[r] <= last'[r] /\ last'[r] <= now'
         /\ At(r)' => last'[r] = now'
<1>1. now \in Nat /\ now' \in Nat /\ last[r] \in Int
  BY DEF TypeOK
<1>2. now <= now' /\ last[r] <= now
  BY <1>1 DEF Next, Tick, Recent
<1>3. last'[r] = IF At(r)' THEN now' ELSE last[r]
  BY DEF Next, Notes
<1> QED BY <1>1, <1>2, <1>3

\* No administrator's step touches the cache, the lookups or the calls.
LEMMA AdminKeepsCached ==
  ASSUME NEW a \in Admins, Administer(a) \/ AdminStep(a)
  PROVE  UNCHANGED cached
  BY DEF Administer, AdminStep, FindById, Create, Load, Write, Remove, QueryFails

\* A query stays, ends, is started, or is answered.
LEMMA LookCases ==
  ASSUME TypeOK, Next, NEW h \in Handles
  PROVE  \/ look'[h] = look[h]
         \/ look'[h] = NoLook
         \/ look'[h].st = "asked" /\ look'[h].row = NoRow
         \/ Read(h)
<1> DEFINE Goal == \/ look'[h] = look[h]
                   \/ look'[h] = NoLook
                   \/ look'[h].st = "asked" /\ look'[h].row = NoRow
                   \/ Read(h)
<1>0. look \in [Handles -> [st : {"none", "asked", "read"}, kind : Kinds, row : Rows \cup {NoRow}]]
  BY DEF TypeOK
<1>1. ASSUME UNCHANGED look
      PROVE  Goal
  BY <1>1
<1>2. ASSUME NEW g \in Handles, LookStep(g)
      PROVE  Goal
  <2>1. CASE Read(g)
    BY <2>1, ReadFacts
  <2>2. CASE Fill(g) \/ LookFails(g)
    <3>1. look' = [look EXCEPT ![g] = NoLook]
      BY <2>2 DEF Fill, LookFails
    <3> HIDE DEF NoLook
    <3> QED BY <1>0, <3>1
  <2> QED BY <1>2, <2>1, <2>2 DEF LookStep
<1>3. ASSUME NEW q \in Calls, NEW kind \in Kinds, NEW g \in Handles, Wrap(q, kind, g)
      PROVE  Goal
  <2>1. look' = look \/ look' = [look EXCEPT ![g] = [st |-> "asked", kind |-> kind, row |-> NoRow]]
    BY <1>3 DEF Wrap
  <2> QED BY <1>0, <2>1
<1>4. Restart => Goal
  BY DEF Restart
<1>5. ASSUME NEW a \in Admins, Administer(a) \/ AdminStep(a)
      PROVE  UNCHANGED look
  BY <1>5, AdminKeepsCached DEF cached
<1>6. Tick => UNCHANGED look
  BY DEF Tick, cached
<1> QED BY <1>1, <1>2, <1>3, <1>4, <1>5, <1>6 DEF Next, Turn

\* What fills the cache has just been looked up.
LEMMA CacheCases ==
  ASSUME TypeOK, Next, NEW h \in Handles
  PROVE  \/ cache'[h] = cache[h]
         \/ cache'[h].row = NoRow
         \/ /\ now' = now /\ look[h].row # NoRow
            /\ cache'[h].row = look[h].row /\ cache'[h].end = now + TTL
<1>0. cache \in [Handles -> [row : Rows \cup {NoRow}, end : Nat]]
  BY DEF TypeOK
<1>1. ASSUME UNCHANGED cache
      PROVE  cache'[h] = cache[h]
  BY <1>1
<1>2. ASSUME NEW g \in Handles, LookStep(g), UNCHANGED now
      PROVE  \/ cache'[h] = cache[h]
             \/ /\ now' = now /\ look[h].row # NoRow
                /\ cache'[h].row = look[h].row /\ cache'[h].end = now + TTL
  <2>1. CASE Fill(g)
    BY <1>0, <1>2, <2>1 DEF Fill
  <2> QED BY <1>2, <2>1 DEF LookStep, Read, LookFails
<1>3. ASSUME Restart
      PROVE  cache'[h].row = NoRow
  BY <1>3 DEF Restart, NoEntry
<1>4. ASSUME NEW a \in Admins, Administer(a) \/ AdminStep(a)
      PROVE  UNCHANGED cache
  BY <1>4, AdminKeepsCached DEF cached
<1>5. (\E q \in Calls, kind \in Kinds, g \in Handles : Wrap(q, kind, g)) \/ Tick => UNCHANGED cache
  BY DEF Wrap, Tick, cached
<1> QED BY <1>1, <1>2, <1>3, <1>4, <1>5 DEF Next, Turn

\* What is read or cached is of its handle, and no entry outlives its bot by more than TTL.
LEMMA RecentStep ==
  ASSUME TypeOK, TypeOK', Recent, Next
  PROVE  Recent'
<1>1. ASSUME NEW h \in Handles, look'[h].row # NoRow
      PROVE  look'[h].row.handle = h
  <2>1. CASE look'[h] = look[h]
    BY <1>1, <2>1 DEF Recent
  <2>2. CASE Read(h)
    BY <1>1, <2>2, ReadFacts
  <2> QED BY <1>1, <2>1, <2>2, LookCases DEF NoLook
<1>2. ASSUME NEW h \in Handles, cache'[h].row # NoRow
      PROVE  cache'[h].row.handle = h /\ cache'[h].end <= last'[cache'[h].row] + TTL
  <2> DEFINE r == cache'[h].row
  <2>1. /\ r \in Rows /\ cache[h].end \in Nat /\ last[r] \in Int /\ last'[r] \in Int
        /\ now \in Nat /\ TTL \in Nat
    BY <1>2, BotsAssumption DEF TypeOK
  <2>2. last[r] <= last'[r]
    BY <2>1, NotesFacts
  <2>3. CASE cache'[h] = cache[h]
    <3>1. r.handle = h /\ cache'[h].end <= last[r] + TTL
      BY <1>2, <2>3 DEF Recent
    <3> QED BY <2>1, <2>2, <2>3, <3>1
  <2>4. CASE /\ now' = now /\ look[h].row # NoRow
             /\ cache'[h].row = look[h].row /\ cache'[h].end = now + TTL
    <3>1. r.handle = h /\ last[r] = now
      BY <2>1, <2>4 DEF Recent, At
    <3> QED BY <2>1, <2>2, <2>4, <3>1
  <2> QED BY <1>2, <2>3, <2>4, CacheCases
<1> QED BY <1>1, <1>2, NotesFacts DEF Recent

\* A lookup that found nothing had its gap.
LEMMA MissingStep ==
  ASSUME TypeOK, Missing, Next
  PROVE  Missing'
<1> SUFFICES ASSUME NEW h \in Handles,
                    look'[h].st = "read", look'[h].row = NoRow, look'[h].kind = "post"
             PROVE  h \in gap'
  BY DEF Missing
<1>1. look'[h] # NoLook
  BY DEF NoLook
<1>2. gap' = {g \in Handles : look'[g] # NoLook /\ (Bot(g)' = {} \/ g \in gap)}
  BY DEF Next, Notes
<1>3. CASE look'[h] = look[h]
  BY <1>1, <1>2, <1>3 DEF Missing
<1>4. CASE Read(h)
  <2>1. Bot(h)' = {}
    BY <1>4, ReadFacts DEF Bot
  <2> QED BY <1>1, <1>2, <2>1
<1> QED BY <1>1, <1>3, <1>4, LookCases

-----------------------------------------------------------------------------
(* The invariant and what follows *)

\* Every step keeps the invariant.
LEMMA InvStep ==
  ASSUME Inv, [Next]_vars
  PROVE  Inv'
<1>1. CASE UNCHANGED vars
  BY <1>1 DEF vars, cached, Inv, TypeOK, Aimed, Recent, At, Missing
<1>2. CASE Next
  BY <1>2, TypeStep, RecentStep, MissingStep DEF Inv
<1> QED BY <1>1, <1>2

\* The inductive invariant.
LEMMA Invariance == Spec => []Inv
<1>1. Inv /\ [Next]_vars => Inv'
  BY InvStep
<1> QED BY <1>1, InitInv, PTL DEF Spec

\* Type correctness of the table of bots, the requests, the look-ups and the cache.
THEOREM BotsType == Spec => []TypeOK
<1>1. Inv => TypeOK
  BY DEF Inv
<1> QED BY <1>1, Invariance, PTL

\* Calls other than those of look-ups do not end one.
LEMMA CallTurn ==
  ASSUME TypeOK, Next, NEW q \in Calls, call'[q].st \in {"sent", "absent"}, call[q].st # call'[q].st
  PROVE  \/ \E kind \in Kinds, h \in Handles : Wrap(q, kind, h)
         \/ \E h \in Handles : Fill(h) /\ q \in Waiting(h)
<1>0. call \in [Calls -> CallRecords]
  BY Parts DEF LookOK
<1>1. ASSUME NEW a \in Admins, Administer(a) \/ AdminStep(a)
      PROVE  call' = call
  BY <1>1, AdminKeepsCached DEF cached
<1>2. ASSUME NEW p \in Calls, NEW kind \in Kinds, NEW h \in Handles, Wrap(p, kind, h)
      PROVE  p = q
  BY <1>0, <1>2 DEF Wrap
<1>3. ASSUME NEW h \in Handles, Settle(h, "failed", NoEndpoint)
      PROVE  FALSE
  BY <1>3 DEF Settle, Outcome
<1>4. ASSUME NEW h \in Handles, LookStep(h)
      PROVE  Fill(h) /\ q \in Waiting(h)
  BY <1>3, <1>4 DEF LookStep, Read, LookFails, Fill, Settle
<1>5. ~Restart /\ ~Tick
  BY DEF Restart, Tick, cached, Outcome
<1> QED BY <1>1, <1>2, <1>4, <1>5 DEF Next, Turn

\* A post is sent to an endpoint that was the bot's TTL ago at most.
LEMMA SentStep ==
  ASSUME Inv, TypeOK', Next, NEW q \in Calls, call'[q].st = "sent", call[q].st # "sent"
  PROVE  now - last'[[handle |-> call'[q].handle, endpoint |-> call'[q].endpoint]] <= TTL
<1>0. /\ TypeOK /\ now \in Nat /\ TTL \in Nat
      /\ \A h \in Handles : cache[h].end \in Nat /\ cache[h].row \in Rows \cup {NoRow}
                            /\ look[h].row \in Rows \cup {NoRow}
      /\ call \in [Calls -> CallRecords]
  BY BotsAssumption, Parts DEF Inv, LookOK
<1>1. ASSUME NEW r \in Rows, r = [handle |-> call'[q].handle, endpoint |-> call'[q].endpoint],
             now <= last[r] + TTL
      PROVE  now - last'[[handle |-> call'[q].handle, endpoint |-> call'[q].endpoint]] <= TTL
  <2>1. last[r] <= last'[r]
    BY NotesFacts DEF Inv
  <2>2. last[r] \in Int /\ last'[r] \in Int
    BY DEF Inv, TypeOK
  <2>3. now - last'[r] <= TTL
    BY <1>0, <1>1, <2>1, <2>2
  <2> QED BY <1>1, <2>3
<1>2. ASSUME NEW kind \in Kinds, NEW h \in Handles, Wrap(q, kind, h)
      PROVE  \E r \in Rows : /\ r = [handle |-> call'[q].handle, endpoint |-> call'[q].endpoint]
                             /\ now <= last[r] + TTL
  <2> DEFINE r == cache[h].row
  <2>1. /\ r # NoRow /\ now <= cache[h].end
        /\ call'[q] = Outcome(kind, "sent", h, r.endpoint)
    BY <1>0, <1>2 DEF Wrap
  <2>2. r \in Rows /\ r = [handle |-> r.handle, endpoint |-> r.endpoint]
    BY <1>0, <2>1, RowFacts
  <2>3. call'[q].handle = h /\ call'[q].endpoint = r.endpoint
    BY <2>1 DEF Outcome
  <2>4. r.handle = h /\ cache[h].end <= last[r] + TTL
    BY <2>1 DEF Inv, Recent
  <2>5. now <= last[r] + TTL
    BY <1>0, <2>1, <2>2, <2>4 DEF Inv, TypeOK
  <2> QED BY <2>2, <2>3, <2>4, <2>5
<1>3. ASSUME NEW h \in Handles, Fill(h), q \in Waiting(h)
      PROVE  \E r \in Rows : /\ r = [handle |-> call'[q].handle, endpoint |-> call'[q].endpoint]
                             /\ now <= last[r] + TTL
  <2> DEFINE r == look[h].row
  <2>1. r # NoRow /\ call'[q] = Outcome(call[q].kind, "sent", h, r.endpoint)
    BY <1>3 DEF Fill, Settle, Outcome
  <2>2. r \in Rows /\ r = [handle |-> r.handle, endpoint |-> r.endpoint]
    BY <1>0, <2>1, RowFacts
  <2>3. call'[q].handle = h /\ call'[q].endpoint = r.endpoint
    BY <2>1 DEF Outcome
  <2>4. r.handle = h /\ last[r] = now
    BY <2>1, <2>2 DEF Inv, Recent, At
  <2>5. now <= last[r] + TTL
    BY <1>0, <2>4
  <2> QED BY <2>2, <2>3, <2>4, <2>5
<1> QED BY <1>0, <1>1, <1>2, <1>3, CallTurn

\* A post goes to an endpoint that a bot of its handle had TTL ago at most: moving,
\* deleting or replacing a bot takes effect within the life of a cache entry.
THEOREM BotsSentWhereBotWas == Spec => SentWhereBotWas
<1>1. Inv /\ TypeOK' /\ [Next]_vars =>
        [\A q \in Calls : call'[q].st = "sent" /\ call[q].st # "sent"
           => now - last'[[handle |-> call'[q].handle, endpoint |-> call'[q].endpoint]] <= TTL]_vars
  BY SentStep
<1> QED BY <1>1, Invariance, BotsType, PTL DEF Spec, SentWhereBotWas

\* A post that is told 404 had a gap, or joined the query of a check.
LEMMA AbsentStep ==
  ASSUME Inv, Next, NEW q \in Calls,
         call[q].kind = "post", call'[q].st = "absent", call[q].st = "waiting"
  PROVE  call[q].handle \in gap \/ look[call[q].handle].kind = "check"
<1>1. TypeOK
  BY DEF Inv
<1>2. ASSUME NEW kind \in Kinds, NEW h \in Handles, Wrap(q, kind, h)
      PROVE  FALSE
  <2>1. call[q].st = "new"
    BY <1>2, BotsAssumption DEF Wrap
  <2> QED BY <2>1
<1>3. PICK h \in Handles : Fill(h) /\ q \in Waiting(h)
  BY <1>1, <1>2, CallTurn
<1>4. call[q].handle = h
  BY <1>3 DEF Waiting
<1>5. look[h].st = "read" /\ look[h].row = NoRow
  <2>1. CASE Settle(h, "sent", look[h].row.endpoint)
    BY <1>3, <2>1 DEF Settle, Outcome
  <2> QED BY <1>3, <2>1 DEF Fill
<1>6. look[h].kind \in {"post", "check"}
  BY <1>1 DEF TypeOK, Kinds
<1> QED BY <1>4, <1>5, <1>6 DEF Inv, Missing

\* A post is answered 404 only if there was no bot of its handle at some moment since
\* the query it waits for was started, or if that query is of a credential check.
THEOREM BotsAbsentWasAbsent == Spec => AbsentWasAbsent
<1>1. Inv /\ [Next]_vars =>
        [\A q \in Calls : call[q].kind = "post" /\ call'[q].st = "absent" /\ call[q].st = "waiting"
           => call[q].handle \in gap \/ look[call[q].handle].kind = "check"]_vars
  BY AbsentStep
<1> QED BY <1>1, Invariance, PTL DEF Spec, AbsentWasAbsent
=============================================================================
