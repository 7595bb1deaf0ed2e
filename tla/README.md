# Open Bot Framework: a TLA+ model

Open Bot Framework (OBF) is a self-hosted replacement of the Bot Framework
connector: web-chat clients talk DirectLine to it, it POSTs their activities to
a bot's endpoint, and the bot's replies reach the client over a WebSocket.  The
server is one Node.js process (NestJS on Fastify) or several of them behind a
load balancer, with Redis for counters, S3 for attachments and PostgreSQL for
bots, credentials and channels.

Every file of this directory is a module, a TLC configuration of a module
`MC<name>`, this text, or `PROJECT.json`, which lists runs, mutants, hazards,
theorems and the source lines each definition stands for.

## 1. Inventory

Paths are below `src/features/` unless they start otherwise.

| Component | State | Operations | What is hard | Correct when |
| --- | --- | --- | --- | --- |
| Gateway, `directline/directline.gateway.ts` | `socketMeta`: conversation -> socket | connection handler, close handler, `sendToConversation` (3 look-ups with 1, 2, 3 s sleeps) | reconnects racing late close events; connects racing the sleeps | the map is the newest live socket; a client gets only its own conversation, each transcript once; the loop ends |
| Atomic operations, `atomicity/` | one number per conversation, in Redis with a TTL or in a Map | `get`, `set`, `incr` | two commands per Redis `incr`; an await inside the memory `incr`; resent commands; expiring keys; number limits | an id is not handed out twice unless the counter was moved back |
| Conversation service, `directline/directline-conversation.service.ts` | none of its own: a request is a chain of awaits over the others | `createConversation`, `getConversation`, `userReplyToConversation`, `replyToActivity` | requests of one conversation interleave at each await; failures half-way; the bot's timeout | what the caller, the bot and the client were told agrees |
| Controllers, `directline/*.controller.ts` | rate limit windows (library) | DirectLine and connector routes, multipart parsing | limits per process | a refused request changes nothing |
| Storage, `storage/storage.service.ts` | objects in a bucket | `uploadToActivity` | one of several uploads fails; equal file names | the bot is sent only activities whose files are stored |
| Tokens, `directline/dirtectline-token.service.ts` | none: signed JWTs | generate, refresh, verify | tokens outlive the secret or site they came from | a token names one conversation for good; refreshing ends when the site is gone |
| Authorization, `authorization/` and `src/guards/` | none: signed JWTs | admin login, bot token exchange, verification | bot tokens outlive credentials | a deleted or expired credential stops working within the cache's time |
| Bots, credentials, channels: `openbot/`, `openbotsecret/`, `channels/webchat/` | database rows; one in-process cache of 10 s for all services, keyed by bare ids (`app.module.ts:25`) | create, update, delete, cached look-ups | read-modify-write of whole rows; stale and re-filled cache entries; look-ups of different services that share a key | updates are not lost, deleted rows stay deleted, caches stale for a bounded time |
| Choice of the counter, `atomicity/atomic-operations.provider.ts` | the manager, chosen at boot | `useFactory` | Redis away at boot: some processes count in memory | all processes number from one counter |
| Admin session, `client/src/services/api.ts`, `context/AuthContext.tsx`, `RequireAuth` | the token in `localStorage`, shared by tabs; `isAuthenticated` of each tab | login, logout, request and 401 interceptors | a late 401 of an older session; other tabs | the pages are shown while there is a session; a session ends for a reason |
| Admin pages, `client/src/pages/`, `hooks/useFetch.ts` | data and loading of each query, the dialog and its form, the secret shown once | visit, create, edit, delete, fetch again | answers that outlive their page or arrive out of order; the history leading to the same page of another bot | what is shown is what the server holds for the page's bot; a form is saved where it came from; a secret is not lost |
| Error filter, paging, health, wiring | none | | | |

How they interact: an HTTP route calls the conversation service, which verifies
a token, stores attachments, takes a number from the counter, looks the bot up
(cache, then database), POSTs to the bot and awaits the gateway's send loop,
which shares `socketMeta` with the WebSocket handlers.  Everything runs on one
event loop: code between two awaits is atomic, anything may run at an await.
The admin routes change the rows the look-ups cache.  The admin client is a
single-page application that calls the admin routes; it has no push channel, so it
fetches again after each change of its own.

Bots, Redis, S3 and the database are outside the process: answers may be late,
lost or errors.  A process may die at any await; no shutdown hook is enabled.

## 2. Modules

| Module | Models | Notes |
| --- | --- | --- |
| `Gateway` | the gateway | one action per handler, and one per stretch of the send loop between sleeps |
| `AtomicCounter` | what the counter promises | abstract: each operation takes effect at one instant between call and return; `manager` decides how ids are numbered |
| `RedisCounter` | the Redis manager | one action per command; implements `AtomicCounter` |
| `MemoryCounter` | the memory manager | one action per turn of the event loop, with the queue of turns; every step is one of `AtomicCounter` unless another call changes the key during an `incr` |
| `Counter` | the counter of one process: the service over the manager that boot chose | composes `AtomicCounter`, for Redis, and `MemoryCounter`; a restart chooses again |
| `Relay` | the conversation service | composes `Gateway` and `Counter`: requests are the senders of the one and the callers of the other |
| `Exchange` | what `Relay` promises of each request | abstract: phase of each request, what bots took, what clients were shown |
| `Credentials` | bot credentials: admin requests, the cached look-up and the checks behind it | one action per database query, a clock, the rules of the cache library |
| `Tokens` | DirectLine tokens: generate, refresh, create again; the sites behind them, their two cached look-ups, and the entry that one of these shares with bots and credentials | one action per database query, a clock |
| `Bots` | bots: admin requests, the look-up by handle that posts go through, and the entry it shares with a look-up of a credential | one action per database query, a clock, restarts |
| `Session` | the administrator's session in one tab: the store, signing in, the interceptors' rules, other tabs | a library of actions, used by `AdminClient` |
| `AdminClient` | the pages: `useFetch`, navigation, every handler that sends a request or opens or closes a dialog, the server's answers | extends `Session` |
| `GatewayProofs`, `RedisCounterProofs`, `MemoryCounterProofs`, `RelayProofs`, `CredentialsProofs`, `TokensProofs`, `BotsProofs`, `AdminClientProofs` | | theorems about the module each extends; `RelayProofs` uses those of `GatewayProofs` |
| `MC...` | | values of the constants for TLC |

How state and actions correspond to the code:

* **Gateway.** `meta` is `socketMeta`.  `conn` is each `ws` object: *open*,
  *gone* (the peer has left or the close handshake has begun, and the `close`
  event is still due), *closed* or *refused*.  `snd` is each pending call of
  `sendToConversation`.  `wire` is what clients received; `newest` is a history
  variable.  A `send` on a socket that is gone disappears, as it does in `ws`.
  Token verification is the choice of `tok`: the conversation of the token, or
  none.
* **RedisCounter.** A key that is missing and one that holds 0 behave alike
  except for the TTL, so the database is `val` and the set `ttl`.  `Resend` and
  `Reject` are ioredis' reconnect behaviour: a command whose answer was lost is
  sent again, and rejected after its last retry.
* **MemoryCounter.** `micro` is the queue of turns that are ready.  A request
  whose turn is queued behind another's runs in that other's await, as happens to
  two bot replies that waited for one cached look-up.  `PlusOne` is JavaScript
  addition, with `MaxCount` for 2^53.
* **Counter.** With Redis the counter is the atomic one, which `RedisCounter` implements;
  in memory it is `MemoryCounter` itself, turn by turn, because its `incr` is not
  atomic.  `next` is what Redis holds and `activityInc` the Map; neither manager sees
  the other's numbers.  `Clash` is the lost update: an `incr` ends its await although
  another call wrote the number it had read.
* **Relay.** `req[r].pc` names the await a request stands at.  `form` is a
  multipart upload: the names of its files, and of the attachments of its activity;
  `location` is the `contentUrl` of each.  Of two files of one name the last one
  wins the first attachment, and the second attachment stays without a URL, which
  `AttachmentsBeforeBot` leaves open as the code does.  `flight` and
  `inbox` are the POST on its way and taken, independent of what the caller was
  told.  Status codes are kept as classes: 200, 400 for any 4xx, 500 for any
  5xx.  Retried HTTP requests of clients are requests of their own.
* **Credentials.** `row` and `bots` are the tables; `adm[a].st` names the query
  an admin request stands at.  `OpenBotSecretService.update` is four queries (bot,
  row, and the two of TypeORM's `save`), `held` is the expiry of the object in
  memory and `disk` the row `save` loaded.  `look` is the look-up a key's callers
  have joined, `cache` its entry.  `Valid` is the comparison of
  `findValidByIdCached`; JWT signatures, secrets and their hashes are left out,
  so a check stands for a call whose token or secret is right.  Credentials' ids are
  UUIDs; here no handle and no site's id equals one.
* **Tokens.** `made` and `alive` are the sites created and the rows there are,
  `entry` the cache of `findByIdCached`, `known` that of `existsByIdCached` and
  `look` its query under way.  The key of `known` is the bare site id, which is also
  the key of a bot of that handle and of a credential check that sends that id.  `bot`
  is such a bot, and `Borrow` a post's look-up of it or a credential check: their
  queries are joined by refreshes and the other way round, a bot's row is cached and
  passes for the site, and a miss throws, which answers everybody who joined 404.
  What the post and the check make of the answer is in `Bots` and `Credentials`, and
  a post that meets `true` or `false` in the entry in neither.  `toks` is every token
  issued: the server keeps none,
  so any of them may be presented.  A site goes only when its bot is deleted:
  the routes that change or delete one channel demand a UUID, which a channel's id
  is not.
* **Bots.** `row` is the table, with the unique handle; `adm[a].st` names the query
  an admin request stands at, `disk` the row that TypeORM's `save` loaded.  `look`
  and `cache` are a key's query under way and its entry.  The keys are bare ids: a
  check of a credential whose id the caller chose to be a handle joins the
  post's query or starts one that finds nothing, which is why `AbsentWasAbsent`
  excepts queries that a check started.  That exception describes the code, not a
  limit of the model.  The entries and queries of a site whose id is the handle are
  left out here; `Tokens` has them.  Requests and calls are alike, so they are used in order.
* **Session.** `stored` is `localStorage["obf_token"]`, `auth` the tab's
  `isAuthenticated`, `login` the sign-in under way.  `Old` is any expired token, so
  a token nobody holds any more can be issued again (`NewToken`).  The other
  tabs are an environment.  A reload of the tab is the beginning of another
  behaviour: `SessionInit` starts with any token, or none.
* **AdminClient.** `view` and `loading` are the state of `useFetch`, with `view`
  set to `NoView` while it is loading because the pages show it only when it is not.
  `dialog`, `filled`, `target`, `secret` and `busy` are the state of the page, gone
  when the page is.  `call` holds the calls under way in slots that are used again;
  `live` says whether the code that made the call still has a screen.  A query
  whose page is gone is kept only for the 401 it may yet bring.  `Jump` leads to
  another bot on the same route, where React keeps the page and its state; only
  the browser's history does that.  Deleting a channel always fails: the route wants
  a UUID, which a channel's id is not.  The handlers of the pages are alike, and an
  operation that stands for several of them names one as its source.
* A history variable (`newest`, `issued`, `rewound`, `clashed`, `rewritten`, `good`,
  `moved`, `seen`, `last`, `gap`, `mine`, `crossed`, `astray`, `overlap`, `missed`)
  is read by no guard.

## 3. Properties and runs

Runs that pass:

| Run | Checks | Shows |
| --- | --- | --- |
| `Gateway` | `TypeOK` `MapTracksNewest` `OwnStream` `OncePerTranscript` `OldSocketSilent` `SendEnds` `ConnectedInTimeIsServed` | a late close of a replaced socket does not evict its successor; a transcript goes to one socket of its own conversation, once; a replaced socket receives nothing more; the loop ends; a client registered before the last look-up that stays is served |
| `RedisCounter` | `TypeOK` `NoReissue` `ImplementsAtomicCounter` | INCR and EXPIRE together are one atomic `incr`, with commands that run twice or are rejected and keys that expire; ids do not repeat; every call is answered |
| `MemoryCounter` | `TypeOK` `CounterCoversIssued` `AtomicUnlessDisturbed` | the fallback departs from the atomic counter only when another call changes the key during an `incr`, or at 2^53; even then the counter never falls below an id handed out |
| `Relay` | `TypeOK` `AttachmentsBeforeBot` `FailedIsUnseen` `EchoMeansTaken` `KeepsExchange` | a bot sees no missing attachment, and none that points at another's file; an error means that no client was shown the activity; an echo or a 200 means that the bot took it; every open request is answered or lost in a restart |
| `RelayNumbering` | `IdsRepeatOnlyAfterRewind` `WatermarkCoversOwnId` | with Redis, ids repeat only if the counter moved back; in memory also if two `incr` calls met in the await of one of them, which TLC reaches; the watermark of a reply covers its id unless the counter moved back |
| `Credentials` | `TypeOK` `AcceptedWasGood` `UpdateAloneIsExact` `ChecksEnd` | deletion and expiry of a credential end what it can do within the cache's time, also when a look-up overlaps them; an update nobody disturbs changes the expiry it names and nothing else; every check is answered |
| `Tokens` | `TypeOK` `EndsWithSite` `RefusedIsGone` `RequestsEnd` | a deleted site's conversations end within the cache's time plus a token's life, unless a client creates them again with a token, which no look at the site stops, or a bot whose handle is the site's id stands in for the site; nobody is refused (401) on account of an answer that has become wrong; every request is answered |
| `Bots` | `TypeOK` `SentWhereBotWas` `AbsentWasAbsent` `CallsEnd` | moving, deleting or replacing a bot takes effect within the cache's time, also when a look-up overlaps it; a 404 is never held against a handle that had a bot all along, unless a credential check's query was joined; every call is answered |
| `AdminClient` | `TypeOK` `LastWriterAgrees` `ViewOfUrl` `QuietViewIsCurrent` `EndsForAReason` `SecretStays` `EditsStayHome` `LoadingEnds` | the pages are shown exactly when a token is stored, unless another tab interfered; a good session ends only for the reasons named there; what is shown is the page's own and, once nothing is under way, current, except in the cases the properties name; a new secret stays until it is closed; loading ends |

The exceptions in `EditsStayHome`, `ViewOfUrl`, `QuietViewIsCurrent` and
`EndsForAReason` are reachable and are real weaknesses of the code: with the edit form
of bot A open, the history can lead to bot B, and saving writes A's data into
B; a refetch begun on A's page can show A's data on B's; of two overlapping queries
the older answer may win; the late 401 of an expired session ends a newer one.

Runs that find a statement of the documentation or of a comment to be wrong:

| Run | Statement | What the code does |
| --- | --- | --- |
| `RedisCounterEveryKeyExpires` | redis manager, line 35 "ensure a 1-hour expiry" | a crash or an error between INCR and EXPIRE leaves a key without TTL |
| `MemoryCounterAtomicIncr` | interface, line 3 "atomic get/set/incr semantics" | overlapping `incr` calls answer one id |
| `CredentialsCascadeDeletes` | docs/architecture/bot-nodes.md:47 "Cascade delete" | an update that read the credential before the deletion inserts it again, without a bot: it is accepted, and no route reaches it |

Other statements that the models show to be wrong or out of date, without a run of
their own:

* webchat.service.ts:100, of `existsByIdCached`: "True if the channel exists, false
  otherwise".  It answers with whatever is cached or asked for under the bare id
  (`Refresh`, `Exists` and `Tell` of `Tokens`).  A bot of that handle, cached by the posts of
  its own sites, passes for the site, so tokens of a deleted site can be refreshed as long
  as posts keep that entry: with `seen["site"]` for `seen[t.by]` in `EndsWithSite`
  TLC finds such a token.  docs/resilience.md:132-134 names this collision, as a risk.
* dirtectline-token.service.ts:97: a refresh is answered 401 "if site missing".  If it
  joined the query of a post's or a credential check's look-up with that key, it is
  answered the 404 of that look-up, also when the site exists.  `RefusedIsGone` is
  about 401 only; with "missing" for "refused" TLC finds it violated.
* docs/AI_BRIEF.md:68: the expiry of a credential is "stored but never enforced".  Every
  check compares it with the clock (`Valid`, openbotsecret.service.ts:98), also when the row
  is cached, and `AcceptedWasGood` counts an expired credential as one that is
  not good.
* docs/resilience.md:64 and 284: the socket map is never pruned.  `HandleClose` prunes it.
* docs/resilience.md:285 and docs/auth.md:112: a connection without a token is neither
  registered nor closed.  `Refuse` closes it.
* docs/auth.md:110: any token may store a watermark in any conversation.  The token
  must be the conversation's, or the request is refused before `Resync`.
* docs/resilience.md:111 and 300: a watermark may be undefined.  `WatermarkCoversOwnId` says that
  it is a number.
* docs/communication.md:65: an id is the conversation and the watermark.  With Redis the
  watermark is at least one more.
* docs/auth.md:28, 39, 101 and 111: refreshing a token and posting with one ignore its
  expiry.  `Refresh` answers an expired token 403, and posts are verified alike.
* docs/auth.md:101: a refresh "only checks that the `site` still exists in the
  database".  It asks the cache, under a key that others fill (above).
* docs/auth.md:30 and 107, docs/architecture.md:103 and 122, docs/AI_BRIEF.md:113: a bot's
  token is checked for its signature (and expiry) only.  `verifyBotToken`
  refuses tokens of administrators and of conversations, and looks for the
  credential in its subject, which is the check of `Credentials`.
* docs/architecture/bot-nodes.md:234: three retries after sleeps of 1, 2 and 3 s.
  There are three look-ups, each followed by a sleep, so nothing follows the
  last (`Attempt`, `Wake`).
* openbotsecret.service.ts:109: a credential is created with the expiry asked for.
  `Insert` of `Credentials` leaves it out, as the code does.
* docs/AI_BRIEF.md:110, docs/resilience.md:125-134, 178 and 287: cache entries live for
  10 ms and are as good as none.  The code gives 10 000 ms, with which the collision that
  docs/resilience.md:134 calls unlikely is a thousand times longer.

Statements that the models bear out: a process that counts in memory starts again and
hands out ids that another has used (docs/resilience.md:101; here after a restart, by
`rewound`), and the keys of the cache are unprefixed (docs/AI_BRIEF.md:110,
docs/resilience.md:132).

### Bounds, and why they are enough

* Gateway: three sockets, two conversations, two senders.  Two sockets make a
  replacement, the third one a replacement during the close of another; two
  conversations are needed for transcripts that go astray.  The three look-ups
  are the code's own number.
* RedisCounter: two callers, numbers up to `MaxCount` (standing for 2^63 - 1),
  watermarks below, at and above it.  Two callers give every
  interleaving of the two-command `incr` with another operation.
* MemoryCounter: three callers, so that two overlapping `incr` calls meet a third
  operation; `MaxCount` = 3 stands for 2^53 and is reached.  Watermarks are 0 and
  `MaxCount`.
* Relay: one user post and one bot reply; the post has no files, two in another order
  than their attachments, two of one name, or one that no attachment names.  One
  conversation, one socket, both managers, and `MaxCount` = 1, since ids
  matter to no property of this run: with Redis the counter is full after one message,
  unless its key expires, and an `incr` then fails; in memory it takes both.  Requests of different conversations
  share only the gateway, whose run has two conversations.  `RelayNumbering`: a
  post, a reply and a client that stores a watermark, no socket and no
  attachments, both managers, numbers up to 3, watermarks 0 and 2: two `incr` calls and
  a `set` are enough for a clash, a rewind, and both.
* Credentials: one credential, one bot, two admin requests and two checks, TTL 1
  and a clock of four instants (`MaxTime` = 3), so an entry ends, a second one is
  filled and ends as well.  Different keys share no entry.  Two admin requests
  give every pair of create, update, delete and deletion of the bot.
* Tokens: one site and the bot that may have its id for a handle, two conversations,
  three requests used in their order (they are alike), TTL 1, tokens of life 2 and a
  clock of three instants (`MaxTime` = 2).  Three requests make a chain of tokens that
  passes the promised end (generate, refresh, refresh), as the mutant of `EndsWithSite`
  shows, two of them two look-ups of one site at once.  Different ids
  share no entry.
* Bots: two ids, one handle, two endpoints, two admin requests, two calls, TTL 1 and
  three instants (`MaxTime` = 2).  Two ids let one bot take the handle another gave
  up; handles do not interact.  An entry can be filled, end and be filled
  again.
* AdminClient: two slots for calls, and one of six scenarios chosen at the beginning:
  two pages, two tokens and other tabs without changes; two secrets on one page;
  the credentials of two bots; the list of bots and one bot; two bots with two
  edits; the channels of two bots.  A call, its refetch and a second call under
  way are what the overlaps need; each scenario has the pages among which the
  case it is named for happens.  The tables of different pages are independent.

In the models other than AdminClient, every request and socket object is used once,
so the models have terminal states; that is why the configurations switch the deadlock check off.  Requests
that are stuck would show in the liveness properties.

### Fairness

Timers fire (`Wake`); the event loop runs every turn that is due; a Redis command
is answered or, after ioredis' bounded retries, rejected; the POST has a timeout
of 5 s.  Object storage and the database have no timeout in this code: that they
answer or fail is an assumption of `KeepsExchange`, `ChecksEnd`, `RequestsEnd` and
`CallsEnd`.  The admin client sets no timeout on its requests: that the server answers
or the connection fails is an assumption of `LoadingEnds`.  Nothing
obliges peers to connect, leave or be noticed, bots to take activities, keys to
expire, commands to be resent, the clock to advance or the process to restart.

## 4. Proofs

Every invariant and every action property of the runs that pass is a theorem, for
arbitrary constants: any finite or infinite sets of conversations, sockets, callers,
requests, pages and so on, every life of cache entries and tokens, every numeric
limit.  The only assumptions are the named ones of the modules: bounds and times are
natural numbers, the values that stand for "none" are not members of the set they
stand beside, and in `Relay` user posts, bot replies and resynchronising clients are
different requests and the managers are among the two there are.  TLC evaluates each
of them in a run.

Each proof has one shape.  An inductive invariant `Inv` (in `GatewayProofs` three
that build on each other) is the type invariant with what the properties rest on;
one lemma per action shows that the action keeps it; `Invariance` concludes
`Spec => []Inv`.  TLC checked these invariants on the configurations of the
runs before they were proved.  Invariants follow from `Inv` in one state; an action property
follows from `Inv` and one step, by cases on the actions.

* **Gateway** (`GatewayType` `GatewayMap` `GatewayOldSocketSilent` `GatewayOwnStream`
  `GatewayOncePerTranscript`).  `TypeOK` is inductive together with `SleepsForConv`
  (a send that sleeps has a conversation).  `MapTracksNewest` needs `NewestOwned`, that
  the newest socket of a conversation was accepted for that conversation: the close
  handler looks only at the entry of its own socket's conversation, so without it a
  socket that is the newest of another one could close and stay in the map.
  `OldSocketSilent` follows step by step: only `Attempt` writes, and it writes to
  `meta[c]`, the newest socket.  `Streams` says what has been received: a transcript
  on a stream is that of a send that is over, so a send that still looks up sockets
  is on none, and adding it once keeps it unique.
* **RedisCounter** (`RedisType` `RedisNoReissue` `RedisImplementsCounter`).  The
  inductive invariant adds to the types that every id in `issued` is below the stored
  number, without which `INCR` could repeat one.  Refinement: the initial states
  agree, and each command is a step of `AtomicCounter` or, for EXPIRE, none; an incr
  takes effect with its INCR.
* **MemoryCounter** (`MemoryType` `MemoryCoversIssued` `MemoryAtomicUnlessDisturbed`).
  That the counter covers what it handed out rests on the order of turns: `Queued`
  (a running call has exactly one turn in the queue), `Bounded` (what an awaiting incr
  will write is not below the Map) and `Ordered` (of two that await, the one queued
  first read no more than the other).  With `Ordered` left out, a write could lower
  the counter and `Bounded` is not inductive.  The refinement is conditional, as in
  the property: every step that does not end a disturbed incr is a step of
  `AtomicCounter` or none, under the mapping `promised`, `promisedNext`.
* **Relay** (`RelayType` `RelayAttachmentsBeforeBot` `RelayFailedIsUnseen`
  `RelayEchoMeansTaken` `RelayIdsRepeatOnlyAfterRewind` `RelayWatermarkCoversOwnId`
  `RelayImplementsExchange`).  The gateway's part of the invariant is not proved
  again: every step of the relay is a step of the gateway or leaves it alone
  (`GatewayTurn`), so the lemmas of `GatewayProofs`, instantiated with requests for senders,
  carry it.  What the other parts need to know of the counter is stated once for both
  managers, by the next id (`upcoming`): the turn of an `incr` leaves the counter alone or
  answers a number and makes the one after it the next; that number was the next one,
  unless the turn is a clash (`RedisWork`, `MemoryWork`, `WorkFacts`).  After a clash
  too the number is below the next id, and a counter that it lowered has moved back, so
  `Marks` needs no exception for clashes, `Numbers` one.  `Standing` says which requests
  stand at which await, `Calling` that a call of the counter is the one its request
  waits for, `Filed` that a post past its upload has
  all its files, each found by the attachment of its name, `Numbers` that numbers
  given since the last rewind are below the next and, in conversations without a clash,
  differ, `Marks` that the
  watermark, read an await later than the number, covers it, and `Delivery` that
  a request's transcript is sent only while the request is in the send loop, a post's not
  before the bot took it.  `RelayImplementsExchange` maps each step to a step of
  `Exchange` or to none: the phase of a request is what its caller was told, and
  `FailedIsUnseen` and `EchoMeansTaken` are what makes the mapped step legal.
* **Credentials** (`CredentialsType` `CredentialsAcceptedWasGood`
  `CredentialsUpdateAloneIsExact`).  `Recent` bounds the end of every entry that is
  still valid by the last moment its credential was good, plus TTL; a look-up that
  has read counts as such a moment, which covers a deletion between reading and
  filling.  `Undisturbed` follows one update through its queries: while nobody
  touches the row, the expiry held and the row loaded are those of the table.
* **Tokens** (`TokensType` `TokensEndWithSite` `TokensRefusedIsGone`).  `Placed`: what is
  under way or issued is about a site that was created, and an existence query about
  one too, but not the queries that others start for the same key.  `Timed`: a positive
  answer, of a site's row or of a bot's, is about a row that is there, or cached until
  TTL after it was.  `Gone`: a `false`, which only an existence query says, is about a
  site that was created and is gone, and that is for good, as no id is used again;
  without `Placed` it could be about one that is created afterwards.
* **Bots** (`BotsType` `BotsSentWhereBotWas` `BotsAbsentWasAbsent`).  `Aimed`: an
  administrator's request names a bot.  `Recent`: what is read or cached under a
  handle is a bot of that handle, and was there TTL before its entry ends.  `Missing`: a
  post's query that found nothing ran while there was no bot.
* **AdminClient** (`AdminType` `AdminLastWriterAgrees` `AdminViewOfUrl`
  `AdminQuietViewIsCurrent` `AdminEndsForAReason` `AdminSecretStays`
  `AdminEditsStayHome`).  `SessionOK`: a sign-in is under way only on the login page.
  `Good`: of each call, among others, that only a token that is not good is refused, which is
  `EndsForAReason`.  `Own`: a call that a page heeds, and a dialog, belong to a page
  that is shown.  `Submitting`: one form at most is on its way, and none while a
  secret is shown; without it a second creation could replace a secret.  `Current`:
  what is shown, or read and about to be shown, is what the server has, unless a
  change is still to be answered.

Only model-checked: the liveness properties `SendEnds`, `ConnectedInTimeIsServed`,
`ChecksEnd`, `RequestsEnd`, `CallsEnd` and `LoadingEnds`, and the fairness of
`ImplementsAtomicCounter` and `KeepsExchange`, whose other parts, the initial states and
the steps, are `RedisImplementsCounter` and `RelayImplementsExchange`.  Liveness under
fairness rests on `ENABLED`, which the prover does not handle.  The statements that are
found to be wrong have counterexamples of TLC, not proofs.

## 5. Not modelled, and limits

* The multipart parser, which gives `Relay` the files and the activity or refuses
  them, and the rate limits.
* Several processes of which some count in Redis and some in memory; `Counter` is the
  choice of one process, made again at each boot.
* Of the admin client: rendering, alerts, the contents of forms (their validation is
  taken to have passed), and the two counts on a bot's page.  A dialog covers its
  page.  React's double effects under StrictMode happen in development only.
* The administrator's password, hashes and signatures: right or wrong.
* A stream stays open when its token expires: the gateway looks at a token only when
  a socket connects.
* Several server processes with separate socket maps: a transcript sent by the
  process that does not hold the socket is dropped; in `Gateway` this is a sender
  of a conversation without entry.  Counters shared by processes are in
  `RedisCounter`, whose callers may be in any process (its `Restart` is then of
  all of them).
* The one cache of all services, as a whole.  A key that a handle shares with a
  credential check is in `Bots`; one that a site shares with a handle or a credential
  check is in `Tokens`, seen from the refresh: what a post does that meets an answer about
  a site (`true` has no endpoint, `false` neither) is not modelled.  Ids of credentials
  equal no other id in `Credentials`.
* In `Credentials` a failed query has had no effect.  A write that took effect while
  its answer was lost looks to everybody but its caller like one that succeeded.
* Rounding of Redis replies between 2^53 and 2^63.
* The order of transcripts of different sends: the send loops of a conversation sleep
  independently, and neither the code nor its documents promise an order.
* Health, paging, application wiring, load tests.

## 6. Plan

1. `Gateway`, the counters, `Relay`, `Exchange`, the first proofs, `Credentials` and
   `Tokens` (done).
2. `Bots`: creating and changing bots, with unique handles and the cached look-up of a
   bot by its handle (done).
3. `Session` and `AdminClient`: the token in the browser, the 401 interceptor, login
   and logout, `RequireAuth`, `useFetch` and the pages' actions on it (done).
4. Files and attachments matched by name (done, in `Relay`).  The choice of
   the manager at each boot of one process (done, in `Counter`).  `Boot`: several
   processes that choose differently.
5. `Tokens` composed with `Gateway`: streams that outlive their tokens.
6. Theorems: every invariant and action property of the runs, and the step parts of the
   refinements (done).  What a theorem about a new module would need is a proof module
   of its own, or a place in that of the module it extends.
