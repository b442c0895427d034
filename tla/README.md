# nore-proxy: TLA+ models, model checks and proofs

nore-proxy is an HTTP proxy between clients that speak the OpenAI or the
Anthropic protocol and upstream model providers. It selects a target model and an
upstream key per request, retries, hops between keys and falls back to other
targets, keeps the health of every key, accounts for every request and lets an
operator change all of it while it runs. It is one Node.js process: concurrency
is the interleaving of handlers at their `await`s, over SQLite or PostgreSQL.

This directory models that program. `PROJECT.json` lists the runs, what each
definition translates (`map`), the hazards of the code, the findings and the
theorems.

## 1. Inventory

| Component | Code | State | Operations | What makes it correct | Modelled |
|---|---|---|---|---|---|
| Upstream key health | `services/keyStateManager.ts` | tables `key_states`, `key_code_counts` | select usable keys, record success and failure, view, reset, disable, reset statistics | benched keys stay benched, come back in time, counters agree | yes |
| Key selection | `utils/helpers.ts` 436-522, `config/index.ts` 145-161 | per-request rotation offset | pick in sticky or rotated order | never a key twice in one request, the configured order | partly |
| Routing loop | `utils/requestRouting.ts`, `routes/messages.ts` 283-421 | per-request state (targets, cursors, tried keys, notes) | next target, hop, retry, end | one honest answer, attempts within limits, nothing after output | yes |
| Automatic models | `utils/autoRouting.ts` | round-robin counters | target sequence, failure classification | live targets reachable, ceiling respected | partly |
| Chat route | `routes/chat.ts` | stream, abort flags, response | route, stream, log, answer | one terminal event, one log entry, aborts are not failures | partly |
| Messages route | `routes/messages.ts` | the same, a log task per stream, Anthropic blocks | the same, translating chunks and conversations | one voice, one row, blocks nest, tool calls whole | yes |
| Images, embeddings | `routes/images.ts`, `routes/embeddings.ts` | none of their own | one finished body | answered as logged, paid once | yes |
| Accounting | `utils/logging.ts`, `services/realtimeStats.ts` | map of active requests | start, end, cleanup | every request ends in the log once | yes |
| Log store | `services/logManager.ts` | request rows, rollups, error rows, cached statistics | write, rename, merge, delete, prune, rebuild, query | rollups equal rows, history outlives details, cache not stale | partly |
| Usage and pricing | `utils/pricing.ts`, `utils/usageReporting.ts` | the bill in each row | bill, sum, report | every page shows the same numbers | yes |
| Client keys | `services/apiKeyManager.ts` | table `api_keys` | admit and count, daily reset, administration | no request beyond its budget, none counted twice | partly |
| Rate limiter | `middleware/rateLimiter.ts` | sliding windows | take a slot, evict | the limit holds in every minute | yes |
| Database facade | `services/database.ts` | promise tail, connection | statement, transaction | atomic, never stuck | yes |
| Uptime layer | `services/uptime/` | hot buckets, table `uptime_buckets` | record, flush, restore, retention, query, shutdown | no sample lost or counted twice | yes |
| Settings | `services/settingsManager.ts` | `settings.json`, values in force | update, reload | stored models fit the ceiling | partly |
| Admin configuration | `routes/admin.ts` | JSON documents, what is loaded of them | edit, rename, delete, toggle, reload, roll back | memory and files agree, no dangling reference | partly |
| Sessions | `services/sessionManager.ts`, `services/accountSessionManager.ts` | session map, table `sessions` | sign in, use, expire, revoke, clean up | no session outlives its key or its logout, none ends early | yes |
| Proxies | `services/proxyManager.ts` | list and file | add, delete, resolve | no endpoint names a proxy that is gone | partly |
| Provider adapters | `utils/adapters/` | per-stream indexes | parse, build, convert | calls told apart, results answer their calls | partly |
| Stream limits | `utils/streamLimits.ts` | none | bound a carry buffer | a stream ends instead of growing | partly |
| Model test | `utils/modelTest.ts` | none | one upstream call | the result is that of the draft shown | partly |
| Read-only routes | `routes/` | none | pages of rows | list, count and filter belong together | partly |
| Server process | `server.ts` | timers | start, hourly reset, cleanup, shutdown | timers and exits cost nothing they need not | partly |
| Atomic JSON files | `utils/atomicJson.ts` | files and backups | write, rotate | whole or not at all | partly |
| Playground | `frontend/src/public/pages/PlaygroundPage.svelte`, `lib/playground/` | conversations, turns, localStorage, IndexedDB, image grid | send, stream, edit, persist, collect, generate, retry | answers find their place, no image is lost that is shown | partly |
| Admin and account pages | `frontend/src/admin/pages/`, `public/pages/` | lists, editors | load, filter, turn, edit, test | a settled page shows what its controls name | partly |
| Endpoint policies, diagnostics, tool validation, other frontend | `utils/`, `frontend/` | none | pure conversions, display | - | no |

How they interact: a route admits a request (client keys, rate limiter), notes
its start (accounting), and hands an attempt callback to the routing loop. The
loop asks key selection for a key per attempt and reports failures to key
health; the attempt calls the upstream through an adapter and writes the client's
stream. The route then notes the end (log store, uptime). The operator's handlers
write the same tables and the JSON files, and reload what is in memory. All
tables lie behind the database facade. The pages in the browser start requests
whose answers arrive in any order, while the user goes on.

What is hard here: statements that use what an earlier statement read, with other
handlers in between; failures that arrive after the operator or another request
changed the row; three nested attempt limits; output that forbids retries; client
aborts at any await; a log task that nobody awaits; memory that is drained before
it is stored; notes, maps and caches with bounds; two-file updates with
hand-written rollback; late answers on a page that has moved on. Each is a hazard
in `PROJECT.json` at the line where it bites.

## 2. Modules

| Module | What it is |
|---|---|
| `KeyState`, `MCKeyState`, `KeyStateProofs` | Upstream key health and key selection: requests, admin views, the operator and the clock over the rows of one endpoint; its instances; its theorems |
| `Failover` | The contract of routing: what a client may rely on, with the choice of targets and keys left open |
| `Routing`, `MCRouting`, `RoutingProofs` | One request in the routing loop, which implements `Failover`; its instance (three models on two endpoints, the first and the last sharing one); its theorems |
| `ChatRequest`, `ChatRequestProofs` | One chat completion from its start record to its answer; its theorems |
| `Messages` | One request on `/v1/messages` |
| `UnaryRequest` | One request for images or embeddings |
| `Access` | One client key: admission, limiter, reset, administration, account session |
| `AdminAccess` | The way into the admin panel: limit on logins, sessions in the database, pages |
| `Database` | Transactions and lone statements behind the facade |
| `UptimeLedger` | What the uptime layer promises of its counters |
| `Uptime`, `UptimeProofs` | The uptime layer, which implements `UptimeLedger`; its theorems |
| `MCRequests`, `RequestsProofs` | The six components above (`Messages` ... `Uptime`) for the model checker; the theorems of `Messages`, `UnaryRequest`, `Access`, `AdminAccess`, `Database` and of that specification |
| `AnthropicStream`, `StreamAdapters`, `RequestFormats` | What the formats' conversions do to streams, tool calls and conversations |
| `LogStore`, `RequestHistory`, `Usage` | Rows, rollups and cached statistics; the request log's start, end and error rows; bills and reports |
| `AdminConfig`, `Settings` | The operator's documents; the settings and the models that must fit them |
| `PageLoads`, `ModelEditor`, `EndpointEditor` | The lists and editors of the pages |
| `Playground`, `ImageTurns`, `ClientStream` | The playground: conversations and storage, image batches, reading of answers |
| `MCData`, `StoresProofs`, `PagesProofs` | The fourteen modules of the last five lines for the model checker; the theorems about configuration, settings, logs, usage, lists and editors, and about the streams and the playground |
| `Collections`, `CollectionsProofs` | Functions of sequences that several modules use, written so that the provers take them; lemmas about them, about sums over finite sets, and the forms of induction the proofs use |

`KeyState` and `Routing` meet in two places: what `Routing` leaves to the
environment (which key a selection finds, that none is found) is what `KeyState`
computes, and what `KeyState` leaves to the environment (the upstream's answers,
the end of a request) is what `Routing` orders. `ChatRequest`, `Messages` and
`UnaryRequest` take the routing loop's decision (retry, hop, fallback, give up) as a
free choice, subject only to what `Routing` proves of it (`OutputFinal`: nothing after
output), and open up the attempt that `Routing` treats as one outcome. `Access` is
what happens before their first action. `AnthropicStream` and `StreamAdapters` say
which events the chunks become that `Messages` only counts. `Database` says what the
others may assume of a transaction: that it is one step.

`MCRequests` and `MCData` put components that share no state into one specification.
The initial state names the component that moves; the others stay in an initial
state of theirs. No product of state spaces is built, and each property speaks of its
component only, under the guard that it is the one at work where that is needed.

### KeyState

`row[k]` is the `status` and `disabled_until` of key k, `stats[k]` its counters.
Deadlines are relative: the ticks left until `disabled_until`, so the state space
is finite without a bound on the clock; `Tick` ages every deadline that is stored
or that somebody has read. A key without a row behaves as an active row, so rows
exist from the start and `ensureRow()` is not visible.

A request goes `idle` (the SELECT) -> `checking` (one `CheckToken` per key, with
its recovery UPDATE) -> `calling` -> `failed` (the clock was read, the
transaction is still to come) -> `idle` again or `done`. A request that finds no
key reads the rows once more (`describeExhaustion()`), with recovery UPDATEs of its
own. A view does the same for the admin. An endpoint change during a request is
not modelled: `Keys` is constant.

A `transaction()` is one step. On PostgreSQL that is row locking; on SQLite the
facade's chain serialises transactions, and a lone statement between two
statements of a transaction sees no status it should not, because the status is
written last. `StoreFails` and `ViewRecoverFails` are statements that fail.

### Failover and Routing

`Failover` has three actions. `Call` goes forward to a later place (target, key
attempt, retry) within the limits, only before output and answer. `Emit` sends
output. `Answer` ends the request. `Routing` is the loop, one action per turn;
`Contract == INSTANCE Failover WITH answer <- AnswerOf(verdict)` maps its verdicts to
answers, and its history variable `last` holds the place of the last call.

Failures are five kinds, chosen by what `classifyUpstreamFailure()` and
`recordKeyFailure()` tell apart. A failing store statement ends the loop from
wherever the loop awaits one outside the attempt's `try`.

### ChatRequest

The handler of `routes/chat.ts` from `logRequestStart()` to its last statement.
`phase` names the await it is at; `streaming` chooses between
`streamFromBackend()` and `makeBackendRequest()`, which share the routing loop
and `logRequestEnd()`.

| In the model | In the code |
|---|---|
| `attempts`, `upstream` | calls of the attempt callback that looked at the endpoint; `response.data` of the last one |
| `response`, `ended` | frames written to `res`, each with the attempt it comes from; `res.writableEnded` |
| `gone`, `left` | the connection is closed; `clientAborted`, set by the close listeners |
| `active`, `old`, `forgotten` | the entry in `activeRequests`; older than 180 s; dropped by `cleanupOldRequests()` |
| `ends`, `samples`, `errorRows` | `request_end` rows, uptime samples, error log rows |
| `Catch`, `StreamFails`, `StreamEnds`, `LateEvent` | `consumeStream()` and the `catch` around it |
| `EndIgnored` ... `EndThrows` | `logRequestEnd()` |

Four actors move: the handler, the upstream (any event that is possible at the
moment), the client (leaves once, at any time), and the cleanup timer. A store
statement fails before or after its commit (`EndThrows`, `PersistFails`).

What axios does when its signal aborts is modelled from how the route uses it: a
pending call rejects; a response stream emits an error, which `consumeStream()`
takes as its failure. The listeners are attached after `logRequestStart()`; a client
that leaves before is `gone` but never `left`. The request is then served to nobody:
no document says otherwise and no property forbids it.

`ChatRequest` leaves out admission, request and response bodies, token counts and
the reading of keys, which `KeyState` has.

### Messages

The handler of `routes/messages.ts` in the notation of `ChatRequest`. It is a module of
its own because the code differs where it matters:

| In the model | In the code |
|---|---|
| `tasks[a]`, `Task` | what `onEnd()` of attempt a starts: `logRequestEnd()`, then `res.end()`, awaited by nobody |
| `Settled`, `Record` | the attempt goes on to `recordSuccess()` while the task runs; when that fails, the handler's `catch` logs too |
| `LogAnswer` | a buffered answer is logged inside the attempt, before it is sent |
| `Attached`, `ClientLeaves` | `abortClient()`, effective only while the listeners of `streamMessages()` are attached |
| `response` | frames: event, `message_stop`, `error` event, body, error body, each with its attempt |

### UnaryRequest

Images and embeddings as one module with `route` telling them apart: the two handlers
differ in what an attempt credits and when it is logged. Nobody looks whether the client
is still there, so it is no actor. `unread` remembers that an answer which was paid
for could not be parsed, the one way to pay twice without a failing statement.

### Access

One client key. A request is `verified` (the middleware's read), then in its
transaction (`Check`: row, limits and limiter in the order of the code; `Count`: the
UPDATE and the COMMIT, or their failure). Time is relative: slots have ages and the row
knows whether its day is over. `Manage` is any admin operation, a read to resolve the key
and a statement later; `ResetDaily` is the hourly timer; `Restart` empties what is in
memory. The account page reads in two steps with the admin between them.

### Database

Three callers of one turn of the event loop, each with a lone write or a transaction of two
writes. On SQLite they share a connection and a promise tail, on PostgreSQL each has a
client. Every statement can fail: BEGIN, a write, COMMIT, ROLLBACK. A lone write that lands
between the statements of another caller's transaction on SQLite goes down with it when
that rolls back, although it was acknowledged: the model has it, `AllOrNothing` is about
transactions.

### UptimeLedger and Uptime

The ledger counts outcomes per model and bucket. A count falls only when retention expires
it, when the map in memory is at its cap, or when a process ends. `Uptime` is the service
over the store: `hot`, a flush in its awaits (`Flush` drains, `Persisted` commits or
restores, `Retain`), a query (window and storage first, the map later), `Shutdown`,
`Closed`, `Exit` at any moment, `Start`. The mapping adds up the four places where an
outcome can be: in the map, drained, taken out by `shutdown()`, stored.

### AdminAccess

`tries` are the ages of one address' attempts, `rows` the sessions in the database, `due` the
time until each session's `expires_at`. A visit reads the row (`Ask`), and after the await the
clock (`Answer`), beside cleanups, logouts and restarts; the tries do not survive a restart,
the sessions do. `admitted` and `revoked` are history. The handlers of login and logout have no
`try`: under Express 4 a failing statement is nobody's rejection and ends the process
(`account.ts:48`, `admin.ts:50`), so that such failures are among the restarts.

### LogStore, RequestHistory and Usage

`LogStore` has per model and time the number of `request_end` rows, and per model and day
the rollups. SQLite's calls are synchronous; on PostgreSQL a SELECT for the cached
statistics is under way while writers invalidate the cache, and `manageModelUsage()` takes
two transactions. `Start` projects rows of older versions and rebuilds, `Prune` is
retention. `owed` remembers the days that a deletion or a failed rebuild leaves wrong.

`RequestHistory` tells the rows apart by their requests, and has the three kinds: a start row,
an end row that is stamped, waits for the name of its key and is then written, and an error row
after it. A request may stop after any of these steps, as it does when its process ends.
An error row keeps its place, as the table never gives an id again: a deleted one leaves `Gone`
behind, and `ErrorRows` are the others. Renames of keys and models, merges and deletions of usage,
retention, the clearing of errors and the migration of an older error table act on all three; the menus, the list and the
detail's related error are read from what they leave. Time is counted in days, because
retention cuts at midnight. `borne` and `toldAt` are history: the last day the key had a
name, and the day of a request's last error row that should still be there.

`Usage` follows the numbers: the bill of a row, the rollup it adds to, and the dashboard, account
page, users page and history computed from one or the other. There is one model and
two kinds of tokens; an operator may change the price, and two keys may wear the same mask.

### AdminConfig and Settings

`AdminConfig` has documents on disk and what is loaded of them. A handler is one action with
every save it makes, each of which may fail, and the rollback; a rename on PostgreSQL is
two, because it awaits the log in between (`StartRename`; `RenameLogged` or `RenameFails`).
`excuses` names what such failures are known to leave behind. `Settings` is the one setting
that stored models must fit, and one that stands for the rest.

### AnthropicStream, StreamAdapters, RequestFormats

`AnthropicStream` is `streamOpenAIToAnthropic()`: one action per chunk, with the blocks it
closes, opens and adds to. Chunks carry any mixture of reasoning, text, tool fragments and a
finish reason. `StreamAdapters` is how each upstream format numbers tool calls and tells the
end. `RequestFormats` adds turn after turn to a conversation, with parallel tool calls and
their results, and converts it to every upstream format, and each answer back.

### The pages

`PageLoads` has four lists whose loads overtake each other while rows come and go; two
of them compare an answer with the newest load. `ModelEditor` and `EndpointEditor` are modals
that are closed, reopened and edited while tests, fetches and saves are under way.
`Playground` is one tab: a turn that holds the index of its message, the workspace in
localStorage (whole, trimmed, or not written any more), payloads in IndexedDB whose
operations run in the order asked. `ImageTurns` is its grid of cells, filled by a batch and
any number of retries. `ClientStream` reads an answer whose lines and `<think>` tags are cut
anywhere, against a reference reader that goes piece by piece.

## 3. Runs

| Run | Expect | Properties | Question |
|---|---|---|---|
| `keys` | pass | `RowsAndReadersFit` `BenchStands` | Do rows stay consistent, is no key used twice, does a benched key stay benched, under every interleaving? |
| `keys_live` | pass | `StatsConserved` `KeyComesBack` `RequestEnds` | Do the counters agree, do keys come back, does every request end? |
| `keys_held` | violation | `HeldSkipped` | Does a disabled key stay skipped until re-enabled? |
| `keys_cooldown` | violation | `CooldownHonoured` | Is the cooldown honoured? |
| `routing` | pass | `WaysOutTrue` `OutputFinal` `ImplementsFailover` `Answered` | Is the answer honest, is output final, does the loop implement the contract and end? |
| `routing_reuse` | violation | `NoKeyReuse` | Does one request never go back to a key it left? |
| `chat` | pass | `AnswerWhole` `EndTellsOutcome` `AccountedOnce` `OneUpstream` `LeaverCostsNothing` `LeaverReleased` | Is the response well formed and of one attempt, does the log say what the client got, are streams closed, is a leaver free and released? |
| `chat_crash` | violation | `LoggingNeverCrashes` | Does a failing log statement leave the end of a request alone? |
| `chat_abort` | violation | `AbortsAreNotFailures` | Is an abort kept out of the error log and of the uptime of the upstream? |
| `usage_billing` | violation | `CachedChargedOnce` | Are cached tokens charged once? |
| `requests` | pass | 11, below | Do the components a request passes through keep their promises? |
| `data` | pass | 14, below | Do the components that keep, convert or show data? |

A property of a run is a conjunction where its parts belong together; its parts have names
of their own: `RowsAndReadersFit` is `TypeOK`, `DeadlineIffTimeout` and `NoKeyTwice`;
`WaysOutTrue` is `TypeOK`, `UnavailableHonest`, `ClientErrorsStop` and `HopsDistinct`;
`AnswerWhole` is `TypeOK`, `Framing` and `OneVoice`; `AccountedOnce` of `ChatRequest` is
`OneEndRow` and `SampleMatchesRow`; `AbortsAreNotFailures` is `AbortsNotPersisted` and
`AbortsNotDowntime`.

`requests` checks

| Property | Component | What it says |
|---|---|---|
| `AccountedOnce` | `Messages` | one attempt speaks, and a finished request has one row and one sample that tell what the client has read, although task and handler may both log |
| `LeaverCostsNothing`, `AnswerCloses` | `Messages` | no call and no event once the client is seen to leave; a handler that is done leaves a response that ends |
| `AnsweredAsLogged` | `UnaryRequest` | answer and row agree; a credited generation is not bought again |
| `UsageTrue` | `Access` | the daily counter is what was admitted since its reset |
| `ServedWithinLimits`, `LockoutEnds` | `Access`, `AdminAccess` | slots and logins fit the limit of every minute, only an entitled key and a live session are served, and no live session is refused; a key at its daily limit is let in again |
| `AllOrNothing`, `TurnComes` | `Database` | a transaction is in the tables whole or not at all; whoever waits gets a turn |
| `CountsLikeLedger` | `Uptime` | the layer implements the ledger |
| `AnswerTrue` | `Uptime` | a page never shows more than was recorded, and less only of rows that were leaving memory; the map keeps its cap |

`data` checks

| Property | Component | What it says |
|---|---|---|
| `StreamWhole` | `AnthropicStream`, `ClientStream` | blocks nest and tool calls arrive whole; the visitor reads the answer's text however it is cut |
| `CallsApart` | `StreamAdapters` | an index belongs to one call, and the end is told once |
| `ToolTurnsKept` | `RequestFormats` | every result answers its call in every format, and answers come back whole |
| `RollupsMatch`, `StatsFresh`, `HistoryKept` | `LogStore`, `RequestHistory` | rollups are the sums of rows; cached statistics are those of the rows; retention costs no history, and takes of each kind of row what lies before its midnight |
| `ReferencesWhole`, `RegistryCurrent` | `AdminConfig` | no reference dangles on disk; the process routes by what is on disk |
| `ReportsAgree` | `Usage` | dashboard, account page, users page and history agree |
| `CeilingHeld` | `Settings` | what is enabled is served, before and after a restart |
| `ListsTrue` | `PageLoads`, `RequestHistory` | a settled list shows the rows its controls name; the request log's menus name what it holds, and a failed request's detail shows its error |
| `ImagesKept`, `TurnsOwnTheirPlace` | `Playground`, `ImageTurns` | collection drops no image in use; answers and image operations write to their own place |
| `EditorsTrue` | `EndpointEditor`, `ModelEditor` | saving an untouched endpoint changes nothing; a test result is that of the draft beside it |

### Bounds

The key runs: two requests are enough for every race of this code: each step uses at
most one earlier reading of a row, so a race needs its holder and one other
writer; the operator, the clock and a view add the rest. Two keys give a hop, an
exhausted endpoint and a rotation that wraps; `keys_live`, `keys_held` and `keys_cooldown`
have one. One tick of cooldown separates "before the deadline" from "expired"; restarting
it is possible at both. `keys` hides counters and history from the fingerprint (`VIEW
HealthOnly`): no guard and none of its properties reads them. It uses symmetry of the two
requests, which the liveness run does not.

The routing runs: the third target returns to the endpoint of the first, one endpoint has
three keys so that a limit of three attempts is reached by distinct keys, and the cap of
notes (4, for 64) is reached within two targets.

The chat runs: a second attempt is what `OneVoice` and `LeaverCostsNothing` need to be
violable; the third follows a retry with a hop. Two chunks leave a response that
has begun, one that goes on, and one that has none. `MaxAttempts` and `MaxChunks` bound
only what the environment may choose; the theorems are for all their values.

`requests`:
* `Messages`: 2 attempts and 2 events, for the reasons of the chat runs. Each attempt has
  a task, so two of them can be about. `UnaryRequest`: 3 attempts; two credits and a third call.
* `Access`: 2 requests at a time, because the transaction excludes a third and the
  middleware's read is all that one could hold beside it; limits 1 and 2 with a window of
  2, so that an update can raise or lower a limit below what was taken.
* `AdminAccess`: 2 sessions, 1 visit, 2 logins in a window of 2, sessions of 1 tick: one is
  logged out or over while the other lives; a try ages out of the window before the other.
* `Database`: 3 callers, a tail with somebody behind the one who waits; 4 calls, so that one
  caller comes back after a failure.
* `Uptime`: 1 model, buckets 0 to 2, a map of 2 rows, 3 samples: a closed bucket being
  flushed, an open one that fills the map meanwhile, and an older one that retention
  (1) expires. `LostAcks` is FALSE; see the known violations.

`data`:
* Streams: 2 tool indexes, 3 chunks (begin, interleave, return), 3 blocks, 4 frames with 1
  whole line per read; conversations of 5 turns with up to 2 parallel calls: two rounds of
  calls and results.
* Stores: 2 models, days of 2 times and times to 2, so that there are two days and one has
  two times; 2 rows, the least that makes a rename merge. 3 billed rows over 2 prices: both
  keys and an anonymous row. 3 admin edits: reference, break, repair; restarts and renames
  come on top. 2 automatic models below a ceiling of 2. `RequestHistory`: 2 requests and one
  that an older version logged, 2 names, 2 days with one midnight between them, 2 changes by
  the operator or the timer. The older row is on SQLite only, whose table it migrates.
* Pages: 3 rows in pages of 1, 3 loads under 2 filters. 3 messages in 2 conversations, 1 of
  each kept by a trimmed write, 2 IndexedDB operations under way. 3 cells, batches of 2, 4
  operations: a batch, a retry, and one of each on top. 2 endpoints, 1 model with 2
  backends, 4 tests of drafts, 1 save.

`routing`, `routing_reuse`, the chat runs, `usage_billing`, `requests` and `data` switch
deadlock off: a request, a page or a bounded history ends.

### Fairness

`KeyState.FairSpec`: weak fairness of the clock, and of each request once
it has begun. Nothing is assumed of new requests, the operator or admin views.
`Routing.FairSpec`: weak fairness of the loop. `ChatRequest.FairSpec`: weak fairness of
the handler's own steps; nothing is assumed of the upstream, the client, the clock
or the store's failures, and `LeaverReleased` holds all the same. `Messages`: weak fairness
of the handler and of its tasks. In the code a statement's promise settles, the event loop
runs every continuation, and axios bounds the wait for a response (180 s). A stream that has
started has no idle timeout (`routes/chat.ts` 207): that it ends, or that its client leaves, is an
assumption about the environment.

`Access`: weak fairness of the end of a transaction, `Count(r)`, and strong fairness of
`ResetDaily`: the process may restart again and again, and a transaction may hold the row
at any one hour, but it runs for an hour at a time and the timer meets the row free sooner
or later. Only failing resets for ever would break that. `Database`: weak fairness of each caller's own statements. `Uptime` and the
`data` modules claim safety only.

### Findings

* **A disabled key comes back by itself** (`keys_held`). `recordFailure()` writes
  its status over `disabled`. A request in flight while the operator disables the
  key turns the disable into a timeout, which recovers.
* **A cooldown can be cut short** (`keys_cooldown`). The recovery UPDATE is
  unconditional, so a reader that saw the old, expired row reactivates a key
  which another request has just benched again.
* **One request, the same key again** (`routing_reuse`). The exclusion set is empty
  at the start of each target, also when an earlier target used the endpoint.
* **A failing log write leaves the client waiting** (`chat_crash`). The handler's
  `catch` awaits two log calls before it answers; what they throw rejects the
  handler, and the response is neither written nor ended.
* **An abort counts as a failure** (`chat_abort`). `logRequestEnd()` turns every request
  that did not succeed into a failed sample, aborted ones too; and while the body of an
  upstream error is read, nothing marks what the departure of the client breaks as an
  abort, so that it is logged as an upstream error.
* **Cached tokens are subtracted twice** (`usage_billing`). `logRequestEnd()` hands
  `calculateModelCost()` tokens that are already split, without the version that says so,
  and fresh input goes unbilled.

`BenchStands` says what remains true in spite of the first two: once nobody holds
an earlier reading of a benched row, the key is not called and not reactivated
before its deadline, except by the operator.

### Known violations without a run

These definitions state what a document, a comment or plain expectation says, and do not
hold of the code; no run checks them, and each names in its module what the property that
is checked leaves out.

| Definition | What the code does |
|---|---|
| `AnthropicStream!WholeMessage` | a stream that ends without a finish reason or `[DONE]` gets no `message_stop`; `[DONE]` alone gives one without `message_start`; text after the finish follows the stop (`messages.ts:1312`) |
| `StreamAdapters!CallsApartEverywhere` | Gemini numbers the calls of each chunk from 0 again |
| `RequestFormats!GeminiCallsKept`, `CallsNamedApart` | requests to Gemini drop the calls; two of its answers give their calls the same ids |
| `Uptime!RetriesStayCorrect` | with a lost acknowledgement (`LostAcks = TRUE`) a retried flush counts twice (`store.ts:85`) |
| `LogStore!RollupsExact` | a deletion of all rows of the first retained day leaves its rollups (`logManager.ts:743`) |
| `RequestHistory!DataKept` | on PostgreSQL a model's rename erases the `data` of its start rows, which retention then never finds: `jsonb_set()` is strict, and they lack `requested_model` (`logManager.ts:2139`; 465: "The JSON blob remains the source-of-record") |
| `AdminConfig!FormatApplied` | a changed format of an endpoint does not reach the models behind it before something else loads them (`admin.ts:1120`) |
| `AdminConfig!MaskNeverStored` | a masked token whose original is gone is stored as a secret (`AGENT.md:124`) |
| `Settings!CeilingHeldEverywhere` | a refused update stays in force |
| `Usage!UsersPageTrue` | costs are collected by mask, counts by identity (`admin.ts:1855`) |
| `PageLoads!ListsTrueEverywhere` | the error list and the status page show whichever answer comes last |
| `EndpointEditor!UntouchedKeptEverywhere` | a rotation never stored is shown, and saved, as sticky |
| `ModelEditor!FetchedTrue`, `BadgesTrue` | fetched names and test badges outlive what they belong to |
| `ClientStream!CutNoticed` | a stream that ends without `[DONE]` passes for a whole answer (`stream.ts:262`) |

## 4. Proofs

All proofs are for every value of the constants that satisfies the assumptions of
the modules: at least one key, a positive cooldown, at least one attempt, fewer
targets than notes (the code: at most 20 against 64); where a theorem has further ones, it
states them.

`KeyStateProofs`
* `TypeCorrect` is inductive as it stands; it also says what each phase holds.
* `DeadlineIffTimeoutHolds`: only six actions write a row (`OnlyWritersWrite`), and
  each writes a row that has the property.
* `StatsConservedHolds`: the same for the three writers of counters.
* `NoKeyTwiceHolds` needs `AttemptsLeft`: a request that still looks for a key or
  uses one has tried fewer keys than its attempts. Without it the bound on the
  tried keys is not inductive.
* `BenchStandsHolds`: `SecuredUntouched` gives one condition under which a step keeps
  a key secured; each action is shown to meet it, except `Disable` and `ResetKeys` (the
  operator) and `Tick`, where a deadline may pass.

`RoutingProofs`
* `TypeCorrect`, `ClientErrorsStopHolds`: inductive as they stand.
* `OutputFinalHolds` needs `OutputEnds`: with output out, the loop is at or after the
  attempt, and neither retry, hop nor fallback is open to it.
* `HopsDistinctHolds` needs `HopsKnown`: what was tried on this target is in the
  exclusion set from the first hop on.
* `ImplementsFailoverHolds` needs `CallsForward`: the last call lies at or before the
  loop's cursors. Each action then maps to a step of the contract or to a
  stutter.
* `UnavailableHonestHolds`: every target leaves at most one "unreached" note before
  it is called, so that with fewer targets than room the first attempt is always
  noted.

`ChatRequestProofs`, for any number of attempts and chunks
* `TypeCorrect`: flags, state and records in turn, since they are disturbed by different
  actions.
* `OneUpstreamHolds` needs `Path`, which says where in the handler each flag can be
  set: for instance that a seen departure excludes every await on the upstream,
  and that an ended response excludes another attempt.
* `LeaverCostsNothingHolds`: from `Path`, the only actions that could write a chunk or
  count an attempt are disabled or give up.
* `OneVoiceHolds` needs `Voice`: every frame is of the current attempt, and without
  output there is none, so a new attempt starts from an empty response.
* `OneEndRowHolds`, `SampleMatchesRowHolds` need `Rows`: unless an acknowledgement was
  lost, an end row exists only when the handler is after its end, and no step
  leads back from there (`AfterIsClosed`).
* `FramingHolds` needs `Shape`: the five forms a finished response has, and which outcome
  goes with each. `Framing` alone is not inductive: it does not tell that an open
  response consists of chunks.
* `EndTellsOutcomeHolds` joins `Shape` with `Logged`: without faults, an entry that the
  cleanup leaves alone is there until its one end row is written.
* `RowsAndReadersFitHolds`, `WaysOutTrueHolds`, `AnswerWholeHolds`, `AccountedOnceHolds` join
  these into the properties the runs check.

`UptimeProofs`, for any finite set of models, any bounds, without lost acknowledgements
* `CountsLikeLedgerHolds` is the refinement: the initial states map to the ledger's, and
  every step to a step of it or a stutter. The one difficult step is a failed flush:
  `Restored` shows that `restore()` either brings every drained row back or leaves the map at
  its cap, which is the ledger's reason for losing counts. It needs the cardinality of the
  map, hence `FiniteSetTheorems`.
* `HotBoundedHolds`, `AnswerTrueHolds`: the invariant adds that what is counted never exceeds what was
  recorded, and what a query has read against what has moved since (`Snapshot`).

`CollectionsProofs` holds what the three modules after it share. The library's induction theorems take
an operator as parameter, which no prover here can instantiate; `Naturally`, `Sequentially`,
`Downward` and `Finitely` say the same of a *set* of numbers, sequences or subsets, so that a proof by
induction first collects in a set what has the property. From them follow what `Among` (a filter) and
`Joined` do to a sequence with one more element, that a function defined by recursion along a sequence exists
(`Running`), and the sums: what one member changes (`SumChange`), that a sum may be
formed group by group (`SumGroups`) or in either of two orders (`SumSwap`). `Collections`
defines its own `ToSet`, `Last` and a few more: `SequencesExt`, which has them, brings along folds and
others that take an operator as parameter, and so do `SelectSeq` and the library's flattening.

`RequestsProofs`, about `Messages` for any number of attempts and events:
* The invariant joins `Path` (where the handler can be with the client gone or an upstream
  open), `Voice` (before the handler is done, every frame is an event or a stop of the
  current attempt) and `Ledger` (as long as no statement failed and the cleanup left it alone,
  the account of a request is open until its task or the handler's `catch` writes it).
  `AccountedOnce` alone is not inductive: what excludes two writers is `Path` and `Voice`
  together, which say that a task exists only after a stop of the attempt at hand.

About `UnaryRequest` for any number of attempts and about `Database` for any set of callers and
number of calls:
* `UnaryAnsweredAsLogged` needs `Story`: until it is logged a request has neither row nor
  sample and is active, unless the cleanup forgot it. `PaidOnceHolds` needs `Paid`: a credit
  without a fault has left the routing loop for good.
* `OneAtATimeHolds`: on SQLite a caller stands in the tail once, and only its head is inside
  a transaction.
* `StoreAllOrNothing` needs to know where every write is: a caller that waits or works has
  its writes in its own buffer and nowhere else (`Alone`), and a lone write is carried by at
  most one transaction of another (`Carried`). So a COMMIT or a ROLLBACK settles a
  transaction as a whole, whoever's writes it takes along.

Then it carries these and those above over to the specification `MCRequests`, whose steps are a
component's own or leave it alone: `AccountedOnce`, `LeaverCostsNothing`, `AnsweredAsLogged`,
`AllOrNothing`, `CountsLikeLedger` and `AnswerTrue` of the run `requests` hold for all values
of their constants. `UsageTrueHolds` is proved there directly: with the type of the row, `UsageTrue` is
inductive, since every statement that writes the row keeps its counter or starts it anew.
`ServedWithinLimitsHolds` is proved there too, for a window of positive length (`Span`), natural limits
and any requests. The limiter filters the ages of its slots when it is asked, and what was admitted is a history
of its own that forgets at once; the two agree because to filter, to age and to filter again is to
age and to filter (`Limited`, `Counting`). `Holding` is about the key: a request that is about to be counted holds the row, which still is
as it was checked. `Rowed` and `Informed` are about the panel: a cookie the browser holds has its row
until the session is revoked or over, and what a page has read of its session is so.

`StoresProofs` and `PagesProofs` are about the specification `MCData` itself. Each invariant is of
one component: a step of `MCNext` is a step of the component or a stutter, which the first
steps of each theorem say. The type invariants are part of the inductive ones.

`StoresProofs`
* `ReferencesWholeHolds`, `RegistryCurrentHolds` share `ConfigInv`, for any number of names and
  edits. Neither property is inductive. A rename on PostgreSQL that nothing has crossed may be taken back,
  so the text it would put back has to be whole too, and until then the registry is the one
  loaded from it (`DocsWhole`); and that an endpoint's proxy is on disk follows from its being in the
  manager's own copy, which is never ahead of the file (`ProxiesWhole`).
* `CeilingHeldHolds`, for any natural ceiling and any automatic models. `CeilingKept` adds that
  without a refused update memory and file are the same, and what is enabled fits them.
* `StatsFreshHolds`, for days of any positive length and any number of times. The invariant
  speaks of the SELECTs under way as well as of the cache: as long as nothing is owed, no management
  action is between its transactions and no write has overtaken them, each has read the rows as
  they are. The statistics are compared as one function of the rows (`StatsOf`); what
  it sums up never matters.
* `ListsTrueHolds` joins two invariants. `ListInv`: at most one load under way is of the newest
  generation (`OneUnderWay`); it is for the filter of the controls, and the page it asks for is there or was
  until rows were deleted (`FlightsPlaced`). `HistoryInv`: the key has each name at least until the day
  of a row that carries it (`NamesBorne`), also for a request that has its stamp and not yet its
  row (`Underway`); a request has at most one end row and one error row, written in that
  order and after its start row (`StartsFirst`, `EndsOnce`, `ErrorsTold`). It assumes that a
  page has room for a row, that there is a filter, and that the marks for "none" and "older" are not
  names of requests or models.
* `RollupsMatchHolds`, for any models, number of times and length of a day (`Clock`). `LogInv`: no
  day has more rows than are rolled up, and from the first day with rows on as many, unless the day is
  owed by a failed management action or a deletion is between its two transactions; on SQLite this is so
  model by model (`Sums`). Nothing is ahead of the clock (`Timely`). That the
  days cut the times into groups is arithmetic of quotients, which has lemmas of its own.
* `HistoryKeptHolds` joins the two kinds of retention: of details in `LogStore`, from `LogInv`, and of
  rows in `RequestHistory` (`RetentionHolds`), an action property.
* `ReportsAgreeHolds`, for any natural rates and prompts (`Priced`). `UsageInv`: a rollup row is, column by
  column, the sum of the billed requests of its group. Each page is then a sum over the same requests, formed
  in groups of its own, and the sums agree because they are of one function (`SumGroups`).
* `EditorsTrueHolds`, for any positive number of endpoints. `EditorShows`: an open editor that
  nobody touched, and no late answer changed, shows what the list held. `DraftTrue` is
  inductive with the types, which bound the generation of every test by that of the draft.

`PagesProofs`
* `CallsApartHolds`, without an assumption. `Indexing`: the blocks that were given an index are
  distinct, each fragment has the index of its own block, and an index is first used when all below it
  have been. `CallsEnding` relates what was told of the end to the events that were read.
* `StreamWholeHolds` joins the two ends of a stream, for any number of chunks, frames and lines and any
  indexes, as long as the mark for "no block" is no number (`BlockBounds`).
  `BlockInv` is about the blocks the messages route writes: each event fits the ones before it (`Nests`), and at
  most one block is open, the one whose index the consumer holds (`Tidy`). Until the message ends, the consumer
  holds one tool for each index that was received, with all its argument fragments in their order, and no
  two tools begin with the same fragment (`Gathers`, `Heads`); when it ends, the tools are written one
  after the other, and nothing else of a tool ever is (`Sends`, `WholeTools`).
  `ClientInv` is about the page that reads an answer: what its reader holds is what a reader that is
  given the whole lines one by one would hold, and what is in the buffer at most
  one line that is not whole yet (`Caught`). The code finds the think tags with a regular expression over all of the text so far
  (`Content`), the property reads them off piece by piece (`Visible`): `ContentVisible` says that both
  show the same of every text.
* `ImagesKeptHolds` and the first half of `TurnsOwnTheirPlaceHolds` share `TabInv`. A collection was asked for
  with the references of an earlier moment, and IndexedDB does what is queued in order:
  `CollectsKnow` says that each one in the queue knows every referenced payload that will be in the
  store by its turn. For that the image of the answer being streamed must not have been put before
  (`TurnPlaced`), and the stored workspace must point at no more than what is shown, as long as it can be
  written (`StoredShown`).
* The second half needs `GridInv`: a cell is loading exactly while one running operation has it
  still to fill, no two have the same one, and every other cell of theirs is ready; the count of
  operations is that of those running, of which at most one is a batch (`FiniteSetTheorems`).

Model-checked only:
* liveness (`KeyComesBack`, `RequestEnds`, `Answered`, `LeaverReleased`, `AnswerCloses`, `LockoutEnds`,
  `TurnComes`), which is out of the prover's reach, as is anything about `ENABLED`;
* `ToolTurnsKept`: no invariant of steps, but an identity of conversions, that a conversation which was
  converted to a format and read back is the same. It would be an induction over conversations for each
  of the formats, every one with its own conversion, on top of lemmas about nested sequences that
  nothing else here needs;
* that the instances meet the modules' assumptions, which TLC evaluates.

## 5. Plan

Done: the core (`KeyState`, `Routing`, `ChatRequest`), then the routes, admission, the database,
uptime, log store, usage, configuration, conversions and pages, each with its properties;
theorems of the request path, and of the stores and pages.

Left, in this order:
1. `ToolTurnsKept` as a theorem, one format at a time.
2. `Access` in front of `ChatRequest` and `Messages`: a client that leaves, or a
   restart, between admission and start record.
3. `TargetSelection`: rotation, round-robin counters and target sequences as functions
   against reference definitions.
4. The other filters of the request and error lists: by time, endpoint, status and key.
5. Key upload in bulk, and the migration of old key files.
6. An abstract request of which `ChatRequest`, `Messages` and `UnaryRequest` are implementations.

## 6. Not modelled

* Endpoint policies, tool validation, error diagnostics: pure functions of their arguments.
* Of the adapters: images, embeddings, parameters, and the wording of anything.
* The rest of the frontend: documentation, display and the host that serves it have no
  state beyond one load.
* The migration of old key files; most filters of the log queries; bulk key
  upload, headers and body parameters of endpoints; the rotation of backups; start-up order.
* The reuse of a deleted last endpoint's index (`admin.ts:1030`) by the next one created,
  with its key rows, statistics and logs: a hazard no property covers, since the key store and
  the configuration are separate modules.
* Two tabs of the playground, which overwrite each other's workspace.
* A transaction inside a transaction on PostgreSQL, which runs in the outer one.
* The context limit of a client key, which is checked after the limiter's slot is taken:
  `Access` lets any check fail there, and the slot stays taken.
