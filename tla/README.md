# axond in TLA+

A verification project for axond, an AI gateway (Rust, `src/crates/`). It models the
gateway from the boot of a replica to the usage record of a request: how a request is
admitted, who owns its capacity and its spend, how providers are tried and their
streams relayed, what the shared budget ledger, the usage journal and the catalogue do
under concurrent replicas, and what a terminating process still writes.

Paths are relative to `src/crates/gateway/src/` unless they start with `src/`; `core/`
is `src/crates/gateway-core/src/`. `PROJECT.json` maps every definition to its lines.

## 1. Inventory

| part | state | operations | hard because | correct when |
|---|---|---|---|---|
| Admission gate (`admission.rs`) | tenant table, global and stream semaphores, bounded queue and its depth | `admit`, drop of a permit | two atomics per queue slot, FIFO waiters, timeout and cancellation racing an assigned permit | each ceiling kept, every permit returned once, no waiter overtaken or forgotten |
| Background settlement (`settlement.rs`) | two semaphores, four counters, backlog, watch channel, a guard per task | `reserve`, `spawn`, `try_spawn`, `await_idle` | lock-free counters, deadlines that do not cancel, panics, runtime teardown | capacity and slots conserved, shutdown never told "settled" too early, no lost wake-up |
| Request accounting (`routes/mod.rs`, `routes/accounting.rs`, `core_accounting.rs`, `streaming.rs`) | the reserved slot, the armed hold, the relay's `settled` flag, the detached jobs | `serve`, `finish`, `record_usage_terminal`, `Accounting::settle`, three `Drop`s | the handler may be dropped at every await; ownership moves between handler, body and job | each admitted request settled exactly once, its record after its charge and equal to it |
| Budget ledger (`store/postgres.rs`, `store/sqlite.rs`, `budget/`) | namespace, incarnation, cadence, active period, one row per period | PUT and DELETE by operators, `admit_budget`, `charge_budget` | READ COMMITTED statements on pooled sessions, charges long after admission, delete and recreate | spend is exactly what was charged to that life of the namespace and never shrinks |
| Lifecycle (`shutdown.rs`, `main.rs`, `admission_middleware`) | phase, in-flight count, abandon flag, watch channel | `drain`, `serve_bounded`, `abandon`, `quiesce` | phase and count are separate atomics, waits race announcements | the process exits in bounded time, and a clean report means everything was flushed |
| Failover walk, circuits, key health (`routes/dispatch.rs`, `credentials.rs`, `core/circuit.rs`, `core/failover.rs`) | a circuit per target, health per credential, a cursor per pool | the walk of each route, `allow`, `record_*`, `lease` | results arrive in another order than the calls started; the caller may go while it probes | a target is out on its own evidence and comes back, attempts bounded and counted |
| Stream relay (`streaming.rs`) | phase, pending chunks, per-attempt and folded usage | `next_chunk`, `rotate`, `emit`, `Drop` | rotation in mid-stream, partial spend | one completion from one key, charged for what it produced |
| Wire (`core/stream.rs`, `core/openai.rs`, `core/anthropic.rs`, `core/tool_call.rs`, `src/crates/gateway-transport/`) | UTF-8 carry, SSE buffer, decoder state, the deadline of a call | `push`, `decode`, `finish`, `decode_response`, `build_messages`, `send_bounded` | chunks end anywhere, usage comes in parts, two translations of one message | events as sent, a success is whole, streamed equals buffered, bounds kept |
| Usage delivery and journal (`usage/`) | outbox with claims and a floor, index queue, sink buffer | `append`, `claim`, `ack`, `quarantine`, `relinquish`, worker passes, flush and drain | leases expire while a worker is slow, crash between write and verdict, floors over uncommitted positions | nothing lost unreported, per-caller order, one final verdict for each entry |
| Catalogue (`backends/`) | active and retained contents, validators, price index | refresh, retain, activate, confirm, adopt; normalisation and diff | several replicas and builds refresh one row, answers lost or late, two spellings of a price | what reads healthy is the source's, and every id is charged what the source states |
| Store sessions and management API (`store/`, `api.rs`, `routes/auth.rs`, `discovery.rs`) | permits and sessions, SQLite lanes, the tables, provider listings | checkout, checkin, discard; each handler; discovery rounds | cancellation between steps, several calls per answer, two processes with two `base_url`s | the pool neither leaks nor exceeds its bound; answers are true of some moment |
| Configuration and boot (`config.rs`, `state.rs`, `principals.rs`, `credentials.rs`, `main.rs`, schema code of `store/postgres.rs`) | file, environment, snapshot, budget tables | load, validate, build, migrate, seed; the gates of a request | defaults clamped by written values, two replicas migrating at once | what boots is consistent, the migration keeps spend, views agree with serving |

Interaction. A boot (`Boot`) validates the file, migrates the Store and resolves the
snapshot a request reads for its whole life. A request passes `admission_middleware`
(`Lifecycle`), the gates of the snapshot (`Snapshot`), a namespace lookup in the Store
(`Management`), the admission gate (`Admission`), reserves one unit of settlement
capacity (`Settlement`), asks the budget ledger (`BudgetLedger`), is dispatched
(`Dispatch`, `Transport`) and relayed (`StreamRelay`, `Wire`), and ends by handing a job
to the settlements (`RequestAccounting`). The job charges the ledger and then records the
usage (`UsageDelivery`), which the journal delivers (`UsageJournal`). At termination the
main task waits for the in-flight count, then for the settlements, then flushes the
sinks. The catalogue (`Catalogue`) runs beside all this and is read once per request.

## 2. Modules

| module | models | proofs |
|---|---|---|
| `Settlement` | `settlement.rs`, one action per atomic operation | `StoreProofs` |
| `BudgetLedger` | the ledger of one namespace on PostgreSQL | `BudgetLedgerProofs` |
| `RequestContract` | abstract: what is promised of the money of a request | |
| `RequestAccounting` | the owners of a request's hold and capacity; implements `RequestContract` | `RequestAccountingProofs` |
| `Admission` | `admission.rs` | `AdmissionProofs` |
| `Lifecycle` | `shutdown.rs`, the end of `main.rs`, `admission_middleware` | `ProcessProofs` |
| `Dispatch` | the walk of every route, circuits, key health and pool cursors | `StreamRelayProofs` |
| `StreamRelay` | the relay of an opened stream; extends `Dispatch` | `StreamRelayProofs` |
| `JournalContract` | abstract: what the journal promises of each entry | |
| `UsageJournal` | outbox, appends and delivery workers; implements `JournalContract` | `UsageDeliveryProofs` |
| `UsageDelivery` | usage index and buffered sink beside the journal; extends `UsageJournal` | `UsageDeliveryProofs` |
| `CatalogRefresh` | refreshers, the store they share and what each replica holds | `CatalogueProofs` |
| `CatalogData` | a document's reading, its content, price index and diff | `CatalogueProofs` |
| `Catalogue` | composes `CatalogRefresh` and `CatalogData` | `CatalogueProofs` |
| `Directory` | the Store's tables and what each statement does | `StoreProofs` |
| `Management` | handlers, session pool, SQLite lanes and discovery over `Directory` | `StoreProofs` |
| `Config`, `Snapshot` | the file with its defaults and rules; what it resolves to and a request's gates | `ProcessProofs` |
| `StoreSchema` | the migration of the budget tables | `ProcessProofs` |
| `Boot` | composes `Snapshot` and `StoreSchema` into the boot of replicas and served requests | `ProcessProofs` |
| `Sse`, `Codec`, `Translate` | bytes to events, the decoders, Anthropic in OpenAI's shape and back | |
| `Transport`, `Wire` | one upstream call; composes the four into an answer on its way | |
| `MC*` | the constants and scenarios of the runs | |

Definitions named `Bug...` are plausible mistakes in the code, each placed before
the definition it would replace. They are used by no specification; replacing the
definition by its `Bug` form must break the property `PROJECT.json` names.

`Sse` uses RECURSIVE operators, so `Wire` is only model-checked; no module with a theorem
reaches it.

### Settlement

`pc` is the place of a settlement in the code, from its reservation to the drop of
its guard; every update of an atomic, a semaphore or the locked backlog is a step
of its own, so the cut-over of `start_executing` (queued down, then running up) and
the four steps of `Drop for Guard` interleave with everything else. tokio's
semaphore is external: FIFO, a free permit belongs to the longest waiter
(`Assigned`), and `timeout` polls the acquire before its timer. A missed execution
deadline reports and keeps the slot; the runtime may be dropped once `await_idle`
has returned, which aborts what is left. A limit of zero means "off", as in the
configuration.

### BudgetLedger

One namespace, seen from the database. Operators' transactions hold the
namespace's advisory lock and are one action each; an admission is one action per
statement. A `Reservation` carries the period and the incarnation it read; a charge
is an UPDATE whose WHERE clause is `Matches`. `landed` is a history variable. The
Store may fail to answer at any statement, and a charge may be rejected or never
run. The SQLite Store runs each operation on one lane; its behaviours are among
those modelled.

### RequestAccounting and RequestContract

Each action is a stretch of a handler between two awaits. `slot` is the reserved
capacity (`SettlementSlot`), `hold` says who owns the armed `CoreBudgetHold`
(handler or job), `settled` is the relay's flag, `job` the one settlement a request
may spawn and the release that a dropped, unstarted future may still try to spawn.
`DropHandler` and `DropBody` happen at any await: the caller hung up, or shutdown
abandoned the request. Early returns of the streamed walk with an armed hold
(continuation affinity, `routes/dispatch.rs` 374-411) have the effect of
`DropHandler`. `Drop` of an armed `BufferedResponseAccounting`
(`routes/accounting.rs` 146-165) is unreachable: there is no await between its
construction and `finish`, which disarms it first. A panic of a job is modelled
after the hold was disarmed, where it can lose the record. Queueing here is what
`Settlement` promises: capacity, execution slots, a missed queue wait.

`RequestContract` has two variables, the settle calls and the records, and two
actions; `ImplementsContract` is its specification under the identity mapping of
these variables.

### Admission

`holds` is the set of fields of the permit that are `Some`; every ceiling is taken
and dropped by its own action, in the order of `admit` and of `Drop for
AdmissionPermit`. The queue slot and the queue depth are separate steps. A
connection sends one request after another, for any tenant and of any kind, so
sequences have no bound. `Ok(Err(_))` of the acquire is left out: the semaphore is
never closed.

### Lifecycle

`news` holds the watch receivers with a version they have not seen. `wait_for` is
three steps (subscribe, check, sleep) for the main task and for every handler. A
request loads the phase and counts itself in as two steps, as `admit` does. `late`
is a history variable: requests that had loaded an open phase and not yet counted
themselves in when `quiesce` returned. `await_idle` is one action, its detail is
module `Settlement`. An error of the server itself (`Outcome::Failed`) is left out:
axum's serve does not return one.

### Dispatch and StreamRelay

A call is an await: other walks run while it is out, its caller may go, and its result is
applied to whatever circuits and keys have become. Cooldowns and the walk's overall budget
are environment actions. `record` is the usage record, `truth`, `faults` and `strikes` are
history, and so is what the keys of a stream have produced (`made`), which is noted where it
arrives and not derived from what is charged. A stream that opens leaves the walk with the leases it has not used; the relay
decodes and re-emits on the chat route and passes bytes through on the others. Text is
abstracted to whether there was any and usage to whether any was reported; their values are
`Wire`'s. The total-duration and byte bounds and the terminal grace of the relay are here,
and not in `Wire`.

### UsageJournal, JournalContract and UsageDelivery

A database transaction is one action when it commits, except that an append takes its
position before it commits, and a claim selects on a snapshot older than its commit. A pass
may be dropped at any await, a lease expires when the environment says so, a write at the
destination may be refused. `FOR UPDATE SKIP LOCKED` passes over rows another claim or an append
has locked, and goes on to the next; a row that was free when it was come to is not passed over,
so any subset of the locked ones may be. A claim that fails before its commit was not made. What
did not land is ruled on event by event, each a transaction of its own that may fail. `UsageDelivery` adds the usage index (a task, or a thread on
SQLite) and the buffered sink with its flush. Timing assumed: `FLOOR_SETTLE_MARGIN` outlasts
an append; a lease granted after a claim's `now` outlives that claim; a consumer's first
claim does not overlap the deletion of a reclaiming append; a destination write reported as
failed did not land. `CapacityGate` is abstracted to the count it guards.

The refinement maps the outbox rows to `kept`, delivery rows to verdicts, and the loss table
to `lost`.

### CatalogRefresh, CatalogData and Catalogue

A document is its own ETag and date; a build normalises it to content, which the store is
keyed by. A call of the store may land and not be heard of, or land late; a process may end
anywhere and the next be of another build. Two builds may file documents differently;
`BuildsAgree` says of a deployment that documents filed alike by whichever builds are alike to
every build. Assumed: an ETag that is sent decides; activations
are ordered by the row's lock; per-build normalisation is a function. `CatalogData` reads a
document: `parse_decimal` with its binary-noise rounding, `price` with tiers and the legacy
key, `canonical_model_id`, the filed content, `price_index`, and `between`. The two share no
state; a configuration without replicas reads documents alone, one import after another.

### Directory and Management

`Directory` gives each statement of the Store trait as a function of the tables; `Management`
runs handlers as the sequence of calls they make, over a pool of sessions or the SQLite
lanes. A caller may go at every await; the statement it had sent may land at once, later or
never. `always` and `ever` are history: the namespaces present throughout, or at some moment
of, a request. Discovery runs one loop for each replica, with a replacement process that may
or may not overlap the old one. `missed` is history: the mark of a first round did not reach a
listing of another `base_url`. `resolve_namespace` is one step of the tables here; its statements
and what comes between them are `BudgetLedger`'s. `Ordered` is the statement's ORDER BY: ids are
numbers, of which only the order matters.

### Config, Snapshot, StoreSchema and Boot

A configuration is a record with a field for each section. A name that may hold slashes is the
sequence of its parts, so that `{provider}/{model}` is a concatenation and `split_once` a cut
after the first part; a glob is the set of names it permits. `Load` fills in defaults and clamps, `validate` is the conjunction of the code's
rules. `StoreSchema` has one action for each statement of the migration, with PostgreSQL's
locks on the tables it reads and drops. `Boot` runs replicas through the sequence of
`main.rs` and requests through the gates of `routes/mod.rs`. Assumed: no replica of the draft
build is still writing, seeding is one step, and the environment makes management edits and
imports. A pool is the set of the file's positions it takes its credentials from; the one a
route with affinity is pinned to is the first. `LedgersFound` says what tables a deployment may
start from: rows under a name are of the build that used it, a hold is of a budget with a row,
and a draft ledger was made by one `batch_execute`, so that one with a
table missing has spend in it. `reject_env_override_collision` is used by tests only and left out. One key is all a
valid file declares.

### Sse, Codec, Translate, Transport and Wire

A byte is a record with its kind; the text of a line is one byte, so that every cut of a
chunk that matters (inside a line ending, a delimiter, a character) can be made. Decoders are
functions of their state and an event; a usage report is a function on the counters it
carries. The input of a tool call is its JSON text in pieces, and `Serialized` what
`serde_json::to_string` makes of it: `{}` of an empty one. An absent and an empty signature are
one value. `Transport` passes time in ticks and lets a due timer go off first. A script of
`Wire` is what a provider writes: whole, or with one event lost, repeated or swapped, cut off
anywhere, in any pieces.

## 3. Runs

| run | instance | states | shows |
|---|---|---|---|
| `settlement` | 3 settlements, capacity 2, one slot, both timeouts on; symmetric | 1.2 M | `Conserved`, `AwaitsTheLast`, `ReportsExact` |
| `ledger` | 2 requests, 2 months, 2 incarnations; symmetric | 1.0 M | `SpentIsOwnCharges`, `HeldRowExists`, `SpendOnlyGrows` |
| `accounting` | 3 requests, capacity 2, one slot, journal on, Refuse; symmetric | 1.2 M | `CapacityOwned`, `AccountedOnce`, `ImplementsContract` |
| `accounting_liveness` | 2 requests, no journal, Serve | 18 k | `EveryAdmissionCloses` |
| `admission` | 3 connections, 2 tenants, 5 configurations | 0.3 M | `QueueConserved`, `CeilingsKept`, `QueuedIsServed` |
| `lifecycle` | 3 requests | 1.3 M | `NothingLeftBehind`, `TerminationBounded` |
| `stream_relay` | 2 connections, 2 targets, 2 keys, 5 configurations | 0.2 M | `OutOnOwnEvidence`, `AttemptsExact`, `OneCompletion`, `RecoveredIsServed` |
| `usage_delivery` | 3 events, 2 workers, 2 consumers, 10 setups | 0.17 M | `LossIsReported`, `InOrder`, `ImplementsJournalContract`, `EveryEventResolved` |
| `catalogue` | 2 replicas, 3 documents, 7 deployments; 1 581 documents read | 0.15 M | `ConfirmedIsCurrent`, `EventuallyCurrent`, `SchedulesKept`, `FiledAndPriced`, `DiffNamesEveryChange` |
| `store` | 3 callers, 3 namespaces, pool of 2 or 1, 18 configurations | 0.09 M | `SessionsConserved`, `AnswersHonest`, `ListingLands` |
| `boot` | 2 replicas, 2 requests, 1 478 starting points | 0.16 M | `BootedIsConsistent`, `ViewsAgree`, `ServedAsAdmitted`, `MigrationKeepsSpend` |
| `wire` | 768 scenarios | 0.18 M | `DecodedAsSent`, `SuccessIsWhole`, `StreamedAsBuffered`, `TurnsRoundTrip`, `CallBounded` |

A property named for a whole part is the conjunction of the ones it is made of, and the
module's type invariant where it has one.

What the properties of the newer runs say:

* `stream_relay`. A circuit counts exactly its target's own failures since it last served,
  and a key is parked on its own rate limits only (`OutOnOwnEvidence`). The record of a walk
  counts the targets called, on every path that ends it (`AttemptsExact`). What the caller
  receives comes from one key, which the record names; text that any key produced is charged
  whatever came after it, and a stream that produced and reported nothing is not
  (`OneCompletion`). A target that is well is closed again, also when its
  probe was lost with its caller (`RecoveredIsServed`).
* `usage_delivery`. What is not delivered was counted (`LossIsReported`); a caller's events
  reach a destination in the order of their appends (`InOrder`); acknowledgement follows the
  write, a verdict is final, an entry is forgotten only when all acknowledged it or it is
  counted as lost (`ImplementsJournalContract`); every deliverable event gets its verdict
  (`EveryEventResolved`).
* `catalogue`. A 304 never confirms content that moved, where the builds of the deployment agree
  on which documents are alike (`ConfirmedIsCurrent`), and replicas end on the source's content (`EventuallyCurrent`). Every context size is charged what the
  document states for it (`SchedulesKept`), every callable id is filed under one model and
  priced from its own provider (`FiledAndPriced`), and the diff of two contents is
  empty for equal ones only and names every id whose price moved (`DiffNamesEveryChange`): by a
  price change, or, when the id is filed under another model than before, as an offering that
  is new or has taken over the id.
* `store`. Permits, sessions and lanes add up at every cancellation (`SessionsConserved`); an
  answer is true of some moment of its request (`AnswersHonest`); a listing comes to be of the
  configured `base_url`, unless the first round failed to mark the one before it
  (`ListingLands`, see section 4).
* `boot`. Ceilings, batches, keys and names fit each other after loading
  (`BootedIsConsistent`); what the read surfaces show is what a request would get, and a name
  that is listed leads back to its provider where that one's id is a single part
  (`ViewsAgree`, see section 4); credentials, rates and affinity are those of admission
  (`ServedAsAdmitted`); migration drops no spend (`MigrationKeepsSpend`, with the exception of
  section 4).
* `wire`. Whatever the cuts, the codec sees the events, with their names, in order and at once
  (`DecodedAsSent`); a successful end carried a whole message and is charged the latest of each
  counter, or the measured part (`SuccessIsWhole`); chunks assemble to the buffered answer, but
  for two differences it names (`StreamedAsBuffered`); an answer sent back becomes a request the
  provider takes (`TurnsRoundTrip`, over 600 conversations); a call keeps the deadline, and a phase that is
  blamed had the whole of its own bound (`CallBounded`).

Bounds. Every race in the in-process components is between two holders of a resource and a
third that wants it, so three actors over a capacity of two, and one execution slot, reach
each of them. Ledger races are between one request's statements, another's, and an operator;
two months and two incarnations give an old and a new of each. `MaxAmount` is small so that
`spent` saturates. The configurations of a run switch each limit and fault on in one of them;
faults of one subsystem do not interact with those of another across configurations. Three
positions of the outbox hold an event, its predecessor on the same key and one on another. An
event that is refused is condemned at once in one deployment, where verdicts also fail, and on its
second attempt in another; two replicas contend for two keys in a third, so that a claim passes
over a locked head to the next.
Catalogue rates have two places, one part in fifty is noise, the largest rate is 999 and the
legacy size 4, so that each rounding and overflow boundary is inside the sample; an import
depends on the content it finds only, so sequences of two out of some seventy documents
suffice. One section of the file varies at a time: no rule of `validate` looks at two
sections, except those the scenarios vary together. In `wire`, `MaxBuffer` and the bounds of
the transport are small enough to be reached.

Deadlock is checked except in `usage_delivery`, `store`, `boot`, `wire` and `ledger`, where
requests, events, scenarios or bounds run out and the system then rests.

Fairness. Accounting: providers answer or time out (transport deadlines), the Store answers,
hyper drops bodies it has sent, and a queued job is started if slots keep coming free (the
semaphore is FIFO, hence strong fairness of `StartJob`). Admission: tasks run and responses
end; nothing is assumed of the queue timeout, so `QueuedIsServed` rests on permits being
passed on. Lifecycle: the timers of the drain and of the waits fire; nothing is assumed of
requests, settlements or of a signal ever coming. Stream relay: walks and relays that can
step do, cooldowns elapse, callers come, and a well target asked again and again answers well
(strong fairness of entering the first target and of its success). Usage: workers that run
make passes, leases expire, and a destination retried for ever accepts at some time (strong
fairness of `Write(w, TRUE)`). Catalogue: loops step; the source and the store, asked again
and again, answer at some time (strong fairness); the loop retries for ever, which is what
justifies it. Store: the same for discovery's fetch and its compare-and-set; nothing is assumed of
the one mark of a first round, which is not retried. The runs
`boot` and `wire` state no liveness.

## 4. Where code and words differ

Met while modelling; the properties above hold with these as they are.

* `activate` (`backends/catalog_store/postgres.rs` 485) never rewrites the bytes of content it
  has, and always moves the active row's validators. When the source replaces a document by one
  the running build files alike, the row has the bytes of the older and the ETag of the newer.
  A build that tells them apart restores the older bytes without drift, is answered 304, and
  reads as confirmed. `record_unchanged` calls such an answer "evidence the held content is
  current as of then" (`backends/catalog.rs` 2470-2472). The proof of `ConfirmedIsCurrent` met
  this: without `BuildsAgree` the property fails of two replicas and two documents.

* `admit_monthly` (`store/postgres.rs` 1932) creates the month's row with the limit read by
  the first statement, before the lock. ADR 0065 says every later period is created with the
  new limit; an admission that read the old one before a PUT creates the row with it.
* A request admitted but not dispatched (`routes/mod.rs` 988) is settled at zero and leaves no
  record; the comment at line 941 says it will produce exactly one usage event.
* `Lifecycle::admit` loads the phase and increments the count separately: a thread held
  between the two past the deadline is admitted after `quiesce` has returned, and its
  settlement may miss the flush. `NothingLeftBehind` excepts these (`late`).
* `drop_empty_store_budget` (`store/postgres.rs` 844) says it never drops a new table that has
  spend. A boot that read the final tables as absent before another boot committed its rename
  goes on to drop the renamed ones. `MigrationKeepsSpend` excepts exactly this (`Overtaken`).
  Its proof needs `LedgersFound`: were an empty draft renamed with a table missing, a boot that
  looks before the missing one is created finds the final tables incomplete and empty, and may
  drop them after the other replica has come to serve from them.
* ADR 0008 (54-56) has a tripped target skipped until a cooldown elapses; a success that
  started before its circuit opened closes it at once. A probe still out when the next
  cooldown ends is joined by a second one, so the "single half-open probe" of
  `docs/configuration.md` 349 is one for each cooldown.
* Two passes of a consumer may have events of one key in flight when a lease runs out under a
  slow write (`usage/journal.rs` 659-662, ADR 0049); order at the destination is kept, single
  flight is not. An outage can condemn an event when passes are dropped or the lease is
  shorter than the write (`usage/journal/worker.rs` 20-24). `drop_oldest` racing a quarantine can
  delete quarantined evidence. `FlushOutcome::TimedOut` counts the records in the channel, not
  the batch in hand (`usage/mod.rs` 244-248). A bad event alone in its batch stalls its key,
  as documented; `EveryEventResolved` excepts such keys.
* `retain` (`catalog_refresh.rs` 431-435) says store and process cannot diverge; they do while
  an activation committed unheard and the upstream went back, until the next refresh. ON
  CONFLICT DO NOTHING never rewrites a damaged payload.
* `price` (`models_dev.rs` 1113-1146): of two tiers at one size above 200k, the first charging
  the legacy rates, the first is moved to 200k and the duplicate is not refused.
  `SchedulesKept` excepts costs that name a size twice. A zero with an absurd exponent is
  refused.
* `GET /namespaces/{ns}/budget` racing a delete may answer 400 (`api.rs` 557-561), and
  PostgreSQL's `read_budget_policy` may tear, being several READ COMMITTED statements. A
  client cancelled during checkin is not counted in `discarded`. Discovery's compare-and-set
  is refused in silence when processes of two `base_url`s overlap (`discovery.rs` 34-36), which
  is why `ListingLands` asks that they do not.
* "First completed round may stale+replace a foreign cache row so a `base_url` change lands"
  (`discovery.rs` 34-35). It lands only if the one `stale_if_source_changed` of that round
  succeeds. Its failure is logged and the round goes on (257-266); `put_provider_models` then
  leaves the fresh row of the other source and answers Ok (`store/postgres.rs` 1666-1667); the
  round ends as `Done` and clears `first_round` (59); every later one finds a fresh foreign row
  and skips it (142-144). The old listing stays until the process is restarted, and
  `GET /v1/models` omits the provider. `ListingLands` excepts this (`missed`), and fails without
  the exception.
* Provider ids are not validated (`config.rs` 1818-1905). One with a slash boots, is listed as
  `{id}/{model}` (`routes/mod.rs` 458), and a request for that name is cut at the first slash
  (1082-1095): unknown, or routed to the provider whose id is the first part. An empty id is
  listed and refused likewise. `ViewsAgree` is about ids of one part, and fails of these.
* `relayed_text_len` says that an unmeasurable stream "is charged its prompt only"
  (`streaming.rs` 917-921). A stream of which nothing was measured and no usage reported is
  charged nothing (`chargeable_usage`), as `OneCompletion` has it.
* `FlushOutcome::Flushed` says that everything the sink was holding reached the destination
  (`usage/mod.rs` 239, 260). A batch that is being written when the flush is asked for may be
  refused, is counted as dropped, and the flush of the rest answers Flushed (`usage/batch.rs`
  176, 201). `LossIsReported` says of a Flushed that each record was sent or counted.
* The proof of `AnswersHonest` met two more sources of a 400 for a request the handler finds
  well formed, both of the Store: a limit above what it can hold, and a fixed policy without a
  period for a namespace that has no active one. The property names them, and the run has both.
* Duplicate namespace or provider ids are not refused (the first wins). A defaulted usage-index
  batch (256) above a written capacity is refused rather than clamped.
* Anthropic's translation, streamed against buffered: tool blocks with another stop reason end
  as `tool_calls` and as `stop`; thinking signed after the first tool call is attached only
  when buffered; an empty signature is kept only when buffered. A tool call without input has the
  arguments `"{}"` when buffered (`core/anthropic.rs` 148) and `""` when the provider sends no
  piece of JSON for it (300-313 do not look at `input`). Every `message_delta` is a chunk with a
  finish reason (388-395), so one that does not state a stop yet adds a chunk, which may say
  `stop` before the final one says otherwise; `StreamedAsBuffered` states both. `build_messages`
  joins consecutive assistant turns, and signed thinking of the later one is then not first in
  its turn, which `TurnsRoundTrip` excepts. `decode_utf8` replaces both an invalid byte and a cut
  character of one chunk. `buffered_body` reports an overall timeout at the instant the deadline is
  spent although a request was sent. A native stream that ends at an event boundary without
  `message_stop` is a success, as documented.

## 5. Proofs

TLAPS proves, for every value of the constants that satisfies the named assumptions:

* `StoreProofs`, settlements: `TypeCorrect`, `ConservationTheorem` (from `CapacityTheorem`,
  `SlotsTheorem`, `CountersTheorem`), `AwaitTheorem` (from `QuietReportTheorem` and
  `NoLostWakeupTheorem`) and `ReportsTheorem`. The inductive invariant counts settlements for
  each place: each counter and each semaphore is tied to the cardinality of the set of
  settlements between its two operations, and a lemma says what moving one settlement does to
  such a set. `QuietReport` needs in addition that what was tracked at the subscription only
  shrinks, and `NoLostWakeup` that the version seen never passes the version published.
  `ReportsExact` needs that every key drawn is below the counter and nobody else's, listed or not
  yet, and that the flag of a
  guard says which of the two places that may report a failure has done so.
* `StoreProofs`, the management API: `SessionsAreConserved` and `AnswersAreHonest`, both from
  `StoreInvariant`. For the pool (`PoolInv`), permits, live statements, sessions being opened
  and connections are counted over the callers at each place, and a step moves one caller
  between places; `counted` is never less than the sessions there are. For the SQLite lanes (`LanesInv`), a lane's slot is the caller that is dispatched to it or one
  that has gone, and a closure outlives its caller only there. `AnswersHonest` needs what a
  caller knows at every point of its request (`CallersInv`): that the call it waits for is one
  its handler makes, what its last reply says of the namespaces present throughout (`always`)
  and at some moment (`ever`), and for a paged list that the ids seen are ascending, at most the
  cursor, and complete up to it. A statement is related to the tables once, by a lemma for each
  operation of `Directory`; that a later step of another caller keeps the relation is shown
  once for all of them, because `always` only shrinks and `ever` only grows. Seeding adds that
  what is done of the file is present, since nothing deletes a namespace of the file.
  `FindersInv` types the loops of discovery.
* `BudgetLedgerProofs`: `HeldRowTheorem`, `SpendTheorem` and `OwnChargesTheorem`.
  `HeldRowExists` is not inductive: a hold of a future incarnation must be excluded, so the
  invariant says that holds and snapshots never carry an incarnation above the live one, and
  that a deleted namespace has no rows. `SpentIsOwnCharges` builds on it (a row that is created
  has no owner yet, because an owner would have its row) and on lemmas about the sum over a
  finite set: it does not depend on the order of the summands, and one more adds its value.
* `RequestAccountingProofs`: `AccountingTypeCorrect`, `ContractTheorem`, `CapacityTheorem` and
  `AccountedTheorem`. The invariant `Books` states, per request, what its books may hold at
  each point: an open request is unspent, the handler's hold is armed only while it is open, a
  job charges before it records, and a release job exists only after its settlement was dropped
  unstarted. Each action then maps to a step of the contract or a stutter. `CapacityInv` adds
  the sets of reserved slots and of live jobs, which a step changes in one of six ways;
  `PaidInv` ties what a request was charged to the stage of its jobs and what its caller was
  told to both.
* `AdmissionProofs`: `QueueTheorem` and `CeilingsTheorem`. Each counter is the cardinality of
  its holders. The semaphore's queue needs that a request waits exactly if it is in line or has
  a permit assigned, not both and in line once; and where a request may be when its permit
  holds a ceiling.
* `ProcessProofs`, the end of a process: `LeftBehindTheorem`. `CleanFlush` needs that the in-flight count is the
  number of requests counted in, that the gate is closed before the main task stops waiting
  for it, that after a clean `quiesce` nobody is in flight or on the way in but those that had
  loaded an open phase (`late`), and that a settlement is spawned by a request in flight.
* `ProcessProofs`, the start of one: `SpendSurvivesMigration`, `RequestsServedAsAdmitted`,
  `ReadSurfacesAgree` and `ServingIsConsistent`, for any number of replicas and requests.
  `MigrationKeepsSpend` is far from inductive: a boot acts on what it read several statements
  ago. The invariant (`MigrationInv`) says which locks each transaction holds (`Locked`) and,
  for each boot, what its reading still tells it. Until the draft is renamed (`Before`) what
  a boot has read is still so, because past the decision, to create and to serve, a boot comes
  only where the final tables are whole and have rows or the draft has none. After it (`Behind`) no boot
  that may still drop a table believes it empty, unless it was overtaken. Rows a sweep may take
  do not count as evidence for either (`Solid`). `Reached` carries what a boot has validated and
  resolved, `Carried` what a request has copied. The other three theorems then follow from
  lemmas on the operators of `Config` and `Snapshot`: what `Load` clamps, that a pool resolved is
  the first declared one of the namespace's chain, that names in a valid file are unique and
  defined, and that the gates refuse no name listed for an id of one part: what precedes its first
  slash is the id again, and both of them ask the blocklist about the same two names.
* `StreamRelayProofs`: `EvidenceTheorem`, `AttemptsTheorem` and `CompletionTheorem`, over the
  walks, the relays and the circuits and keys they share. A circuit that is closed counts
  fewer faults than the threshold, and exactly its target's; the attempts of a walk are the
  positions it called, all below the one it is at, plus the one that is begun; nothing is on
  the wire while a stream may still move to another key; and text that a key produced stays in what
  is charged, through `fold_attempt` at every rotation. A step is shown to be one move of the
  shared state and one of a single request.
* `UsageDeliveryProofs`: `JournalContractTheorem`, `OrderTheorem` and `LossTheorem`. The
  invariant of the outbox says what a transaction in progress may delete (rows that are there,
  acknowledged by every registered consumer unless it counts them as lost, and no other
  transaction's), that no floor passes a row that is open or unresolved, that what is
  acknowledged was written, and, for a pass, that each row it selected or claimed is behind
  nothing of its ordering key that its destination still has to get. That is what makes
  `InOrder` inductive: the fact is established for the heads a claim finds, through all passes
  of its loop, and survives every step of the other workers because written, condemned and
  deleted rows stay so. Every action is then a turnover, a service, a judgement or a stutter of
  the contract. For the index queue, every record that was taken is held, written or refused,
  once, until the worker is told to stop; for the buffer, what was taken before the flush is
  written, held or queued until the flush is answered.
* `CatalogueProofs`: `ConfirmedCatalogueIsCurrent`, `ContentIsFiledAndPriced`,
  `RefreshNamesEveryChange` and `ReadPricesAreKept`. The refreshers' invariant says that every
  set of validators held, stored, sent or on its way is of a document that some build filed as
  the content they stand beside, and that the bytes of a content are of a document that was filed
  so; where builds agree, a 304 for those validators is then about the content. The invariant of the
  imports says that the content held is what some document of the wire format was read as, and
  that a canonical id is resolved from the neutral records alone; the price index is then a
  function of the provider's own cost. For the diff, pairing is symmetric and unique, so each
  offering is explained by one change, and equal keys mean equal changes. For the prices, what
  `Grown` and `Shrunk` do to a number is bounded by the tolerance, and the charge at a context
  size is the greatest threshold below it, which the move of the legacy tier to the lower
  threshold leaves alone.

Induction over data is by least counterexample: the library's induction theorems take an
operator and cannot be used, its theorems on minimal elements of well-founded orders can
(`LeastNatural`, `LeastSubset`). That gives the pool's ladder of weights, its
rotation, the sums of the ledger, the passes of a claim and what a flush takes along, for every input.

Assumptions on constants are the bounds a valid configuration has (limits and thresholds that
are not zero, batches that hold a record, a chain that is not empty) and that the markers `None`, `NoTarget` and `"none"`
are none of the values they stand in for. `SamplesTyped` states the types of the wire format
(digits and sizes are naturals, at most one size per tier, finitely many records).
`FilesAssumption` says that a file is what serde accepts, `DefaultsAssumption` that the defaults
are naturals in the order the constants of `config.rs` have, `ScenariosAssumption` that the tables
are as `LedgersFound` says and that discovery's order lists the namespaces of the file.
`DirectoryAssumption` and `ManagementAssumption` say that requests and tables have their types,
that callers and ids are finite in number, and that a run starts from tables in which an absent
namespace has no rows, which is what the theorem shows of every later state.

Only model-checked: the liveness properties (fairness and ENABLED are out of the prover's
reach) and everything of `Wire`, whose operators are recursive.

## 6. Not modelled

* Telemetry, dashboards and logs: they observe the state of the other modules and change none.
* `backoff.rs` and all durations: a timer may fire whenever the code waits on it, except in
  `Transport`, where bounds are compared.
* `desired_state/`: canonical encodings no handler persists.
* SQL text, TOML and JSON syntax, OTLP encoding, TLS, wording of errors, and which of several
  faults of a document or a file is the one reported.
* Steps that are merged, because what runs in between is seen by no property: in `Dispatch`, a
  circuit's `allow` with the fetch of the pool's cursor, and the update of a key's health with
  that of its target's circuit; in `StoreSchema`, the three reads of `ledger_has_rows`, whose
  disjunction is that of a moment before or after a commit between them; in `Management`, the
  SQLite connection and the lane's slot, which are given back one after the other
  (`store/sqlite.rs` 289-301), the check of a closed client in `checkin` with that in
  `keep_session`, and the statements of `resolve_namespace`, which `BudgetLedger` interleaves.
* Branches that are not taken: a target whose provider is not in the snapshot
  (`routes/dispatch.rs` 93, 374; both come from one snapshot), a second terminal event in `emit`
  (`streaming.rs` 859-863; a stream that has one is not decoded on), `Conflict` of an append (one
  request has one record), `Round::Restart` and the back-off of an empty snapshot in discovery
  (`discovery.rs` 40-58; nothing publishes a second snapshot).
* Of a boot's migrations, the tables that are only created, and the column
  `ensure_reservation_incarnation` adds. Of a process of discovery that ends, the statement it may
  have at the server still.
* Library operations no route reaches (`push_strict` and `CatalogDiff` are modelled all the
  same, because their promises are stated).
* The TypeScript port (`src/ts`), a second implementation of the contract.

## 7. Plan

Every safety property of the runs but those of `Wire` is proved. The operators of `Wire` would
have to become recursive functions before its properties can be stated to the prover. Of the
hazards listed, the month's row that is created with a limit read before the lock has no
property: the code does what section 4 says, and nothing in it promises otherwise but ADR 0065.
