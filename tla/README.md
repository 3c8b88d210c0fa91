# Verification of dbapi

TLA+ models of dbapi (a multi-tenant JSON record store over SQLite with an audit
trail, an outbox and webhook delivery), the TLC runs that check them on small
instances, and TLAPS proofs of what matters most for every instance. Paths below
are relative to the repository; `core/` and `adapters/` are in `internal/`.

Check a run with `tlc -config <cfg> <module>`, where `PROJECT.json` lists the pairs,
and the proofs with `tlapm <module>` for each of `RecordEventStoreProofs`,
`EventPipelineProofs`, `RecordEndpointsProofs`, `KVStoreProofs`, `BulkIdempotencyProofs`,
`SchemaServiceProofs`, `AuditReplayProofs` and `RestartProofs`.

## 1. The system

A single process serves HTTP, owns one SQLite file and runs one background
goroutine.

```
 main ─► NewServer ─► pools, migrations, dispatcher, bootstrap key       (lifecycle)
 HTTP handlers ──► RecordService ──► SchemaService ── cache ── collection_schemas
      │                 └──────────► RecordEventStore ─┐
      │                                                ▼ one write connection
      ├─ KV API, idempotency ─► KVService ─────────► kv_entries, audit_events, outbox_events
      └─ audit query ─► AuditService ──────────────────┘                 │
                        ReplayTenantEvents ─► EventCodec                 ▼ poll
                                                     OutboxDispatcher ─► Publisher ─► consumer
```

| Component | State it keeps | Operations | What makes it correct |
|---|---|---|---|
| Record event store (`adapters/sqlite/record_event_store.go`) | `kv_entries`, `audit_events`, `outbox_events` | `UpsertWithEvents`, `DeleteWithEvents`, `Get`, `List` | the three tables change together or not at all; versions of a record are consecutive; callers learn the truth |
| SQLite access (`adapters/sqlite/gormsqlite`) | reader pool, writer pool of ONE connection | `ReadTX`, `WriteTX`, `Open`, `Close` | writers are serialised; the connection always comes back; what the pragmas give up is known |
| Record endpoints (`adapters/httpapi/handler.go`, `core/usecase/record_service.go`) | none | single and bulk upserts and deletes | the times of rows and events, and the counts of bulk calls, are true of the trail |
| Record reads and listing (the same, `core/domain/record_query.go`) | the cursor, at the client | `listRecords`, `scan`, JSON path filters | a loop over the pages misses nothing and repeats nothing; a path is cut at its dots, a valid filter is served |
| Outbox dispatcher (`core/usecase/outbox_dispatcher.go`, `adapters/sqlite/event_repositories.go`) | a goroutine, its context, three counters; status, attempts and next attempt of the outbox rows | `Start`, `Close`, `loop`/`dispatchBatch`, `Metrics` | at-least-once delivery, bounded attempts, order but for failures and stamps, counters that agree with the table but for crashes, no starvation |
| Publishers (`adapters/events`) | none | `Publish` | an error may hide a delivery |
| Schema service (`core/usecase/schema_service.go`) | cache of compiled schemas, `collection_schemas` | `Upsert`, `Delete`, `Validate` | documents are judged by the schema in force |
| Bulk endpoints with a key (`adapters/httpapi/handler.go`) | stored responses in `kv_entries` | bulk upsert, bulk delete | a retry is answered from the store; an answer stands for the caller's own work |
| KV API (`core/usecase/kv_service.go`, `adapters/sqlite/repository.go`) | `kv_entries` | upsert, get, delete, scan | every operation takes effect at one instant |
| Keys (`recordKey`, `idempotencyKey`, URL keys) | none | joining names with slashes | distinct names are distinct rows, and listings exact, as far as the names of tenants allow it |
| Audit service, audit endpoint | none | `List` with a descending cursor | pages neither overlap nor leave gaps |
| Replay (`core/usecase/replay.go`) | the cursor of the call, the caller's projection | `ReplayTenantEvents` | every event of the tenant once |
| Event codec (`core/usecase/event_codec.go`) | upcasters by version | `Normalize` | reaches the current version or fails |
| Lifecycle (`cmd/app/main.go`, `internal/app/app.go`), bootstrap key, migrations | pools, listener, dispatcher; `api_keys`, schema version | start, serve, `Shutdown`, `Close` | resources outlive their users; nothing is served before the file is ready; every start and stop ends |

What is hard to get right here: statements of one mutation that fail half-way
or are cut by a crash; concurrent writers of one record; deliveries that are
repeated, late or overtaken, over backoff and restarts; a cache that is
invalidated before the commit; responses stored after the work they describe;
times taken before the wait for the connection, by the writers of events and by the
dispatcher that fetches them; results recorded before they are counted; readers that page through a
growing table; a shutdown under requests in progress; commits that a power
failure takes back. `PROJECT.json` lists each of these hazards at its line, with
the properties aimed at it.

## 2. Modules

Abstract specifications are in the second group: what a component promises, which
the detailed module is shown to implement and its users are composed with.

| Module | Models | Remarks |
|---|---|---|
| `RecordEvents` | the rows and envelopes of a mutation | data only |
| `RecordEventStore` | the store, statement by statement, in a transaction | implements `RecordLog` |
| `RecordEndpoints` | single and bulk calls, item by item, with their times | on `RecordLog` |
| `OutboxDispatcher` | the dispatcher goroutine and the outbox table | implements `AtLeastOnce` |
| `EventPipeline` | `RecordLog` + `OutboxDispatcher` + a consumer that keeps a copy | composition |
| `PowerLoss` | commits that are not yet forced to the disk | one step per transaction of `EventPipeline`; writes `RecordLog` between two failures |
| `SchemaService` | schema changes and validations that share the cache | |
| `BulkIdempotency` | bulk calls that share an idempotency key | |
| `KVRows`, `KVStore` | the KV API, transaction by transaction | implements `AtomicKV` |
| `RecordFilter`, `RecordListing` | filters; a client that pages through a listing | |
| `KeySpace` | the keys that authenticated requests read and write, in one table | on `Lifecycle` |
| `AuditTrail`, `EventCodec`, `AuditReplay` | `RecordLog` + pages + upcasters + a replay | composition; the codec is also specified alone |
| `Lifecycle` | the process from start to exit, over two runs | |
| `RecordLog` | a mutation in one step | what consumers of the store may rely on |
| `AtLeastOnce` | pending until delivered or given up; every publication counted, none after that | |
| `AtomicKV` | an operation takes effect between its call and its answer | |
| `*Proofs` | section 5 | |
| `MC*` | the small instances of section 3 | |

### How they correspond to the code

**RecordEventStore.** A *request* is one call of `UpsertWithEvents` or
`DeleteWithEvents`; its name doubles as the uuid of its event. `tx` holds what
the open transaction sees: at `BeginTx` a snapshot of the committed tables, then
`WriteRow` (load, upsert, load again, version, envelope; or load and delete),
`InsertAudit`, `InsertOutbox`, and `Commit`. `DeleteAbsent` is the early return
of `DeleteWithEvents`. The reads and the computations between two writes of
one transaction are merged into the write that follows, since no other
transaction can write meanwhile and a failure between them has the effect of a
failure before them. `Fail` is every error path: a statement, the COMMIT, or the
wait for the connection fails and the transaction is rolled back. `Crash` is the
death of the process, after which SQLite recovers the committed tables. A
document is a member of a small set, and `NoValue` stands for the missing row
and for the empty `before_json`/`after_json`.

**RecordEndpoints.** `Call` is the part of a handler up to the call of
`RecordService`: it takes `occurred_at` once. `ApplyItem` commits one item of the
list (a single call is a list of one), `FailItem` ends the call with an error,
`Answer` counts. Calls are numbered in the order of their times. `times` are the
columns `created_at` and `updated_at` of the rows, `occurred` and `by` the time
and the call of every event.

**OutboxDispatcher.** `pc` follows `dispatchBatch`: `idle` (waiting for the
ticker), `fetch` (`FetchPending` has read the time and waits for a reader
connection), `publish` (a row of the batch is next), `mark` (`Publish` returned and
its result is to be recorded) and `count` (it is recorded and is to be counted:
`MarkDispatched`, `MarkFailed` and `MarkDead` commit first, the `Add` follows, and
for a dead row there are two). `batch` maps the rows still to do to the attempts
that were READ WITH THE BATCH, as the code writes back `event.Attempts + 1`.
`Publish` has three outcomes; a payload that does not decode is one that was not
delivered. `Close` cancels the context, after which nothing can be fetched or
marked any more; `Stop` is the return to the `select`. `calls`, `unrecorded`,
`arrivals`, `earlier` and `crashes` are history variables that no guard reads.

Time is one clock in seconds that may go on between any two actions. A row is due
from its `next_attempt_at`, which is at first the `occurred_at` of its event. That is
taken when the request comes in, before it waits for the writer connection, so
`Enqueue` commits a row with any stamp up to the present: ids are in the order of
the commits and stamps in any other. `FetchPending` uses the time that `TakeNow` has
read, and `MarkFailure` the time at which `Publish` returned, while rows are
committed and the clock goes on: a committed row can be invisible to a fetch that
sees a later one. This is why `InOrderIfStampedInOrder` has two exceptions and not one.

**EventPipeline.** Row `i` of the dispatcher's table is entry `i` of the log's
outbox: `MutateRecord` is the dispatcher's `Enqueue` together with the log's
`Mutate`. The consumer is external; it does what ADR 0001 lets a consumer do,
which is to order events by `aggregate_version`. A delivery whose `Publish` failed
may still arrive at any later time (`wire`).

**PowerLoss.** `wal` is the sequence of databases that the transactions have
committed since the last checkpoint; the program sees the last one. `Checkpoint`
forces them to the disk, `PowerFails` drops any number of the latest ones. What
SQLite does with `journal_mode(WAL)` and `synchronous(NORMAL)` (`gormsqlite/db.go`)
is taken from its documentation and marked external.

**SchemaService.** One collection. `Invalidate` and `CommitChange` are the two
halves of `SchemaService.Upsert` and `Delete` (the cache first, then the
repository); `LoadCache`, `ReadSchema`, `StoreCache` and `WriteRecord` are the
steps of `RecordService.Upsert` through `Validate`. Which documents a schema
accepts is the constant `Satisfies`. A schema that does not compile changes
nothing and is left out.

**AuditTrail, EventCodec, AuditReplay.** The id of an event is its position in
the trail. A page is the set of the highest ids below the cursor, and the replay
takes them from the highest down; `ReplayTenantEvents` moves `afterID` with every
event it applies. Before that, the event goes through `Normalize`, whose loop is
`EventCodec`: a round per upcaster (`UpcastOnce`), its two errors (`Missing`,
`UpcastFails`) and `Finish`. A payload is the version whose format it has;
`Broken` is a payload that an upcaster read in a format it does not have.

**BulkIdempotency.** The calls carry one key. A scope is a tenant, a collection
and an operation, a list what the body asks for; the stored key covers the first
and not the second. `Arrive` is `readIdempotentResponse` (which treats every
error as "nothing stored"), `ApplyItem`/`FailItem` the loop of
`BulkUpsert`/`BulkDelete`, `StoreResponse` `writeIdempotentResponse` (whose errors
are dropped). `storable` says whether the key passes `ValidateKey`: the token is
free text.

**KVStore.** A put takes its time when it is called, then waits for the
connection (`Begin`), executes and commits; `Read` is a get or a scan, one
statement on a snapshot. `KVRows` says what an operation does to the table.

**RecordFilter, RecordListing.** Keys are numbers in the order of their bytes; of
a document only what `json_extract` finds at the filter's path is kept: a text,
`null` or nothing. `SplitPath` works on sequences of three kinds of characters,
as this conversion is what its properties are about. `Fetch` is one request of
the loop in `N8N.md` (Pattern D); `Change` is any other client. How SQLite
compares texts is external.

**KeySpace.** A name is a sequence of letters and slashes. Collections, operations
and item keys are segments of a URL and have no slash. Ids, prefixes, tokens and
categories may have any number, and so may tenants, which come from the
configuration and which nothing checks. The module extends `Lifecycle`: a name
begins with the tenant that a request was authenticated as (`caller`), and `KeyedRows`
are the rows that the requests of all runs on the file may have written. `KeysApart`
and `ListingExact` say who can meet whose row, and for which tenants.

**Lifecycle.** `phase` follows `main` and `NewServer` line by line, with the error
paths of every step; `cause` is why a run ends. Closers run in the order of the
code: cancel and wait for the dispatcher, then the reader, then the writer.
Requests go through authentication (the reader), the body (at the client's
pace) and a transaction (the writer), or are `readyz`. The dispatcher is reduced
to when it uses which pool.

`RecordListing` and `PowerLoss` call their specifications `ListingSpec` and `PowerSpec`,
as their proofs share a module with those of another.

## 3. Runs

| Run | Instance | Shows |
|---|---|---|
| `store` | 2 records, 2 documents, 3 requests of any kind, 1 fault | enough for create/update/delete chains, for lost updates between two with a third in front, and for two waiting behind one that fails; the fault hits every step |
| `endpoints` | 3 calls with one of 4 bodies (put, delete, two records, one record twice), 1 fault | items of one call committed between those of others, deletions of what another call deleted, a crash in the middle |
| `pipeline` | 1 record, 2 mutations stamped at the times 0 and 1 in any order, batches of 1 or 2, 2 attempts, 1 fault | both events race for one copy, the shape in which reordering hurts; a fetch that read its time before the commit; a batch smaller than the backlog, a backoff, dead letters, a restart with attempts already counted, a crash before the counter |
| `power` | 1 record, 3 mutations, 2 power failures | a version is lost, given out again and lost once more, before, between and after its delivery and its mark |
| `schema` | 2 schemas, 2 documents, 2 changes, 2 writes, 1 fault | a change that races with a write, then a second change without a race |
| `schema_doc` | the same | the disagreement of section 4 |
| `bulk` | 3 calls, 2 scopes, 2 lists, 2 faults | a request, its retry and a concurrent duplicate, another list or the other endpoint under the same key; a failure between the items and one after them |
| `kv` | 2 keys, 3 requests of any kind, 1 fault | overlapping puts, a read between them, a lost answer |
| `listing` | 4 keys, 2 changes, limits below and above what is allowed; every filter with a path of at most 4 characters on documents of every kind | page boundaries before, at and after a change; every way to place dots |
| `replay` | 1 record of the tenant and 1 of another, 4 mutations, pages of 2, 2 replays; versions 1 to 4 of which 3 is current, every list of up to 2 upcasters | page boundaries with and without foreign events between them, growth between pages; gaps, jumps, loops and replaced upcasters |
| `replay_doc` | the same, two of the events committed in the other order than they were stamped | the disagreement of section 4 |
| `lifecycle` | 2 requests, 4 tenants, 2 runs, 2 migrations, 2 faults; names made to be mistaken for one another: tenants `a`, `a/b`, `b` and `i` (which stands for "idempotency"), collections `b` and `ba`, ids and tokens with slashes, an item named like the prefix of responses | a signal, a failing listener or a failing start at any point, a crash between two migrations, a restart with another tenant; two runs leave rows of any two tenants in one table, and each exception of `KeysApart` and `ListingExact` occurs |

The behaviours of most modules end (requests are answered, runs used up), so their
runs do not check for deadlock; `pipeline` does. That nobody waits for ever is
`EveryRequestAnswered`, `EventuallyConsistent` (which includes that every row is
settled), `ReplayEnds` and `StartsAndStops`.

Bounds: `MaxFaults` counts failed calls, lost answers, closings and crashes,
`MaxLosses` power failures; `MaxTime` the times at which events are written, after
which the clock goes on only for a row that is not due yet; `MaxRows`, `MaxEvents`,
`Requests`, `NumCalls` and `EventIds` bound the mutations and calls; `MaxRuns` the
replays and the starts of the program; `MaxChanges` what other clients change while one reads. Failures of
`Publish`, of an upcaster and of a replay are not bounded but by the code's own
retry limit and by `MaxRuns`.

Fairness. `RecordEventStore`: each request's goroutine runs, and the pool gives
its connection to a waiting call when one is returned (`database/sql` serves
waiters in turn, so a call cannot be passed over for ever; weak fairness is
enough because the number of requests is finite). `EventPipeline`: time
passes (`Tick`), `Publish` returns (`PublishToConsumer`: its client has a timeout of
ten seconds), the dispatcher's goroutine runs and its calls of SQLite return
(`Goroutine`), and a stopped program is started again (`Restart`). `AuditReplay`: the
replay goes on. `Lifecycle`: the goroutine of `main` runs, and so does the
dispatcher's when its context is cancelled or its database closed. Nothing is assumed of clients, of the network, of faults, or of
WHICH result `Publish` has; a request whose body never comes is what
`StartsAndStops` has to get along with. The other modules state no fairness, as
only their safety is checked.

## 4. Where code and documents disagree

- `schema_doc`, the checked finding: a `Validate` that reads the schema before a
  concurrent `Delete` commits and stores it afterwards leaves the deleted schema
  in the cache (`schema_service.go:66-67` and `:79-91`), against "If no schema is
  configured the data passes validation" (`:70-71`). `FreshAfterQuietChange` shows
  what remains true: the next change without a race repairs it.
- `replay_doc`, the other one: a replay runs from the newest event to the oldest, by
  id (`event_repositories.go:37`), against "Replay consumes events in stable order
  (`occurred_at`, then `event_id`)" (`specs/phase2/replay-projection.md:9`). An event
  that was stamped later is handed over first, whether it was committed first or
  not. `AppliedExactlyOnce` says what a replay does promise.

Met while modelling; the properties named here say what the code does instead:

- `specs/phase2/event-envelope.md:14` wants that the "`schema_version` matches current
  codec version", and `specs/phase2/replay-projection.md:12` and `:19` that an
  unsupported version makes a replay fail. `Normalize` fails only if an upcaster is
  missing or fails. It returns an event that is newer than the program as it is, and
  one that an upcaster took past the current version, without an error
  (`event_codec.go:31-47`): the two exceptions of `NormalizedIsCurrent`. The program
  itself has one version and registers no upcaster.
- An event may overtake an earlier one although nothing failed, since stamps and ids
  may be in different orders (`record_event_store.go:365`, `event_repositories.go:83`).
  `InOrderIfStampedInOrder` says when; a consumer that compares `aggregate_version`
  does not notice (`CurrentOnceDispatched`).
- The counters of `OutboxDispatcher.Metrics` lose a recorded result when the process
  dies before it is counted (`outbox_dispatcher.go:113-116`): `MetricsMatchTable`.
- Nothing keeps a tenant from being called like a path below another one, or
  "idempotency": such tenants may share a row (`KeysApart`). `ValidateKey` admits
  slashes, and the tenant of the configuration is not checked at all.
- The cursor of the audit endpoint goes down; the polling loop of
  `N8N.md:506-518` expects it to go up, and would not see new events.
- The error of storing the response of a bulk call is dropped (`handler.go:737`),
  so that a retry applies the items again, against `N8N.md:212`.
  `OkMeansAllApplied` and `AppliedOnceWhenQuiet` show what holds.

## 5. Proofs

For every value of the constants that satisfies the assumptions. The results are
listed, each with the property of a run that it proves, in `PROJECT.json`; the
inductive invariants they rest on are theorems of the same modules.

**`RecordEventStoreProofs`**: types, `TablesAgree`, `AuditChain`, `HonestAnswers`,
`ImplementsRecordLog`. Assumptions: `NoValue` is not a document, `NoRequest` not a
request, `NoEvent` not an event, `MaxFaults` a number. None of the properties is
inductive: `Commit` copies the tables of the transaction, of which they say
nothing. `StoreInv` adds `TxOK`: the open transaction belongs to a waiting
request and, at each of its steps, its tables are the CURRENT committed tables
with exactly the writes made so far. This is where the single connection is
used: between a `BeginTx` and its `Commit` nobody else commits. From `TxOK`, lemma
`TablesStep`: a step either leaves the committed tables alone (and moves no
request to a status that promises more than they hold), or is the mutation of
one waiting request, in one piece. `HistoryInv`, the conjunction of the safety
invariants with "the latest event of a record has its highest version", is then
preserved by such a mutation, one lemma per conjunct; and the same `TablesStep`
gives the refinement of `RecordLog`. That a record has a highest version at all is
carried along in the invariant (`HasLast`), because it would otherwise need an
induction over the length of the trail.

Of `EveryRequestAnswered` it proves the part without fairness. A call that waits for
the connection waits for one that can go on (`ConnectionComesBack`, from `TxOK`);
what a call has left to do gets less with each of its own steps and never more with
a step of another, a failure or a crash (`CallsAlwaysAdvance`), so that it has the
connection at most once.

**`EventPipelineProofs`**, of the dispatcher: types, `AttemptsAccounted`,
`InOrderIfStampedInOrder`, `MetricsMatchTable`, `ImplementsAtLeastOnce`. Assumptions:
batches have at least one row and `MaxRetry` is positive, as `NewOutboxDispatcher` makes
them; the other bounds are numbers. `MarkFailure` writes back attempts that were read
with the batch, so the accounts hold only because nobody else writes a fetched row:
`BatchIsFresh`. The order of arrival needs to know why the first row of a batch may
be published before the rows that are not in it: `NothingLeftBehind`, each of them has
arrived, has failed, or was stamped later. `FetchEffect` establishes it: a due row
before a fetched one is fetched too, by cardinality, and a row that never failed and
is not due at the time that was read has a stamp after that time (`StampsOrdered`),
while what is fetched has one before it. Each `Mark` maintains it for the row it
removes, and `PublishReturns` uses it. The least row of a batch exists because `<` is
well-founded on the naturals. The counters are compared with sets of rows and of
attempts, so that an update adds one element to one of them; between an update and
its `Add` the counter is in `toCount`, which a crash empties while it counts itself.
The refinement of `AtLeastOnce` maps `published` to `calls`: a row that is settled is
never in a batch (`BatchIsFresh` again), so that its number of calls stands still.

**`EventPipelineProofs`**, of the composition: `ReplicaWasTrue`,
`CurrentOnceDispatched`. The pipeline runs the dispatcher (`PipelineRunsDispatcher`)
and writes the record log (`PipelineWritesLog`), so what is proved of each holds end
to end. `PipelineInv` adds to the dispatcher's invariant that row, event and
envelope `i` belong together, that versions grow along the trail of a record up to
the one its row has (`VersionsGrow`, `ValueInTrail`), that a copy of the consumer is
what some event left (`ReplicaWasTrue`) and that it is at least as new as everything
that arrived (`ArrivedApplied`): an event dispatched last, and so arrived, has the
highest version, and the copy cannot have a higher one.

Of `EventuallyConsistent` it proves that the dispatcher never rests on a backlog
(`BacklogIsWorkedOff`); that no row gets an attempt back, that the table records a
result only by taking one, and that the oldest due row is in every batch
(`RowsAlwaysSettle`); and that the copies are current when nothing is pending, but
for records whose latest event was given up (`SettledMeansConsistent`).

**`RecordEndpointsProofs`**, of the endpoints: `RowMatchesTrail`,
`AnswersMatchTrail`, for any number of calls and any
bodies (lists of upserts or of deletions, as the two request types of `handler.go`
are). `RequestInv` ties every event to its call: it has the time at which the call
was stamped, and the count of a call is the number of its events.
The item loops write the record log (`EndpointsWriteLog`), which is what
`RecordEventStore` implements.

**`RecordEndpointsProofs`**, of the reads: `SteadyRowsListed`, `ListedInOrder`,
`ValidFilterServed`. The cursor separates what was listed from
what was not (`ListingInv`); a page is the first keys beyond the cursor, it is not
empty while there are any, by cardinality, and its last key exists by
well-foundedness. Assumptions: "absent" is not a text, the limits are numbers.

**`RecordEndpointsProofs`**, of the paths of filters: `SplitAtDots`. `SplitJSONPath` is
a fold over the characters of a path; the proof gives it the loop invariant
`ReadRounds` (what was read is the path up to here, cut at its dots) and looks at the
least prefix that would break it, which `<` has because it is well-founded. The one
assumption is that a path is a sequence of characters.

**`KVStoreProofs`**: `ResultsMatchLog`, `AgesInOrder`, `ImplementsAtomicKV`.
Assumptions: `NoRow`, `NoOp`, `NoCall` and `NoOutcome` are none of the things they
stand against; the bounds are numbers. A transaction works on the committed
table and has, before its COMMIT, exactly the effect and the outcome of its
operation there (`TxInv`: the single connection again); the committed table is what
the operations of the log make of an empty one, and each of them was answered
with its outcome at its place (`LogInv`). What a table of rows is after a prefix of
the log is defined from the last upsert or deletion of each key; the lemma
`TableOfNext` says that the next operation has its effect on it. An upsert whose
time is before that of the row's creation overlapped with another, since calls
that were answered have earlier times (`StampInv`). The refinement takes the
instant of an operation to be its COMMIT, or its read.

**`BulkIdempotencyProofs`**: `OkMeansAllApplied`, `OwnListUnlessReused`,
`AppliedOnceWhenQuiet`. The invariant says how far each call's items are in the
log, that a stored response was computed by a call that is done with its list,
of the scope it is stored under, and that in a scope without overlap at most one
call is at work and its predecessors left their response behind.

**`SchemaServiceProofs`**: `FreshAfterQuietChange`, `JudgedByCommittedSchema`.
Assumptions: "no schema" is not a schema, changes and writes are different calls,
and `MaxFaults` is a number. The invariant ties the cache and the
schemas that validations are holding to those that were ever committed
(`CommittedInv`) and, while no calls have overlapped, to the one in the table:
a change that is between its two halves finds the cache empty and nobody else at
work (`QuietInv`).

**`AuditReplayProofs`**: `NormalizedIsCurrent` of the codec alone, for any versions
and any list of upcasters, from the types, the agreement of payload and version,
and "not past the current version unless it was from the start". Then
`AppliedExactlyOnce`, and `NormalizedIsCurrent` in the composition, for any trail,
tenant and page size. What was handed over are the expected events that the cursor
has passed (`CursorInv`), and what is left of a page are the newest ones ahead of
it (`PageInv`); a page that comes back empty means there are none ahead
(`PageIsNewest`, by cardinality). That the replay drives the codec by its protocol
(`ReplayImplementsCodec`) carries what is proved of the codec alone over to the
composition; the trail it reads is one of the record log (`ReplayReadsLog`).

Of `ReplayEnds` it proves that a replay is never stuck before its end
(`ReplayIsNeverStuck`: if an upcaster is listed for a version then one of them
counts, because a list is finite), and that each of its steps hands over an event,
comes closer to the next one, or is a round of `Normalize` below the current version;
events that are appended meanwhile do not give it more to do (`ReplayOnlyAdvances`).

**`RestartProofs`**, of power failures: `DispatchedWasReceived`,
`CurrentUnlessToldOfLost`. A failure may bring back any database of the log, so
`WalInv` asks of EVERY one of them that its tables agree, that versions grow along
its trail, and that what it calls dispatched was received; what a consumer has
received is never taken back. The row whose `Publish` has just succeeded is still
there with its envelope (`SentInv`), since only a restart or the end of the process
can put an older database in its place. The copy of a record is that of the highest
version that arrived (`ConsumerInv`); if nothing that arrived was lost, that is the
last event of the trail, as versions grow.

Between two failures the program writes the record log and does not change its mind
about a delivery (`PowerLossWritesLog`); a failure takes back the latest mutations
and marks and nothing else (`OnlyLatestCommitsAreLost`). `LogInv` says so of any two
databases of the log of commits, of which a failure may choose the earlier.

**`RestartProofs`**, of the life of the process: `DispatcherHasDatabase`,
`OnlyLateRequestsLost`, `ServedAsConfigured`, for any number of runs, requests,
tenants, migrations and faults. A request in progress belongs to a run whose start
succeeded, so its file is ready, and when `main` is past an orderly `Shutdown` there
is none (`ServedInv`); pools are closed last, after the dispatcher is gone or after a
start that failed (`ClosingInv`). The two action properties follow one step at a
time. The assumption is that `NoTenant` and `Nobody` are neither tenant nor request,
and that the bounds are numbers; fairness is not used.

Of `StartsAndStops` it proves that nobody waits for somebody who cannot go on: not
`main` for a dispatcher that was not told to stop, nor a write for the connection of
a request that is gone (`WaitsAreForTheLiving`); and that `main` has at most
`14 + NumMigrations` steps left, fewer with each of them and with each step of the
dispatcher it waits for, never more with one of a client (`RunsWindDown`).

**`RestartProofs`**, of the keys: `KeysApart`, `ListingExact`, for any names. The tenant of
a request is one of the configured ones (from the types of `Lifecycle`). Joined names
can be taken apart where the slash that joins them is known to be: at the first
slash if the first name has none (`FirstWord`), at the last one if the last has none.
Tenants have any number of slashes, so two joins may be equal without their parts
being so; then one of the tenants is a proper beginning of the other up to a slash
(`SameOrNested`), which is the exception that `KeysApart` makes. A listing is exact
even then, as the category fixes tenant and collection together and the collection
is what follows its last slash (`LastWord`). Assumptions: collections, operations and
item keys have no slash (they are segments of a URL), and the slash is not a letter.

Every invariant of the runs and every action property is a theorem but the two
findings of section 4. Only model-checked are the four liveness properties
(`EveryRequestAnswered`, `EventuallyConsistent`, `ReplayEnds`, `StartsAndStops`):
fairness and `ENABLED` are out of the prover's reach. What is proved of them above
says, with the guards of the actions written out, that something can always be done
before the end, and that doing it comes closer to the end. What is left to TLC is
that weak fairness makes such steps happen.

## 6. Not modelled

- Routing, JSON, error mapping, OpenAPI, logging and the request counters of
  `handler.go`: no protocol state. Of authentication, the hashing and the parsing
  of the header.
- What the publishers send: the HTTP request, its headers and its signature.
  `Publish` is its three outcomes.
- Clients that disconnect and bodies that do not decode, in `Lifecycle`: both end a
  request, as an answer does.
- The filters of the audit query on aggregate and action, and its endpoint: they
  narrow the set of events that a page is taken from.
- What goose and the migration files do inside; `adapters/sqlite/audit_repository.go`,
  which the program never constructs; release policy, CI and the CLI flags.
- What SQLite does with texts, JSON and transactions is assumed, not modelled;
  so is `database/sql`.

Left for later: the bulk calls with a key composed with `RecordEndpoints`.
