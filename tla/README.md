# TLA+ models of the bluetape-go workshop

The repository is a workshop: 56 small Go programs under `examples/`, each of which puts one
part of the `bluetape-go` library (batch jobs, leader election, SQL outbox, state machines,
caches, tokens) into a program with state of its own.  The library itself is not in the
repository.  These modules model the programs; a definition that stands for library code is
marked *external* in `PROJECT.json` and says in its comment what in the repository fixes its
behaviour.

Notation below: `cmb` = `examples/customer-migration-batch-integration`,
`aow` = `examples/audited-order-workflow-outbox`, `mod` = `examples/gin-content-moderation-workflow`.

## 1. Inventory

### 1.1 Parts with state, concurrency or failure

| Part (example) | State | Operations | Interacts with | What is hard | What makes it correct |
|---|---|---|---|---|---|
| Customer engine (`cmb`, engine.go) | checkpoint, sink, dead letters; per run: reader position, chunk, attempts, skip budget | `RunBatch`: restore, read, process, write, save, roll back, respond | `batch.Step` calls its callbacks; the service starts it | a crash or cancellation between any two callbacks; rollback from a snapshot taken before the run | nothing behind the stored checkpoint is lost; *completed* is true |
| Customer service (`cmb`, service.go, scheduler.go) | active flag, cancel function, latest report, last rejection, leadership | start, tick, cancel, report | engine; leader election; HTTP and ticker goroutines | two callers at once; `ErrAlreadyLeader`; a failing `Resign` | one run at a time; a tick runs under leadership and gives it back |
| Account migration (`account-migration-checkpoint-restart`) | checkpoint, append-only target | `RunMigration` | `batch.Step` | a chunk torn by a cancellation | the target is a prefix of the source |
| CSV import (`chunked-csv-import-checkpoint`) | checkpoint, sink with counters | `RunImport` | `batch.Step` | repeated ids, replayed chunks | first row wins, nothing lost |
| Ticket worker (`retry-dead-letter-batch-worker`) | processed, dead letters | `Run` | `batch.Step` | retries and skips at their limits | every ticket is processed or dead-lettered |
| Order commands (`aow`, service.go, history_store.go, handler.go, model.go) | three PostgreSQL tables | `Create`, `Transition`, replay by command id | concurrent requests through row locks and unique keys | deadlines, ambiguous commits, process crashes | tables agree; answers stay true |
| Order process (`aow`, runtime.go, main.go) | server, relay goroutine, health flag, outbox, Redis stream | start, shutdown, relay | signals, server, relay, PostgreSQL, Redis | three ends of a `select`; a shutdown limit; kill and restart | orderly shutdown; at-least-once delivery |
| SQL order service (`gin-sql-order-service`) | header, item and status-event tables | create, reject, patch an item, get, status history | concurrent requests through PostgreSQL at READ COMMITTED | no query locks a row of its own; the answer is read back after the commit | an order is whole; its total is the sum of its items |
| Order placement (`sql-transaction-boundary`) | product stock, orders, order lines | `PlaceOrder` | concurrent callers through row locks | opposite lock orders, rejected payments, ambiguous commits | stock is conserved; every call returns |
| Outbox command (`transactional-outbox-publisher`) | order table, outbox records, Redis stream | place, relay one record, verify the newest message, print | other processes through database and stream | a kill between any two steps, reused identities, another process's message on top | a printed result is a published order |
| CRUD API (`gin-sql-crud-api`) | one table | create, get, list, update, delete | concurrent requests | the row changes between `UPDATE` and the read back | an answer shows a state the row had |
| Moderation service (`mod`, service.go, handler.go) | records by id, a capacity | create, get, paged search | concurrent requests through one mutex | processors run outside the lock; deadlines and cancellations; pages taken at different moments | pages are complete; the store stays inside its capacity |
| Server lifecycle (`mod`, main.go) | listener goroutine, in-flight handlers, collected errors | `RunServer` | signals, handlers, shutdown timer | a failing listener against a signal; a hanging handler | nil means a clean end; a signal ends the process |
| Compensation workflow (`compensation-workflow`) | effects, registered compensations, all per request | `run`: forward workflow, reverse compensations | the workflow library runs its works; the client may leave | a failure or a cancellation between any two effects, or during the clean-up | what was done is undone, the latest first |
| Order fulfillment (`order-fulfillment-integration`) | the same and a state machine with its history | `fulfill` | workflow and state libraries | the same; effects and order state must agree | shipped with all effects, cancelled after compensation |
| Workflow runner (`fulfillment-workflow-runner`) | two checks, a channel, a timer | `run` | two goroutines under one context | a failing check against a slow one, a client that leaves | no shipment without both checks; nobody waits for ever |
| Order lifecycle API (`order-lifecycle-state-api`) | one state machine | transition, can-transition, snapshot | concurrent requests through the machine | look-up, guard and move are separate; the answer reads the machine again | one request wins each move |
| Payment API (`payment-authorization-state`) | one state machine, answers by idempotency key | transition, can-transition, snapshot | concurrent requests through one mutex | retries after other commands and after deadlines | a retry gets its first answer |
| Document workflow (`s3-sqs-dynamodb-document-workflow`) | S3 objects, an SQS queue, a DynamoDB table | `Submit`, `ProcessOnce` | three services; other workers and producers | every call may fail before or after its effect; redelivery, outdated receipt handles, dead workers | an acknowledged event is recorded; the first record of a document stays |
| SQS task worker (`sqs-floci-worker`) | an SQS queue | `Enqueue`, `PollOnce` | other workers; the caller's handler | a worker that dies between work and acknowledgement; a body that is refused for ever | acknowledged means worked on |
| Abuse cluster (`graph-abuse-cluster`) | a fixture in Neo4j; per process: what it loaded, its client, its output | `run`: replace, load, analyse, close, print | other processes on the same fixture id | replaced between match and deletion, or between the two reads | a printed report is the one of the fixture |
| Checkout guard (`checkout-guard-integration`) | a Bloom filter, a clock | issue a token, guard a checkout | concurrent requests through one mutex | colliding keys, expiring tokens, failures behind the admission, rounding line by line | a key is admitted once; the total is near the exact one |
| Token refresh (`token-refresh-claims`) | none: the signed tokens clients hold | open a session, validate, refresh | concurrent requests; the clock | verified at one reading of the clock, composed at another; long sequences of refreshes | no session outlives its refresh token |
| Distributed JWT (`distributed-jwt-key-rotation`) | keys in Redis, a counter per node | issue, verify, rotate | nodes through Redis | a rotation between two calls of a request; the retained keys run out; a restart, or a second process with the same `NODE_ID`, repeats key ids that are still in Redis | a token is invalid only when its key is gone or another process took its id |
| Audit query API (`gin-audit-query-api`) | a seeded history | search page by page, detail | a client that follows `next` and repeats timeouts | the inclusive bound of the next page, in both directions and inside the client's own bounds | a walk is complete and in order |
| Order history (`audit-order-history`) | a map of orders, used command ids, the audit repository | `Create`, transitions, `Current`, `History`, `Find` | callers through one mutex; the reads of the repository do without | the append comes before the change of the map | the history leads the map by at most one command |
| Redis admission (`shared-redis-bloom-admission`) | a Bloom filter and its size in Redis | start, `Admit`, `Stats`, stop | instances that share a namespace | `Put` took effect but the answer or the statistics behind it failed; differing sizes | an event is admitted at most once |
| Catalog repository (`dynamodb-conditional-repository`) | a DynamoDB table | `CreateIfAbsent`, `UpdateName`, `QueryTenant` | callers through conditional writes | two renames from one version; a write whose answer is lost | no rename is lost |
| Graph import (`graph-import-export`) | none between calls | `Import`, `Export`, `RunDemo` | partner files in two formats; a context | duplicates, dangling edges, limits, the numbers of JSON at the edge of their range | an import is a graph; a round trip keeps it |
| Audit routes (`aow`, handler.go, history_store.go) | the history table, a semaphore | search, detail | commands that commit between two pages | a full semaphore, panics, timeouts and repeated pages | a walk is complete; a slot comes back |

### 1.2 Parts with state that stay out

Their state and their concurrency are the library's, so that a model would be one of code that
is not in the repository:

* `leader-coordination-jobs`, `leader-redis-web`, `leader-group-web`: they call the elections and
  show what these answer, with no goroutine or lock of their own.  `CustomerService` models a
  program that builds on leadership.
* `catalog-near-cache-redis`: where a value is cached and when an invalidation arrives is decided
  by the near cache.
* `dynamodb-batchwrite-materializer`: chunks and retries are `batchwrite.WriteAll`.
* `probabilistic-dedupe-admission`: one critical section, which `CheckoutGuard` has too.
* `sql-order-repository`: single statements in a transaction of the caller.
* `catalog-refresh-resilience`, `payment-authorization-guard`, `resilience-http-web`,
  `product-enrichment-fanout`: policies of the library around fixed calls.

### 1.3 Parts without behaviour to model

Codecs, decimal pricing, text preparation and the graph ranking of
`graph-recommendation` keep no state and
have no interleavings; their arithmetic and parsing belong to the library.  Each is listed in
`PROJECT.json` under `components` with its reason.

## 2. Modules

| Module | Models | Extends / composes |
|---|---|---|
| `BatchStep` | one run of the library's `batch.Step` (external) | |
| `CustomerEngine` | `RunBatch` and its stores | EXTENDS `BatchStep` |
| `CustomerService` | `Service`, leader gates, scheduler; a batch run is one step | |
| `AccountMigration`, `CsvImport`, `TicketWorker` | the three command-line batch programs | EXTEND `BatchStep` |
| `SqsQueue` | an SQS queue as the workers use it (external) | |
| `DocumentWorkflow`, `TaskQueue` | the two SQS workers with their callers | EXTEND `SqsQueue` |
| `AbuseCluster` | processes of the abuse cluster analysis over one Neo4j | |
| `MCBatchPrograms` | the three batch programs, the two SQS workers, the graph analysis and `OrderPlacement` side by side | INSTANCEs of them |
| `OrderWorkflow` | `Create`, `Transition`, statement by statement | |
| `OrderRuntime` | `RunLifecycle`, `run`, the relay | |
| `SqlOrderService` | the aggregate of `gin-sql-order-service`, statement by statement | |
| `OrderPlacement` | `PlaceOrder` with its row locks | |
| `OutboxCommand` | the publisher's processes, records and stream | |
| `OrdersCrud` | the CRUD handlers and their statements | |
| `CheckoutGuard`, `TokenRefresh`, `DistributedJwt` | the services that issue tokens | |
| `AuditQuery`, `OrderHistory`, `OrderAudit` | the programs over an audit history | |
| `RedisAdmission`, `CatalogRepository` | instances over Redis, callers over DynamoDB | |
| `GraphImport` | one caller of the import and export | |
| `MCStorePrograms` | these, the SQL order service, the outbox command and the CRUD API side by side | INSTANCEs of them |
| `ModerationService` | create, get and paged search of `mod` | |
| `ServerLifecycle` | `RunServer` of `mod` | |
| `Saga` | abstract: effects are performed and, on failure, undone in reverse | |
| `CompensationRun`, `OrderFulfillment` | one request of each example with compensations | refine `Saga` |
| `FulfillmentRunner` | one request with two concurrent checks | |
| `OrderLifecycle`, `PaymentAuthorization` | the two APIs over a state machine | |
| `MCServices` | these, the moderation service, its server and the order process side by side | INSTANCEs of them |
| `CustomerServiceProofs`, `OrderWorkflowProofs` | theorems of one module each | EXTEND it, TLAPS |
| `BatchProofs` | theorems of `CustomerEngine` and of the seven components of `MCBatchPrograms` | EXTENDS the first, INSTANCEs of the others |
| `ApiProofs` | theorems of `CompensationRun`, `OrderFulfillment`, `OrderLifecycle`, `PaymentAuthorization`, `ModerationService`, `OrderRuntime`, `ServerLifecycle` | EXTENDS the first, INSTANCEs of the others |
| `StoreProofs` | theorems of the components of `MCStorePrograms` except `AuditQuery` and `GraphImport` | INSTANCEs of them |
| `ServicesProofs` | theorems of `FulfillmentRunner` and of `MCServices` | EXTENDS `MCServices`, INSTANCEs of `ApiProofs` |
| `BatchProgramsProofs` | theorems of `MCBatchPrograms` | EXTENDS it, INSTANCE of `BatchProofs` |
| `StoreProgramsProofs` | theorems of `MCStorePrograms` | EXTENDS it, INSTANCE of `StoreProofs` |
| other `MC*` | constant values for TLC | EXTEND their module |

**`BatchStep`** offers the library's half of each step (`ReadRecord`, `Accept`, `SkipRecord`,
`WroteRecord`, `SaveCheckpoint`, ...); a program's module conjoins what its callback does.  Its
contract comes from the callbacks' own tests and from
`docs/superpowers/research/2026-06-09-issue-73-*.md:81-83` and `...-issue-41-*.md:55-58`: a
checkpoint is saved after a chunk is written and after an item is skipped.  The constant
`SaveAfterSkip` keeps two readings of the second half apart: `"always"` is the documented one
(also with accepted records still in the chunk); `"emptyChunk"` saves only when nothing is
pending.  Every run uses the documented reading; the theorems of the customer migration hold in both.

**`CustomerEngine`** has one action per callback (`Read`, `ProcessAccepts`, `ProcessFailsOnce`,
`ProcessDeadLetters`, `WriteCustomer`, `Save`), `StartRun` for the part of `RunBatch` before
`job.Run` (validation, checkpoint snapshot) and `FinishRun` for the part after it (rollback,
response).  A customer is its index in the source with its scenario; names and mails are left
out.  Cancellation is a flag that every callback looks at first, as in the code.  `Exposed` are the
accepted records that the checkpoint saved after a skip has already passed; `MidCancel` says whether
a run may be cancelled while there are any.

**`CustomerService`** keeps one program counter per caller.  A critical section (`beginRun`,
`finishRun`, `recordRejection`) is one action, because the code holds the mutex throughout;
everything between two sections interleaves.  `Campaign` and `Resign` are the election library
as the gate uses it.

**`OrderWorkflow`** has one action per SQL statement.  READ COMMITTED is modelled by what the
code relies on: statements see committed rows, `SELECT ... FOR UPDATE` and inserts of an
uncommitted key wait, writes become visible at COMMIT.  The locks a request holds are a function
of its program counter (`HoldsRow`, `HoldsID`).  `CommitFails` is the ambiguous commit.

**`OrderRuntime`** models the `select` of `RunLifecycle` and the shutdown path step by step;
HTTP handlers are only busy or not, and may commit an outbox record when they end.  The relay's
claim, publish and result steps are external and follow `relay_test.go`: attempts count claims,
the last failure dead-letters, an abandoned claim is taken over after its lease, and later
records of an order wait for earlier ones.

**`SqlOrderService`** has one action per statement of a transaction and one per query of the read
back.  Committed rows are variables; what a transaction has written but not committed is its
`draft` and `total`.  An `UPDATE` waits while another transaction has updated the same row
(`EditsItem`, `EditsHeader`), a `SELECT` does not wait, and a `SUM` sees committed rows and its own.

**`OrderPlacement`** locks products one by one in id order (`LockByID`), debits, inserts (an
uncommitted equal order id makes the insert wait) and commits or rolls back.

**`OutboxCommand`** keeps one program counter per process.  The relay is external: it claims the
oldest pending record, publishes it and stores the result.  `executionTimeout` equals the lease,
so the claim of a live process is never overtaken; that of a dead one is.

**`OrdersCrud`** numbers the writes of a row (`version`, a ghost) so that the answers can be
compared with the states the row really had.

**`SqsQueue`** hides a received message until it is deleted, made visible or its visibility timeout
passes; a delivery has a receipt handle that the next one outdates.  Failing calls, crashes and
timeouts draw on one budget `MaxFaults`.  **`DocumentWorkflow`** has one action per service call of
`Submit` and `ProcessOnce`, of which each may fail before or after its effect; an item remembers
what was read, an object all sizes stored under its key.  **`TaskQueue`** leaves the handler to the
caller: it may fail before or after its work.

**`AbuseCluster`** has the stages of `run` with the deferred close.  A Neo4j statement is two steps,
what it matches and what it changes, and an element id carries the generation that created it, so
that another process's replacement is visible.  `Analyze` is translated rule by rule: the checks of
`loadVertices` and `loadEdges`, components, weights, evidence and the order of clusters.

**`CheckoutGuard`** counts amounts in hundredths of a minor unit, which makes the rounding of
`money.Round` visible; the filter is the set of bits that are set.  **`TokenRefresh`** keeps the
tokens handed out as the state, since signatures make them the only thing a client can present;
the clock moves between the verification of a token and the composition of the next.
**`DistributedJwt`** keeps every key ever current; the repository retains the latest `Capacity` of
them under their kids.  A kid is the `NodeID` of a process, which several may share (main.go:32), and a
number that `Restart` sets back, since `nextKID` is in memory (service.go:130, 318-321).  The library
is not under `src/`: a key whose kid Redis still keeps may be refused or replace the old one, and a
cached reader may go on verifying a token whose kid now names another key.  Clocks are bounded by `MaxTime`.

**`AuditQuery`** and **`OrderAudit`** follow a client through its pages (`seen` is its ghost); the
first has a fixed history, both orders and the client's own bounds, the second a growing one behind
the semaphore.  **`OrderHistory`** separates the lock, the append and the change of the map.
**`RedisAdmission`** has one step per Redis call of `Admit`; **`CatalogRepository`** one conditional
write per call, with a `log` of names by version as ghost; its items are created with version 1, where
`validateItem` asks for any positive one, so that a version counts the writes.  **`GraphImport`** keeps of a record's
properties the partner and one value, with the types a JSON number can lose; `origin` is a ghost,
the records a file was exported from.

**`ModerationService`** abstracts content to the verdicts of the language detector, the dictionary
and the tokenizers; the rules of `Create` that combine these verdicts are kept.  `base` and
`collected` are ghosts that follow one client through the pages of its search.

**`ServerLifecycle`** has the `select`, `Shutdown`, `Close` and the join of the listener goroutine
as steps; `cut` is a ghost that records an interrupted handler.

**`Saga`** is what a program with compensations promises: `Perform`, `Ship`, `Complete`, `Fail`,
`GiveUp`, `Undo` (which may fail and leave its effect) and `Finish`, over the effects that stand
and a stack of compensations that are due.

**`CompensationRun`** and **`OrderFulfillment`** have one action per work of the forward workflow,
`Execute` for the code between the two runners and one action per compensation; the client may
leave (`Cancel`) at any moment.  The runner of the workflow library is external: it looks at the
context before each work (the tests with a cancelled context fix that) and stops at a cancelled
one.  In `CompensationRun` the compensations run under the request's context unless the forward
report is cancelled (server.go:160); `LateCancel` says whether a client may leave after a failed
forward workflow.  `Abstract` maps the program counter to the saga's phase and the list of works
still to run to its stack.

**`FulfillmentRunner`** has the sequential runner and the two checks as three processes.
`CancelSiblings` takes a report that is not completed (`first`) and cancels the context of both checks,
some time after the check has reported.  A delay is absent, timed or *wrapped*: milliseconds whose
nanoseconds overflow to a duration that is not positive, which starts no timer (server.go:138).

**`OrderLifecycle`** and **`PaymentAuthorization`** have one program counter per request.  The
state library is external: it looks a transition up, runs the guard and moves only if the state
has not changed (`ErrConcurrentTransition`).  `known` is a ghost: the stored answers when a
request arrived.

**`MCBatchPrograms`, `MCStorePrograms` and `MCServices`** compose independent programs as a sum:
`program` names the one that runs, the variables of the others keep a neutral value.  Programs
with the same shape share variables (`pc`, `call`, `outcome`).

## 3. Runs

| Run | Instance | Checks |
|---|---|---|
| `CustomerEngine` | the fixture of five customers (one transient, one permanent), chunks of two, `SaveAfterSkip = "always"`, three disruptions out of crashes after 2, 3 or 4 writes and cancellations, these at any moment at which no record is exposed (`MidCancel = FALSE`), an empty or corrupt stored checkpoint | `SafeCheckpoint`, `CompletedMeansSettled`, `ResponseMatchesStore`, `CheckpointNeverRegresses`, `EventuallySettled` |
| `CustomerEngineCrashFirst` | the same with a crash after the first write and no cancellation | *violates* `CompletedMeansSettled`: finding 1 |
| `CustomerEngineCancelMid` | the same with cancellations at every moment (`MidCancel = TRUE`) and no crash | *violates* `CompletedMeansSettled`: finding 2 |
| `CustomerService` | one manual caller, one ticking caller, all three gates, a rival process | `ActiveRunIsOwned`, `OkMeansOwnRun`, `LeadershipIsReturned`, `ScheduledRunHoldsLeadership`, `EveryRequestAnswered` |
| `CustomerServiceTwoTicks` | two ticking callers and one elector | *violates* `ScheduledRunHoldsLeadership`: finding 3 |
| `BatchPrograms` | batch programs: five records each, chunks of two; a blank record, repeated ids, exhausted budgets, crashes, cancellations, corrupt checkpoints. SQS: two workers, a redelivered, a foreign and a refused message, failing calls. Graph: two processes, leftovers of earlier runs. Placement: two callers, products named in opposite orders | `NothingIsLost` (prefix, nothing behind the checkpoint, acknowledged is recorded or worked on, stock is conserved), `ReportsAreTrue`, `TornBlocksProgress` (a torn chunk is never overcome), `FirstRecordStays`, `ProgramsFinish` |
| `OrderWorkflow` | two request slots, two orders, five clashing commands | `TablesAgree`, `AckedIsRecorded`, `ConflictIsFinal`, `OrdersMoveForward`, `EveryRequestEnds` |
| `OrderWorkflowEmptyValue` | one id with two metadata maps, one value empty | *violates* `AckedIsRecorded`: finding 4 |
| `StorePrograms` | two callers of each program; one order with two items of which one is edited; reused identities; a list limit below the number of rows; searches with and without bounds, ascending and descending, limits at and beyond both ends; colliding Bloom bits; two Redis instances, two JWT nodes that share one `NODE_ID`, of which one is restarted; files with every fault | `RowsAgree` (what is kept in several places), `TotalMatchesItems`, `AnswersAreTrue` (answers hold of the store, walks are complete, totals are near, imports are graphs and round trips faithful, tokens verify while their key is among the latest `Capacity`, has not ended and keeps its kid), `GrantsAreBounded` (admitted once, sessions end) |
| `SqlOrderLostUpdate` | the same with both items edited | *violates* `TotalMatchesItems`: finding 5 |
| `Services` | moderation: two clients, five submissions over four ids, a capacity of three, pages of one (the default limit) and a limit that is too large; order process: one handler, two outbox records of one order, two attempts, a relay that returns with or without error at any time, stores that fail to close; workflows: every request and a client that leaves at any moment; machines: two clients, two keys | `PagesAreComplete`, `ReportsHold` (moderation answers, clean return of `RunServer`, lifecycle and effects agree, the answer names the cause, one winner per move, retries are replayed), `NothingLeftBehind`, `RunsAreSagas` (refinement of `Saga`), `StreamIsCommitted`, `ShutdownInOrder`, `EventuallyReturns`, `EventuallyExits`, `EventuallyRelayed` |
| `CompensationLateCancel` | the same with `LateCancel = TRUE` | *violates* `NothingLeftBehind`: finding 6 |

Each passing run also checks the type invariant of its modules.

The three `CustomerEngine` runs share one setting and divide the disturbances: the first has all of
them except a crash inside the first chunk and a cancellation while a record is exposed, which the
other two show to lose a customer.  So `EventuallySettled`, too, holds only without those two.  In chunks of two, the
fixture's size, an exposed record is the first that its chunk writes and is stored when a crash comes, so that there the rollback
must only not go too far; for larger chunks it is what keeps `SafeCheckpoint` true, which
`RestartIsSafe` proves for every size.

**Bounds.**  Five records in chunks of two give two full chunks and a partial one, a crash in
each of them, and a skipped record with an accepted one before it in the same chunk.  Three
disruptions suffice to disturb a run, its restart and the restart of that.  Two request slots
give every pair of racing transactions; the semaphore admits more, but a lock or a unique key
is contended pairwise.  Two attempts give a retry and a dead letter.  Four content ids and a capacity of three let a record
appear between two pages of a search and let a create meet a full store.  Two message slots and two
workers give a redelivery to the worker that still holds the message and to the other; two faults
(three for tasks) a lost acknowledgement and the failure of its repetition.  Three keys whose bits
overlap pairwise give the false positive that two inserted keys make for a third.  Five clock units
for a refresh lifetime of two let a session be refreshed in its last unit and end.  `Safe = 4` and
`MaxInt = 8` stand for 2^53 and 2^63 - 1; what matters, that doubles beyond `Safe` are even, is kept.
Three revisions with a limit of one give three pages, and clocks that disagree; one semaphore slot
for two clients is always contended.  `MaxDisruptions`, `MaxCancels`, `MaxRuns`, `MaxFaults`, `MaxEvents`, `MaxVersion`, `MaxMessages`,
`MaxTokens`, `MaxKeys`, `MaxDelay`, `MaxTime` and `MaxHandlers` bound how often the environment
interferes, never what the code does.

**Fairness.**  A goroutine that can go on does (weak fairness of each request's or run's own
steps): the Go scheduler is preemptive and none of the modelled code spins.  Operation timeouts
and the shutdown timer fire (`context.WithTimeout`, `time.NewTimer`).  The scheduler's ticker
keeps starting batch runs.  Nobody is obliged to send requests, to cancel, to campaign, to
restart a dead process, or to finish a hanging handler.  In `BatchPrograms` a clean start of the
account migration has strong fairness, since an operator's crashing starts can interleave with it.
In the same run a worker keeps polling and a visibility timeout passes (weak fairness), a message
that is visible again and again is delivered (strong fairness: a message that is refused for ever
may come first each time, SQS still serves the others), and the steps at which `PlaceOrder` waits
for a row or a key have strong fairness, because PostgreSQL grants a lock to its waiters in turn.
`StorePrograms` checks safety only.  In `Services` the steps of `RunServer`
and its timer are fair, its handlers are not; the relay, the main goroutine of the order process
and its shutdown timer are fair, its handlers and a cancelled relay are not; the goroutines of
the workflow runner are fair, the timer of its slow check is not, so that only the cancellation
can end it.

**Deadlock** is checked except in `BatchPrograms` and `Services`, where a program stops for good
after its last run, after `RunServer` has returned or after its request has been answered.

## 4. Findings

1. `RunBatch` writes `Checkpoint{NextIndex: DefaultChunkSize}` after a writer crash when the run
   started without a checkpoint, also when no chunk was written: the crash after the first write
   leaves `cust-1002` behind the checkpoint, and the restart completes without it.
2. Only `ErrWriterCrash` rolls the checkpoint back.  Under the documented save after a skip, a
   cancellation between the skip and the chunk's write loses the accepted record before it.
3. A tick that got `ErrAlreadyLeader` runs on leadership which the tick that acquired it resigns
   first.
4. `metadataEqual` reads a missing key as the empty string, so `{"source": ""}` equals
   `{"channel": "web"}` and a reused command id is answered as a replay.
5. `UpdateItemQuantity` recomputes the total from a sum that does not see a concurrent,
   uncommitted edit of another item of the same order; the later `UpdateTotal` overwrites the
   earlier one and the stored total misses an edit.  The example concedes the limit in its notes for
   production (README.md:181 and service.go:981: optimistic versioning before concurrent item edits).
6. `execute` of `compensation-workflow` protects the compensations from cancellation only when the
   forward workflow was itself cancelled.  A client that leaves after a *failed* forward workflow
   cancels them, and a payment or a reservation stays behind; `order-fulfillment-integration`
   always uses `context.WithoutCancel`.

Where a comment, a test or a README of the repository says something else than the code does, and a passing
property says what the code does:

* `distributed-jwt-key-rotation/README.md:47` has a rotation "retain the old key until its TTL window
  ends" (also lines 51-53).  The repository is opened with `Capacity: 3` (service.go:184), so the third
  rotation after it drops a key whatever its TTL, and tokens that have not expired are refused.
  `RetainedTokensVerify` therefore has "after `Capacity` later keys" among its exceptions.
* The test of the same example (service_test.go:52) has a forced rotation change the kid.  `nextKID`
  starts again with the process, and `NODE_ID` is `api-1` unless it is set, so after a restart, or
  with two processes, a rotation can give a kid that Redis still keeps: it is refused, or it
  replaces a key whose tokens are still out, and then names no previous key.  `RotationsAreTrue` and
  `RetainedTokensVerify` say that this needs two processes or a restart.
* `order-fulfillment-integration/README.md:80` answers a caller's cancellation with 408.  A client that
  leaves inside a transition gets a failed work and 409: `transition` maps every error of the machine
  to `Failed`.
* `gin-audit-query-api` (model.go:47) calls the boundary of `NextPage` exclusive.  The code, its
  README and `WalksAreComplete` have it inclusive.
* `QueryTenant` of `dynamodb-conditional-repository` reads one page of a partition, although its
  comment (repository.go:169) speaks of all items of the tenant; `QueryShowsStored` therefore says
  that what is returned is stored, not that everything is returned.

What else the models show, in behaviours that no document of the repository excludes:

* `metadataMatches` of `mod` (service.go:353) reads a missing key as the empty string like
  `metadataEqual` in finding 4, so a filter with an empty value also selects records without it.
* A Redis admission whose `Put` took effect but whose statistics failed is answered 503, and its
  retry *probably seen*; a checkout whose `nextID` fails leaves its key admitted.  Both lose an
  admission and never grant two, which is what `GrantsAreBounded` says.
* A refreshed access token carries the role and the scope that the service is configured with, not
  those the session was opened with.
* The integer 2^53 + 1 of an NDJSON file arrives as 2^53, inside the safe range, since the decoder
  has rounded it before `normalizeFloat` looks.  A file the program exported itself keeps its
  meaning over any number of round trips (`RoundTripsAreFaithful`).

## 5. Proofs

Every theorem is about all values of the constants that its module's named assumption admits
(`RuntimeAssumption`, `ModerationAssumption`, `ServiceAssumption`, `GuardAssumption`, ...: bounds are naturals, a
capacity and a number of attempts are positive, sets of bits and of lines are finite and not empty,
the value that stands for a free mutex is no caller).  Where a theorem
needs more, the condition is named, and a run of section 4 shows what happens without it:

| Condition | Theorems | Without it |
|---|---|---|
| no step `Loses`: no run ends by a cancellation or an exhausted budget while a record is exposed, no first run crashes inside its first chunk; `HonestStart`: the store that is handed in claims no record | `RestartIsSafe`, `CompletionIsSound` | findings 1 and 2 |
| `SafeSetting`, of the constants alone: crashes outside the first chunk and, under the documented step, a skip budget that covers the source and `MidCancel = FALSE` | `ConfiguredRunsAreSafe` | findings 1 and 2 |
| `OneTicker`: one source of ticks | `OneTickerIsLed` | `CustomerServiceTwoTicks` |
| `NoEmptyValues`: no metadata value is empty | `AnswersStayTrue` | `OrderWorkflowEmptyValue` |
| `LateCancel = FALSE`: the client does not leave between the failure and the answer | `CompensationIsComplete`, `CompensationImplementsSaga`, `ServicesLeaveNothingBehind`, `ServicesAreSagas`, `ServicesTypesCorrect` | `CompensationLateCancel` |
| `OneEdited`, `OneItemEdited`: the edits of an order are of one item | `OrderTotalsAreSums`, `StoresTotalsMatch` | finding 5 |
| `AccountSafe`: no checkpoint exists before the first run that claims stored accounts | `AccountsArePrefix`, `TornChunkBlocks` | the reader skips them, as it was told |

So these theorems say that nothing else can go wrong in the same way.

**`BatchProofs`**, first for the customer migration, every source, scenario, chunk size and budget: `TypeCorrect`;
`RestartIsSafe` (`SafeCheckpoint`) and `CompletionIsSound` (`CompletedMeansSettled`), for both readings of
`SaveAfterSkip` and with crashes and cancellations at any moment, as long as no step is one of the two that findings 1
and 2 exhibit (`Loses`); `ConfiguredRunsAreSafe`, by which `SafeSetting`, and so the setting of the run
`CustomerEngine`, has no such step;
`CheckpointOnlyAdvances` (`CheckpointNeverRegresses`) and `ResponseIsTrue` (`ResponseMatchesStore`), the last
two in every setting.  The first safety invariants are not inductive: while a run is under way
the stored checkpoint may be ahead of what a crash leaves behind.  The inductive invariant `IInv`
conjoins `TypeInv`; `ReadIsAccounted` (every record read so far is settled, in the chunk, or the one
being processed); `ChunkIsRead`; `OutcomeByScenario`; `WrittenInOrder` (the writer works in source
order, so what a crash leaves is a prefix of the chunk); `CheckpointsCovered` (nothing before the
stored checkpoint or the snapshot is unsettled); `StepShape` (what each program counter says of
chunk and end of file); `CompletionIsTrue`; and `CrashLeavesFirstChunk` (a crash in a run without
snapshot happens only when the first `ChunkSize` records are settled, which the rollback relies on).
`SettingInv` adds for `SafeSetting` that skips are of different permanently failing records, so that the budget
lasts, and that a cancelled run has nothing exposed.

Then for the seven programs of `MCBatchPrograms`, each with an inductive invariant of its own:

* `AccountsArePrefix` (`CommittedPrefix`, `CompletedMeansMigrated`) and `TornChunkBlocks` (`TornBlocksProgress`) of
  `RunMigration`: between the checkpoint and the target store a run either has the chunk from the
  checkpoint on or only accounts that are not stored (`AccountRuns`); once the store is ahead of the
  checkpoint between runs, every later run fails at its first write (`AccountBlocked`).
* `ImportLosesNothing` of `RunImport`: what was read and is not in the chunk is stored, and each row of
  the sink is the first of its customer (`CsvRuns`, `CsvSink`).
* `DocumentsAreRecorded` and `FirstRecordIsKept` of the document workflow: what a worker knows at each
  stage of its event, object and record stays true because no step takes an object, a record or a sent
  body back (`DocGrows`).
* `TasksAreWorkedOn` of the task worker: the deliveries of a message that are about to be acknowledged
  are at most as many as its handler runs, and those at most one more than the faults (`TaskMessage`).
* `TicketsAreNotLost` and `ReportedWritesAreStored` of the ticket worker.
* `PlacementConservesStock` and `PlacedOrdersAreStored` of `PlaceOrder`: two callers that lock a product in
  common are apart (`PlacingApart`), and what a caller has read under its locks is still the stock.
* `ClientsAreClosedOnce` and `ReplacementRemovesLeftovers` of the graph analysis.

**`CustomerServiceProofs`**, for any callers and every gate: `ServiceTypes`, `OneRunAtATime`
(`ActiveRunIsOwned`), `AnswersAreEarned` (`OkMeansOwnRun`), `GateGivesBack` (`LeadershipIsReturned`) and
`OneTickerIsLed` (`ScheduledRunHoldsLeadership`).  The invariant says where the flag, the cancel function
and the acquired leadership are at each place of a handler: only the caller inside the run may
finish it, only a tick between `Campaign` and `Resign` has acquired.

**`OrderWorkflowProofs`**, for any requests, orders and commands, with deadlines, ambiguous commits and
crashes: `WorkflowTypes`, `OneStory` (`TablesAgree`), `OrdersOnlyAdvance` (`OrdersMoveForward`),
`ConflictsAreFinal` (`ConflictIsFinal`) and `AnswersStayTrue` (`AckedIsRecorded`).  The argument is the one
the code relies on: at most one transaction holds an order row (`RowsLocked`) and at most one a
command id (`IDsLocked`), what a transition has read under the lock is still what the table holds
(`ReadsHold`), and what it is about to commit is the next revision (`WritesAdvance`).

**`ApiProofs`**, for every request of the two examples with compensations:
`CompensationIsComplete` (`NothingLeftBehind`), `CompensationImplementsSaga` and `FulfillmentImplementsSaga` (the
refinements of `Saga`), `FulfillmentAnswersAgree` (`LifecycleMatchesEffects`).  The invariants say for each place
in the code which effects stand and which compensations are registered or due.  The refinements
have one step per action that names the step of the saga, from lemmas about the lists of works a run
can have.  The second program needs no condition on the client: its compensations run under a
context without cancellation.

For any concurrent requests: `OrderMovesAreExclusive` and `OrderSnapshotsFollow` of the order
lifecycle API (the rank of the state a mover started from identifies it); `PaymentRetriesAreReplayed` and
`PaymentEntriesAreMoves` of the payment API (what was stored when a request arrived is stored still);
`ModerationAnswersHold` of the moderation API (`RequestHolds` says what each place of `Create`, `Get` and
`Search` knows of a store that only grows) and `ModerationPagesAreComplete` (`PagesAreComplete`) of its search.  The
latter rests on `SearchInv`: the pages collected so far are, in order, the matching records up to the
cursor, and every record that matched at the start and lies behind the cursor is still to come.  The
sort of `Search` is `Sorted`, which puts an id where its rank is, so that the provers can say which
element comes next.  For the order process `RuntimeTypes`, `DeliveryIsAtLeastOnce`
(`StreamIsCommitted`) and `ShutdownKeepsOrder` (`ShutdownInOrder`), from an invariant of the relay
(`RelayIsHonest`: a claim that was published is in the stream) and one of `RunLifecycle` (`LifeInv`: at each
stage what is stopped, drained, cancelled and joined); for the moderation server `ServerReturnsClean`
(`CleanReturn`).

**`StoreProofs`**, for any requests:

* `EventsAreAdmittedOnce` and `ServersAgree` of the shared admission filter, for every hash function: at
  most one request is about to admit an event, and its bits are set.  `StatsCountOwnBits` (`StatsInclude`): the counts
  a request has read never exceed what the filter holds, which only grows, and an admission reads
  only after its bits are in (`ReadsFit`).
* `CheckoutsAreCreatedOnce` of the checkout guard: a key is held by one request between its admission and
  its answer, and the filter is the union of the bits of the admitted keys.
* `SessionsComeToAnEnd` of the session tokens, for all lifetimes and delays.  The attempt to prove it
  corrected the property: its former bound allowed for one slow request where two can be slow, the
  one that issues the session and the one that refreshes it, which a delay of one tick does not tell apart.
* `RenamesAreNotLost` (`NoLostRename`, `QueryShowsStored`) of the catalog: the log of accepted writes of an item has
  an entry for each of its versions, and what a query has read is an entry of it (`VersionsAreLogged`,
  `AnswersAreLogged`).
* `OutboxIsTransactional` (`OrdersHaveRecords`, `PrintedIsPublished`) of the outbox command: a process between claim
  and result holds the record it publishes, and what it was told was sent is in the stream.
* `HistoryIsTrue` (`HistoryLeads`, `CommandsAreUnique`, `AnswersAreRecorded`) of the order history: only the holder of the
  mutex is between append and map, and then the newest entry is its own (`MutexIsHeld`, `CommandStands`,
  `MapFollows`); the entries of an order link without gap (`EntriesLink`).
* `OrderAggregateIsWhole` (`AggregateIsWhole`, `AnswerShowsOwnWrite`) of the SQL order service: a create has its rows to
  itself until it commits (`CreatesDiffer`, `CreateStands`), and from its commit on a request knows its own
  event, which is the newest as long as no other edit committed, and then the items are its own too
  (`OwnIsThere`, `OwnIsShown`).  `OrderTotalsAreSums` (`TotalMatchesItems`) is about its total, for any number of
  lines and prices, when the edits of an order are of one item: the row lock of the edited item then keeps
  two edits apart between their sums and their commits (`TotalStands`).
* `SlotsComeBack` (`SlotsAreReturned`) of the audit routes: the requests that run are finite in number and as
  many as the slots that are taken, of which there are never more than `MaximumConcurrent`.
* `AuditWalksAreComplete` (`WalksAreComplete`) of the same routes: the revisions shown so far lie, in order, below the bound
  of the request that continues the walk, and what matched at the start and was not shown matches that
  request (`WalkGoesOn`); `FoundFits` and `ReplyFits` say the same of a page before and after the row beyond its
  limit is cut off.  The sort of the query is `Sorted` here too.
* `CrudAnswersAreTrue` (`AnswersMatchTable`) of the CRUD API: versions only grow, a row that is gone stays gone
  and no two requests create the same id, which is what the row that an update rereads and the rows that an
  answer shows rest on (`CrudStands`).
* `RotationsKeepTokens` (`RotationsAreTrue`, `RetainedTokensVerify`) of the JWT nodes, for any node ids
  and restarts: the counter of a process is ahead of the keys it has made since it started (`KeysArePast`), so two
  keys of one process differ (`KeysDiffer`) and equal kids come from two, and a key that is pushed out, has
  ended or lost its kid stays so (`KeysStay`).

**`ServicesProofs`** proves what the run `Services` checks of the composition: `ServicesDeliver`
(`StreamIsCommitted`), `ServicesStopInOrder` (`ShutdownInOrder`), `ServicesReportsHold` (`ReportsHold`),
`ServicesLeaveNothingBehind` (`NothingLeftBehind`), `ServicesAreSagas` (`RunsAreSagas`), `ServicesPagesAreComplete`
(`PagesAreComplete`) and `ServicesTypesCorrect` (`TypeOK`); and `RunnerNamesCause` of the
workflow runner, which has no constants.  It instantiates `ApiProofs` with the constants
of the composition (`Sagas`, `Apis`), shows that the two instances of a component are the same (`SameProcess`,
...) and that a step of the composition is a step of the program that runs, and cites their lemmas.

**`StoreProgramsProofs`** does the same for the run `StorePrograms`, with `Grants` for its instance of
`StoreProofs`: `StoresGrantWithinBounds` (`GrantsAreBounded`), `StoresRowsAgree` (`RowsAgree`) and
`StoresTotalsMatch` (`TotalMatchesItems`).  The rows that
`Find` of the audit routes shows are left open there, since the slots do not depend on them.

**`BatchProgramsProofs`** does the same for the run `BatchPrograms`, with `Each` for its instance of
`BatchProofs`: `BatchTypesCorrect` (`TypeOK`), `BatchLosesNothing` (`NothingIsLost`), `BatchTornBlocks`
(`TornBlocksProgress`) and `BatchRecordStays` (`FirstRecordStays`).

Only model-checked:

* liveness under fairness, which is out of the prover's reach;
* what the library's sort and folds compute for every input: the walks of the audit query API,
  `TotalIsNear`, `ImportIsAGraph` and `RoundTripsAreFaithful`, and with them the composite property
  `AnswersAreTrue`, of which every other part (order, command, CRUD, history, audit routes, catalog, JWT
  nodes and admission statistics) is proved in `StoreProofs`;
* `ReportsAreTrue` of `MCBatchPrograms`: the part of the ticket worker and of `PlaceOrder` is proved in
  `BatchProofs`, the printed clusters (`PrintedIsRight`) are a closure over the fixture's edges in a sorted order;
* `TypeOK` of `MCStorePrograms`: the types of the audit query API and the graph import are not proved.

## 6. Plan

1. *(done)* batch step and the four batch programs; customer service; order commands and process.
2. *(done)* SQL order service, placement, outbox command, CRUD API; moderation service and server
   lifecycle.
3. *(done)* workflows and state machines: the abstract saga and two refinements, the runner with
   concurrent checks, the two state machine APIs.
4. *(done)* audit histories and their paging; token refresh, JWT key rotation, checkout guard,
   shared admission filter.
5. *(done)* SQS workers with at-least-once delivery over conditional writes, the catalog repository,
   the graph analysis and the graph import.
6. *(done)* theorems of the customer migration, the batch programs, the SQS workers, the order commands,
   the order process, the moderation API and server, the sagas, the two state machine APIs, the stores and
   grants, and of the three compositions.
7. Theorems left: the walks of the audit query API, in both directions, along the lines of `WalkInv`; the printed
   clusters.

## 7. Not modelled

Besides the parts of 1.2 and 1.3: reads that change nothing and feed no answer modelled here
(delivery statistics, health), JSON shapes, address parsing, the process shells that only start and
stop an HTTP server or run a demonstration, previews, signatures of tokens (taken as unforgeable), the wrap-around of
`quantity * price` at 2^63 cents, schema DDL (its constraints are guards of the inserts), and a panic inside
`RunBatch` (`finishRun` is not deferred, so a panic would leave the service busy; `net/http`
recovers it, no test or document says what should happen then).
