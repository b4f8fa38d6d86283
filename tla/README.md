# picklist-api: verification project

TLA+ models of picklist-api (`src/`, whose code is in `src/src/`), checked with
TLC on small instances and, where marked, proved with TLAPS for every value of
the constants. Paths below are relative to `src/src/`.

## 1. The system

Express replicas (`api`) serve `/api/v1/products` and `/api/v1/picks` over
Postgres; a pick is only accepted there and is carried out by an
`inventory-worker` process behind RabbitMQ; an `audit-worker` logs every
lifecycle event. Redis, when configured, holds the idempotency keys all api
replicas share.

| Component | State | Operations | Interacts with | Correct when |
|---|---|---|---|---|
| products table, `PostgresProductRepository` | one row per `product_code` | create, findByID, findAll, update, applyQuantityDelta, remove | called by the use cases and by the inventory worker | stock stays in range; each request has at most one indivisible effect |
| product use cases and controllers | none; the statement a request awaits | create, find, list, update (set or delta), delete | repository | the answer tells the truth about the effect |
| CreatePick use case | the await a request is at | claim, lookup, replay, conflict, publish | idempotency store, pick queue | a key yields one pick while its claim stands; an accepted pick is published |
| idempotency stores | key -> (pickId, payload), with a TTL | setIfAbsent, get | CreatePick | a key is granted once per lifetime of its entry |
| `RabbitMQPickQueue` | none | publish created / completed / failed | channel cache | a publish that returns was handed to the channel |
| connection and channel cache | two cached promises | getConnection, getChannel, 'error' exits | everything that publishes or consumes | a dead connection is never handed out for good |
| topology | exchange, six queues, their bindings | setupTopology | workers at start | an event reaches each of its consumers once |
| `consumeWithRetry` | one unacked delivery per worker, `x-retry-count` | deliver, retry, dead-letter, ack | broker, handler | nothing lost, retries bounded, every message settles |
| backoff | none | computeRetryDelayMs | consumeWithRetry | the delay stays within its bounds |
| ProcessInventoryPick, inventory worker | none; where the handler is | decrement, publish outcome, shutdown | repository, pick queue | outcomes are true |
| audit worker | none | log | audit queue | one line per event |
| startup, migrations | `schema_migrations` | runMigrations, listen, shutdown | Postgres | each migration is applied once, whoever starts first |
| product listing | none; a page and a count awaited together | findAll | pool, readers that walk by offset | a walk misses or repeats products only because of edits |
| connection pool | statements that run, statements that queue | query | every repository call, readiness | a late result is nobody's answer; what is abandoned goes away |
| readiness | none | two checks raced with a timeout | pool, channel cache | reports what is usable, in bounded time |
| HTTP pipeline | rate-limit counters | authentication, limits, validation, errors | all routes | only validated input reaches a use case |

What is hard in it: every `await` between two statements, store commands or
publishes is a point where other requests, other replicas and the worker may
act; a reply may be lost after its effect; a worker may die between the
decrement, the outcome event and the ack; a queue redelivers; a claim and the
publish it protects are two steps. `PROJECT.json` lists these hazards at their
lines, with the properties that watch them.

## 2. The modules

| Module | Models |
|---|---|
| `ProductTable` | the table and the pure effect of each SQL statement on it (a statement is atomic: Postgres serialises writers of a row) |
| `ProductApi` (extends it) | product requests, one statement at a time: sending a statement, its execution, and the use case resuming with its result are separate steps |
| `StockContract` | abstract: what the API promises about stock; `ProductApi` implements it |
| `PickPipeline` (extends `ProductTable`) | a pick from its event to its outcome: the three inventory queues, worker replicas in consumeWithRetry and ProcessInventoryPick, API edits of the same table, faults |
| `PickRequests` | `POST /picks`: claim, lookup, publish over either idempotency store, with expiry and faults |
| `PickContract` | abstract: what the service promises of a pick it accepted; `PickPipeline` implements it |
| `EventRouting` | all six queues, their bindings and dead-letter keys, both workers' retries with real delays, the audit log |
| `BrokerChannel` | the cached connection and channel of every process, publishes and probes that share them, `setupTopology`, a broker that stops and comes back empty |
| `PoolReads` | the connection pool: page and count of a listing on two connections, walks by offset during edits, readiness checks that time out |
| `Migrations` | api replicas starting together: `runMigrations`, then listening; deaths and restarts |
| `ProductApiMC`, `PickPipelineMC`, `PickRequestsMC`, `EventRoutingMC`, `BrokerChannelMC`, `PoolReadsMC`, `MigrationsMC` | instances for TLC |
| `ProductTableTheorems`, `ProductApiProofs`, `PickPipelineProofs`, `PickRequestsProofs`, `EventRoutingProofs`, `BrokerChannelProofs`, `PoolReadsProofs`, `MigrationsProofs` | lemmas, theorems and proofs |

`PickPipeline`, `EventRouting` and `BrokerChannel` look at the same messages at
three scales: what a pick does to the stock and to its own delivery, where each
copy of a message goes and when, and whether a publish reaches the broker at
all. Each leaves to the others what they are about, because their product is out
of TLC's reach.

Definitions headed "Mutant" are slips a change to the code could introduce (a
dropped guard, a missing rethrow, SET without NX). Nothing refers to them. They
are kept beside the definition they replace to show that each property is
sensitive to the code: with the definition replaced, TLC finds the property
violated.

### ProductApi

`pc[r]` is the statement request `r` awaits. `Insert`, `Select`, `Update`,
`Adjust` and `Delete` are the database running it (`postgresProductRepository.ts`);
`Created`, `Found`, `Changed`, `Unmatched`, `Removed`, `NotFound`, `Conflict`
and `ServerError` are the use case resuming with `reply[r]`. `Found` sends the
second statement of an absolute set, `Unmatched` the SELECT that explains a
delta that matched no row. `LoseConnection` turns an awaited reply into an
error: the statement was never sent, has already committed, or is at the server,
waiting for a row lock for instance. The pool sets no `statement_timeout` and
cancels nothing, so in the last case (`late[r]`) it may run at any later moment,
or never, also after the client has its 500 and other requests have come and gone.
Validation is abstracted to the set of inputs the schemas let through. `effects`
and `restocked` are history variables.

`StockContract` has one indivisible, guarded effect per request, and what the
client was told: after a success or a refusal nothing more happens, after a 5xx
(`unknown`) the effect may have happened, may still come, or never.

### PickPipeline

`pc[w]` follows worker `w` through the handler: `handle` (the guarded UPDATE),
`recheck` (the SELECT that explains it), `completed` or `failed` (about to
publish the outcome), `error` (in the catch block), `ack`, `idle` or `down`.
`open[w]` says whether the broker still considers its channel open: once it
does not, the unacked delivery is back in the queue while the handler may still
be running, which is what shutdown and a forced close do. Queues are bags:
with competing consumers, requeueing and jittered delays, the code can rely on
no order. The publishes and acks of a worker travel on one channel in order, so
a connection loss cuts off a suffix of them; hence a publish or an ack and its
arrival at the broker are one step. `taken` and `errors` are history variables.
A worker that dies at its UPDATE, or loses its database connection there, may
leave the statement behind (`LeavesUpdate`): nothing cancels it, so it may run at
any later moment (`RunsLate`), next to the redelivered or retried one. `late[k]`
counts such statements.

`PickContract` has neither workers nor queues: `asked`, `short`, `taken`, the
two kinds of report, `abandoned` and a count of `mishaps`. The mapping reads the
stock off the table, `short` off the workers that have found too little and not
yet reported it, `abandoned` off the dead-letter queue, and takes faults for
mishaps. It says what no invariant of the pipeline says: that stock moves only
by an edit or by exactly a pick's quantity, that a failure is reported by an
attempt that met it, that each completion has a decrement of its own, and that
a proper pick is given up only after more faults than it has retries.

### EventRouting

`queue[q]` is FIFO; an unacked delivery stays the head of its queue (prefetch 1,
and docker-compose.yml runs one process per worker), so a crash before the ack
requeues it in its place. `Routed` is the exchange, `BindingKeys` and
`DeadLetterKey` are `topology.ts`. A message carries its body (what it was first
published as), its current key, `x-retry-count`, its expiration and the time it
has waited. `Tick` is time, in units of the configured delays, and the broker
expires what is due first; only the head of a delay queue expires. `Picked`,
`Rejected` and `DatabaseFails` are the inventory handler's three ways to end,
`Log` and `NotParsed` the audit handler's; `Fails` is the catch block of
`consumeWithRetry` with `computeRetryDelayMs` (`Exponential`, `Delays`).
`unparsable`, fixed in `Init`, tells malformed bodies that are JSON (the audit
worker logs them) from those that are not (it retries them). What a pick does to
the stock is left to `PickPipeline`: here it completes or fails. `sent`,
`logged` and `misnamed` are history variables.

### BrokerChannel

`conn[p]` and `chan[p]` are the two cached promises of `connection.ts` for
process `p`: absent, pending, resolved, or resolved to something that has closed
since. `Dials`, `Joins`, `Cached` and `Rejects` are the four ways `getChannel` can
go; `Connects`, `DialFails` and `Opens` settle the promises, and because the
continuations of all who await run in the same turn, `Opens` publishes for all of
them. `Ends(P, Q, gone)` is the end of the connections `P`: an 'error' event exits the
process and the container restarts it with empty caches; a close without 'error'
(`Q`) leaves a dead connection cached; the picks `gone` leave the queue with a
broker that is recreated without its data (`Outage` with `declared' = 0`). `wire[a]` is what was written to the socket
and not read by the broker: `Routes` reads it, drops it if the queue is not
declared, and closes the channel if the exchange is not, which ends the process.
`Topology` abstracts `setupTopology` to its order as a publish can tell it apart:
the exchange, `picks.inventory`, the other queues. The readiness check
(`Probes`, `ProbeTimesOut`) awaits the same promises. A client that was refused or
dropped sends again, to any api process.

### PoolReads

`pool` is the line of statements of one pg pool: the first `PoolSize` have a
connection and run in any order, the others wait. `List` submits the page and the
count together (`Promise.all`); `ReadsPage` and `Counts` read two snapshots, and
whichever comes second sends the page with `hasMore`. `Pages(n)` is `ORDER BY
pick_location LIMIT OFFSET`: products with the same location come in either order,
another one each time. `Fails` answers 500 on the first failure while the other
statement runs on for `Nobody`; `CheckTimesOut` answers a probe while its query
stays in the pool. A hang is one of the whole database, every running statement at
once; a single connection that no longer answers, with the others alive, is not
modelled. `stable` (the products that did not move, alone in their
location, since the walk began) and `since` are history variables.

### PickRequests

Every request brings its own fresh pickId, so the request stands for it. The
variable `shared`, fixed in `Init`, chooses Redis or one map per replica.
`StoreFails` covers the command that was executed although its reply was lost;
`PublishLost` the message that was buffered and never sent (the code uses no
publisher confirms); `ReplicaCrashes` loses the requests and, with the in-memory
store, the entries of a replica.

### Migrations

`pc[r]` is the statement replica `r` is about to run in `migrate.ts`, `at[r]`
the file it works on. No lock spans the SELECT and the transaction, so replicas
may run the same file at once: the INSERT of the name waits for a transaction
that inserted the same name (`RowFree`) and then fails if it committed; the SQL
of the file may fail for the same reason, or be repeatable and succeed. Both
are `LosesRace`: rollback, rethrow, exit, `Restart` by the container. `Shipped`
gives each replica the files of its own image. `CommitLost` is a COMMIT that
took effect although its reply was lost. `commits` and `lost` are history
variables.

## 3. What TLC checks

| Run | Instance | Shows |
|---|---|---|
| `product_api` | 3 requests of any kind, 1 product, quantities 0..2 with INTEGER ending at 3, 1 lost connection, after which its statement may run late; symmetry over requests; 456,060 states | `TypeOK`, `AnswerMatchesEffect`, `FalseRefusalNeedsRestock`, and that `ProductApi` implements `StockContract` |
| `product_refusal` | 2 requests, no lost connection | `RefusalMessageIsTrue` fails: a delta matches nothing, the other request creates the product, the SELECT reads it |
| `pick_pipeline` | 2 equal picks competing for a product, of which stock covers both, one or none, and a malformed message, 2 workers, 1 retry, 2 faults, 1 edit; symmetry over workers and over the two picks; 1,365,396 states | `TypeOK`, `NoPickLost`, `CompletedWasTaken`, `RepeatsNeedFaults`, `DeadAfterAllRetries`, and that `PickPipeline` implements `PickContract` |
| `pick_liveness` | 1 pick and a malformed message, 2 workers, 1 retry, 1 fault; no symmetry; 16,458 states | `PicksSettle` under `Fairness` |
| `pick_twice` | 1 pick, 1 fault | `TakenAtMostOnce` fails |
| `pick_audit` | 2 picks, 1 fault | `CreatedAuditedOnce` fails |
| `pick_requests` | 3 requests, 1 key (or none), 2 payloads, 2 replicas, both stores, 2 faults, 2 expiries; symmetry over requests, payloads and replicas; 38,109 states | `TypeOK`, `OneEventPerClaim`, `OnePickIdPerClaim`, `AnswerFitsPayload`, `AcceptedGetsPublished` |
| `pick_replay` | 2 requests, 1 fault, no expiry | `ReplayIsProcessed` fails: the reply of SET NX is lost, the retry finds the claim |
| `migrations` | 3 replicas, one of an image with 1 of the 2 files, 2 faults; 210,449 states | `TypeOK`, `AppliedOnce`, `ServesMigrated`, `LosesOnce`, and `AllServe` under `Fairness` |
| `broker_channel` | 1 api process, 2 workers, 2 requests, 2 faults; 121,633 states | `TypeOK`, `OneConnection`, `LossNeedsCause`, `RefusedForCause`, and under `Fairness` `ProbesAnswered` and `AcceptedInTheEnd` |
| `event_routing` | 1 pick and a malformed message, 1 retry, base delay 3 and cap 2 (so delays 1 and 2), 2 faults; 902,334 states | `TypeOK`, `WaitBounded`, `AuditedOrDead`, `RepeatsNeedFaults`, `LinesNameTheEvent`, `AmplificationBounded`, and `Drains` under `Fairness` |
| `pool_reads` | 3 products, 3 locations, 1 reader with pages of 1, 2 connections, 1 edit, 1 fault, 2 checks in the pool; 325,320 states | `TypeOK`, `MissesNeedEdits`, `RepeatsNeedEdits`, and under `Fairness` `CheckAnswered` and `WalksEnd` |

**Bounds.** Products do not interact, so one suffices. Three requests are the
least in which one acts between two statements of another while a third undoes
it (delete, then re-create), and two workers the least in which a message is
redelivered while its first handler still runs. Quantities 0..2 contain a stock that covers
both picks, exactly one, and none; `Int4Max` just above `MaxQuantity` makes the
sum of a stock and a delta overflow. `MaxRetries = 1` has a first attempt, a
retry and exhaustion. Two faults allow a fault during the recovery from the first.
For the migrations, two files give an order to respect and three replicas a
race of two besides an image that must not wait for a file it does not have.
In `broker_channel` two workers are the least in which one has declared the
topology and another has not, two requests the least that share a pending promise,
and two faults let the broker come back empty and then lose a connection. In
`event_routing` the jitter gives delays 1 and 2, so a shorter delay can stand
behind a longer one; the cap is below the base delay, so it matters at the first
retry; the malformed body goes round the inventory retries and starts an audit
round at each. In `pool_reads` three pages leave room for an edit before, between
and after, and two connections with four statements make some of them queue.
`MaxFailures`, `MaxFaults`, `MaxEdits` and `MaxExpiries` bound counters in
guards; the theorems below hold for every value of them.

**Fairness** (`PickPipeline!Fairness`). Node runs a ready handler; the broker
delivers to an idle consumer and expires delayed messages, eventually; the
deployment restarts an exited process (`restart: unless-stopped`). A worker
whose connection closed without an 'error' has no consumer, timer or socket
left once its pool's idle clients time out, so its process ends and is
restarted as well; this last point is an assumption about the libraries.
Fairness is weak and per message for deliveries: with bounded faults and a
finite set of messages no message can be passed over for ever. Nothing obliges
clients to pick, or faults to happen. `Migrations!Fairness` is the same: a
replica runs its next statement, and an exited one is restarted.

`EventRouting!Fairness`: time passes, the broker expires what is due and delivers,
handlers end. `BrokerChannel!Fairness`: a broker that is up answers what reaches it,
timers fire, a client retries, a worker starts; nothing says that the broker comes
back or that a dial nobody answers ever fails, for amqplib is given no timeout.
`AcceptedInTheEnd` therefore assumes that the broker stays up from some moment on,
and `WalksEnd` that the database never hangs for ever. `PoolReads!Fairness`: readers go
on, timers fire, each running statement of a database that answers ends.

### What the properties had to assume or leave out

- **A quiet close is for good.** A broker that closes a connection without
  'error' (CONNECTION_FORCED, for instance) leaves the api with resolved promises
  nothing clears: it refuses every publish until it is restarted, while readiness
  still says ok. `AcceptedInTheEnd` holds only if no such connection stays cached,
  and `RefusedForCause` names this cause.
- **Retries do not always wait longer.** `consumeWithRetry.ts` says each retry
  backs off further than the last; with the cap reached and jitter it may wait
  less. `WaitBounded` is what remains true, head-of-line blocking included.
- **The audit budget is inherited.** A pick.created retried by the inventory
  worker reaches the audit queue with `x-retry-count` already raised, and every
  inventory attempt is audited anew; `AmplificationBounded` bounds the product.
- **Ties.** Products that share a location may be skipped or repeated by a walk
  even without an edit; the two properties of walks speak of the others.
- **Late statements** are in `ProductApi` and `PickPipeline`, the two modules that
  change the stock. In `PickRequests` and `Migrations` a lost reply means that the
  SET NX or the COMMIT has taken effect or never will.
- **Publishes and listings have no timeout of their own**, so nothing is claimed
  of a request whose dial or statement never answers.

### Disagreements found

- **Refusal message.** The quantity in the 409 of a delta comes from a second
  statement. When another request creates or restocks the product between the two,
  the API blames negative stock for a delta that the quantity it quotes would have
  allowed. `FalseRefusalNeedsRestock` shows this is the only way a message can be
  false.
- **Replay of an unpublished pick.** Nothing releases a claim. In the run SET NX
  takes effect and its reply is lost: the client gets a 503, nothing is published,
  and the retry is answered 202 with a pickId that nobody will process. A publish
  that fails after the claim leaves it behind in the same way.
- **Double decrement.** Documentation and the messaging test speak of
  decrementing exactly once. One fault between the decrement and the ack
  decrements again; `RepeatsNeedFaults` shows that without a fault it cannot.
- **Audit duplicates.** Retries return under `pick.created`, a key the audit
  queue is bound to, although the topology is designed to keep retries out of it.

## 4. What is proved

For every number of products, requests, keys, picks, processes, replicas, files,
delays, retries and faults, from the named assumptions `TableAssumption`,
`FailuresAssumption`, `PipelineAssumption`, `PickRequestsAssumption`,
`RoutingAssumption`, `ChannelAssumption`, `PoolAssumption` and `MigrationsAssumption`
(naturals are naturals; there are finitely many product codes, `product_code` being a
VARCHAR(50); an image ships a prefix of the files; sentinels are not ordinary values;
an api process is no worker; a pick asks for a positive quantity within the schema's
bound; and, because the provers know nothing of exponentiation, the arithmetical
fact that a power of two is a positive natural):

| Theorem | Statement |
|---|---|
| `ProductApiProofs!TypeCorrect` | `Spec => []TypeOK`: stock never negative, never beyond INTEGER |
| `ProductApiProofs!AnswersAreHonest` | `Spec => []AnswerMatchesEffect` |
| `ProductApiProofs!FalseRefusals` | `Spec => []FalseRefusalNeedsRestock` |
| `ProductApiProofs!Refinement` | `Spec => ImplementsContract` |
| `PickPipelineProofs!TypeCorrect` | `Spec => []TypeOK` |
| `PickPipelineProofs!NothingLost` | `Spec => []NoPickLost` |
| `PickPipelineProofs!CompletionIsTrue` | `Spec => []CompletedWasTaken` |
| `PickPipelineProofs!RetriesAreSpent` | `Spec => []DeadAfterAllRetries` |
| `PickPipelineProofs!RepeatsArePaid` | `Spec => []RepeatsNeedFaults` |
| `PickPipelineProofs!Refinement` | `Spec => ImplementsContract` |
| `PickRequestsProofs!TypeCorrect` | `Spec => []TypeOK` |
| `PickRequestsProofs!OneEvent` | `Spec => []OneEventPerClaim` |
| `PickRequestsProofs!OnePickId` | `Spec => []OnePickIdPerClaim` |
| `PickRequestsProofs!AnswersFit` | `Spec => []AnswerFitsPayload` |
| `PickRequestsProofs!AcceptedIsPublished` | `Spec => []AcceptedGetsPublished` |
| `EventRoutingProofs!TypeCorrect` | `Spec => []TypeOK` |
| `EventRoutingProofs!WaitIsBounded` | `Spec => []WaitBounded` |
| `EventRoutingProofs!NoEventEscapesAudit` | `Spec => []AuditedOrDead` |
| `EventRoutingProofs!LinesAreNamed` | `Spec => []LinesNameTheEvent` |
| `EventRoutingProofs!RepeatsArePaid` | `Spec => []RepeatsNeedFaults` |
| `EventRoutingProofs!AmplificationIsBounded` | `Spec => []AmplificationBounded` |
| `BrokerChannelProofs!TypeCorrect` | `Spec => []TypeOK` |
| `BrokerChannelProofs!ConnectionsAreShared` | `Spec => []OneConnection` |
| `BrokerChannelProofs!LossHasCause` | `Spec => LossNeedsCause` |
| `BrokerChannelProofs!RefusalHasCause` | `Spec => RefusedForCause` |
| `PoolReadsProofs!TypeCorrect` | `Spec => []TypeOK` |
| `PoolReadsProofs!MissesArePaid` | `Spec => []MissesNeedEdits` |
| `PoolReadsProofs!RepeatsArePaid` | `Spec => []RepeatsNeedEdits` |
| `MigrationsProofs!TypeCorrect` | `Spec => []TypeOK` |
| `MigrationsProofs!FilesAppliedOnce` | `Spec => []AppliedOnce` |
| `MigrationsProofs!ServersAreMigrated` | `Spec => []ServesMigrated` |
| `MigrationsProofs!RacesEnd` | `Spec => []LosesOnce` |

The arguments:

- *Product requests.* `TypeOK` alone is not inductive: a statement writes a
  quantity only a request of the right kind may write. `OpOfStatement` ties the
  statement a request awaits to its operation. `EffectOfProgress` says, at every
  point of a use case, how many effects the request has had (none before its
  write, one after it returned a row, at most one once an error was seen, and none
  yet while a late statement is outstanding, whose client has or will get a 500), which
  yields `AnswerMatchesEffect`. `RefusalInv` says that while an unmatched delta
  waits for its explanation, either the row still does not match or the product
  was restocked since; `MatchNeedsRestock` (a table lemma) carries it over other
  requests' writes.
- *Refinement.* A write of a statement is `Apply`, also after the 500; an answer is
  `Tell`, all other steps stutter; `EffectOfProgress` supplies the guards of
  `Accept` and `Refuse`.
- *Picks.* `NoPickLost` is not inductive, because its witness may be a worker
  about to ack. `NoPickLostInv` asks for a witness other than a worker in `ack`
  and, of such a worker, that the pick is covered elsewhere or settled: the
  publish-before-ack order of consumeWithRetry.
- *Completion.* `CompletedInv` adds that a worker about to publish
  pick.completed has taken the stock.
- *Retries.* `BudgetInv` bounds the header of every message, queued, delayed,
  held or dead, by the failed attempts of its pick: redelivery leaves it as is.
- *Repeats of a pick.* Counting effects is not inductive: a copy of a message that
  lies in a queue is an effect to come. `AccountInv` keeps four accounts of each
  pick. Decrements, UPDATEs left behind, failure reports, queued copies and the workers
  that may still act on the pick are together no more than its publication and the
  faults; so are
  reports, copies and the workers that may still report on an open channel; errors
  of a proper pick are no more than the faults; completions, with those about to be
  reported, no more than the decrements. A delivery, a retry and an ack move an
  entry from one side of an account to another, and only a fault adds one: that is
  what requeueing and the order publish-before-ack of consumeWithRetry must not
  break. A bag is counted as the set `Copies` of its numbered copies, so that the
  library's facts about finite sets apply.
- *Refinement of `PickContract`.* With the accounts, `OriginInv` (only what was
  published moves or is left behind; what is no pick is rejected before its stock is
  touched) and
  `BudgetInv`, each step is a step of the contract or a stutter: a matched UPDATE
  is its taking, also when it runs late (`CommitRefines`), an unmatched one finds the stock short (`UnmatchedRefines`), a
  publish is a report or an abandonment. `FaultRefines` shows that a fault may
  take a worker that found too little before it reports; it is a mishap that
  forgets at most one of `short`.
- *Pick requests.* `EntryInv` says that an entry is the claim of a request that
  asked this very store for this key with this payload, and has gone on to publish.
  `ClaimInv` is what makes one event per claim inductive: until a key is granted
  nobody has got past its claim but by failing, and from then on only the holder
  publishes and every 202 carries the holder's pickId. It is stated of keys none of
  whose entries was lost, for which `released` is the witness. `HolderInv` says
  that without faults the holder publishes, and the replay of its pickId is
  therefore true.
- *Queues and waiting.* `WaitBounded` needs `OrderInv` (in a delay queue whoever is
  younger has waited less) and the cap on the head's expiration: time passes only
  while no head is due. `BelongInv` says which bodies and keys a queue can hold, in
  particular that whatever is not retried by the audit worker reaches it under the
  key it was published with, whence `LinesNameTheEvent`. `AuditInv` asks for a
  witness of `AuditedOrDead` other than a delivery the audit worker is done with,
  since the ack removes that one; `HeldInv` says that such a delivery is still at
  the head of its queue.
- *Repeats and amplification in the queues.* One argument serves three theorems. A
  message is worth so many units, by the queue it is in and by its body and retry
  count; a delivery that was handled and awaits its ack is worth nothing; a line in
  the log is worth one. `Covered` says that the sum stays within what the
  publication of the pick and the faults were credited. `Sound` says which worths
  no step can overdraw: a retry costs no more than the attempt it replaces, the two
  copies of a redelivered pick.created no more than the one in the delay queue, and
  so on. `LineShares`, `DeadShares` and `AuditShares` are sound. In the last, a
  message of the inventory queues is worth the attempts it has left, because each
  will be audited; hence the product in `AmplificationBounded`.
- *Channel cache.* `TypeOK` says in which six pairs the promises stand and that
  whoever waits, waits for a pending one. `SocketInv` adds that a socket goes with
  every dial that may still succeed and every live connection and with no other,
  whence `OneConnection`. `DeclaredInv` says that the broker has whatever a worker
  has declared in its present process: a broker that comes back empty has ended
  every connection, and with it every worker past a declaration. Both action
  properties follow from these by one step of the specification. `EndsPreserves`
  is the lemma shared by all the ways a connection ends.
- *Walks.* The rank of a product is the number of rows before it. `PageShows`: however
  the ties fall, the page from offset n shows a product that is alone in its location
  if and only if its rank is in n..n+Limit-1. `EditDrifts`: an edit moves the ranks of
  all other products in one direction, by one at most; and because products alone in
  their locations have different ranks, it takes at most one of them over an offset
  (`EditCounts`). So `WalkInv` counts, against the edits since the walk began, the
  stable products that are behind the offset unseen or beyond the count already
  received (`Missed`), and those ahead of the offset and seen (`Twice`). Each is kept
  twice over: as it stands if the request in progress is answered with what it has read
  (`MissedNext`, `TwiceNext`), and if it fails and is tried again, which is where the two
  snapshots of page and count could do harm. `ServedInv` ties the pool to the readers: a
  failed listing leaves no statement whose late result could be taken for an answer.
- *Migrations.* `PlaceInv` says that a replica passes a file only when it is
  recorded. `CommitInv` says that the replica about to commit is alone with its
  file and that the file is new, so `commits` counts what `recorded` holds.
  `LostInv` says that a lost race leaves the file recorded, so the next attempt
  skips it: a replica between the SELECT and the COMMIT of a file has not lost
  that file before.

Only model-checked: liveness (`PicksSettle`, `AllServe`, `ProbesAnswered`,
`AcceptedInTheEnd`, `Drains`, `CheckAnswered`, `WalksEnd`), which is outside the
prover. Every invariant and every action property of the passing runs, and both
refinements, have a theorem.

## 5. Not modelled, and the plan

1. Done: the components of the table in section 1 but the HTTP pipeline.
2. Done: a proof of every safety property that a run checks.
3. Possible composition: `PickRequests` with `PickContract` in place of the
   pipeline, for end-to-end statements from an idempotency key to the stock.

Partly modelled: the HTTP pipeline. Its route table, validation and error mapping
appear as the inputs `ProductApi` and `PickRequests` accept and the statuses they
answer; authentication, rate limiting and the order of the middlewares are
sequential library code that touches no state of the models.

Hazards without a property: the Redis client's first connect retries for as long
as Redis is away, and a request waits as long (a store command that never settles
breaks no safety property); a TTL below half a second rounds to zero (a constant of
the deployment, fixed before there is any state).

Left out for good: logging, metrics, tracing, the OpenAPI document, formatting of
errors, infrastructure as code and CI, which do not touch the state the properties
are about. Liveness and `ENABLED` are outside the prover and stay with TLC.
