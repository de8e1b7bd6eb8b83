# Shopping cart server: verification project

TLA+ models of the server in `src/server`, checked with TLC, with theorems
checked by TLAPS: the order saga and the services it stands on, the cart, the
listings. Paths below are relative to `src/server/src` unless they start with
`src/`.

## The system

A NestJS server keeps its tables in PostgreSQL (TypeORM), its stock counters,
idempotency markers, locks and job queue in Redis (ioredis, BullMQ). An order is
processed by a saga: command handlers publish events, and
`OrderProcessingOrchestrator` maps each event to the next command. Nothing waits
for a command the orchestrator starts, and its exceptions are swallowed.

| Component | State | Operations | What makes it correct |
|---|---|---|---|
| Saga (`core/application/saga`, `core/domain/saga`) | `saga_instances` row per order: step, reserved lines | ten event-to-command mappings, recovery at start-up | the order ends in a final state, once, also after a crash |
| Orders (`core/application/order`, `core/domain/order`) | `orders.state`, total price | place, await payment, fail, complete, cancel | order and saga are written together; final states stay; state and payment agree |
| Payments (`core/application/payment`) | `payments.state` | initiate, pay, cancel | one payment per order, only for reserved stock |
| Inventory reservation (`core/application/inventory`, `infrastructure/cache`) | Redis counter per product | reserve (Lua), compensate, load at start-up | no unit sold twice, none lost |
| Inventory queue (`infrastructure/queue`) | BullMQ queue, `inventory.quantity` | add job, worker, retries | the table catches up with the counters |
| Jobs table (`infrastructure/queue/queue-loader.service.ts`, `queue.repository.ts`) | `jobs` row per job | insert, re-adding at start-up | nothing is queued again or applied twice |
| Unit of work (`infrastructure/persistence/typeorm/unit-of-work`) | query runner, cached repositories, connection of the pool | begin, commit, roll back, execute | all or nothing; connections come back |
| Optimistic reservation V1 (`reserve-inventory-for-order`) | `inventories.quantity`, `version` | reserve with version checks | all products of an order or none; no lost update |
| Distributed lock (`infrastructure/distributed-lock`) | Redis key per lock | acquire, release, release several | one holder; no handler uses it |
| Idempotency (`infrastructure/idempotency`) | marker per `Idempotency-Key` | check and mark, complete, fail | retries place one order |
| Cart (`core/application/cart`, `cart.repository.ts`) | `carts`, `cart_items` | add, change quantity, remove, read | no item lost or doubled |
| Query builder (`typeorm-query-builder.service.ts`) | none | listing by page, by cursor | nothing skipped, repeated, or of another customer |
| Session (`infrastructure/auth`, `core/application/auth`) | the token a request carries | log in, validate a token, guard | a request acts for its own customer |
| Products, coupons, metrics, web client | seeds | queries | no command changes them |

How they interact: handlers share the saga row, the order row and the payment
row through separate transactions; they share Redis counters without any
transaction; the worker follows through the queue; customers call
`POST /orders/:id/cancel` and `POST /payments/:id/pay` at any moment; start-up
runs the loaders and the recovery, then serves requests. The requests of one
customer share the cart without any lock; a listing's pages are separate queries
on tables that change in between.

What is hard: rows are read, kept over awaits and saved whole; events are
published before the transaction commits; compensation reads what a concurrent
handler may be about to write; a crash falls between any two awaits; the
recovery publishes events that may already have been handled; the queue and the
counters apply the same changes in different orders; one persist is several
transactions; connections, locks and markers outlive or leave those who hold
them. `PROJECT.json` lists each hazard at its line.

## Modules

| Module | Content |
|---|---|
| `Inventory` | Redis counters, inventory table, queue, worker: operations only, no next-state relation |
| `OrderSaga` | EXTENDS `Inventory`: all command handlers, orchestrator, requests, crash, loader, recovery; `Spec`, `FairSpec` |
| `OrderSagaInvariants` | the guarantees that hold under every fault, and the inductive invariant `SagaInvariant` |
| `OrderLifecycle` | abstract specification: what is promised for each order and its payment |
| `OrderSagaProperties` | the remaining properties, and the refinement mapping to `OrderLifecycle` |
| `OrderSagaPhases` | the inductive invariants behind `OrderSagaProperties`: the sides of a payment, and three layers, with what each needs of customers and dependencies |
| `JobStore` | EXTENDS `Inventory`: the jobs table, both loaders row by row, crashes, loss of Redis' data |
| `ValueObjects` | quantities, versions and prices |
| `UnitOfWork` | query runner, repositories and pool: operations only |
| `OrderPlacement` | EXTENDS `ValueObjects`, INSTANCE `UnitOfWork`: PlaceOrder, pricing, operations only |
| `OptimisticReservation` | EXTENDS `OrderPlacement`: the V1 handler, row locks, faults; `Spec`, `FairSpec` |
| `AtomicReservation` | abstract specification: an order gets all of its products at once, or none |
| `DistributedLock` | acquire with retries, release, expiry |
| `Idempotency` | retries of one request with one key |
| `Session` | users, tokens, whom a request acts for: operations only |
| `Cart` | EXTENDS `Session`: the cart handlers and the repository's persist |
| `QueryBuilder` | both query builders, as operators from tables to sets of answers |
| `Paging` | EXTENDS `QueryBuilder`: a client that browses while items come and go |
| `MC...` | values of the constants for TLC, one per run's module |
| `JobStoreInvariants`, `OptimisticReservationInvariants`, `CartInvariants`, `PagingInvariants` | the inductive invariants `JobsInvariant`, `ReservationInvariant`, `CartInvariant` and `PagingInvariant` |
| `FiniteSums` | lemmas about sums over finite sets, by induction on the set |
| `OrderSagaProofs`, `IdempotencyProofs`, `DistributedLockProofs`, `JobStoreProofs`, `OptimisticReservationProofs`, `CartProofs`, `PagingProofs` | TLAPS proofs |

Operators whose comment begins with "Slip:" are not part of the specification.
Each is a plausible mistake in the definition after it; substituting it must
make a run fail, which shows that the property notices.

### How `OrderSaga` corresponds to the code

* A command in execution is a record in `tasks`; its `pc` names the await it is
  about to issue. Code between two awaits is one step. `seen` is the saga row
  (its reserved lines) that the handler has read and will write back, `todo` the
  lines it still has to compensate or enqueue.
* `persist` writes the whole row the handler holds: `WriteSaga` overwrites what
  was committed in between. TypeORM's `save` reads the row first, compares, and
  updates the columns that differ; the three are one step here. A column that is
  equal when `save` reads the row and changed before its UPDATE survives in the
  code and is overwritten in the model.
  Its `is_compensating` and `retries` columns keep their initial values, since
  no code sets the one or counts the other, and are left out.
* Transactions run at READ COMMITTED; reads take no lock. All writes of a
  transaction take effect at its commit. `CancelOrder` and `PayForOrder` publish
  inside the transaction, after their writes: the task stays at `published`,
  holding the row lock of the saga (`SagaRowFree`), until it commits or fails.
* An event published after a commit, or outside a transaction, starts the next
  task in the same step as the call before it: publishing is synchronous.
* State transitions that throw (`OrderMayBecome`, `PaymentMayBecome`) are decided
  on the row that was loaded, several steps before it is written. The exception
  is raised at the load; the code raises it after reading the saga, and nothing
  is written in between.
* `granted` is a history variable: the products Redis has granted to an order.
* Compensation of several lines is one step per line, in order; the code issues
  the calls together and waits for all of them.
* `findByOrderId` returns any payment of the order.
* `server` is `starting` until the loader has read the inventory table, `loading`
  while it sets one counter after the other, `booting` while the recovery runs,
  `up` when requests are served. The queue worker runs in all four, and changes
  quantities that the loader has read. A crash may come in all four. A command the
  recovery awaits has flow `boot`; if it throws, the exception leaves the start-up
  hook and the process ends (`aborted`).
* The steps are those that the handlers of this module write. The recovery's case
  for INVENTORY_RESERVE_FAILED is there (`Recovered`); only V1 writes that step,
  and the orchestrator dispatches V2.
* The recovery reads the list of sagas once. The model reads each saga when the
  loop reaches it, which is the same: nothing else touches an order before the
  loop does (`RecoveryIsFirst`, an invariant). The lines of a recovered order are
  taken in their original sequence.
* Quantities are natural numbers; prices and the amount paid are abstracted to
  the outcome PAID or FAILED.
* A rejected job goes to the end of the queue: it waits 500 ms while others run.
  A job whose worker died stays at the head and is always delivered again; BullMQ
  waits until its lock has expired, in which time others may run, and fails it when
  it stalls a second time. A database that fails is modelled for the handlers and
  not for the worker, where it would cost the job an attempt.
* `Faults` names the dependencies that may fail. A failing call has no effect,
  except that a queued job may stay although storing its `jobs` row failed.

### `Idempotency`

Every request carries the same key, which is all that two requests share.
Markers may expire at any moment (`Expire`): a timeout of a minute may pass
between any two steps. `term` is history: the expiry count at which a request
got past the marker.

### `JobStore`

* It shares counters, queue and worker with `OrderSaga` through `Inventory`; of
  the saga only the calls of `addJob` remain (`Count`, `QueueJob`, `StoreRow`).
  What a caller does when `addJob` throws is in `OrderSaga`.
* `ids` runs beside `jobs`: BullMQ numbers jobs by a counter in Redis, and keeps
  finished jobs, so that `getJob` finds every id given out since the data was
  lost (`Missing`).
* Rows have no status: they are WAITING for good. `inventory.processor.ts:81-94`
  would follow the status of a job, but its `@OnQueueEvent` methods are in a
  `@Processor` class and `@nestjs/bullmq` registers such methods in a
  `@QueueEventsListener` class only. The loader so looks up every job there ever
  was (`toCheck`), which `NothingIsQueuedAgain` is about.
* At start-up the inventory loader sets the counters and the queue loader checks
  the rows one at a time (`LoadOne`, `CheckRow`), in any order and while the
  worker runs. A job that is added again takes the next id, and a later row that
  has this id is then taken to be in Redis. A crash may come in between.
* `RedisLosesData` empties counters, queue and id counter, the job in the
  worker's hands included.

### `OptimisticReservation`, `OrderPlacement` and `UnitOfWork`

* The module places orders and then reserves their products by V1, as the case
  study describes; today the orchestrator dispatches V2, which `OrderSaga` has.
* `UnitOfWork` counts query runners (`made`) to tell a repository of an earlier
  transaction from one of the present; `held` counts connections, and `Connect`
  waits while the pool has none. PlaceOrder uses begin, commit and rollback; V1
  uses `execute` twice in one unit: the two ways in which handlers use it.
* Of an order its total is kept, of the saga its step. A value object that
  throws is an operator without a result (`Subtract`, `Quantity`). Prices are
  natural numbers of the smallest unit; the rounding of floats is left out.
* `Update` is one UPDATE: it waits for the row lock, then compares the version
  of the committed row (READ COMMITTED). The code sends all updates at once and
  one connection runs them in their order, which is that of the query and is
  free. `AbortDeadlock` is PostgreSQL's deadlock detection.
* `TransactionFails` is a statement or COMMIT that fails without effect. A
  COMMIT that takes effect and whose answer is lost is not modelled. A failed
  ROLLBACK is taken to be a broken connection, which has the same effect.
* A command whose process died stays `dead`; the recovery, which would send it
  again, is in `OrderSaga`.

### `DistributedLock`

Clients acquire and give up locks as they like and may keep believing in a lock
that has expired, since no handler uses the service. `epoch` is history: how
often a lock has expired. `ttl` are the keys that Redis will delete by itself:
SET with PX and NX gives a key its value and its expiry in one command (`SetNX`),
and a key without an expiry would stay (`SetNXAlone`). A SET whose reply is lost
sets the key and is sent again (`SetAgain`). An error of a release script is answered with false and
nobody retries.

### `Cart` and `Session`

* Each await of the handlers and of `persist` is a step: load, create, read what
  is stored, delete it, read again within TypeORM's `save`, write. `save` issues
  the comparison and the writes of one transaction: reading is a step of its
  own because it happens before the transaction begins.
* Rows inserted by a request are named after the request and the product, so
  that two inserts of one product are two rows.
* `save` sets `cart_id` to NULL for rows it finds that its list lacks; the
  column forbids it and the transaction fails (`SaveIsRejected`).
* Prices of the items are left out: every request writes the catalog's price.
* `Session` gives each request the customer in its token. No endpoint creates
  users or customers. Hashes, signatures and the expiry of tokens are left out.
* `disturbed` and `expected` are history: who sent overlapping or half-failed
  requests, and what the answers to the others amount to.

### `QueryBuilder` and `Paging`

* Rows are functions from fields to numbers; SQL is the set of answers the
  ORDER BY, WHERE and LIMIT allow. `Taken` is the text `limit + 1` (a string
  concatenation when the limit came from the query string), in base `Base`.
* `like` and `ilike` compare by `Likeness`, any relation between texts, which the
  run fills with one that tells case and one that does not. `TextFields` are the
  columns of text; on any other PostgreSQL refuses them, as an `in` filter for want
  of its parameter, and the builder answers 400 (`IsRefused`).
* Items appear and vanish between pages while the cart is browsed; identifiers
  are never used again. Products do not change: no endpoint writes them.
* A sort by a field that is not allowed is skipped: `Ordered` compares rows whose
  other fields are all the same (`Sortable`), so that they tell nothing apart.
* `seen` and `steady` are history: what the client was shown since it last
  turned round, and what lay ahead of it then and is still there.

## Runs

`CHECK_DEADLOCK FALSE`: a system without customers to serve stops. In the runs
of `OrderSaga`, `MaxAttempts = 2` (5 in the code: one retry already shows both
outcomes of an attempt) and one unit of stock per product, the boundary at which
every reservation conflicts.

| Run | Instance | Shows |
|---|---|---|
| `failures` | 1 order, 2 products, 1 request at any time, all faults, 1 restart (1.66 M states) | `SagaInvariant` holds (failed orders have no payment is a part of it), Redis granted every line before there is a payment, payments are unique, a completed order's payment did not fail and was not canceled, the recovery does not take a saga back to its reservation |
| `patient` | 2 orders on the same 2 units in opposite order, a request each while AWAITING_PAYMENT, no faults (241 k), fair | stock is conserved, offered and paid orders share it, `OrderLifecycle` implemented, orders settle, paid orders complete, failed and canceled ones give back in counters and table |
| `recovers` | 1 order, 2 lines, 1 request, 1 crash, also while starting (9 k), fair | `LifecycleInvariant` holds, created payments are offered, no canceled order keeps an open payment |
| `retries` | 3 requests, 2 instances, 2 expiries, 1 crash (63 k) | `OnePerMarker`, `AnswersAreTrue` |
| `jobs` | 2 orders of the one unit of a product, one cancelable, 2 crashes, 1 loss of Redis' data (171 k), fair | `JobsInvariant` holds, jobs are applied once per delivery, no start-up queues one again, stored jobs are applied |
| `optimistic` | 3 orders on 2 products (one refused; a repeated, an unknown and an unstocked product), 2 connections, database faults, 1 crash (24 k), fair | `ReservationInvariant` holds, V1 implements `AtomicReservation`, versions count updates, order and saga are one, what is taken is charged, repositories are current, connections come back, commands end |
| `locks` | 2 clients, 2 locks, 1 retry, 2 acquires each, any number of expiries within them (99 k), fair | one holder per term, nobody is robbed, locks become free |
| `carts` | 3 requests by 2 customers, a user who is none and a stranger; 6 commands on 2 products and an unknown one; database faults, 1 crash (381 k) | carts of undisturbed customers are exact, no line exceeds what was asked for, `CartInvariant` |
| `pages` | 5 items in 2 carts, 4 products with one date of creation, 10 filters, 4 sorts, 6 limits (257 k) | `PagingInvariant` holds, walks are complete both ways, pages partition the products, no item of another cart |

Why the bounds are enough. Two orders are needed for contention and no third
adds an interaction that two do not have: orders share only counters, rows and
queue. Two lines give every position of a line (first, last, not reached) and
the two orders of locking. One crash reaches every step of the recovery; a
second one is allowed by the proofs, and in `jobs` it meets a start-up. `failures` has one customer request, since
the proofs of `SagaInvariant` and of what follows from it cover any number of
them. `PaymentNeedsReservation` says that Redis granted each line at some time:
`granted` never shrinks, and a payment opened after its lines were given back
would pass. That they are still held when the order is offered is what
`StockIsConserved` and `NoOversell` say, without faults. Three requests with one cart are two that
meet and one that finds what they left. Two connections are fewer than the
commands that want one, as 10 are for more than ten commands. `Base`,
`DefaultTake` and `MaxTake` are 2, 2 and 3 for 10, 20 and 100: a page, a page
that is full with one row left, and a limit that is cut off still occur.

`patient` restricts customers to orders that await payment because the
properties fail otherwise, as the next runs show. The other bounds are not
restrictions of behaviour but of size.

### Runs that find a divergence

| Run | Refuted | Trace in a sentence |
|---|---|---|
| `early_cancel` | `NoPhantomStock` | cancel while PENDING returns lines that were never taken |
| `restart_oversell` | `NoOversell` | the loader forgets jobs that still wait in the queue |
| `crash_stuck` | `PlacedOrdersAreSettled` | crash at INVENTORY_RESERVING, a step the recovery skips |

### Further divergences

Each of these properties is defined in a module and refuted by TLC when it is
checked in the instance named, with the changes named and the run's constants
otherwise:

| Property | Instance | What happens |
|---|---|---|
| `NoPhantomStock` | `early_cancel` with `Request = {}`, `Faults = {"queue"}` | addJob fails after the row lists the line: the catch block and the release both return it |
| `FinalOrdersStay` | `early_cancel` | MarkOrderAwaitingPayment loads, CancelOrder commits, the first writes back, a transition that `canceled-order.state.ts:8-13` throws on |
| `RecoveryNeverAborts` | `early_cancel` with `CancelFrom = {}`, `PayFrom = {"AWAITING_PAYMENT"}`, `MaxRestarts = 1` | canceling a FAILED payment throws in the start-up hook and the server does not start |
| `TableCatchesUp` | `patient` | a reservation job overtakes the compensation it depends on and runs out of attempts |
| `SettledPaymentsStay` | `early_cancel` with `CancelFrom = {}`, `PayFrom = {"AWAITING_PAYMENT"}`, `Request = {r1, r2}` | two payers load the payment OPEN, the second overwrites PAID with FAILED |
| `CanceledNotPaid` | the same with `CancelFrom = {"AWAITING_PAYMENT"}` | a payment and a cancelation both commit |
| `CompletedIsPaid` without its alternative OPEN | `early_cancel` with `CancelFrom = {}`, `PayFrom = {"AWAITING_PAYMENT"}`, `Faults = {"database"}` | PaymentPaid is published, the commit fails, the order is completed |
| `ClosedOrdersGiveBack` | `recovers` | the payment failed, the compensation is written to the saga row, the process dies before it queues the COMPENSATE jobs: only the RESERVE jobs reach the table, the loader sets the counters from it, and the recovery, which cancels the payment, throws on a FAILED one; `src/README.md:46-47` promises the release |
| `PaidOrdersComplete` | `early_cancel` with `CancelFrom = {}`, `PayFrom = {"PENDING"}`, `FairSpec` | paid before it awaits payment: completion throws and is not repeated |
| `ReservesEveryLine` | `early_cancel` with `Lines <- Repeated`, `Request = {}` | the second line of a product is never reserved |
| `AtMostOneOrder` | `retries` | the marker of a slow request expires, its retry places a second order |
| `LostJobsAreRecovered` | `jobs` | the loader adds a lost job under the queue's name (`queue-loader.service.ts:29`), which the worker ignores |
| `ConflictsAreResolved` | `optimistic` | the handler throws for a conflict "Will trigger retry." (`reserve-inventory-for-order.handler.ts:87`); nothing retries and the saga stays INITIATED |
| `MutualExclusion` | `locks` | a holder works on after its lock has expired |
| `PagesRespectLimit` | `pages` | `cart-query.dto.ts:5` declares a number, but the query string is text: `"5" + 1` takes 51 rows |
| `NextPageIsOffered` | `pages` | the first page, reached by the previous cursor, claims to be the last |

What the definitions show besides, where a stronger property than the one
checked is false:

* Cart: an item whose addition was answered 200 may be lost to a concurrent
  request; a crash between the delete and the save leaves the cart empty
  although `cart.controller.ts` answered nothing; two first requests create two
  carts; a request whose save meets a new row fails with 500 on the NULL
  `cart_id`. Items get new identifiers with every persist. The total price of a
  paged cart is that of the page.
* V1: products without an inventory row are ignored, charged but never taken.
  Both events are published when the commit fails after the first one.
* PlaceOrder: the second line of a product, and unknown products, cost nothing.
* Unit of work: a START TRANSACTION that fails leaks its connection
  (`typeorm.unit-of-work.ts:185-187`, `227-229`); after as many leaks as the
  pool has connections every command waits.
* Jobs: after a loss of Redis' data new jobs get ids that rows already have: the
  row of the new job is refused, and a missing job whose id was given to another,
  by the loader itself a moment ago too, is not added again. Every row stays
  WAITING, so that a start looks up all jobs there ever were.
* Locks: `releaseMultiple` answers true whatever was deleted.
* Listings: an `in` filter always fails, since its parameter is bound under
  another name (`typeorm-query-builder.service.ts:249`), though
  `product-query.dto.ts:25` lists it. In the default order of products, ties may
  repeat or skip one. The cart DTO declares `hasPrevious`, the code returns
  `hasPreviousPage`.

## Fairness

`FairSpec` of `OrderSaga` assumes weak fairness of: a step of some task (the
event loop runs every continuation that is ready), the worker (BullMQ polls),
the recovery's loop and its end, a restart after a crash and the loader. The
restart is an assumption about the operator: `docker-compose.yml` has a restart
policy for other services and none for the server. Of the saga's runs it matters
to `recovers` alone. Customers, faults and crashes are never forced. Fairness is
on the disjunction of all tasks; a single task cannot be starved in a finite
instance because every task ends after finitely many steps.

`JobStore` assumes it of the worker and, under the same assumption about the
operator, of the start-up; `addJob` and every fault are free.
`OptimisticReservation` assumes it of the steps of each command that has begun,
lock waits ended by PostgreSQL included, but not of the requests, of the faults,
or of getting a connection for the first transaction. `DistributedLock` assumes
that Redis expires keys and that an acquire goes on. `Idempotency`, `Cart` and
`Paging` claim nothing under fairness.

## Proofs

For any constants that satisfy the modules' assumptions, and without any other
hypothesis unless one is named: any orders, lines, products, requests, stock,
faults and number of restarts.

* `OrderSagaProofs!TypeCorrect`: `Spec => []TypeOK`. One lemma per action;
  beyond types it shows that reserved lines and pending compensations index
  lines of their own order, which `Lines[o][...]` needs everywhere.
* `OrderSagaProofs!InvariantHolds`: `Spec => []SagaInvariant`.
  None of the guarantees is inductive. `AtMostOnePayment` needs that no second
  InitiatePayment can be on its way, so that at most one command of the chain
  reserve–release–initiate–await–fail runs per order (`OneChain`), which the
  recovery respects because it comes before everything else (`RecoveryIsFirst`),
  and because a saga row with a payment never shows a reservation step again
  (`PaymentEndsReservation`), although every writer writes back a stale row.
  `PaymentNeedsReservation` needs that whatever a row, or a reader of one, lists
  as reserved was granted (`ReservedIsGranted`, `GrantedBeforePayment`). The
  proof splits the invariant into parts per order and per task, so that an action
  is checked against the one order it touches (`TaskEffect`).
* From it: `PaymentsAreBacked`, `PaymentsAreUnique`, `FailureExcludesPayment`,
  and the action property `ReservationIsNotRepeated`.
* `SidesHold`, for `OneRequest` (each order is the subject of one request, which
  may come at any moment; any faults, rollbacks and restarts): `SidesInvariant`.
  What paying starts (the completion) and what canceling or a refused payment
  starts (the compensation, the cancelation of the payment) never meet in the
  rows or the commands of an order (`OneSide`), although events are published
  before their transaction commits and the recovery starts commands from what the
  saga row says. From it `CompletionIsPaid` (`CompletedIsPaid`): the payment of a
  completed order is paid; if PostgreSQL may roll back the transaction that pays,
  after its event was published, it may still be open, which is what the code
  does, and it was neither canceled nor refused. Without rollbacks a completion
  waits for the saga row and so commits after the payment
  (`CompletionFollowsPayment`). Two requests about one order refute it, as the
  divergences show (`CanceledNotPaid`, `SettledPaymentsStay`).
* `OrderSagaProofs`, second half: what the saga guarantees beyond that. It is false for
  customers who act at any moment and, in part, under faults, as the divergences
  show; so its theorems name what they need, and the runs `early_cancel`,
  `restart_oversell` and the table above show that they need it. The invariants
  are three layers, each on top of the last:
  1. `ReservationIsRecorded`, for `CustomersWait` (nobody pays or cancels while
     the order is PENDING; any faults and restarts): `LinesInvariant`. A saga row
     is read, kept and saved whole, so what it lists is only right if nobody else
     writes it in between: while an order is PENDING one command of the chain
     runs (`OneChain` of `SagaInvariant`), so `seen` is the row itself and the
     line being reserved is not in it.
  2. `PhasesHold`, for `CustomersArePatient` (besides, one request about each
     order) and `TransactionsCommit` (a COMMIT is not refused; Redis and the
     queue may fail, the server may crash and restart any number of times):
     `LifecycleInvariant`. The three rows of an order are in one of eleven
     phases (`InPhase`), and an order has one command in execution, or two when
     one of them has published its event and not committed (`Follows`). The
     phases say which command may run when, and so that every state transition
     decided on a row read earlier is still legal when it is written. From it
     `SagaImplementsLifecycle` (`ImplementsLifecycle`): a payment counts as paid
     or failed when its transaction commits; writing the order, creating and
     settling the payment map to the steps of `OrderLifecycle`, everything else
     to a stutter.
  3. Conservation of stock in the instance of the run `patient`, for any number
     of orders: `NoStockIsLost` and `NoUnitIsSoldTwice`, for finitely many orders
     of different products (`ProductsDiffer`) and `NothingFails` (no faults and
     no restarts). They are propositions about that run and are not listed among
     the results: the code accepts early cancelations, repeated products,
     failures and restarts, and each of them loses units or sells them twice.
     What they add to the run is that no third order and no longer list of lines
     matters. A step moves one line of one order, in or out of what the order
     holds (`HeldLines`), and the counter of its product by its quantity
     (`StockTaken`, `StockReturned`, on `LineMoves`), or it moves nothing
     (`StockQuiet`). What an order holds is decided by the one command that may
     move its lines (`HeldByOne`), and that there is only one is the second layer.
     An offered order holds every line (`OffersHoldTheirLines`), so that
     what all of them demand is a part of what is missing.

  The hypotheses restrict the customers and the dependencies and change nothing
  in `Spec`; the code checks none of them: the endpoints accept requests in any
  state, and any number of them.
* `IdempotencyProofs!OneRequestPerMarker` and `ClientsAreToldTheTruth`: for any
  number of retries, instances, crashes and expiries. The invariant ties the
  marker to the request that got through since the last expiry, and every stored
  response to a handler that has ended.

* `DistributedLockProofs!OneHolder` and `ReleaseComparesFirst`: for any clients,
  locks, attempts, lost replies, crashes and expiries. One holder per term is not
  inductive: it needs that a holder of the current term has its identifier in
  the key (`HolderIsInKey`), and that identifiers are their client's own and
  never used twice (`IdsAreFresh`), without which a release could delete the key
  of another lock taken by the same client.

* `DistributedLockProofs!LocksAreTyped`: the type invariant of the same module.

* `OptimisticReservationProofs!ReservationIsConsistent`:
  `Spec => []ReservationInvariant`, for any orders, products, stock, pool, faults
  and number of crashes; `LinesAssumption` says that the lines of a request are a
  sequence. `VersionsCountUpdates` (no lost update) needs that a row has one
  writer at a time (`RowsAreLocked`), that a matching version means that the row
  is the one that was read (`VersionsTell`), and that a command that commits has
  written every product it found (`UpdatesAreComplete`). The connections need
  that the query runner's transaction is open exactly where the code is inside
  one (`ConnectionsAreCounted`).
* From it: `NoUpdateIsLost`, `OrdersHaveSagas`, `RepositoriesStayCurrent`,
  `ConnectionsAreReturned` and `TakenGoodsAreCharged` (an order's total covers
  what is taken for it: a sum over the lines against a sum over the products).
* `OptimisticReservationProofs!ReservationKeepsItsPromise`: V1 implements
  `AtomicReservation`. The COMMIT of the reservation maps to the step that takes
  all products of an order at once, the recorded failure to the rejection, every
  other step, rollbacks and crashes included, to a stutter.
* `JobStoreProofs!JobsStayConsistent`: `Spec => []JobsInvariant`, and from it
  `JobsAreAppliedOnce` and `StartsQueueNothingAgain`, for any orders, losses of
  Redis' data and crashes, a half-done start-up included. Neither property is
  inductive: `AppliedOncePerDelivery` needs that `addJob` queues a task once
  (`OneJobPerTask`) and that what was applied is counted against what was
  delivered (`DeliveriesAreCounted`); `NothingIsQueuedAgain` needs besides that
  identifiers are given once until Redis loses data and that each row has that of
  its job (`TicketsAreUnique`), by which the loader finds even a job that is done.
* `CartProofs!CartsStayConsistent`: `Spec => []CartInvariant`, and from it
  `LinesAreAskedFor` and `UndisturbedCustomersKeepTheirCart`, for any customers,
  requests, commands and crashes, and finitely many products (`CatalogAssumption`:
  `add-cart-item-request.dto.ts:10` admits UUIDs only).
  That no line exceeds what was asked for needs that rows, and the carts held in
  memory, only hold what requests that have taken part asked for (`RowsHaveOwners`,
  `DraftsHaveOwners` with `Units`): a merge takes the last quantity of either
  list and never their sum. The same parts say that what a request deletes,
  updates or inserts belongs to its own customer, which is why another
  customer's persist cannot disturb a cart. That an undisturbed cart is exact
  holds only between requests, so `IsExact` says for each stage of the one
  request in progress where the contents are: in the rows until the delete, in
  the aggregate until the write, in the rows again until the answer; the delete
  removes every row that is there, and the save finds neither orphans nor rows
  with the identifiers it inserts. The steps of a request, a failure and the
  crash are first summarised (`Steps`, `EndsAll`), and the rest of the proof uses
  the summaries.

* `PagingProofs!PagesFollowTheTable`: `Spec => []PagingInvariant`, and from it
  `ForwardWalk`, `BackwardWalk`, `ProductPages` and the action property
  `OnlyMyItems`, for any finite tables (`RowAssumption`: identifiers are ordered
  and no two rows share one), limits, filters, page sizes and base of numerals.
  The completeness of a walk holds at its end, so the invariant says what is true
  in the middle (`WalkIsKept`): each item that was there all the while was shown
  or lies beyond the cursor, and nothing shown does. That a page keeps it needs
  that the row beyond the limit is dropped only when there are more
  (`KeptFacts`), that the answer to an ORDER BY on identifiers is increasing
  (`OrderedByUuid`), and that reading backwards and reversing is the same as
  reading forwards from the other side (`CartPage`). Inserting and deleting
  disturb nothing, since a cursor is a value and not a row. For the products the
  pages so far are the first rows of one answer (`PagesAreKept`): each page is a
  query of its own, and by identifier there is one answer only
  (`IncreasingIsUnique`), so that the pieces join (`CutsJoin`), and the number of
  pages reaches the last row (`PageCountCovers`).

`FiniteSums` proves what these need of the community modules' sums over finite
sets (the empty set, one more element, monotony, images). The library's induction
theorems take an operator as a parameter; `Induction` and `SetInduction` are about
the set of the cases that hold instead, from the well-ordering of the naturals.

Only model-checked is

* liveness: `PlacedOrdersAreSettled`, `StoredJobsAreApplied`, `CommandsEnd` and the rest.
  TLAPS reasons about neither fairness nor ENABLED.

What the theorems leave open: stock under faults. `StockIsConserved` is refuted
when the queue fails (the table above) and when the server restarts before the
worker is done (`restart_oversell`), so a proof under weaker hypotheses would
have to be of a weaker property. What remains of the saga's guarantees under
every fault is `SagaInvariant` and, for one request per order, `SidesInvariant`.

## Not modelled

Partly modelled: of authentication the hashing, signing and expiry of tokens are
left out, of the controllers all validation and formatting that no property is
about, of payments the mark-as-paid and mark-as-failed handlers, which are
registered and never dispatched. Products and customers are constants: no
endpoint changes them.

Left out for good: coupons (applied by no handler), metrics, logging,
configuration, migrations but for the constraints they state, seeds, and the web
client, whose state the server does not rely on.

Nothing else is planned: every invariant and action property that a passing run
checks is a theorem, under the hypotheses named above where there are any, but
for `StockIsConserved` and `NoOversell`, which are proved for the assumptions of
their run only.
