------------------------------ MODULE OrderSaga ------------------------------
(***************************************************************************)
(* The order processing saga: the command handlers of orders, payments and  *)
(* inventory, the orchestrator that turns each published event into the     *)
(* next command, and the recovery that runs when the server starts.         *)
(*                                                                         *)
(* A command in execution is a task.  Its pc says which await it is about   *)
(* to issue; between two awaits any other task, the queue worker, a         *)
(* customer or a crash may act.  Publishing an event starts the task of     *)
(* the command that the orchestrator maps it to.                            *)
(***************************************************************************)
EXTENDS Inventory

CONSTANTS
  Order,        \* the orders that customers may place
  Lines,        \* [Order -> sequence of [product, quantity]]
  Request,      \* requests of customers about a placed order
  About,        \* [Request -> Order], the order a request is about
  CancelFrom,   \* states of its order in which a customer asks to cancel it
  PayFrom,      \* states of its order in which a customer pays
  Faults,       \* which dependencies may fail: "database", "queue", "redis"
  MaxRestarts   \* bound on the number of restarts

OrderState ==
  {"PENDING", "AWAITING_PAYMENT", "COMPLETED", "CANCELED", "FAILED"}
Line == [product : Product, quantity : Nat]

ASSUME LinesAssumption ==
  /\ Lines \in [Order -> Seq(Line)]
  /\ \A o \in Order : Lines[o] # <<>>
ASSUME AboutAssumption == About \in [Request -> Order]
ASSUME CustomerAssumption == CancelFrom \cup PayFrom \subseteq OrderState
ASSUME FaultsAssumption == Faults \subseteq {"database", "queue", "redis"}
ASSUME MaxRestartsAssumption == MaxRestarts \in Nat
ASSUME FlowAssumption == {"saga", "boot"} \cap Request = {}

PaymentState == {"OPEN", "PAID", "FAILED", "CANCELED"}

\* The steps that the handlers of this module write.  INVENTORY_RESERVE_FAILED
\* is left to the optimistic handler, which no event starts.
SagaStep ==
  {"INITIATED", "INVENTORY_RESERVING", "INVENTORY_RESERVED",
   "INVENTORY_COMPENSATED", "PAYMENT_CREATED", "PAYMENT_PROCESSING",
   "PAYMENT_SUCCEEDED", "PAYMENT_FAILED", "PAYMENT_CANCELED",
   "ORDER_CANCELED", "ORDER_COMPLETED", "ORDER_FAILED"}

\* No row yet, in the orders and in the saga_instances table.
None == "NONE"

VARIABLES
  orderState,  \* orders table: the state of each order
  payments,    \* payments table: the states of the order's payments
  saga,        \* saga_instances table: current step and reserved lines
  tasks,       \* the commands in execution
  server,      \* "up", "starting", "loading" (counters are set), "booting"
               \* (recovery runs), "down" or "aborted"
  loading,     \* the quantities the loader has read and not set yet
  boot,        \* the sagas the recovery has not reached yet
  used,        \* the requests already sent
  granted,     \* history: the products Redis has granted to each order
  restarts     \* number of restarts, bounded by MaxRestarts

tableVars == <<orderState, payments, saga>>
serverVars == <<server, loading, boot, restarts>>
vars == <<inventoryVars, tableVars, tasks, serverVars, used, granted>>

Command ==
  {"ReserveInventory", "ReleaseReservation", "CompensateOrderInventory",
   "InitiatePayment", "MarkOrderAwaitingPayment", "MarkOrderFail",
   "MarkOrderAsComplete", "CancelOrder", "PayForOrder", "CancelPayment"}

\* The chain of events a task belongs to: the saga's own, a command the
\* recovery awaits, or a request.
Flow == {"saga", "boot"} \cup Request

Pc == {"start", "granted", "returning", "returned", "loaded", "read", "saved", "published"}

Task ==
  [flow : Flow, cmd : Command, order : Order, pc : Pc,
   arg : Nat \ {0},            \* the order line, or the payment, it works on
   outcome : {"PAID", "FAILED"},
   seen : Seq(Nat \ {0}),      \* reserved lines of the saga row it has read
   todo : Seq(Nat \ {0})]      \* lines it still has to compensate or enqueue

LineIndex(o) == DOMAIN Lines[o]

TaskTyped(t) ==
  /\ t \in Task
  /\ t.seen \in Seq(LineIndex(t.order))
  /\ t.todo \in Seq(LineIndex(t.order))
  /\ t.cmd = "ReserveInventory" => t.arg \in LineIndex(t.order)

TypeOK ==
  /\ InventoryTypeOK
  /\ orderState \in [Order -> OrderState \cup {None}]
  /\ payments \in [Order -> Seq(PaymentState)]
  /\ saga \in [Order -> [step : SagaStep \cup {None}, reserved : Seq(Nat \ {0})]]
  /\ \A o \in Order : saga[o].reserved \in Seq(LineIndex(o))
  /\ \A t \in tasks : TaskTyped(t)
  /\ server \in {"up", "starting", "loading", "booting", "down", "aborted"}
  /\ loading \subseteq Product \X Nat
  /\ boot \subseteq Order
  /\ used \subseteq Request
  /\ granted \in [Order -> SUBSET Product]
  /\ restarts \in 0..MaxRestarts

Init ==
  /\ InventoryInit
  /\ orderState = [o \in Order |-> None]
  /\ payments = [o \in Order |-> <<>>]
  /\ saga = [o \in Order |-> [step |-> None, reserved |-> <<>>]]
  /\ tasks = {}
  /\ server = "up"
  /\ loading = {}
  /\ boot = {}
  /\ used = {}
  /\ granted = [o \in Order |-> {}]
  /\ restarts = 0

------------------------------------------------------------------------------
(* State patterns of OrderAggregate and PaymentAggregate: a transition that  *)
(* is not allowed throws.                                                    *)

PendingOrderState == {"AWAITING_PAYMENT", "CANCELED", "FAILED"}
AwaitingPaymentOrderState == {"COMPLETED", "CANCELED", "FAILED"}
CompletedOrderState == {}
CanceledOrderState == {}
FailedOrderState == {}

OrderMayBecome(o, s) ==
  s \in CASE orderState[o] = "PENDING" -> PendingOrderState
          [] orderState[o] = "AWAITING_PAYMENT" -> AwaitingPaymentOrderState
          [] orderState[o] = "COMPLETED" -> CompletedOrderState
          [] orderState[o] = "CANCELED" -> CanceledOrderState
          [] orderState[o] = "FAILED" -> FailedOrderState

OpenPaymentState == {"PAID", "FAILED", "CANCELED"}
PaidPaymentState == {}
FailedPaymentState == {}
CanceledPaymentState == {}

PaymentMayBecome(o, i, s) ==
  s \in CASE payments[o][i] = "OPEN" -> OpenPaymentState
          [] payments[o][i] = "PAID" -> PaidPaymentState
          [] payments[o][i] = "FAILED" -> FailedPaymentState
          [] payments[o][i] = "CANCELED" -> CanceledPaymentState

PaymentBecomes(o, i, s) ==
  payments' = [payments EXCEPT ![o] = [@ EXCEPT ![i] = s]]

\* Slip: counts the reserved lines, and counts one too many.
UnreservedOffByOne(o, reserved) == {i \in LineIndex(o) : i > Len(reserved) + 1}

\* Lines whose product no reserved line has: getNextLineToReserve takes the
\* first of them and compares products, not lines.
Unreserved(o, reserved) ==
  {i \in LineIndex(o) :
     \A k \in DOMAIN reserved : Lines[o][i].product # Lines[o][reserved[k]].product}

AllLines(o) == [i \in LineIndex(o) |-> i]

------------------------------------------------------------------------------
(* Tasks. *)

TaskWith(f, c, o, pc, arg, outcome, todo) ==
  [flow |-> f, cmd |-> c, order |-> o, pc |-> pc, arg |-> arg,
   outcome |-> outcome, seen |-> <<>>, todo |-> todo]

NewTask(f, c, o) == TaskWith(f, c, o, "start", 1, "PAID", <<>>)

ReserveLine(f, o, i) == TaskWith(f, "ReserveInventory", o, "start", i, "PAID", <<>>)

Payment(f, o, i, result) == TaskWith(f, "PayForOrder", o, "start", i, result, <<>>)

------------------------------------------------------------------------------
(* OrderProcessingOrchestrator: the command that each event leads to.        *)

OrderCreated(f, o) == ReserveLine(f, o, 1)
ProductReserved(f, o, i) == ReserveLine(f, o, i)
InventoryReserved(f, o) == NewTask(f, "InitiatePayment", o)
PaymentInitiated(f, o) == NewTask(f, "MarkOrderAwaitingPayment", o)
ReservationFailed(f, o) == NewTask(f, "ReleaseReservation", o)

\* Slip: goes on as if the order had been canceled.
ReservationReleasedCancels(f, o) == NewTask(f, "CancelPayment", o)
ReservationReleased(f, o) == NewTask(f, "MarkOrderFail", o)

\* Slip: releases the reservation as if the order had failed.
OrderCanceledReleases(f, o) == NewTask(f, "ReleaseReservation", o)
OrderCanceled(f, o) ==
  TaskWith(f, "CompensateOrderInventory", o, "returning", 1, "PAID", AllLines(o))

InventoryCompensated(f, o) == NewTask(f, "CancelPayment", o)

\* Slip: a payment that failed completes the order.
PaymentFailedCompletes(f, o) == NewTask(f, "MarkOrderAsComplete", o)
PaymentFailed(f, o) == NewTask(f, "CancelOrder", o)

\* Slip: a payment that was paid cancels the order.
PaymentPaidCancels(f, o) == NewTask(f, "CancelOrder", o)
PaymentPaid(f, o) == NewTask(f, "MarkOrderAsComplete", o)

\* An event that a command awaited by the recovery publishes starts a chain
\* nobody awaits.
ChildFlow(t) == IF t.flow = "boot" THEN "saga" ELSE t.flow

------------------------------------------------------------------------------
(* Steps of a task.                                                          *)

Replace(t, new) == tasks' = (tasks \ {t}) \cup new
Continue(t, pc) == Replace(t, {[t EXCEPT !.pc = pc]})

\* A transaction that has published its event before its commit holds the row
\* lock of the saga: other writers of the row wait.
SagaRowFree(o) == \A u \in tasks : u.order = o => u.pc # "published"

\* Slip: the payment is created and the step stays where it was.
WriteSagaForgetsPayment(o, step, reserved) ==
  saga' = [saga EXCEPT ![o] =
             [step |-> IF step = "PAYMENT_CREATED" THEN saga[o].step ELSE step,
              reserved |-> reserved]]

\* persist() saves the whole row: what the writer has read, its new step, and
\* nothing of what was committed in between.
WriteSaga(o, step, reserved) ==
  saga' = [saga EXCEPT ![o] = [step |-> step, reserved |-> reserved]]

ReadSaga(t, pc) ==
  Replace(t, {[t EXCEPT !.pc = pc, !.seen = saga[t.order].reserved]})

Frame == UNCHANGED <<serverVars, used>>

\* An exception ends the handler.  Nobody waits for a command of the
\* orchestrator, but the recovery's exception leaves the start-up hook and
\* ends the process.
Throws(t) ==
  /\ IF t.flow = "boot"
     THEN /\ tasks' = {}
          /\ server' = "aborted"
          /\ boot' = {}
          /\ applied' = FALSE
     ELSE /\ tasks' = tasks \ {t}
          /\ UNCHANGED <<server, boot, applied>>
  /\ UNCHANGED <<cache, stock, tableVars, loading, used, granted, restarts>>

------------------------------------------------------------------------------
(* ReservedInventoryForOrderV2Handler *)

LineOf(t) == Lines[t.order][t.arg]

ReserveInCache(t) ==
  /\ t.cmd = "ReserveInventory" /\ t.pc = "start"
  /\ \/ /\ ReserveInventory(LineOf(t).product, LineOf(t).quantity)
        /\ granted' = [granted EXCEPT ![t.order] = @ \cup {LineOf(t).product}]
        /\ Continue(t, "granted")
     \/ /\ ~Sufficient(LineOf(t).product, LineOf(t).quantity)
        /\ Replace(t, {ReservationFailed(t.flow, t.order)})
        /\ UNCHANGED <<cache, granted>>
  /\ UNCHANGED <<stock, jobs, applied, tableVars>> /\ Frame

ReserveReadsSaga(t) ==
  /\ t.cmd = "ReserveInventory" /\ t.pc = "granted"
  /\ ReadSaga(t, "read")
  /\ UNCHANGED <<inventoryVars, tableVars, granted>> /\ Frame

ReservePersistsSaga(t) ==
  LET reserved == Append(t.seen, t.arg) IN
  /\ t.cmd = "ReserveInventory" /\ t.pc = "read"
  /\ SagaRowFree(t.order)
  /\ WriteSaga(t.order,
               IF Unreserved(t.order, reserved) = {}
               THEN "INVENTORY_RESERVED" ELSE "INVENTORY_RESERVING",
               reserved)
  /\ Replace(t, {[t EXCEPT !.pc = "saved", !.seen = reserved]})
  /\ UNCHANGED <<inventoryVars, orderState, payments, granted>> /\ Frame

ReserveEnqueues(t) ==
  LET rest == Unreserved(t.order, t.seen) IN
  /\ t.cmd = "ReserveInventory" /\ t.pc = "saved"
  /\ AddJob("RESERVE_INVENTORY", LineOf(t).product, LineOf(t).quantity)
  /\ \/ /\ rest = {}
        /\ Replace(t, {InventoryReserved(t.flow, t.order)})
     \/ \E i \in rest :
          /\ \A j \in rest : i <= j
          /\ Replace(t, {ProductReserved(t.flow, t.order, i)})
  /\ UNCHANGED <<cache, stock, applied, tableVars, granted>> /\ Frame

\* The catch block.  Everything from the counter to the queue is inside the
\* try, and a job may be queued although storing its row failed.
ReserveCatches(t) ==
  /\ t.cmd = "ReserveInventory"
  /\ \/ t.pc = "start" /\ "redis" \in Faults /\ UNCHANGED jobs
     \/ t.pc \in {"granted", "read"} /\ "database" \in Faults /\ UNCHANGED jobs
     \/ /\ t.pc = "saved" /\ "queue" \in Faults
        /\ \/ UNCHANGED jobs
           \/ AddJob("RESERVE_INVENTORY", LineOf(t).product, LineOf(t).quantity)
  /\ \/ /\ CompensateInventory(LineOf(t).product, LineOf(t).quantity)
        /\ Replace(t, {ReservationFailed(t.flow, t.order)})
     \/ /\ "redis" \in Faults  \* the compensation fails as well
        /\ UNCHANGED cache
        /\ Replace(t, {})
  /\ UNCHANGED <<stock, applied, tableVars, granted>> /\ Frame

------------------------------------------------------------------------------
(* ReleaseProductReservationForOrderHandler and                              *)
(* CompensateOrderInventoryHandler: the first returns the lines the saga row *)
(* lists, the second every line of the order.                                *)

\* Slip: returns every line of the order, reserved or not.
ReleaseReturnsAllLines(t) ==
  /\ t.cmd = "ReleaseReservation" /\ t.pc = "start"
  /\ Replace(t, {[t EXCEPT !.pc = "returning", !.seen = saga[t.order].reserved,
                           !.todo = AllLines(t.order)]})
  /\ UNCHANGED <<inventoryVars, tableVars, granted>> /\ Frame

ReleaseReadsSaga(t) ==
  LET reserved == saga[t.order].reserved IN
  /\ t.cmd = "ReleaseReservation" /\ t.pc = "start"
  /\ Replace(t, {[t EXCEPT !.pc = IF reserved = <<>> THEN "returned" ELSE "returning",
                           !.seen = reserved, !.todo = reserved]})
  /\ UNCHANGED <<inventoryVars, tableVars, granted>> /\ Frame

ReturnLine(t) ==
  LET line == Lines[t.order][Head(t.todo)] IN
  /\ t.pc = "returning" /\ t.todo # <<>>
  /\ CompensateInventory(line.product, line.quantity)
  /\ Replace(t, {[t EXCEPT !.todo = Tail(t.todo),
                           !.pc = IF Tail(t.todo) = <<>> THEN "returned" ELSE @]})
  /\ UNCHANGED <<stock, jobs, applied, tableVars, granted>> /\ Frame

CompensateReadsSaga(t) ==
  /\ t.cmd = "CompensateOrderInventory" /\ t.pc = "returned"
  /\ ReadSaga(t, "read")
  /\ UNCHANGED <<inventoryVars, tableVars, granted>> /\ Frame

ReturnPersistsSaga(t) ==
  /\ \/ t.cmd = "ReleaseReservation" /\ t.pc = "returned"
     \/ t.cmd = "CompensateOrderInventory" /\ t.pc = "read"
  /\ SagaRowFree(t.order)
  /\ WriteSaga(t.order, "INVENTORY_COMPENSATED", t.seen)
  /\ Replace(t, {[t EXCEPT !.pc = "saved",
                           !.todo = IF t.cmd = "ReleaseReservation"
                                    THEN t.seen ELSE AllLines(t.order)]})
  /\ UNCHANGED <<inventoryVars, orderState, payments, granted>> /\ Frame

\* Slip: the queue is told to take the line once more.
EnqueueHeadReserves(t) ==
  LET line == Lines[t.order][Head(t.todo)] IN
  AddJob("RESERVE_INVENTORY", line.product, line.quantity)

EnqueueHead(t) ==
  LET line == Lines[t.order][Head(t.todo)] IN
  AddJob("COMPENSATE_INVENTORY", line.product, line.quantity)

ReturnEnqueues(t) ==
  /\ t.cmd \in {"ReleaseReservation", "CompensateOrderInventory"}
  /\ t.pc = "saved" /\ t.todo # <<>>
  /\ EnqueueHead(t)
  /\ Replace(t, {[t EXCEPT !.todo = Tail(t.todo)]})
  /\ UNCHANGED <<cache, stock, applied, tableVars, granted>> /\ Frame

ReturnPublishes(t) ==
  /\ t.pc = "saved" /\ t.todo = <<>>
  /\ \/ /\ t.cmd = "ReleaseReservation"
        /\ Replace(t, {ReservationReleased(t.flow, t.order)})
     \/ /\ t.cmd = "CompensateOrderInventory"
        /\ Replace(t, {InventoryCompensated(t.flow, t.order)})
  /\ UNCHANGED <<inventoryVars, tableVars, granted>> /\ Frame

------------------------------------------------------------------------------
(* The transactional handlers read their order or payment, then the saga     *)
(* row, and write and commit both later; rows that were read are not locked. *)

TransactionReadsSaga(t) ==
  /\ t.pc = "loaded"
  /\ ReadSaga(t, "read")
  /\ UNCHANGED <<inventoryVars, tableVars, granted>> /\ Frame

InitiatePaymentReads(t) ==
  /\ t.cmd = "InitiatePayment" /\ t.pc = "start"
  /\ ReadSaga(t, "read")
  /\ UNCHANGED <<inventoryVars, tableVars, granted>> /\ Frame

InitiatePaymentCommits(t) ==
  LET o == t.order IN
  /\ t.cmd = "InitiatePayment" /\ t.pc = "read"
  /\ SagaRowFree(o)
  /\ payments' = [payments EXCEPT ![o] = Append(@, "OPEN")]
  /\ WriteSaga(o, "PAYMENT_CREATED", t.seen)
  /\ Replace(t, {PaymentInitiated(t.flow, o)})
  /\ UNCHANGED <<inventoryVars, orderState, granted>> /\ Frame

\* The order state and the saga step each of these commands writes.
NewOrderState(c) ==
  CASE c = "MarkOrderAwaitingPayment" -> "AWAITING_PAYMENT"
    [] c = "MarkOrderFail" -> "FAILED"
    [] c = "MarkOrderAsComplete" -> "COMPLETED"
    [] c = "CancelOrder" -> "CANCELED"

NewStep(c) ==
  CASE c = "MarkOrderAwaitingPayment" -> "PAYMENT_PROCESSING"
    [] c = "MarkOrderFail" -> "ORDER_FAILED"
    [] c = "MarkOrderAsComplete" -> "ORDER_COMPLETED"
    [] c = "CancelOrder" -> "ORDER_CANCELED"

MarkingCommand == {"MarkOrderAwaitingPayment", "MarkOrderFail", "MarkOrderAsComplete"}

\* The transition is computed on the order that was loaded.
OrderCommandLoads(t) ==
  /\ t.cmd \in MarkingCommand \cup {"CancelOrder"} /\ t.pc = "start"
  /\ \/ /\ OrderMayBecome(t.order, NewOrderState(t.cmd))
        /\ Continue(t, "loaded")
        /\ UNCHANGED <<inventoryVars, tableVars, granted>> /\ Frame
     \/ /\ ~OrderMayBecome(t.order, NewOrderState(t.cmd))
        /\ Throws(t)
        /\ UNCHANGED jobs

WriteOrder(t) ==
  /\ orderState' = [orderState EXCEPT ![t.order] = NewOrderState(t.cmd)]
  /\ WriteSaga(t.order, NewStep(t.cmd), t.seen)
  /\ UNCHANGED <<inventoryVars, payments, granted>> /\ Frame

MarkOrderCommits(t) ==
  /\ t.cmd \in MarkingCommand /\ t.pc = "read"
  /\ SagaRowFree(t.order)
  /\ Replace(t, {})
  /\ WriteOrder(t)

\* order.commit() publishes OrderCanceled inside the transaction.
CancelOrderPublishes(t) ==
  /\ t.cmd = "CancelOrder" /\ t.pc = "read"
  /\ SagaRowFree(t.order)
  /\ Replace(t, {[t EXCEPT !.pc = "published"], OrderCanceled(ChildFlow(t), t.order)})
  /\ UNCHANGED <<inventoryVars, tableVars, granted>> /\ Frame

CancelOrderCommits(t) ==
  /\ t.cmd = "CancelOrder" /\ t.pc = "published"
  /\ Replace(t, {})
  /\ WriteOrder(t)

PayForOrderLoads(t) ==
  /\ t.cmd = "PayForOrder" /\ t.pc = "start"
  /\ \/ /\ PaymentMayBecome(t.order, t.arg, t.outcome)
        /\ Continue(t, "loaded")
        /\ UNCHANGED <<inventoryVars, tableVars, granted>> /\ Frame
     \/ /\ ~PaymentMayBecome(t.order, t.arg, t.outcome)
        /\ Throws(t)
        /\ UNCHANGED jobs

\* payment.commit() publishes PaymentPaid or PaymentFailed inside the
\* transaction.
PayForOrderPublishes(t) ==
  LET event == IF t.outcome = "PAID"
               THEN PaymentPaid(t.flow, t.order) ELSE PaymentFailed(t.flow, t.order) IN
  /\ t.cmd = "PayForOrder" /\ t.pc = "read"
  /\ SagaRowFree(t.order)
  /\ Replace(t, {[t EXCEPT !.pc = "published"], event})
  /\ UNCHANGED <<inventoryVars, tableVars, granted>> /\ Frame

PayForOrderCommits(t) ==
  /\ t.cmd = "PayForOrder" /\ t.pc = "published"
  /\ PaymentBecomes(t.order, t.arg, t.outcome)
  /\ WriteSaga(t.order,
               IF t.outcome = "PAID" THEN "PAYMENT_SUCCEEDED" ELSE "PAYMENT_FAILED",
               t.seen)
  /\ Replace(t, {})
  /\ UNCHANGED <<inventoryVars, orderState, granted>> /\ Frame

\* findByOrderId returns one of the payments of the order, if there is any.
CancelPaymentLoads(t) ==
  LET ps == payments[t.order] IN
  /\ t.cmd = "CancelPayment" /\ t.pc = "start"
  /\ \/ /\ ps = <<>> \/ \E i \in DOMAIN ps : ps[i] = "CANCELED"
        /\ Replace(t, {})
        /\ UNCHANGED <<inventoryVars, tableVars, granted>> /\ Frame
     \/ \E i \in DOMAIN ps :
          /\ PaymentMayBecome(t.order, i, "CANCELED")
          /\ Replace(t, {[t EXCEPT !.pc = "loaded", !.arg = i]})
          /\ UNCHANGED <<inventoryVars, tableVars, granted>> /\ Frame
     \/ /\ \E i \in DOMAIN ps : ps[i] # "CANCELED" /\ ~PaymentMayBecome(t.order, i, "CANCELED")
        /\ Throws(t)
        /\ UNCHANGED jobs

CancelPaymentCommits(t) ==
  /\ t.cmd = "CancelPayment" /\ t.pc = "read"
  /\ SagaRowFree(t.order)
  /\ PaymentBecomes(t.order, t.arg, "CANCELED")
  /\ WriteSaga(t.order, "PAYMENT_CANCELED", t.seen)
  /\ Replace(t, {})
  /\ UNCHANGED <<inventoryVars, orderState, granted>> /\ Frame

------------------------------------------------------------------------------
(* Failures of the dependencies in the handlers that have no catch block: a  *)
(* transaction rolls back, what was done outside of one stays done.          *)

Dependency(t) ==
  CASE t.pc = "returning" -> "redis"
    [] t.pc = "saved" -> "queue"
    [] OTHER -> "database"

DependencyFails(t) ==
  /\ t.cmd # "ReserveInventory"
  /\ Dependency(t) \in Faults
  /\ t.pc = "saved" => t.todo # <<>>
  /\ Throws(t)
  /\ \/ UNCHANGED jobs
     \/ t.pc = "saved" /\ EnqueueHead(t)

------------------------------------------------------------------------------
(* Requests.  They are served once the recovery has finished.                *)

\* PlaceOrderHandler commits the order with its saga, then publishes
\* OrderCreated.
PlaceOrder(o) ==
  /\ server = "up"
  /\ orderState[o] = None
  /\ orderState' = [orderState EXCEPT ![o] = "PENDING"]
  /\ WriteSaga(o, "INITIATED", <<>>)
  /\ tasks' = tasks \cup {OrderCreated("saga", o)}
  /\ UNCHANGED <<inventoryVars, payments, granted>> /\ Frame

Arrives(r) ==
  /\ server = "up"
  /\ r \notin used
  /\ used' = used \cup {r}
  /\ UNCHANGED <<inventoryVars, tableVars, serverVars, granted>>

RequestCancel(r) ==
  /\ orderState[About[r]] \in CancelFrom
  /\ tasks' = tasks \cup {NewTask(r, "CancelOrder", About[r])}
  /\ Arrives(r)

\* The amount decides the outcome: the right one pays, any other fails.
RequestPayment(r) ==
  /\ orderState[About[r]] \in PayFrom
  /\ \E i \in DOMAIN payments[About[r]], result \in {"PAID", "FAILED"} :
       tasks' = tasks \cup {Payment(r, About[r], i, result)}
  /\ Arrives(r)

------------------------------------------------------------------------------
(* Crash, restart, ProductInventoryLoader and OrderProcessingRecover. *)

Running == server \in {"up", "starting", "loading", "booting"}

Crash ==
  /\ Running
  /\ restarts < MaxRestarts
  /\ server' = "down"
  /\ tasks' = {}
  /\ loading' = {}
  /\ boot' = {}
  /\ WorkerStops
  /\ UNCHANGED <<cache, tableVars, used, granted, restarts>>

Restart ==
  /\ server \in {"down", "aborted"}
  /\ restarts < MaxRestarts
  /\ restarts' = restarts + 1
  /\ server' = "starting"
  /\ UNCHANGED <<inventoryVars, tableVars, tasks, loading, boot, used, granted>>

LoaderReads ==
  /\ server = "starting"
  /\ server' = "loading"
  /\ loading' = ReadInventory
  /\ UNCHANGED <<inventoryVars, tableVars, tasks, boot, restarts, used, granted>>

\* The worker may already be at work, and change quantities that were read.
LoaderSets ==
  /\ server = "loading"
  /\ \E read \in loading :
       /\ LoadCounter(read)
       /\ loading' = loading \ {read}
  /\ UNCHANGED <<stock, jobs, applied, tableVars, tasks, server, boot, restarts, used, granted>>

\* The recovery then goes through all sagas.
LoaderEnds ==
  /\ server = "loading"
  /\ loading = {}
  /\ server' = "booting"
  /\ boot' = {o \in Order : saga[o].step # None}
  /\ UNCHANGED <<inventoryVars, tableVars, tasks, loading, restarts, used, granted>>

LoaderRuns == LoaderReads \/ LoaderSets \/ LoaderEnds

\* Slip: repeats the last step instead of taking the next one.
RecoveredRepeats(o) ==
  CASE saga[o].step \in {"INVENTORY_RESERVED", "PAYMENT_CREATED"} ->
         {InventoryReserved("saga", o)}
    [] OTHER -> {}

\* Slip: knows nothing of what follows the reservation.
RecoveredReservation(o) ==
  CASE saga[o].step = "INITIATED" -> {OrderCreated("saga", o)}
    [] saga[o].step = "INVENTORY_RESERVED" -> {InventoryReserved("saga", o)}
    [] OTHER -> {}

\* Steps not listed need nothing, or get nothing.
Recovered(o) ==
  CASE saga[o].step = "INITIATED" -> {OrderCreated("saga", o)}
    [] saga[o].step = "INVENTORY_RESERVED" -> {InventoryReserved("saga", o)}
    [] saga[o].step = "PAYMENT_CREATED" -> {PaymentInitiated("saga", o)}
    [] saga[o].step = "INVENTORY_RESERVE_FAILED" -> {InventoryReserved("saga", o)}
    [] saga[o].step = "ORDER_CANCELED" -> {OrderCanceled("saga", o)}
    [] saga[o].step = "INVENTORY_COMPENSATED" /\ payments[o] # <<>> ->
         {NewTask("boot", "CancelPayment", o)}
    [] saga[o].step = "PAYMENT_FAILED" -> {NewTask("boot", "CancelOrder", o)}
    [] saga[o].step = "PAYMENT_SUCCEEDED" -> {NewTask("boot", "MarkOrderAsComplete", o)}
    [] OTHER -> {}

\* The loop awaits the commands it executes itself, not the events.
NoneAwaited == \A t \in tasks : t.flow # "boot"

RecoverSaga(o) ==
  /\ server = "booting"
  /\ o \in boot
  /\ NoneAwaited
  /\ boot' = boot \ {o}
  /\ tasks' = tasks \cup Recovered(o)
  /\ UNCHANGED <<inventoryVars, tableVars, server, loading, restarts, used, granted>>

RecoveryEnds ==
  /\ server = "booting"
  /\ boot = {}
  /\ NoneAwaited
  /\ server' = "up"
  /\ UNCHANGED <<inventoryVars, tableVars, tasks, loading, boot, restarts, used, granted>>

------------------------------------------------------------------------------

TaskStep(t) ==
  \/ ReserveInCache(t) \/ ReserveReadsSaga(t) \/ ReservePersistsSaga(t)
  \/ ReserveEnqueues(t)
  \/ ReleaseReadsSaga(t) \/ ReturnLine(t) \/ CompensateReadsSaga(t)
  \/ ReturnPersistsSaga(t) \/ ReturnEnqueues(t) \/ ReturnPublishes(t)
  \/ InitiatePaymentReads(t) \/ InitiatePaymentCommits(t)
  \/ TransactionReadsSaga(t)
  \/ OrderCommandLoads(t) \/ MarkOrderCommits(t)
  \/ CancelOrderPublishes(t) \/ CancelOrderCommits(t)
  \/ PayForOrderLoads(t) \/ PayForOrderPublishes(t) \/ PayForOrderCommits(t)
  \/ CancelPaymentLoads(t) \/ CancelPaymentCommits(t)

TaskFails(t) == ReserveCatches(t) \/ DependencyFails(t)

WorkerStep ==
  /\ Running
  /\ Worker
  /\ UNCHANGED <<tableVars, tasks, serverVars, used, granted>>

Progress ==
  \/ \E t \in tasks : TaskStep(t)
  \/ WorkerStep
  \/ \E o \in Order : RecoverSaga(o)
  \/ RecoveryEnds
  \/ Restart
  \/ LoaderRuns

Next ==
  \/ Progress
  \/ \E t \in tasks : TaskFails(t)
  \/ \E o \in Order : PlaceOrder(o)
  \/ \E r \in Request : RequestCancel(r) \/ RequestPayment(r)
  \/ Crash

Spec == Init /\ [][Next]_vars

\* The event loop runs every task that can go on, the worker takes every job,
\* the start-up hook ends and somebody restarts the server.  Customers and
\* failures need not act.
FairSpec ==
  /\ Spec
  /\ WF_vars(\E t \in tasks : TaskStep(t))
  /\ WF_vars(WorkerStep)
  /\ WF_vars(\E o \in Order : RecoverSaga(o))
  /\ WF_vars(RecoveryEnds)
  /\ WF_vars(Restart)
  /\ WF_vars(LoaderRuns)

==============================================================================
