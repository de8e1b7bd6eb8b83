---------------------------- MODULE OrderSagaPhases ----------------------------
(***************************************************************************)
(* The inductive invariants behind OrderSagaProperties: which side of a     *)
(* payment an order is on; and, in three layers, what is reserved while an  *)
(* order is PENDING, which commands may run in which phase of an order, and *)
(* what a run without failures adds to that.                                *)
(* Each layer names what it needs of customers and of the dependencies.     *)
(***************************************************************************)
EXTENDS OrderSagaProperties

\* Customers neither cancel nor pay before the order is offered for payment.
CustomersWait == "PENDING" \notin CancelFrom \cup PayFrom

\* They send one request about an order: they pay it or they cancel it.
OneRequest == \A r, q \in Request : About[r] = About[q] => r = q

CustomersArePatient == CustomersWait /\ OneRequest

\* The lines of an order are for different products.
ProductsDiffer ==
  \A o \in Order : \A i, j \in LineIndex(o) :
    Lines[o][i].product = Lines[o][j].product => i = j

\* PostgreSQL commits whatever it is asked to commit, unless the server dies.
TransactionsCommit == "database" \notin Faults

NothingFails == Faults = {} /\ MaxRestarts = 0

Asked(o) == \E r \in used : About[r] = o

Paying(o) ==
  \E t \in OfOrder(o) : t.cmd = "PayForOrder" /\ t.pc = "published" /\ t.outcome = "PAID"

------------------------------------------------------------------------------
(* The sides of a payment, for orders that are the subject of one request:   *)
(* whenever it is sent, and whatever fails.                                  *)

PaidTask(t) ==
  t.cmd = "MarkOrderAsComplete" \/ (t.cmd = "PayForOrder" /\ t.outcome = "PAID")

UnpaidTask(t) ==
  \/ t.cmd \in {"CancelOrder", "CompensateOrderInventory", "CancelPayment"}
  \/ t.cmd = "PayForOrder" /\ t.outcome = "FAILED"

HasPaid(o) == \E i \in DOMAIN payments[o] : payments[o][i] = "PAID"

PaidRow(o) ==
  \/ HasPaid(o)
  \/ orderState[o] = "COMPLETED"
  \/ saga[o].step \in {"PAYMENT_SUCCEEDED", "ORDER_COMPLETED"}

UnpaidRow(o) ==
  \/ \E i \in DOMAIN payments[o] : payments[o][i] \in {"FAILED", "CANCELED"}
  \/ orderState[o] = "CANCELED"
  \/ saga[o].step \in {"PAYMENT_FAILED", "ORDER_CANCELED", "PAYMENT_CANCELED"}
  \/ saga[o].step = "INVENTORY_COMPENSATED" /\ payments[o] # <<>>

PaidSide(o) == PaidRow(o) \/ \E t \in OfOrder(o) : PaidTask(t)

UnpaidSide(o) == UnpaidRow(o) \/ \E t \in OfOrder(o) : UnpaidTask(t)

\* What was started by paying and what was started by canceling, or by paying
\* the wrong amount, never meet, neither in the rows nor in the commands.
OneSide(o) ==
  /\ PaidSide(o) \/ UnpaidSide(o) => Asked(o)
  /\ ~(PaidSide(o) /\ UnpaidSide(o))
  /\ PaidSide(o) => payments[o] # <<>>

\* A completion that was started before its payment commits, commits after it.
CompletionFollowsPayment ==
  /\ \A o \in Order : PaidRow(o) => HasPaid(o)
  /\ \A t \in tasks :
       t.cmd = "MarkOrderAsComplete" => HasPaid(t.order) \/ Paying(t.order)

SidesInvariant ==
  /\ SagaInvariant
  /\ \A o \in Order : OneSide(o)
  /\ \A t \in tasks : t.cmd = "PayForOrder" => t.arg \in DOMAIN payments[t.order]
  /\ TransactionsCommit => CompletionFollowsPayment

------------------------------------------------------------------------------
(* First layer, for customers who wait. *)

\* The awaits of each command.
PcOf(c) ==
  CASE c = "ReserveInventory" -> {"start", "granted", "read", "saved"}
    [] c = "ReleaseReservation" -> {"start", "returning", "returned", "saved"}
    [] c = "CompensateOrderInventory" -> {"returning", "returned", "read", "saved"}
    [] c = "InitiatePayment" -> {"start", "read"}
    [] c \in MarkingCommand \cup {"CancelPayment"} -> {"start", "loaded", "read"}
    [] c \in {"CancelOrder", "PayForOrder"} -> {"start", "loaded", "read", "published"}

\* Commands that are past the reading of the saga row.
HasRead(c, pc) ==
  \/ pc \in {"read", "saved", "published"}
  \/ c = "ReleaseReservation" /\ pc \in {"returning", "returned"}

AllReserved(o) == Unreserved(o, saga[o].reserved) = {}

\* The saga row of a PENDING order shows how far its reservation is.
RowReserves(o) ==
  /\ orderState[o] = "PENDING" =>
       IF payments[o] = <<>>
       THEN saga[o].step \in ReservationStep \cup {"INVENTORY_COMPENSATED"}
       ELSE saga[o].step = "PAYMENT_CREATED"
  /\ saga[o].step \in ReservationStep \cup {"PAYMENT_CREATED"} => orderState[o] = "PENDING"
  /\ saga[o].step \in {None, "INITIATED"} => saga[o].reserved = <<>>
  /\ saga[o].step \in ReservationStep =>
       (saga[o].step = "INVENTORY_RESERVED" <=> AllReserved(o))
  /\ payments[o] # <<>> => AllReserved(o)
  /\ IsInjective(saga[o].reserved)

\* Only the chain runs for a PENDING order; nobody holds a stale saga row; the
\* line that is being reserved is not reserved yet.
TaskReserves(t) ==
  /\ t.pc \in PcOf(t.cmd)
  /\ t.cmd \in ChainCommand <=> orderState[t.order] = "PENDING"
  /\ HasRead(t.cmd, t.pc) => t.seen = saga[t.order].reserved
  /\ t.pc = "returning" => IsInjective(t.todo)
  /\ t.cmd = "ReserveInventory" =>
       /\ saga[t.order].step \in ReservationStep
       /\ t.pc # "saved" => t.arg \in Unreserved(t.order, saga[t.order].reserved)
  /\ t.cmd = "ReleaseReservation" =>
       IF t.pc = "saved" THEN saga[t.order].step = "INVENTORY_COMPENSATED"
                         ELSE saga[t.order].step \in ReservationStep
  /\ t.cmd = "MarkOrderFail" => saga[t.order].step = "INVENTORY_COMPENSATED"
  /\ t.cmd = "InitiatePayment" => saga[t.order].step = "INVENTORY_RESERVED"

LinesInvariant ==
  /\ SagaInvariant
  /\ \A o \in Order : RowReserves(o)
  /\ \A t \in tasks : TaskReserves(t)

------------------------------------------------------------------------------
(* Second layer, for patient customers and transactions that commit. *)

At(o, state, payment, steps) ==
  orderState[o] = state /\ PaymentOf(o) = payment /\ saga[o].step \in steps

\* The phases of an order: what its three rows may say at one time.
InPhase(o) ==
  \/ At(o, None, None, {None})
  \/ At(o, "PENDING", None, ReservationStep \cup {"INVENTORY_COMPENSATED"})
  \/ At(o, "FAILED", None, {"ORDER_FAILED"})
  \/ At(o, "PENDING", "OPEN", {"PAYMENT_CREATED"})
  \/ At(o, "AWAITING_PAYMENT", "OPEN", {"PAYMENT_PROCESSING"})
  \/ At(o, "AWAITING_PAYMENT", "PAID", {"PAYMENT_SUCCEEDED"})
  \/ At(o, "COMPLETED", "PAID", {"ORDER_COMPLETED"})
  \/ At(o, "AWAITING_PAYMENT", "FAILED", {"PAYMENT_FAILED"})
  \/ At(o, "CANCELED", "OPEN", {"ORDER_CANCELED", "INVENTORY_COMPENSATED"})
  \/ At(o, "CANCELED", "FAILED", {"ORDER_CANCELED", "INVENTORY_COMPENSATED"})
  \/ At(o, "CANCELED", "CANCELED", {"PAYMENT_CANCELED"})

\* A transaction that has published its event, and the command the event leads to.
Follows(u, t) ==
  /\ t.pc = "published"
  /\ \/ /\ t.cmd = "PayForOrder"
        /\ u.cmd = IF t.outcome = "PAID" THEN "MarkOrderAsComplete" ELSE "CancelOrder"
        /\ u.pc # "published"
     \/ /\ t.cmd = "CancelOrder"
        /\ u.cmd = "CompensateOrderInventory"
        /\ u.pc # "saved"

\* Otherwise an order has one command in execution.
OneCommand ==
  \A t, u \in tasks : t.order = u.order => t = u \/ Follows(t, u) \/ Follows(u, t)

\* The phases in which a command may run.
TaskInPhase(t) ==
  LET o == t.order IN
  /\ t.cmd \notin ChainCommand => Asked(o)
  /\ t.cmd = "PayForOrder" =>
       orderState[o] = "AWAITING_PAYMENT" /\ PaymentOf(o) = "OPEN" /\ t.arg = 1
  /\ t.cmd = "MarkOrderAsComplete" =>
       /\ orderState[o] = "AWAITING_PAYMENT"
       /\ PaymentOf(o) = "PAID" \/ Paying(o)
  /\ t.cmd = "CancelOrder" =>
       \/ orderState[o] = "AWAITING_PAYMENT" /\ PaymentOf(o) \in {"OPEN", "FAILED"}
       \/ orderState[o] = "FAILED" /\ t.pc = "start"
  /\ t.cmd = "CompensateOrderInventory" =>
       IF t.pc = "saved"
       THEN orderState[o] = "CANCELED" /\ saga[o].step = "INVENTORY_COMPENSATED"
       ELSE \/ orderState[o] = "CANCELED" /\ saga[o].step = "ORDER_CANCELED"
            \/ Canceling(o)
  /\ t.cmd = "CancelPayment" =>
       /\ orderState[o] = "CANCELED" /\ saga[o].step = "INVENTORY_COMPENSATED"
       /\ t.pc # "start" => PaymentOf(o) = "OPEN" /\ t.arg = 1

RowInPhase(o) ==
  /\ InPhase(o)
  /\ orderState[o] \in {"COMPLETED", "CANCELED"} \/ PaymentOf(o) \notin {None, "OPEN"} => Asked(o)

LifecycleInvariant ==
  /\ LinesInvariant
  /\ OneCommand
  /\ \A o \in Order : RowInPhase(o)
  /\ \A t \in tasks : TaskInPhase(t)

------------------------------------------------------------------------------
(* Third layer, for runs without failures, crashes and restarts. *)

\* The server stays up, so the recovery never runs.
StockInvariant ==
  /\ LifecycleInvariant
  /\ server = "up" /\ boot = {}
  /\ \A t \in tasks : t.flow # "boot"
  /\ StockIsConserved

==============================================================================
