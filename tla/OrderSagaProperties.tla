------------------------- MODULE OrderSagaProperties -------------------------
(***************************************************************************)
(* What the saga guarantees when every order is the subject of one request, *)
(* sent while the order awaits its payment, and nothing fails; and what it  *)
(* is expected to guarantee beyond that.                                    *)
(***************************************************************************)
EXTENDS OrderSagaInvariants, FiniteSetsExt

------------------------------------------------------------------------------
(* Stock. *)

OfOrder(o) == {t \in tasks : t.order = o}

Returning(ts) == {t \in ts : t.pc = "returning"}

Returned(ts, step) ==
  \/ step \in {"INVENTORY_COMPENSATED", "PAYMENT_CANCELED", "ORDER_FAILED"}
  \/ \E t \in ts : /\ t.cmd \in {"ReleaseReservation", "CompensateOrderInventory"}
                   /\ t.pc \in {"returned", "read"}

\* Lines that Redis has granted and the saga row does not list yet.
Unsaved(ts) ==
  {t.arg : t \in {u \in ts : u.cmd = "ReserveInventory" /\ u.pc \in {"granted", "read"}}}

\* What an order holds, given the commands that run for it and its saga row.
HeldBy(ts, row) ==
  CASE Returning(ts) # {} -> UNION {Range(t.todo) : t \in Returning(ts)}
    [] Returning(ts) = {} /\ Returned(ts, row.step) -> {}
    [] OTHER -> Range(row.reserved) \cup Unsaved(ts)

\* The lines of an order whose quantities the counters are missing.
HeldLines(o) == HeldBy(OfOrder(o), saga[o])

Demand(o, p) ==
  [i \in LineIndex(o) |-> IF Lines[o][i].product = p THEN Lines[o][i].quantity ELSE 0]

Quantity(o, lines, p) == SumFunctionOnSet(Demand(o, p), lines)

\* No unit of stock is lost and none is sold twice: what the counters are
\* missing is exactly what the sagas hold for orders that were not canceled
\* and did not fail.
StockIsConserved ==
  \A p \in Product :
    cache[p] + SumFunctionOnSet([o \in Order |-> Quantity(o, HeldLines(o), p)], Order)
      = InitialStock[p]

\* Redis never offers more units of a product than there are: no reservation
\* is returned twice, or returned without having been taken.
NoPhantomStock == \A p \in Product : cache[p] <= InitialStock[p]

\* A cancelation has been published and its transaction is about to commit: the
\* stock may be returned already.
Canceling(o) == \E t \in OfOrder(o) : t.cmd = "CancelOrder" /\ t.pc = "published"

\* Orders that are offered for payment or paid, and that nobody is canceling,
\* share the stock there is.
NoOversell ==
  \A p \in Product :
    SumFunctionOnSet([o \in Order |-> IF /\ orderState[o] \in {"AWAITING_PAYMENT", "COMPLETED"}
                                         /\ ~Canceling(o)
                                      THEN Quantity(o, LineIndex(o), p) ELSE 0], Order)
      <= InitialStock[p]

\* By the time an order gets its payment the saga row lists each of its lines.
ReservesEveryLine ==
  \A o \in Order : payments[o] # <<>> => LineIndex(o) = Range(saga[o].reserved)

\* When nothing is in progress the inventory table has caught up with the
\* counters: no job was lost, repeated or applied to the wrong quantity.
TableCatchesUp == tasks = {} /\ jobs = <<>> => stock = cache

\* A completed order has a paid payment, although MarkOrderAsComplete starts
\* before the transaction that pays commits.  If PostgreSQL rolls that
\* transaction back, the payment of the completed order is still open; in no
\* case did it fail, and in no case was it canceled.
CompletedIsPaid ==
  \A o \in Order :
    orderState[o] = "COMPLETED" =>
      \E i \in DOMAIN payments[o] :
        payments[o][i] = "PAID" \/ ("database" \in Faults /\ payments[o][i] = "OPEN")

\* Nobody pays for an order that ends up canceled.
CanceledNotPaid ==
  \A o \in Order :
    orderState[o] = "CANCELED" => \A i \in DOMAIN payments[o] : payments[o][i] # "PAID"

\* No saga, whatever step it was interrupted at, keeps the server from starting.
RecoveryNeverAborts == server # "aborted"

\* Completed, canceled and failed orders stay as they are: the state classes
\* throw on every transition, and no handler overwrites such an order with one
\* it has read before.
FinalOrdersStay ==
  [][\A o \in Order :
       orderState[o] \in {"COMPLETED", "CANCELED", "FAILED"} =>
         orderState'[o] = orderState[o]]_vars

\* Payments leave OPEN once.
SettledPaymentsStay ==
  [][\A o \in Order : \A i \in DOMAIN payments[o] :
       payments[o][i] # "OPEN" => payments'[o][i] = payments[o][i]]_vars

------------------------------------------------------------------------------
(* The saga implements the life cycle of an order.  A payment counts as paid *)
(* or failed when its transaction commits, which is later than the event     *)
(* that completes or cancels the order.                                      *)

PaymentOf(o) == IF payments[o] = <<>> THEN None ELSE payments[o][1]

Lifecycle == INSTANCE OrderLifecycle
  WITH order <- orderState, payment <- [o \in Order |-> PaymentOf(o)]

\* The order and its payment move together: no completion without a payment, no
\* payment of an order that was canceled or failed, no cancelation of a paid
\* order.
ImplementsLifecycle == Lifecycle!Spec

------------------------------------------------------------------------------
(* Under fairness. *)

\* A placed order does not stay PENDING: it is offered for payment, fails for
\* lack of stock, or is canceled.
PlacedOrdersAreSettled ==
  \A o \in Order : orderState[o] = "PENDING" ~> orderState[o] # "PENDING"

\* An order whose payment was created is offered for payment, or canceled,
\* although a crash may come between the two transactions.
OpenPaymentIsOffered ==
  \A o \in Order :
    orderState[o] = "PENDING" /\ payments[o] # <<>> ~> orderState[o] # "PENDING"

\* A paid order is completed.
PaidOrdersComplete ==
  \A o \in Order :
    (\E i \in DOMAIN payments[o] : payments[o][i] = "PAID") ~> orderState[o] = "COMPLETED"

\* A canceled order cannot be paid for good: its open payment is canceled,
\* although the cancelation, the compensation and the cancelation of the payment
\* are three commands, and a crash may come between any two of their awaits.
CanceledOrdersClosePayment ==
  \A o \in Order :
    orderState[o] = "CANCELED" ~> \A i \in DOMAIN payments[o] : payments[o][i] # "OPEN"

Closed(o) == orderState[o] \in {None, "COMPLETED", "CANCELED", "FAILED"}

Unsold(p) ==
  InitialStock[p]
    - SumFunctionOnSet([o \in Order |-> IF orderState[o] = "COMPLETED"
                                        THEN Quantity(o, LineIndex(o), p) ELSE 0], Order)

\* Canceled and failed orders give back what they had reserved, and no more.
\* While no order is open, the counters come to offer exactly what was not sold,
\* and every unit that was given back reaches the inventory table, whichever
\* orders, compensations and jobs overlapped.  (The table may keep more: a
\* reservation job that overtakes a compensation may be dropped.)
ClosedOrdersGiveBack ==
  []<>((\A o \in Order : Closed(o)) =>
         \A p \in Product : cache[p] = Unsold(p) /\ stock[p] >= Unsold(p))

==============================================================================
