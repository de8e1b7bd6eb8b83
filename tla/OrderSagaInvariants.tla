------------------------- MODULE OrderSagaInvariants -------------------------
(***************************************************************************)
(* What the order processing saga guarantees whatever customers, crashes    *)
(* and failing dependencies do, and the inductive invariant it follows from.*)
(***************************************************************************)
EXTENDS OrderSaga

\* No payment is ever opened before Redis has granted every product of the
\* order, whatever crashes, failures and stale writes of the saga row happen
\* on the way (InitiatePaymentHandler itself checks nothing).
PaymentNeedsReservation ==
  \A o \in Order :
    payments[o] # <<>> =>
      \A i \in LineIndex(o) : Lines[o][i].product \in granted[o]

\* An order never gets a second payment row, although payments.order_id is not
\* unique and the recovery publishes the events of the saga again.
AtMostOnePayment == \A o \in Order : Len(payments[o]) <= 1

\* An order that failed for lack of stock was never offered for payment.
FailedOrderHasNoPayment ==
  \A o \in Order : orderState[o] = "FAILED" => payments[o] = <<>>

\* Once a payment exists the saga row never shows a reservation step again,
\* from which the recovery would open a second payment.
NoReturnToReservation ==
  [][\A o \in Order :
       payments[o] # <<>> =>
         saga'[o].step \notin {"INITIATED", "INVENTORY_RESERVING", "INVENTORY_RESERVED"}]_vars

------------------------------------------------------------------------------
(* The inductive invariant. *)

\* The commands an order goes through from its placement to its offer for
\* payment, or to its failure.
ChainCommand ==
  {"ReserveInventory", "ReleaseReservation", "InitiatePayment",
   "MarkOrderAwaitingPayment", "MarkOrderFail"}

ReservationStep == {"INITIATED", "INVENTORY_RESERVING", "INVENTORY_RESERVED"}

\* At most one command of the chain runs for an order.
OneChain ==
  \A t, u \in tasks :
    /\ t.order = u.order
    /\ {t.cmd, u.cmd} \subseteq ChainCommand
    => t = u

\* An order that is not placed has nothing.
NotPlaced ==
  \A o \in Order :
    orderState[o] = None =>
      /\ payments[o] = <<>>
      /\ saga[o].step = None
      /\ \A t \in tasks : t.order # o

\* The recovery reaches every order before anything else does.
RecoveryIsFirst ==
  /\ server \in {"down", "starting", "loading", "aborted"} => tasks = {}
  /\ server # "booting" => boot = {}
  /\ \A t \in tasks : t.order \notin boot
  /\ \A o \in boot : orderState[o] # None

\* What the saga rows, and those who have read them, say is reserved has been
\* granted.
ReservedIsGranted ==
  /\ \A o \in Order : \A k \in DOMAIN saga[o].reserved :
       Lines[o][saga[o].reserved[k]].product \in granted[o]
  /\ \A t \in tasks :
       /\ \A k \in DOMAIN t.seen : Lines[t.order][t.seen[k]].product \in granted[t.order]
       /\ t.cmd = "ReserveInventory" /\ t.pc # "start" =>
            LineOf(t).product \in granted[t.order]

Granted(o) == \A i \in LineIndex(o) : Lines[o][i].product \in granted[o]

GrantedBeforePayment ==
  /\ \A o \in Order : saga[o].step = "INVENTORY_RESERVED" => Granted(o)
  /\ \A t \in tasks : t.cmd = "InitiatePayment" => Granted(t.order)

\* A payment ends the reservation for good.
PaymentEndsReservation ==
  /\ \A o \in Order : payments[o] # <<>> => saga[o].step \notin ReservationStep
  /\ \A o \in Order : saga[o].step = "PAYMENT_CREATED" => payments[o] # <<>>
  /\ \A t \in tasks :
       t.cmd \in ChainCommand =>
         (payments[t.order] # <<>> <=> t.cmd = "MarkOrderAwaitingPayment")

\* So does the failure of the order.
FailureEndsReservation ==
  \A o \in Order :
    orderState[o] = "FAILED" =>
      /\ saga[o].step \notin ReservationStep
      /\ \A t \in tasks : t.order = o => t.cmd \notin ChainCommand

SagaInvariant ==
  /\ TypeOK
  /\ OneChain
  /\ NotPlaced
  /\ RecoveryIsFirst
  /\ ReservedIsGranted
  /\ GrantedBeforePayment
  /\ PaymentEndsReservation
  /\ FailureEndsReservation
  /\ PaymentNeedsReservation
  /\ AtMostOnePayment
  /\ FailedOrderHasNoPayment

==============================================================================
