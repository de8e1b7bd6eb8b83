--------------------------- MODULE OrderLifecycle ---------------------------
(***************************************************************************)
(* What the order processing saga promises for every order: it is offered   *)
(* for payment or it fails, it is completed only after its payment was      *)
(* paid, and it is canceled only together with a payment that was not.      *)
(***************************************************************************)
CONSTANT Order

VARIABLES
  order,    \* [Order -> the state of the order]
  payment   \* [Order -> the state of its payment]

vars == <<order, payment>>

Init ==
  /\ order = [o \in Order |-> "NONE"]
  /\ payment = [o \in Order |-> "NONE"]

At(o, state, paymentState) == order[o] = state /\ payment[o] = paymentState

OrderBecomes(o, state) == order' = [order EXCEPT ![o] = state] /\ UNCHANGED payment
PaymentBecomes(o, state) == payment' = [payment EXCEPT ![o] = state] /\ UNCHANGED order

Place(o) == At(o, "NONE", "NONE") /\ OrderBecomes(o, "PENDING")
Fail(o) == At(o, "PENDING", "NONE") /\ OrderBecomes(o, "FAILED")
OpenPayment(o) == At(o, "PENDING", "NONE") /\ PaymentBecomes(o, "OPEN")
AwaitPayment(o) == At(o, "PENDING", "OPEN") /\ OrderBecomes(o, "AWAITING_PAYMENT")
Pay(o) == At(o, "AWAITING_PAYMENT", "OPEN") /\ PaymentBecomes(o, "PAID")
Complete(o) == At(o, "AWAITING_PAYMENT", "PAID") /\ OrderBecomes(o, "COMPLETED")
Decline(o) == At(o, "AWAITING_PAYMENT", "OPEN") /\ PaymentBecomes(o, "FAILED")
Cancel(o) ==
  /\ At(o, "AWAITING_PAYMENT", "OPEN") \/ At(o, "AWAITING_PAYMENT", "FAILED")
  /\ OrderBecomes(o, "CANCELED")
CancelPayment(o) == At(o, "CANCELED", "OPEN") /\ PaymentBecomes(o, "CANCELED")

Next ==
  \E o \in Order :
    \/ Place(o) \/ Fail(o) \/ OpenPayment(o) \/ AwaitPayment(o)
    \/ Pay(o) \/ Complete(o) \/ Decline(o) \/ Cancel(o) \/ CancelPayment(o)

Spec == Init /\ [][Next]_vars

=============================================================================
