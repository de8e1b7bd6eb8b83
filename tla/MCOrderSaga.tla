----------------------------- MODULE MCOrderSaga -----------------------------
(* Values of the constants for the runs of OrderSaga. *)
EXTENDS OrderSagaPhases, TLC

CONSTANTS o1, o2, p1, p2, r1, r2

OneOfEach == [p \in Product |-> 1]
Both(a, b) == <<[product |-> a, quantity |-> 1], [product |-> b, quantity |-> 1]>>
Single(a) == <<[product |-> a, quantity |-> 1]>>

\* One order of two products.
TwoLines == (o1 :> Both(p1, p2))
\* Two orders that want the same single units in opposite orders.
Crossed == (o1 :> Both(p1, p2)) @@ (o2 :> Both(p2, p1))
\* One order of one line.
OneLine == (o1 :> Single(p1))
\* Two orders of one product each.
SameProduct == (o1 :> Single(p1)) @@ (o2 :> Single(p1))
\* One order with two lines of the same product.
Repeated == (o1 :> Both(p1, p1))

AboutFirst == [r \in Request |-> o1]
AboutEach == (r1 :> o1) @@ (r2 :> o2)

==============================================================================
