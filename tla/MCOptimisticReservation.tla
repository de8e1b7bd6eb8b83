----------------------- MODULE MCOptimisticReservation -----------------------
(* Values of the constants for the run of OptimisticReservation. *)
EXTENDS OptimisticReservationInvariants, TLC

CONSTANTS o1, o2, o3, p1, p2, p3, p4

TwoEach == [p \in Product |-> 2]
Take(p, n) == [product |-> p, quantity |-> n]

Prices == (p1 :> 2) @@ (p2 :> 1) @@ (p3 :> 1)

\* Two orders that take the same two products, not enough for both: one has a
\* second line of a product, the other lines of a product without an inventory
\* and of an unknown one.  A third is refused for its quantity.
Mixed == (o1 :> <<Take(p1, 1), Take(p2, 1), Take(p1, 1)>>)
         @@ (o2 :> <<Take(p2, 1), Take(p1, 2), Take(p3, 1), Take(p4, 1)>>) @@ (o3 :> <<Take(p1, 0 - 1)>>)

==============================================================================
