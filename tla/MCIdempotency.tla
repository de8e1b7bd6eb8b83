---------------------------- MODULE MCIdempotency ----------------------------
(* Values of the constants for the runs of Idempotency. *)
EXTENDS Idempotency, TLC

CONSTANTS r1, r2, r3, i1, i2

\* The first two requests reach the same instance, the third another.
TwoInstances == (r1 :> i1) @@ (r2 :> i1) @@ (r3 :> i2)
OneInstance == (r1 :> i1) @@ (r2 :> i1)

==============================================================================
