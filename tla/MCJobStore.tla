------------------------------ MODULE MCJobStore ------------------------------
(* Values of the constants for the run of JobStore. *)
EXTENDS JobStoreInvariants, TLC

CONSTANTS o1, o2, p1

OneEach == [p \in Product |-> 1]
SameProduct == [o \in Order |-> p1]

==============================================================================
