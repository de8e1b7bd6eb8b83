-------------------------- MODULE AtomicReservation --------------------------
(***************************************************************************)
(* What a reservation promises: an order gets all of its products at once,  *)
(* or none of them.                                                         *)
(***************************************************************************)
EXTENDS Naturals

CONSTANTS Order, Product, Wanted   \* Wanted[o]: [its products -> quantity]

VARIABLES
  available,   \* [Product -> Nat]
  outcome      \* [Order -> {"pending", "reserved", "rejected"}]

vars == <<available, outcome>>

Reserve(o) ==
  /\ outcome[o] = "pending"
  /\ \A p \in DOMAIN Wanted[o] : Wanted[o][p] <= available[p]
  /\ available' = [p \in Product |-> IF p \in DOMAIN Wanted[o]
                                     THEN available[p] - Wanted[o][p] ELSE available[p]]
  /\ outcome' = [outcome EXCEPT ![o] = "reserved"]

\* An order may also be rejected because something failed on the way.
Reject(o) ==
  /\ outcome[o] = "pending"
  /\ outcome' = [outcome EXCEPT ![o] = "rejected"]
  /\ UNCHANGED available

Init ==
  /\ available \in [Product -> Nat]
  /\ outcome = [o \in Order |-> "pending"]

Next == \E o \in Order : Reserve(o) \/ Reject(o)

Spec == Init /\ [][Next]_vars

==============================================================================
