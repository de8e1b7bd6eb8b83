-------------------------------- MODULE MCCart --------------------------------
(* Values of the constants for the run of Cart. *)
EXTENDS CartInvariants, TLC

CONSTANTS r1, r2, r3, p1, p2, p3, alice, bob, clerk, c1, c2

\* The clerk is a user who is no customer.
Customers == (alice :> c1) @@ (bob :> c2) @@ (clerk :> NoCustomer)

Asks1(op, p, n) == [op |-> op, product |-> p, quantity |-> n]
Commands == {Asks1("add", p1, 1), Asks1("add", p2, 1), Asks1("add", p3, 1),
             Asks1("update", p1, 3), Asks1("remove", p1, 1), Asks1("get", p1, 1)}

\* Requests differ in nothing but their names.
Requests == Permutations(Request)

==============================================================================
