----------------------------- MODULE ValueObjects -----------------------------
(***************************************************************************)
(* Quantities, versions and prices.  An operation whose result is not a     *)
(* value of the type throws: here it has no result.                         *)
(***************************************************************************)
EXTENDS Integers

Quantity(n) == {n} \cap Nat
Subtract(a, b) == Quantity(a - b)

Initial == 1
NextVersion(v) == v + 1

\* Amounts of one currency, in its smallest unit.
Price(amount) == {amount} \cap Nat
Multiply(amount, factor) == amount * factor

==============================================================================
