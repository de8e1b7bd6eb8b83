---------------------------- MODULE OrderPlacement ----------------------------
(***************************************************************************)
(* Placing an order: the request, the prices of its lines, and the          *)
(* transaction that writes the order and its saga.  The module holds the    *)
(* operations.                                                              *)
(***************************************************************************)
EXTENDS ValueObjects, Sequences, FiniteSets, SequencesExt

CONSTANTS
  Order,         \* the orders that customers request
  Lines,         \* [Order -> sequence of [product, quantity]]
  PriceOf,       \* [the products of the catalog -> Nat]
  DatabaseFails, \* whether PostgreSQL may fail
  PoolSize       \* connections in the pool

ASSUME PlacementAssumption ==
  /\ DatabaseFails \in BOOLEAN
  /\ PoolSize \in Nat \ {0}
  /\ \A p \in DOMAIN PriceOf : Price(PriceOf[p]) # {}

\* The lines of a request; their quantities may be any number.
ASSUME LinesAssumption ==
  \A o \in Order :
    /\ Lines[o] \in Seq(Range(Lines[o]))
    /\ \A i \in DOMAIN Lines[o] : Lines[o][i].quantity \in Int

VARIABLES
  orders,   \* the orders table: each order and its total price
  saga,     \* the committed step of each order's saga
  pc,       \* where the command for each order is
  pending,  \* the rows that PlaceOrder has written in its open transaction
  unit, held, leaks

placementVars == <<orders, saga, pc, pending, unit, held, leaks>>

\* Every command has a unit of work of its own.
Handler == {"PlaceOrder", "ReserveInventory"} \X Order
INSTANCE UnitOfWork WITH Unit <- Handler
Placing(o) == <<"PlaceOrder", o>>

\* No saga yet, and the step of a new one.
None == "NONE"
NewSaga == "INITIATED"

\* Of an order, its lines are kept as their total.
OrderRow == [id : Order, total : Nat]

Placed(o) == \E row \in orders : row.id = o
Goes(o, place) == pc' = [pc EXCEPT ![o] = place]

\* findAllByIds: one row for each product of the catalog that a line names.
FoundProducts(o) == {p \in DOMAIN PriceOf : \E i \in DOMAIN Lines[o] : Lines[o][i].product = p}

\* Slip: splice without its count, which removes all that follows as well.
PriceAtSpliceAll(o, i) ==
  LET p == Lines[o][i].product IN
  IF p \in FoundProducts(o) /\ \A j \in 1..(i - 1) : Lines[o][j].product \notin FoundProducts(o)
  THEN PriceOf[p] ELSE 0

\* A line takes the product it finds out of the list that was read: a later
\* line of the same product, like one of an unknown product, costs nothing.
PriceAt(o, i) ==
  LET p == Lines[o][i].product IN
  IF p \in FoundProducts(o) /\ \A j \in 1..(i - 1) : Lines[o][j].product # p
  THEN PriceOf[p] ELSE 0

TotalPrice(o) ==
  SumFunction([i \in DOMAIN Lines[o] |-> Multiply(PriceAt(o, i), Lines[o][i].quantity)])

\* OrderAggregate.create throws for an order without lines.
Created(o) == {row \in {[id |-> o, total |-> TotalPrice(o)]} : Lines[o] # <<>>}

------------------------------------------------------------------------------
(* The handler. *)

\* The controller makes the quantities: it throws before there is a command.
Accepted(o) == \A i \in DOMAIN Lines[o] : Quantity(Lines[o][i].quantity) # {}

RequestOrder(o) ==
  /\ pc[o] = "new"
  /\ IF Accepted(o)
     THEN BeginTransaction(Placing(o)) /\ Goes(o, "ordering")
     ELSE UnitsUnchanged /\ Goes(o, "refused")
  /\ UNCHANGED <<orders, saga, pending>>

PersistOrder(o) ==
  /\ pc[o] = "ordering"
  /\ UseRepositories(Placing(o))
  /\ pending' = [pending EXCEPT ![o] = Created(o)]
  /\ Goes(o, IF Created(o) = {} THEN "caught" ELSE "ordered")
  /\ UNCHANGED <<orders, saga>>

\* Slip: the saga is written by a repository outside of the unit of work.
PersistSagaAtOnce(o) ==
  /\ pc[o] = "ordered"
  /\ saga' = [saga EXCEPT ![o] = NewSaga]
  /\ Goes(o, "recorded")
  /\ UNCHANGED <<orders, pending>> /\ UnitsUnchanged

PersistSaga(o) ==
  /\ pc[o] = "ordered"
  /\ Goes(o, "recorded")
  /\ UNCHANGED <<orders, saga, pending>> /\ UnitsUnchanged

CommitOrder(o) ==
  /\ pc[o] = "recorded"
  /\ CommitTransaction(Placing(o))
  /\ orders' = orders \cup pending[o]
  /\ saga' = [saga EXCEPT ![o] = NewSaga]
  /\ pending' = [pending EXCEPT ![o] = {}]
  /\ Goes(o, "placed")

\* The catch block.
RollBackOrder(o) ==
  /\ pc[o] = "caught"
  /\ RollbackTransaction(Placing(o))
  /\ pending' = [pending EXCEPT ![o] = {}]
  /\ Goes(o, "refused")
  /\ UNCHANGED <<orders, saga>>

PlaceOrder(o) == PersistOrder(o) \/ PersistSaga(o) \/ CommitOrder(o) \/ RollBackOrder(o)

\* PostgreSQL fails to begin, fails a statement, or fails to commit.
PlacingFails(o) ==
  /\ DatabaseFails
  /\ \/ pc[o] = "new" /\ Accepted(o) /\ OpenFails(Placing(o)) /\ Goes(o, "refused")
     \/ pc[o] \in {"ordering", "ordered"} /\ UnitsUnchanged /\ Goes(o, "caught")
     \/ pc[o] = "recorded" /\ CommitTransaction(Placing(o)) /\ Goes(o, "caught")
  /\ UNCHANGED <<orders, saga, pending>>

==============================================================================
