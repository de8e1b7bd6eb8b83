------------------- MODULE OptimisticReservationInvariants -------------------
(***************************************************************************)
(* The inductive invariant behind the guarantees of OptimisticReservation.  *)
(***************************************************************************)
EXTENDS OptimisticReservation

\* What pc says of the saga, and the saga of the order.
Unplaced == {"new", "ordering", "ordered", "recorded", "caught", "refused"}
Undecided == {"placed", "reading", "updating", "committing", "failing", "finding", "recording",
              "conflict", "error"}

SagaFollows ==
  \A o \in Order :
    /\ pc[o] \in Unplaced => saga[o] = None
    /\ pc[o] \in Undecided => saga[o] = NewSaga
    /\ Placed(o) <=> saga[o] # None

\* Only requests with valid quantities come as far as the tables, and the
\* totals that are stored are those of the orders.
RowsAreOrders ==
  /\ \A row \in orders : Accepted(row.id) /\ row.total = TotalPrice(row.id)
  /\ \A o \in Order :
       /\ pending[o] \subseteq {[id |-> o, total |-> TotalPrice(o)]}
       /\ pc[o] \in {"ordered", "recorded"} => pending[o] # {}
       /\ pc[o] \in {"ordering", "ordered", "recorded", "caught"} => Accepted(o)

\* A unit of work holds one connection while it is in a transaction, besides
\* those that leaked, and a command is in a transaction where its code is
\* inside of one.
ConnectionsAreCounted ==
  /\ \A u \in Handler : held[u] = leaks[u] + (IF InTransaction(u) THEN 1 ELSE 0)
  /\ \A o \in Order :
       /\ InTransaction(Placing(o)) => pc[o] \in {"ordering", "ordered", "recorded", "caught"}
       /\ InTransaction(Reserving(o)) <=>
            pc[o] \in {"reading", "updating", "committing", "finding", "recording"}

\* A row has one writer at a time, and only while the writer's transaction is
\* open.
RowsAreLocked ==
  \A o \in Order :
    /\ written[o] # {} => pc[o] \in {"updating", "committing"}
    /\ \A s \in Order \ {o} : written[o] \cap written[s] = {}

\* What was read is either stale or what the row still holds, and the version
\* tells which; a row that is written still holds it.
VersionsTell ==
  \A o \in Order :
    /\ \A p \in DOMAIN read[o] :
         /\ read[o][p].version <= inventory[p].version
         /\ Matches(o, p) => inventory[p] = read[o][p]
    /\ \A p \in written[o] : Matches(o, p)

\* The updates of a command are those of the products it found.
UpdatesAreComplete ==
  \A o \in Order :
    /\ pc[o] \in {"updating", "committing"} =>
         /\ DOMAIN read[o] = Found(o)
         /\ \A p \in Found(o) : Removed(read[o][p], LineQuantity(o, p)) # {}
    /\ pc[o] = "committing" => written[o] = Found(o)

TakersOf(p) == {o \in Order : saga[o] = "INVENTORY_RESERVED" /\ p \in Found(o)}

TakersAreCounted ==
  /\ \A p \in Product : IsFiniteSet(TakersOf(p))
  /\ VersionsCountUpdates

ReservationInvariant ==
  /\ TypeOK
  /\ SagaFollows
  /\ RowsAreOrders
  /\ ConnectionsAreCounted
  /\ RepositoriesAreCurrent
  /\ RowsAreLocked
  /\ VersionsTell
  /\ UpdatesAreComplete
  /\ TakersAreCounted

==============================================================================
