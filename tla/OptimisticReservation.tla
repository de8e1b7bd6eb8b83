------------------------ MODULE OptimisticReservation ------------------------
(***************************************************************************)
(* The first version of the reservation, which the case study describes and *)
(* the orchestrator no longer dispatches: an order is placed, and all of    *)
(* its products are taken in one transaction of the unit of work, each by   *)
(* an UPDATE that requires the version that was read.  PostgreSQL holds the *)
(* lock of an updated row until the transaction ends.                       *)
(***************************************************************************)
EXTENDS OrderPlacement

CONSTANTS
  Product,       \* the products with an inventory row
  InitialStock,  \* [Product -> Nat]
  MaxCrashes     \* bound on the number of crashes

ASSUME InitialStockAssumption == InitialStock \in [Product -> Nat]
ASSUME CatalogAssumption == Product \subseteq DOMAIN PriceOf
ASSUME FaultAssumption == MaxCrashes \in Nat

VARIABLES
  inventory,  \* the committed rows, [Product -> [quantity, version]]
  read,       \* the inventories each command has read
  todo,       \* the updates it still has to send, in the order of its query
  written,    \* the rows it has updated, and so locked
  published,  \* the events that were published for each order
  crashes     \* number of crashes

commandVars == <<read, todo, written, published>>
vars == <<placementVars, inventory, commandVars, crashes>>

Reserving(o) == <<"ReserveInventory", o>>
Step == {"INITIATED", "INVENTORY_RESERVED", "INVENTORY_RESERVE_FAILED"}
Ended == {"refused", "reserved", "conflict", "failed", "error", "dead"}
AtRest == Ended \cup {"new", "placed"}
RowValue == [quantity : Nat, version : Nat \ {0}]

TypeOK ==
  /\ orders \subseteq OrderRow
  /\ saga \in [Order -> Step \cup {None}]
  /\ pc \in [Order -> AtRest \cup
                      {"ordering", "ordered", "recorded", "caught", "reading", "updating",
                       "committing", "failing", "finding", "recording"}]
  /\ pending \in [Order -> SUBSET OrderRow]
  /\ UnitOfWorkTypeOK
  /\ inventory \in [Product -> RowValue]
  /\ read = [o \in Order |-> read[o]]
  /\ todo \in [Order -> Seq(Product)]
  /\ written \in [Order -> SUBSET Product]
  /\ \A o \in Order :
       /\ read[o] \in [DOMAIN read[o] -> RowValue]
       /\ DOMAIN read[o] \subseteq Product
       /\ Range(todo[o]) \cup written[o] \subseteq DOMAIN read[o]
  /\ published \in [Order -> SUBSET {"Reserved", "ReservationFailed"}]
  /\ crashes \in 0..MaxCrashes

Init ==
  /\ orders = {}
  /\ saga = [o \in Order |-> None]
  /\ pc = [o \in Order |-> "new"]
  /\ pending = [o \in Order |-> {}]
  /\ UnitOfWorkInit
  /\ inventory = [p \in Product |-> [quantity |-> InitialStock[p], version |-> Initial]]
  /\ read = [o \in Order |-> <<>>]
  /\ todo = [o \in Order |-> <<>>]
  /\ written = [o \in Order |-> {}]
  /\ published = [o \in Order |-> {}]
  /\ crashes = 0

\* The products of an order that have an inventory, and for each the quantity
\* of its first line: the query ignores the others.
Found(o) == {p \in Product : \E i \in DOMAIN Lines[o] : Lines[o][i].product = p}
LineQuantity(o, p) ==
  Lines[o][CHOOSE i \in DOMAIN Lines[o] :
             /\ Lines[o][i].product = p
             /\ \A j \in 1..(i - 1) : Lines[o][j].product # p].quantity

\* Slip: the quantity is not checked.
RemovedUnchecked(value, q) ==
  {[quantity |-> value.quantity - q, version |-> NextVersion(value.version)]}

\* Slip: the version is not incremented.
RemovedSameVersion(value, q) ==
  {[quantity |-> left, version |-> value.version] : left \in Subtract(value.quantity, q)}

\* removeQuantity and nextVersion.
Removed(value, q) ==
  {[quantity |-> left, version |-> NextVersion(value.version)] : left \in Subtract(value.quantity, q)}

\* Slip: the unit of work releases its connection without a rollback.
RollBackForgotten(o) ==
  /\ todo' = [todo EXCEPT ![o] = <<>>]
  /\ EndExecute(Reserving(o))
  /\ UNCHANGED <<orders, saga, pending, inventory, read, written, crashes>>

\* A rollback gives up the updates and their locks.
RollBack(o) ==
  /\ written' = [written EXCEPT ![o] = {}]
  /\ todo' = [todo EXCEPT ![o] = <<>>]
  /\ EndExecute(Reserving(o))
  /\ UNCHANGED <<orders, saga, pending, inventory, read, crashes>>

------------------------------------------------------------------------------
(* The transaction. *)

Begin(o) ==
  /\ pc[o] = "placed"
  /\ Execute(Reserving(o))
  /\ Goes(o, "reading")
  /\ UNCHANGED <<orders, saga, pending, inventory, commandVars, crashes>>

\* A quantity that is not there makes the value object throw.
Read(o) ==
  /\ pc[o] = "reading"
  /\ UseRepositories(Reserving(o))
  /\ read' = [read EXCEPT ![o] = [p \in Found(o) |-> inventory[p]]]
  /\ \A p \in Found(o) : Removed(inventory[p], LineQuantity(o, p)) # {}
  /\ \E s \in SetToSeqs(Found(o)) : todo' = [todo EXCEPT ![o] = s]
  /\ Goes(o, "updating")
  /\ UNCHANGED <<orders, saga, pending, inventory, written, published, crashes>>

FindTooLittle(o) ==
  /\ pc[o] = "reading"
  /\ \E p \in Found(o) : Removed(inventory[p], LineQuantity(o, p)) = {}
  /\ RollBack(o)
  /\ Goes(o, "failing")
  /\ UNCHANGED published

LockedByOther(o, p) == \E s \in Order \ {o} : p \in written[s]

\* Slip: the version is not in the WHERE clause.
MatchesUuid(o, p) == TRUE

Matches(o, p) == inventory[p].version = read[o][p].version

\* An UPDATE waits for the row lock, and then looks at the committed row.
Update(o) ==
  /\ pc[o] = "updating"
  /\ todo[o] # <<>>
  /\ ~LockedByOther(o, Head(todo[o]))
  /\ written' = [written EXCEPT ![o] = @ \cup {p \in {Head(todo[o])} : Matches(o, p)}]
  /\ todo' = [todo EXCEPT ![o] = Tail(@)]
  /\ UNCHANGED <<placementVars, inventory, read, published, crashes>>

\* All updates are done: their number decides.  The event is published after
\* the saga row is written and before the commit.
AllMatched(o) == Cardinality(written[o]) = Cardinality(DOMAIN read[o])

CheckUpdates(o) ==
  /\ pc[o] = "updating"
  /\ todo[o] = <<>>
  /\ AllMatched(o)
  /\ published' = [published EXCEPT ![o] = @ \cup {"Reserved"}]
  /\ Goes(o, "committing")
  /\ UNCHANGED <<orders, saga, pending, inventory, read, todo, written, crashes>> /\ UnitsUnchanged

Conflict(o) ==
  /\ pc[o] = "updating"
  /\ todo[o] = <<>>
  /\ ~AllMatched(o)
  /\ RollBack(o)
  /\ Goes(o, "conflict")
  /\ UNCHANGED published

Commit(o) ==
  /\ pc[o] = "committing"
  /\ inventory' = [p \in Product |->
       IF p \in written[o]
       THEN CHOOSE value \in Removed(read[o][p], LineQuantity(o, p)) : TRUE
       ELSE inventory[p]]
  /\ saga' = [saga EXCEPT ![o] = "INVENTORY_RESERVED"]
  /\ written' = [written EXCEPT ![o] = {}]
  /\ EndExecute(Reserving(o))
  /\ Goes(o, "reserved")
  /\ UNCHANGED <<orders, pending, read, todo, published, crashes>>

\* Commands that wait for each other in a circle: PostgreSQL aborts one.
WaitsFor(o) == {s \in Order \ {o} : pc[o] = "updating" /\ todo[o] # <<>> /\ Head(todo[o]) \in written[s]}
AbortDeadlock(o) ==
  /\ \E circle \in SUBSET Order :
       o \in circle /\ \A s \in circle : WaitsFor(s) \cap circle # {}
  /\ RollBack(o)
  /\ Goes(o, "failing")
  /\ UNCHANGED published

------------------------------------------------------------------------------
(* Anything but a conflict is recorded in a second transaction. *)

BeginRecord(o) ==
  /\ pc[o] = "failing"
  /\ Execute(Reserving(o))
  /\ Goes(o, "finding")
  /\ UNCHANGED <<orders, saga, pending, inventory, commandVars, crashes>>

FindSaga(o) ==
  /\ pc[o] = "finding"
  /\ UseRepositories(Reserving(o))
  /\ Goes(o, "recording")
  /\ UNCHANGED <<orders, saga, pending, inventory, commandVars, crashes>>

RecordFailure(o) ==
  /\ pc[o] = "recording"
  /\ saga' = [saga EXCEPT ![o] = "INVENTORY_RESERVE_FAILED"]
  /\ published' = [published EXCEPT ![o] = @ \cup {"ReservationFailed"}]
  /\ EndExecute(Reserving(o))
  /\ Goes(o, "failed")
  /\ UNCHANGED <<orders, pending, inventory, read, todo, written, crashes>>

------------------------------------------------------------------------------
(* Faults. *)

\* A statement or the commit fails and the transaction is rolled back; a
\* rollback that fails hides that there was a conflict.
TransactionFails(o) ==
  /\ DatabaseFails
  /\ pc[o] \in {"reading", "updating", "committing", "finding", "recording"}
  /\ RollBack(o)
  /\ Goes(o, IF pc[o] \in {"finding", "recording"} THEN "error" ELSE "failing")
  /\ UNCHANGED published

\* A transaction cannot begin.
BeginFails(o) ==
  /\ DatabaseFails
  /\ pc[o] \in {"placed", "failing"}
  /\ OpenFails(Reserving(o))
  /\ Goes(o, IF pc[o] = "placed" THEN "failing" ELSE "error")
  /\ UNCHANGED <<orders, saga, pending, inventory, commandVars, crashes>>

\* An order that is placed is found by the recovery, which sends its command.
Crash ==
  /\ crashes < MaxCrashes
  /\ crashes' = crashes + 1
  /\ pc' = [o \in Order |-> IF pc[o] \in AtRest THEN pc[o] ELSE "dead"]
  /\ written' = [o \in Order |-> {}]
  /\ todo' = [o \in Order |-> <<>>]
  /\ pending' = [o \in Order |-> {}]
  /\ UnitsDie
  /\ UNCHANGED <<orders, saga, inventory, read, published>>

Place(o) == PlaceOrder(o) /\ UNCHANGED <<inventory, commandVars, crashes>>
Request(o) == RequestOrder(o) /\ UNCHANGED <<inventory, commandVars, crashes>>
PlaceFails(o) == PlacingFails(o) /\ UNCHANGED <<inventory, commandVars, crashes>>

Proceed(o) ==
  \/ Place(o)
  \/ Read(o) \/ FindTooLittle(o) \/ Update(o) \/ CheckUpdates(o) \/ Conflict(o)
  \/ Commit(o) \/ AbortDeadlock(o)
  \/ BeginRecord(o) \/ FindSaga(o) \/ RecordFailure(o)

Next ==
  \/ \E o \in Order : \/ Request(o) \/ Begin(o) \/ Proceed(o)
                      \/ PlaceFails(o) \/ TransactionFails(o) \/ BeginFails(o)
  \/ Crash

Spec == Init /\ [][Next]_vars

\* A command that began goes on once it has a connection, and PostgreSQL ends
\* deadlocks.
FairSpec == Spec /\ \A o \in Order : WF_vars(Proceed(o))

------------------------------------------------------------------------------
(* Properties. *)

\* The version of a row counts the orders that took from it, and what they took
\* is what is missing: no update is lost or applied to a row that had changed.
VersionsCountUpdates ==
  \A p \in Product :
    LET takers == {o \in Order : saga[o] = "INVENTORY_RESERVED" /\ p \in Found(o)} IN
    /\ inventory[p].version = 1 + Cardinality(takers)
    /\ inventory[p].quantity + SumFunction([o \in takers |-> LineQuantity(o, p)]) = InitialStock[p]

\* An order gets all of its products or none, although its updates are sent one
\* by one, may meet those of other orders, and may be rolled back half-way.
Promise == INSTANCE AtomicReservation WITH
  Wanted <- [o \in Order |-> [p \in Found(o) |-> LineQuantity(o, p)]],
  available <- [p \in Product |-> inventory[p].quantity],
  outcome <- [o \in Order |-> CASE saga[o] = "INVENTORY_RESERVED" -> "reserved"
                                [] saga[o] = "INVENTORY_RESERVE_FAILED" -> "rejected"
                                [] OTHER -> "pending"]
ReservesAllOrNothing == Promise!Spec

\* The order and its saga are there together or not at all, and a client that
\* is refused has no order.
OrderWithItsSaga ==
  \A o \in Order :
    /\ Placed(o) <=> saga[o] # None
    /\ pc[o] = "refused" => ~Placed(o)

\* What an order took from the stock is charged, also when several of its lines
\* name one product: pricing and reservation both look at the first of them.
TakenIsCharged ==
  \A row \in orders :
    saga[row.id] = "INVENTORY_RESERVED" =>
      row.total >= SumFunction([p \in Found(row.id) |->
                                  Multiply(PriceOf[p], LineQuantity(row.id, p))])

\* No statement runs in a repository that was made for an earlier transaction
\* of the same unit of work, on a connection that others may have taken.
RepositoriesAreCurrent ==
  \A u \in Handler : unit[u].repositories \in {0, unit[u].runner}

\* A command that has ended gave back every connection, on whichever path, but
\* for those whose START TRANSACTION failed.
ConnectionsComeBack ==
  \A o \in Order : pc[o] \in AtRest =>
    \A u \in {Placing(o), Reserving(o)} : held[u] = leaks[u]

\* Every command that began ends, whichever rows and connections the others
\* hold, unless all connections have leaked.
CommandsEnd ==
  \A o \in Order : pc[o] \notin AtRest ~> (pc[o] \in AtRest \/ Leaked = PoolSize)

\* The case study's promise: after a conflict the command is tried again, or
\* the saga goes down its failure path.
ConflictsAreResolved ==
  \A o \in Order :
    pc[o] = "conflict" ~> saga[o] \in {"INVENTORY_RESERVED", "INVENTORY_RESERVE_FAILED"}

==============================================================================
