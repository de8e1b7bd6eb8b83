--------------------- MODULE OptimisticReservationProofs ---------------------
(***************************************************************************)
(* The guarantees of the optimistic reservation for any number of orders,   *)
(* lines, products, connections and crashes.                                *)
(***************************************************************************)
EXTENDS OptimisticReservationInvariants, FiniteSums, TLAPS

------------------------------------------------------------------------------
(* The lines of an order. *)

\* The quantity that counts for a product is that of its first line.
LEMMA FirstLine ==
  ASSUME NEW o \in Order, NEW p, \E i \in DOMAIN Lines[o] : Lines[o][i].product = p
  PROVE  \E i \in DOMAIN Lines[o] :
           /\ Lines[o][i].product = p
           /\ \A j \in 1..(i - 1) : Lines[o][j].product # p
           /\ LineQuantity(o, p) = Lines[o][i].quantity
<1> DEFINE First(i) == /\ i \in DOMAIN Lines[o]
                       /\ Lines[o][i].product = p
                       /\ \A j \in 1..(i - 1) : Lines[o][j].product # p
           S == {i \in DOMAIN Lines[o] : Lines[o][i].product = p}
<1>1. DOMAIN Lines[o] = 1..Len(Lines[o]) /\ Len(Lines[o]) \in Nat
  BY LinesAssumption
<1>2. S \subseteq Nat /\ S # {}
  BY <1>1
<1>3. PICK m \in S : \A n \in S : m <= n
  <2> HIDE DEF S
  <2> QED BY <1>2, LeastNatural
<1>4. First(m)
  BY <1>1, <1>3
<1> DEFINE i == CHOOSE k \in DOMAIN Lines[o] :
                  /\ Lines[o][k].product = p
                  /\ \A j \in 1..(k - 1) : Lines[o][j].product # p
<1>5. First(i)
  BY <1>4
<1>6. LineQuantity(o, p) = Lines[o][i].quantity
  BY DEF LineQuantity
<1> HIDE DEF i
<1> QED BY <1>5, <1>6

\* The products of an order are finitely many, and its quantities are integers.
LEMMA FoundTyped ==
  ASSUME NEW o \in Order
  PROVE  /\ Found(o) \subseteq Product
         /\ IsFiniteSet(Found(o))
         /\ \A p \in Found(o) : LineQuantity(o, p) \in Int
<1>1. Found(o) \subseteq Product
  BY DEF Found
<1>2. IsFiniteSet(Found(o))
  <2>1. DOMAIN Lines[o] = 1..Len(Lines[o]) /\ Len(Lines[o]) \in Nat
    BY LinesAssumption
  <2> DEFINE L == DOMAIN Lines[o]
             f == [i \in L |-> Lines[o][i].product]
             T == {f[i] : i \in L}
  <2>2. IsFiniteSet(L)
    BY <2>1, FS_Interval
  <2>3. f \in Surjection(L, T)
    BY DEF Surjection
  <2>4. Found(o) \in SUBSET T
    BY DEF Found
  <2>5. IsFiniteSet(T)
    BY <2>2, <2>3, FS_Surjection
  <2> QED BY <2>4, <2>5, FS_Subset
<1>3. \A p \in Found(o) : LineQuantity(o, p) \in Int
  BY FirstLine, LinesAssumption DEF Found
<1> QED BY <1>1, <1>2, <1>3

\* An accepted order has natural quantities and a natural total.
LEMMA AcceptedTyped ==
  ASSUME NEW o \in Order, Accepted(o)
  PROVE  /\ \A i \in DOMAIN Lines[o] : Lines[o][i].quantity \in Nat
         /\ \A i \in DOMAIN Lines[o] : PriceAt(o, i) \in Nat
         /\ \A i \in DOMAIN Lines[o] : Multiply(PriceAt(o, i), Lines[o][i].quantity) \in Nat
         /\ TotalPrice(o) \in Nat
         /\ Created(o) \subseteq OrderRow
<1> DEFINE L == DOMAIN Lines[o]
           f == [i \in L |-> Multiply(PriceAt(o, i), Lines[o][i].quantity)]
<1>1. \A i \in L : Lines[o][i].quantity \in Nat
  BY LinesAssumption DEF Accepted, Quantity
<1>2. \A p \in DOMAIN PriceOf : PriceOf[p] \in Nat
  BY PlacementAssumption DEF Price
<1>3. \A i \in L : PriceAt(o, i) \in Nat
  BY <1>2 DEF PriceAt, FoundProducts
<1>4. \A i \in L : Multiply(PriceAt(o, i), Lines[o][i].quantity) \in Nat
  BY <1>1, <1>3 DEF Multiply
<1>5. IsFiniteSet(L)
  <2>1. DOMAIN Lines[o] = 1..Len(Lines[o]) /\ Len(Lines[o]) \in Nat
    BY LinesAssumption
  <2> QED BY <2>1, FS_Interval
<1>6. TotalPrice(o) = SumFunctionOnSet(f, L)
  BY DEF TotalPrice, SumFunction
<1>7. \A i \in L : f[i] \in Nat
  BY <1>4
<1>8. SumFunctionOnSet(f, L) \in Nat
  <2> HIDE DEF f, L
  <2> QED BY <1>5, <1>7, SumOfNaturals
<1>9. Created(o) \subseteq OrderRow
  BY <1>6, <1>8 DEF Created, OrderRow
<1> QED BY <1>1, <1>3, <1>4, <1>6, <1>8, <1>9

\* What is left of a row after a removal, if the removal is possible.
LEMMA RemovedIs ==
  ASSUME NEW value \in RowValue, NEW q \in Int
  PROVE  /\ Removed(value, q) # {} <=> q <= value.quantity
         /\ q <= value.quantity =>
              (CHOOSE v \in Removed(value, q) : TRUE)
                = [quantity |-> value.quantity - q, version |-> value.version + 1]
<1>1. value.quantity \in Nat /\ value.version \in Nat
  BY DEF RowValue
<1>2. Removed(value, q) = {[quantity |-> left, version |-> value.version + 1] :
                             left \in {value.quantity - q} \cap Nat}
  BY DEF Removed, Subtract, Quantity, NextVersion
<1>3. CASE q <= value.quantity
  <2>1. {value.quantity - q} \cap Nat = {value.quantity - q}
    BY <1>1, <1>3
  <2> QED BY <1>2, <1>3, <2>1
<1>4. CASE ~(q <= value.quantity)
  <2>1. {value.quantity - q} \cap Nat = {}
    BY <1>1, <1>4
  <2> QED BY <1>2, <1>4, <2>1
<1> QED BY <1>3, <1>4

------------------------------------------------------------------------------
(* The unit of work. *)

UnitsSound ==
  /\ UnitOfWorkTypeOK
  /\ \A u \in Handler : held[u] = leaks[u] + (IF InTransaction(u) THEN 1 ELSE 0)
  /\ RepositoriesAreCurrent

\* Units other than u stay in their transactions, or outside of one.
OthersStay(u) == \A w \in Handler \ {u} : InTransaction(w)' <=> InTransaction(w)
AllStay == \A w \in Handler : InTransaction(w)' <=> InTransaction(w)

\* Beginning takes a connection, ending gives it back, and the operations in
\* between do neither.
LEMMA UnitBegins ==
  ASSUME NEW u \in Handler, UnitsSound, ~InTransaction(u), Execute(u)
  PROVE  UnitsSound' /\ OthersStay(u) /\ InTransaction(u)'
<1>1. /\ unit \in [Handler -> [made : Nat, runner : Nat, repositories : Nat]]
      /\ held \in [Handler -> Nat] /\ leaks \in [Handler -> Nat]
  BY DEF UnitsSound, UnitOfWorkTypeOK
<1>2. /\ held' = [held EXCEPT ![u] = @ + 1]
      /\ unit' = [unit EXCEPT ![u].made = @ + 1, ![u].runner = unit[u].made + 1]
      /\ leaks' = leaks
  BY DEF Execute, Connect
<1>3. \A w \in Handler \ {u} : unit'[w] = unit[w] /\ held'[w] = held[w]
  BY <1>1, <1>2
<1>4. /\ unit'[u] = [made |-> unit[u].made + 1, runner |-> unit[u].made + 1,
                     repositories |-> unit[u].repositories]
      /\ held'[u] = held[u] + 1
  BY <1>1, <1>2
<1>5. unit[u].runner = 0 /\ unit[u].repositories = 0 /\ held[u] = leaks[u]
  BY <1>1 DEF UnitsSound, InTransaction, RepositoriesAreCurrent
<1>6. UnitOfWorkTypeOK'
  BY <1>1, <1>2, <1>4 DEF UnitOfWorkTypeOK
<1>7. InTransaction(u)' /\ OthersStay(u)
  BY <1>1, <1>3, <1>4 DEF InTransaction, OthersStay
<1>8. \A w \in Handler : held'[w] = leaks'[w] + (IF InTransaction(w)' THEN 1 ELSE 0)
  BY <1>2, <1>3, <1>4, <1>5, <1>7 DEF UnitsSound, OthersStay
<1>9. RepositoriesAreCurrent'
  BY <1>3, <1>4, <1>5 DEF UnitsSound, RepositoriesAreCurrent
<1> QED BY <1>6, <1>7, <1>8, <1>9 DEF UnitsSound

LEMMA UnitCannotBegin ==
  ASSUME NEW u \in Handler, UnitsSound, OpenFails(u)
  PROVE  UnitsSound' /\ AllStay
<1>1. CASE UnitsUnchanged
  BY <1>1 DEF UnitsUnchanged, UnitsSound, AllStay, UnitOfWorkTypeOK, InTransaction,
     RepositoriesAreCurrent
<1>2. CASE Connect(u) /\ leaks' = [leaks EXCEPT ![u] = @ + 1] /\ unit' = unit
  <2>1. held' = [held EXCEPT ![u] = @ + 1]
    BY <1>2 DEF Connect
  <2>2. UnitOfWorkTypeOK' /\ AllStay /\ RepositoriesAreCurrent'
    BY <1>2, <2>1 DEF UnitsSound, UnitOfWorkTypeOK, AllStay, InTransaction, RepositoriesAreCurrent
  <2>3. \A w \in Handler : held'[w] = leaks'[w] + (IF InTransaction(w)' THEN 1 ELSE 0)
    BY <1>2, <2>1, <2>2 DEF UnitsSound, UnitOfWorkTypeOK, AllStay
  <2> QED BY <2>2, <2>3 DEF UnitsSound
<1> QED BY <1>1, <1>2 DEF OpenFails

LEMMA UnitMakesRepositories ==
  ASSUME NEW u \in Handler, UnitsSound, UseRepositories(u)
  PROVE  UnitsSound' /\ AllStay
<1>1. /\ unit \in [Handler -> [made : Nat, runner : Nat, repositories : Nat]]
      /\ held' = held /\ leaks' = leaks
      /\ unit' = [unit EXCEPT ![u].repositories = IF @ = 0 THEN unit[u].runner ELSE @]
  BY DEF UnitsSound, UnitOfWorkTypeOK, UseRepositories
<1>2. \A w \in Handler : unit'[w].runner = unit[w].runner
  BY <1>1
<1>3. UnitOfWorkTypeOK'
  BY <1>1 DEF UnitsSound, UnitOfWorkTypeOK
<1>4. AllStay
  BY <1>2 DEF AllStay, InTransaction
<1>5. RepositoriesAreCurrent'
  BY <1>1, <1>2 DEF UnitsSound, RepositoriesAreCurrent
<1> QED BY <1>1, <1>3, <1>4, <1>5 DEF UnitsSound, AllStay

LEMMA UnitEnds ==
  ASSUME NEW u \in Handler, UnitsSound, InTransaction(u), Release(u)
  PROVE  UnitsSound' /\ OthersStay(u) /\ ~InTransaction(u)'
<1>1. /\ unit \in [Handler -> [made : Nat, runner : Nat, repositories : Nat]]
      /\ held \in [Handler -> Nat] /\ leaks \in [Handler -> Nat]
  BY DEF UnitsSound, UnitOfWorkTypeOK
<1>2. /\ held' = [held EXCEPT ![u] = @ - 1]
      /\ unit' = [unit EXCEPT ![u] = ResetRepositories(unit[u])]
      /\ leaks' = leaks
  BY DEF Release
<1>3. \A w \in Handler \ {u} : unit'[w] = unit[w] /\ held'[w] = held[w]
  BY <1>1, <1>2
<1>4. /\ unit'[u] = [made |-> unit[u].made, runner |-> 0, repositories |-> 0]
      /\ held'[u] = held[u] - 1
  BY <1>1, <1>2 DEF ResetRepositories
<1>5. held[u] = leaks[u] + 1
  BY DEF UnitsSound
<1>6. UnitOfWorkTypeOK'
  BY <1>1, <1>2, <1>4, <1>5 DEF UnitOfWorkTypeOK
<1>7. ~InTransaction(u)' /\ OthersStay(u)
  BY <1>1, <1>3, <1>4 DEF InTransaction, OthersStay
<1>8. \A w \in Handler : held'[w] = leaks'[w] + (IF InTransaction(w)' THEN 1 ELSE 0)
  BY <1>1, <1>2, <1>3, <1>4, <1>5, <1>7 DEF UnitsSound, OthersStay
<1>9. RepositoriesAreCurrent'
  BY <1>3, <1>4 DEF UnitsSound, RepositoriesAreCurrent
<1> QED BY <1>6, <1>7, <1>8, <1>9 DEF UnitsSound

LEMMA UnitsIdle ==
  ASSUME UnitsSound, UnitsUnchanged
  PROVE  UnitsSound' /\ AllStay
BY DEF UnitsUnchanged, UnitsSound, AllStay, UnitOfWorkTypeOK, InTransaction,
   RepositoriesAreCurrent

LEMMA UnitsEnd ==
  ASSUME UnitsDie \/ UnitOfWorkInit'
  PROVE  UnitsSound' /\ \A w \in Handler : ~InTransaction(w)'
BY DEF UnitsDie, UnitOfWorkInit, UnitsSound, UnitOfWorkTypeOK, InTransaction, NewUnit,
   RepositoriesAreCurrent

------------------------------------------------------------------------------
(* The commands and their transactions. *)

PlacingPlaces == {"ordering", "ordered", "recorded", "caught"}
ReservingPlaces == {"reading", "updating", "committing", "finding", "recording"}
Places == AtRest \cup PlacingPlaces \cup ReservingPlaces \cup {"failing"}

TransactionsFollow ==
  \A o \in Order :
    /\ InTransaction(Placing(o)) => pc[o] \in PlacingPlaces
    /\ InTransaction(Reserving(o)) <=> pc[o] \in ReservingPlaces

CommandsSound == UnitsSound /\ pc \in [Order -> Places] /\ TransactionsFollow

\* Which handlers there are.
LEMMA Handlers ==
  /\ \A o \in Order : Placing(o) \in Handler /\ Reserving(o) \in Handler
  /\ \A o, s \in Order : Placing(o) # Reserving(s)
  /\ \A o, s \in Order : o # s => Placing(o) # Placing(s) /\ Reserving(o) # Reserving(s)
BY DEF Handler, Placing, Reserving

\* A command moves while its transactions follow, and those of others stay.
LEMMA CommandMoves ==
  ASSUME NEW o \in Order, NEW place \in Places, CommandsSound, UnitsSound', Goes(o, place),
         AllStay \/ OthersStay(Placing(o)) \/ OthersStay(Reserving(o)),
         InTransaction(Placing(o))' => place \in PlacingPlaces,
         InTransaction(Reserving(o))' <=> place \in ReservingPlaces
  PROVE  CommandsSound'
<1>1. pc \in [Order -> Places] /\ TransactionsFollow
  BY DEF CommandsSound
<1>2. pc' \in [Order -> Places] /\ pc'[o] = place /\ \A s \in Order \ {o} : pc'[s] = pc[s]
  BY <1>1 DEF Goes
<1>3. \A s \in Order \ {o} : /\ InTransaction(Placing(s))' <=> InTransaction(Placing(s))
                             /\ InTransaction(Reserving(s))' <=> InTransaction(Reserving(s))
  BY Handlers DEF AllStay, OthersStay
<1>4. TransactionsFollow'
  BY <1>1, <1>2, <1>3 DEF TransactionsFollow
<1> QED BY <1>2, <1>4 DEF CommandsSound

\* A step of one command that leaves the units of work alone.
LEMMA CommandStays ==
  ASSUME NEW o \in Order, NEW place \in Places, CommandsSound, UnitsUnchanged, Goes(o, place),
         pc[o] \in PlacingPlaces => place \in PlacingPlaces,
         pc[o] \in ReservingPlaces <=> place \in ReservingPlaces
  PROVE  CommandsSound'
<1>1. UnitsSound' /\ AllStay
  BY UnitsIdle DEF CommandsSound
<1>2. /\ InTransaction(Placing(o))' => place \in PlacingPlaces
      /\ InTransaction(Reserving(o))' <=> place \in ReservingPlaces
  BY <1>1, Handlers DEF AllStay, CommandsSound, TransactionsFollow
<1> QED BY <1>1, <1>2, CommandMoves

\* The end of a transaction of the reservation.
LEMMA ReservingEnds ==
  ASSUME NEW o \in Order, NEW place \in Places, CommandsSound, pc[o] \in ReservingPlaces,
         Release(Reserving(o)), Goes(o, place), place \notin ReservingPlaces
  PROVE  CommandsSound'
<1>1. Reserving(o) \in Handler /\ InTransaction(Reserving(o)) /\ UnitsSound
  BY Handlers DEF CommandsSound, TransactionsFollow
<1>2. UnitsSound' /\ OthersStay(Reserving(o)) /\ ~InTransaction(Reserving(o))'
  BY <1>1, UnitEnds
<1>3. ~InTransaction(Placing(o))'
  <2>1. ~InTransaction(Placing(o))
    BY DEF CommandsSound, TransactionsFollow, PlacingPlaces, ReservingPlaces
  <2> QED BY <2>1, <1>2, Handlers DEF OthersStay
<1> QED BY <1>2, <1>3, CommandMoves

\* The beginning of one.
LEMMA ReservingBegins ==
  ASSUME NEW o \in Order, NEW place \in ReservingPlaces, CommandsSound,
         pc[o] \notin ReservingPlaces \cup PlacingPlaces,
         Execute(Reserving(o)), Goes(o, place)
  PROVE  CommandsSound'
<1>1. Reserving(o) \in Handler /\ ~InTransaction(Reserving(o)) /\ UnitsSound
  BY Handlers DEF CommandsSound, TransactionsFollow
<1>2. UnitsSound' /\ OthersStay(Reserving(o)) /\ InTransaction(Reserving(o))'
  BY <1>1, UnitBegins
<1>3. ~InTransaction(Placing(o))'
  <2>1. ~InTransaction(Placing(o))
    BY DEF CommandsSound, TransactionsFollow
  <2> QED BY <2>1, <1>2, Handlers DEF OthersStay
<1>4. place \in Places
  BY DEF Places
<1> QED BY <1>2, <1>3, <1>4, CommandMoves

\* Statements within a transaction.
LEMMA ReservingUses ==
  ASSUME NEW o \in Order, NEW place \in ReservingPlaces, CommandsSound, pc[o] \in ReservingPlaces,
         UseRepositories(Reserving(o)), Goes(o, place)
  PROVE  CommandsSound'
<1>1. Reserving(o) \in Handler /\ UnitsSound
  BY Handlers DEF CommandsSound
<1>2. UnitsSound' /\ AllStay
  BY <1>1, UnitMakesRepositories
<1>3. /\ InTransaction(Reserving(o))'
      /\ ~InTransaction(Placing(o))'
  BY <1>2, Handlers DEF AllStay, CommandsSound, TransactionsFollow, PlacingPlaces, ReservingPlaces
<1>4. place \in Places
  BY DEF Places
<1> QED BY <1>2, <1>3, <1>4, CommandMoves

\* Every step keeps the units of work and the commands sound.
LEMMA CommandsStep ==
  ASSUME CommandsSound, [Next]_vars
  PROVE  CommandsSound'
<1> USE DEF Places, PlacingPlaces, ReservingPlaces, AtRest, Ended
<1>1. ASSUME NEW o \in Order, Request(o)
      PROVE  CommandsSound'
  <2>1. pc[o] = "new"
    BY <1>1 DEF Request, RequestOrder
  <2>2. CASE Accepted(o)
    <3>1. /\ Placing(o) \in Handler /\ UnitsSound
          /\ ~InTransaction(Reserving(o))
      BY <2>1, Handlers DEF CommandsSound, TransactionsFollow
    <3>2. ~InTransaction(Placing(o))
      BY <2>1 DEF CommandsSound, TransactionsFollow
    <3>3. Execute(Placing(o)) /\ Goes(o, "ordering")
      BY <1>1, <2>2, <3>2 DEF Request, RequestOrder, BeginTransaction
    <3>4. UnitsSound' /\ OthersStay(Placing(o))
      BY <3>1, <3>2, <3>3, UnitBegins
    <3>5. ~InTransaction(Reserving(o))'
      BY <3>1, <3>4, Handlers DEF OthersStay
    <3> QED BY <3>3, <3>4, <3>5, CommandMoves
  <2>3. CASE ~Accepted(o)
    BY <1>1, <2>1, <2>3, CommandStays DEF Request, RequestOrder
  <2> QED BY <2>2, <2>3
<1>2. ASSUME NEW o \in Order, Begin(o)
      PROVE  CommandsSound'
  BY <1>2, ReservingBegins DEF Begin
<1>3. ASSUME NEW o \in Order, Place(o)
      PROVE  CommandsSound'
  <2>1. CASE PersistOrder(o)
    <3>1. Placing(o) \in Handler /\ UnitsSound /\ pc[o] = "ordering" /\ UseRepositories(Placing(o))
      BY <2>1, Handlers DEF PersistOrder, CommandsSound
    <3>2. PICK place \in {"caught", "ordered"} : Goes(o, place)
      BY <2>1 DEF PersistOrder
    <3>3. UnitsSound' /\ AllStay
      BY <3>1, UnitMakesRepositories
    <3>4. ~InTransaction(Reserving(o))'
      BY <3>1, <3>3, Handlers DEF AllStay, CommandsSound, TransactionsFollow
    <3> QED BY <3>2, <3>3, <3>4, CommandMoves
  <2>2. CASE PersistSaga(o)
    BY <2>2, CommandStays DEF PersistSaga
  <2>3. CASE CommitOrder(o) \/ RollBackOrder(o)
    <3>1. /\ Placing(o) \in Handler /\ UnitsSound
          /\ pc[o] \in {"recorded", "caught"}
          /\ \/ InTransaction(Placing(o)) /\ Release(Placing(o))
             \/ ~InTransaction(Placing(o)) /\ UnitsUnchanged
      BY <2>3, Handlers DEF CommitOrder, RollBackOrder, CommandsSound, CommitTransaction,
         RollbackTransaction
    <3>2. PICK place \in {"placed", "refused"} : Goes(o, place)
      BY <2>3 DEF CommitOrder, RollBackOrder
    <3>3. /\ UnitsSound' /\ ~InTransaction(Placing(o))'
          /\ AllStay \/ OthersStay(Placing(o))
      BY <3>1, UnitEnds, UnitsIdle DEF AllStay
    <3>4. ~InTransaction(Reserving(o))'
      BY <3>1, <3>3, Handlers DEF AllStay, OthersStay, CommandsSound, TransactionsFollow
    <3> QED BY <3>2, <3>3, <3>4, CommandMoves
  <2> QED BY <1>3, <2>1, <2>2, <2>3 DEF Place, PlaceOrder
<1>4. ASSUME NEW o \in Order, PlaceFails(o)
      PROVE  CommandsSound'
  <2> DEFINE InPlacing == ~InTransaction(Reserving(o)) /\ Placing(o) \in Handler /\ UnitsSound
  <2>1. CASE pc[o] = "new" /\ OpenFails(Placing(o)) /\ Goes(o, "refused")
    <3>1. InPlacing /\ ~InTransaction(Placing(o))
      BY <2>1, Handlers DEF CommandsSound, TransactionsFollow
    <3>2. UnitsSound' /\ AllStay
      BY <2>1, <3>1, UnitCannotBegin
    <3>3. ~InTransaction(Reserving(o))' /\ ~InTransaction(Placing(o))'
      BY <3>1, <3>2, Handlers DEF AllStay
    <3> QED BY <2>1, <3>2, <3>3, CommandMoves
  <2>2. CASE pc[o] \in {"ordering", "ordered"} /\ UnitsUnchanged /\ Goes(o, "caught")
    BY <2>2, CommandStays
  <2>3. CASE pc[o] = "recorded" /\ CommitTransaction(Placing(o)) /\ Goes(o, "caught")
    <3>1. InPlacing /\ InTransaction(Placing(o)) /\ Release(Placing(o))
      BY <2>3, Handlers DEF CommandsSound, TransactionsFollow, CommitTransaction
    <3>2. UnitsSound' /\ OthersStay(Placing(o)) /\ ~InTransaction(Placing(o))'
      BY <3>1, UnitEnds
    <3>3. ~InTransaction(Reserving(o))'
      BY <3>1, <3>2, Handlers DEF OthersStay
    <3> QED BY <2>3, <3>2, <3>3, CommandMoves
  <2> QED BY <1>4, <2>1, <2>2, <2>3 DEF PlaceFails, PlacingFails
<1>5. ASSUME NEW o \in Order, Read(o) \/ FindSaga(o)
      PROVE  CommandsSound'
  <2>1. /\ pc[o] \in ReservingPlaces /\ UseRepositories(Reserving(o))
        /\ Goes(o, "updating") \/ Goes(o, "recording")
    BY <1>5 DEF Read, FindSaga
  <2> QED BY <2>1, ReservingUses
<1>6. ASSUME NEW o \in Order,
             FindTooLittle(o) \/ Conflict(o) \/ Commit(o) \/ AbortDeadlock(o) \/ RecordFailure(o)
             \/ TransactionFails(o)
      PROVE  CommandsSound'
  <2>1. PICK place \in {"failing", "conflict", "reserved", "failed", "error"} : Goes(o, place)
    BY <1>6 DEF FindTooLittle, Conflict, Commit, AbortDeadlock, RecordFailure, TransactionFails
  <2>2. pc[o] \in ReservingPlaces
    BY <1>6 DEF FindTooLittle, Conflict, Commit, AbortDeadlock, WaitsFor, RecordFailure,
       TransactionFails
  <2>3. Release(Reserving(o))
    BY <1>6 DEF FindTooLittle, Conflict, Commit, AbortDeadlock, RecordFailure, TransactionFails,
       RollBack, EndExecute
  <2> QED BY <2>1, <2>2, <2>3, ReservingEnds
<1>7. ASSUME NEW o \in Order, Update(o)
      PROVE  CommandsSound'
  <2>1. UnitsUnchanged /\ pc' = pc
    BY <1>7 DEF Update, placementVars, UnitsUnchanged
  <2>2. UnitsSound' /\ AllStay
    BY <2>1, UnitsIdle DEF CommandsSound
  <2> QED BY <2>1, <2>2, Handlers DEF CommandsSound, TransactionsFollow, AllStay
<1>8. ASSUME NEW o \in Order, CheckUpdates(o)
      PROVE  CommandsSound'
  BY <1>8, CommandStays DEF CheckUpdates
<1>9. ASSUME NEW o \in Order, BeginRecord(o)
      PROVE  CommandsSound'
  BY <1>9, ReservingBegins DEF BeginRecord
<1>10. ASSUME NEW o \in Order, BeginFails(o)
       PROVE  CommandsSound'
  <2>1. pc[o] \in {"placed", "failing"} /\ OpenFails(Reserving(o))
    BY <1>10 DEF BeginFails
  <2>2. PICK place \in {"failing", "error"} : Goes(o, place)
    BY <1>10 DEF BeginFails
  <2>3. /\ ~InTransaction(Reserving(o)) /\ ~InTransaction(Placing(o))
        /\ Reserving(o) \in Handler /\ UnitsSound
    BY <2>1, Handlers DEF CommandsSound, TransactionsFollow
  <2>4. UnitsSound' /\ AllStay
    BY <2>1, <2>3, UnitCannotBegin
  <2>5. ~InTransaction(Reserving(o))' /\ ~InTransaction(Placing(o))'
    BY <2>3, <2>4, Handlers DEF AllStay
  <2> QED BY <2>2, <2>4, <2>5, CommandMoves
<1>11. ASSUME Crash
       PROVE  CommandsSound'
  <2>1. UnitsSound' /\ \A w \in Handler : ~InTransaction(w)'
    BY <1>11, UnitsEnd DEF Crash
  <2>2. pc' = [o \in Order |-> IF pc[o] \in AtRest THEN pc[o] ELSE "dead"]
    BY <1>11 DEF Crash
  <2>3. pc' \in [Order -> AtRest]
    BY <2>2
  <2>4. \A o \in Order : pc'[o] \notin ReservingPlaces
    BY <2>3
  <2> QED BY <2>1, <2>3, <2>4, Handlers DEF CommandsSound, TransactionsFollow
<1>12. CASE UNCHANGED vars
  <2>1. UnitsUnchanged /\ pc' = pc
    BY <1>12 DEF vars, placementVars, UnitsUnchanged
  <2>2. UnitsSound' /\ AllStay
    BY <2>1, UnitsIdle DEF CommandsSound
  <2> QED BY <2>1, <2>2, Handlers DEF CommandsSound, TransactionsFollow, AllStay
<1> QED BY <1>1, <1>2, <1>3, <1>4, <1>5, <1>6, <1>7, <1>8, <1>9, <1>10, <1>11, <1>12
     DEF Next, Proceed

------------------------------------------------------------------------------
(* Orders and their sagas. *)

PlacementSound ==
  /\ orders \subseteq OrderRow
  /\ saga \in [Order -> Step \cup {None}]
  /\ pending \in [Order -> SUBSET OrderRow]
  /\ SagaFollows
  /\ RowsAreOrders

\* A command that only moves on keeps the tables, if the place it moves to says
\* the same of its saga.
LEMMA PlacementMoves ==
  ASSUME NEW o \in Order, NEW place, PlacementSound, pc \in [Order -> Places], Goes(o, place),
         UNCHANGED <<orders, saga, pending>>,
         place \in Unplaced => pc[o] \in Unplaced,
         place \in Undecided => pc[o] \in Undecided,
         place \in {"ordered", "recorded"} => pending[o] # {},
         place \in PlacingPlaces => Accepted(o)
  PROVE  PlacementSound'
<1>1. pc'[o] = place /\ \A s \in Order \ {o} : pc'[s] = pc[s]
  BY DEF Goes
<1>2. SagaFollows'
  BY <1>1 DEF PlacementSound, SagaFollows, Placed
<1>3. RowsAreOrders'
  BY <1>1 DEF PlacementSound, RowsAreOrders, PlacingPlaces
<1> QED BY <1>2, <1>3 DEF PlacementSound

LEMMA PlacementStep ==
  ASSUME PlacementSound, pc \in [Order -> Places], [Next]_vars
  PROVE  PlacementSound'
<1> USE DEF Unplaced, Undecided, PlacingPlaces
<1>1. /\ orders \subseteq OrderRow /\ saga \in [Order -> Step \cup {None}]
      /\ pending \in [Order -> SUBSET OrderRow] /\ SagaFollows /\ RowsAreOrders
  BY DEF PlacementSound
<1>2. ASSUME NEW o \in Order, Request(o)
      PROVE  PlacementSound'
  BY <1>2, PlacementMoves DEF Request, RequestOrder
<1>3. ASSUME NEW o \in Order, PersistOrder(o)
      PROVE  PlacementSound'
  <2>1. /\ pc[o] = "ordering" /\ orders' = orders /\ saga' = saga
        /\ pending' = [pending EXCEPT ![o] = Created(o)]
        /\ Goes(o, IF Created(o) = {} THEN "caught" ELSE "ordered")
    BY <1>3 DEF PersistOrder
  <2>2. Accepted(o)
    BY <1>1, <2>1 DEF RowsAreOrders
  <2>3. /\ Created(o) \subseteq OrderRow
        /\ Created(o) \subseteq {[id |-> o, total |-> TotalPrice(o)]}
    BY <2>2, AcceptedTyped DEF Created
  <2>4. /\ pending'[o] = Created(o) /\ \A s \in Order \ {o} : pending'[s] = pending[s]
        /\ pc'[o] = (IF Created(o) = {} THEN "caught" ELSE "ordered")
        /\ \A s \in Order \ {o} : pc'[s] = pc[s]
    BY <1>1, <2>1 DEF Goes
  <2>5. pending' \in [Order -> SUBSET OrderRow]
    BY <1>1, <2>1, <2>3
  <2>6. SagaFollows'
    BY <1>1, <2>1, <2>4 DEF SagaFollows, Placed
  <2>7. RowsAreOrders'
    <3>1. \A row \in orders' : Accepted(row.id) /\ row.total = TotalPrice(row.id)
      BY <1>1, <2>1 DEF RowsAreOrders
    <3>2. ASSUME NEW s \in Order
          PROVE  /\ pending'[s] \subseteq {[id |-> s, total |-> TotalPrice(s)]}
                 /\ pc'[s] \in {"ordered", "recorded"} => pending'[s] # {}
                 /\ pc'[s] \in {"ordering", "ordered", "recorded", "caught"} => Accepted(s)
      BY <1>1, <2>1, <2>2, <2>3, <2>4 DEF RowsAreOrders
    <3> QED BY <3>1, <3>2 DEF RowsAreOrders
  <2> QED BY <1>1, <2>1, <2>5, <2>6, <2>7 DEF PlacementSound
<1>4. ASSUME NEW o \in Order, PersistSaga(o)
      PROVE  PlacementSound'
  <2>1. pending[o] # {} /\ Accepted(o)
    BY <1>1, <1>4 DEF RowsAreOrders, PersistSaga
  <2> QED BY <1>4, <2>1, PlacementMoves DEF PersistSaga
<1>5. ASSUME NEW o \in Order, CommitOrder(o)
      PROVE  PlacementSound'
  <2>1. /\ pc[o] = "recorded" /\ orders' = orders \cup pending[o]
        /\ saga' = [saga EXCEPT ![o] = NewSaga] /\ pending' = [pending EXCEPT ![o] = {}]
        /\ Goes(o, "placed")
    BY <1>5 DEF CommitOrder
  <2>2. pending[o] = {[id |-> o, total |-> TotalPrice(o)]} /\ Accepted(o)
    BY <1>1, <2>1 DEF RowsAreOrders
  <2>3. /\ pending'[o] = {} /\ \A s \in Order \ {o} : pending'[s] = pending[s]
        /\ saga'[o] = NewSaga /\ \A s \in Order \ {o} : saga'[s] = saga[s]
        /\ pc'[o] = "placed" /\ \A s \in Order \ {o} : pc'[s] = pc[s]
    BY <1>1, <2>1 DEF Goes
  <2>4. orders' \subseteq OrderRow /\ pending' \in [Order -> SUBSET OrderRow]
        /\ saga' \in [Order -> Step \cup {None}]
    BY <1>1, <2>1 DEF Step, NewSaga
  <2>5. Placed(o)' /\ \A s \in Order \ {o} : Placed(s)' <=> Placed(s)
    <3> DEFINE row == [id |-> o, total |-> TotalPrice(o)]
    <3>1. orders' = orders \cup {row} /\ row.id = o
      BY <2>1, <2>2
    <3> HIDE DEF row
    <3> QED BY <3>1 DEF Placed
  <2>6. SagaFollows'
    BY <1>1, <2>3, <2>5 DEF SagaFollows, NewSaga, None
  <2>7. RowsAreOrders'
    BY <1>1, <2>1, <2>2, <2>3 DEF RowsAreOrders
  <2> QED BY <2>4, <2>6, <2>7 DEF PlacementSound
<1>6. ASSUME NEW o \in Order, RollBackOrder(o)
      PROVE  PlacementSound'
  <2>1. /\ pc[o] = "caught" /\ orders' = orders /\ saga' = saga
        /\ pending' = [pending EXCEPT ![o] = {}] /\ Goes(o, "refused")
    BY <1>6 DEF RollBackOrder
  <2>2. /\ pending'[o] = {} /\ \A s \in Order \ {o} : pending'[s] = pending[s]
        /\ pc'[o] = "refused" /\ \A s \in Order \ {o} : pc'[s] = pc[s]
    BY <1>1, <2>1 DEF Goes
  <2>3. SagaFollows'
    BY <1>1, <2>1, <2>2 DEF SagaFollows, Placed
  <2>4. RowsAreOrders'
    BY <1>1, <2>1, <2>2 DEF RowsAreOrders
  <2> QED BY <1>1, <2>1, <2>3, <2>4 DEF PlacementSound
<1>7. ASSUME NEW o \in Order, PlaceFails(o)
      PROVE  PlacementSound'
  <2>1. PICK place \in {"refused", "caught"} :
          /\ Goes(o, place)
          /\ pc[o] \in {"new", "ordering", "ordered", "recorded"}
          /\ place = "caught" => pc[o] # "new"
    BY <1>7 DEF PlaceFails, PlacingFails
  <2>2. place = "caught" => Accepted(o)
    BY <1>1, <2>1 DEF RowsAreOrders
  <2>3. UNCHANGED <<orders, saga, pending>>
    BY <1>7 DEF PlaceFails, PlacingFails
  <2> QED BY <2>1, <2>2, <2>3, PlacementMoves
<1>8. ASSUME NEW o \in Order,
             \/ Begin(o) \/ Read(o) \/ FindTooLittle(o) \/ CheckUpdates(o) \/ Conflict(o)
             \/ AbortDeadlock(o) \/ BeginRecord(o) \/ FindSaga(o) \/ TransactionFails(o)
             \/ BeginFails(o)
      PROVE  PlacementSound'
  <2>1. PICK place \in Undecided \ PlacingPlaces : Goes(o, place)
    BY <1>8 DEF Begin, Read, FindTooLittle, CheckUpdates, Conflict, AbortDeadlock, BeginRecord,
       FindSaga, TransactionFails, BeginFails
  <2>2. pc[o] \in Undecided
    BY <1>8 DEF Begin, Read, FindTooLittle, CheckUpdates, Conflict, AbortDeadlock, WaitsFor,
       BeginRecord, FindSaga, TransactionFails, BeginFails
  <2>3. UNCHANGED <<orders, saga, pending>>
    BY <1>8 DEF Begin, Read, FindTooLittle, CheckUpdates, Conflict, AbortDeadlock, RollBack,
       BeginRecord, FindSaga, TransactionFails, BeginFails
  <2> QED BY <2>1, <2>2, <2>3, PlacementMoves
<1>9. ASSUME NEW o \in Order, Commit(o) \/ RecordFailure(o)
      PROVE  PlacementSound'
  <2>1. PICK step \in {"INVENTORY_RESERVED", "INVENTORY_RESERVE_FAILED"} :
          saga' = [saga EXCEPT ![o] = step]
    BY <1>9 DEF Commit, RecordFailure
  <2>2. PICK place \in {"reserved", "failed"} : Goes(o, place)
    BY <1>9 DEF Commit, RecordFailure
  <2>3. /\ pc[o] \in Undecided /\ orders' = orders /\ pending' = pending
    BY <1>9 DEF Commit, RecordFailure
  <2>4. /\ saga'[o] = step /\ \A s \in Order \ {o} : saga'[s] = saga[s]
        /\ pc'[o] = place /\ \A s \in Order \ {o} : pc'[s] = pc[s]
    BY <1>1, <2>1, <2>2 DEF Goes
  <2>5. Placed(o)
    BY <1>1, <2>3 DEF SagaFollows, NewSaga, None
  <2>6. SagaFollows'
    <3>1. \A s \in Order : Placed(s)' <=> Placed(s)
      BY <2>3 DEF Placed
    <3> QED BY <1>1, <2>4, <2>5, <3>1 DEF SagaFollows, None
  <2>7. RowsAreOrders'
    BY <1>1, <2>3, <2>4 DEF RowsAreOrders
  <2>8. saga' \in [Order -> Step \cup {None}]
    BY <1>1, <2>1 DEF Step
  <2> QED BY <1>1, <2>3, <2>6, <2>7, <2>8 DEF PlacementSound
<1>10. ASSUME Crash
       PROVE  PlacementSound'
  <2>1. /\ orders' = orders /\ saga' = saga /\ pending' = [o \in Order |-> {}]
        /\ pc' = [o \in Order |-> IF pc[o] \in AtRest THEN pc[o] ELSE "dead"]
    BY <1>10 DEF Crash
  <2>2. \A o \in Order : pending'[o] = {} /\ pc'[o] \in {pc[o], "dead"} /\ pc'[o] \in AtRest
    BY <2>1 DEF AtRest, Ended
  <2>3. SagaFollows'
    BY <1>1, <2>1, <2>2 DEF SagaFollows, Placed
  <2>4. RowsAreOrders'
    BY <1>1, <2>1, <2>2 DEF RowsAreOrders, AtRest, Ended
  <2> QED BY <1>1, <2>1, <2>3, <2>4 DEF PlacementSound
<1>11. ASSUME UNCHANGED <<orders, saga, pending, pc>>
       PROVE  PlacementSound'
  BY <1>1, <1>11 DEF PlacementSound, SagaFollows, RowsAreOrders, Placed
<1>12. ASSUME NEW o \in Order, Update(o)
       PROVE  PlacementSound'
  BY <1>11, <1>12 DEF Update, placementVars
<1>13. CASE UNCHANGED vars
  BY <1>11, <1>13 DEF vars, placementVars
<1> QED BY <1>2, <1>3, <1>4, <1>5, <1>6, <1>7, <1>8, <1>9, <1>10, <1>12, <1>13
     DEF Next, Proceed, Place, PlaceOrder

------------------------------------------------------------------------------
(* Rows, versions and locks. *)

RowsTyped ==
  /\ inventory \in [Product -> RowValue]
  /\ read = [o \in Order |-> read[o]]
  /\ todo \in [Order -> Seq(Product)]
  /\ written \in [Order -> SUBSET Product]
  /\ \A o \in Order :
       /\ read[o] \in [DOMAIN read[o] -> RowValue]
       /\ DOMAIN read[o] \subseteq Product
       /\ Range(todo[o]) \cup written[o] \subseteq DOMAIN read[o]

RowsSound == RowsTyped /\ RowsAreLocked /\ VersionsTell /\ UpdatesAreComplete

\* A step of a command that writes no row, before and after it.
LEMMA RowsMove ==
  ASSUME NEW o \in Order, NEW place \in Places \ {"updating", "committing"}, RowsSound,
         pc \in [Order -> Places], pc[o] \notin {"updating", "committing"}, Goes(o, place),
         UNCHANGED <<inventory, read, todo, written>>
  PROVE  RowsSound'
<1>1. pc'[o] = place /\ \A s \in Order \ {o} : pc'[s] = pc[s]
  BY DEF Goes
<1>2. RowsTyped'
  BY DEF RowsSound, RowsTyped
<1>3. RowsAreLocked'
  BY <1>1 DEF RowsSound, RowsAreLocked
<1>4. VersionsTell'
  BY DEF RowsSound, VersionsTell, Matches
<1>5. UpdatesAreComplete'
  BY <1>1 DEF RowsSound, UpdatesAreComplete
<1> QED BY <1>2, <1>3, <1>4, <1>5 DEF RowsSound

\* A rollback gives up the rows that were written.
LEMMA RowsRollBack ==
  ASSUME NEW o \in Order, NEW place \in Places \ {"updating", "committing"}, RowsSound,
         pc \in [Order -> Places], RollBack(o), Goes(o, place)
  PROVE  RowsSound'
<1>1. RowsTyped
  BY DEF RowsSound
<1>2. pc'[o] = place /\ \A s \in Order \ {o} : pc'[s] = pc[s]
  BY DEF Goes
<1>3. /\ inventory' = inventory /\ read' = read
      /\ written' = [written EXCEPT ![o] = {}] /\ todo' = [todo EXCEPT ![o] = <<>>]
  BY DEF RollBack
<1>4. /\ written'[o] = {} /\ \A s \in Order \ {o} : written'[s] = written[s]
      /\ todo'[o] = <<>> /\ \A s \in Order \ {o} : todo'[s] = todo[s]
  BY <1>1, <1>3 DEF RowsTyped
<1>5. RowsTyped'
  <2>1. todo' \in [Order -> Seq(Product)] /\ written' \in [Order -> SUBSET Product]
    BY <1>1, <1>3 DEF RowsTyped
  <2>2. Range(todo'[o]) = {}
    BY <1>4 DEF Range
  <2> QED BY <1>1, <1>3, <1>4, <2>1, <2>2 DEF RowsTyped
<1>6. RowsAreLocked'
  BY <1>2, <1>4 DEF RowsSound, RowsAreLocked
<1>7. VersionsTell'
  BY <1>3, <1>4 DEF RowsSound, VersionsTell, Matches
<1>8. UpdatesAreComplete'
  BY <1>2, <1>3, <1>4 DEF RowsSound, UpdatesAreComplete
<1> QED BY <1>5, <1>6, <1>7, <1>8 DEF RowsSound

LEMMA RowsRead ==
  ASSUME NEW o \in Order, RowsSound, pc \in [Order -> Places], Read(o)
  PROVE  RowsSound'
<1>1. RowsTyped
  BY DEF RowsSound
<1>2. /\ inventory' = inventory /\ written' = written
      /\ read' = [read EXCEPT ![o] = [p \in Found(o) |-> inventory[p]]]
      /\ \A p \in Found(o) : Removed(inventory[p], LineQuantity(o, p)) # {}
      /\ pc[o] = "reading" /\ Goes(o, "updating")
  BY DEF Read
<1>3. PICK sent \in SetToSeqs(Found(o)) : todo' = [todo EXCEPT ![o] = sent]
  BY DEF Read
<1>4. sent \in Seq(Product) /\ Range(sent) \subseteq Found(o)
  <2>1. Cardinality(Found(o)) \in Nat /\ Found(o) \subseteq Product
    BY FoundTyped, FS_CardinalityType
  <2>2. sent \in [1..Cardinality(Found(o)) -> Found(o)]
    BY DEF SetToSeqs
  <2>3. sent \in Seq(Product)
    BY <2>1, <2>2
  <2> QED BY <2>2, <2>3 DEF Range
<1>5. /\ read'[o] = [p \in Found(o) |-> inventory[p]]
      /\ \A s \in Order \ {o} : read'[s] = read[s] /\ todo'[s] = todo[s] /\ pc'[s] = pc[s]
      /\ todo'[o] = sent /\ pc'[o] = "updating"
  BY <1>1, <1>2, <1>3 DEF RowsTyped, Goes
<1>6. written[o] = {}
  BY <1>2 DEF RowsSound, RowsAreLocked
<1>7. RowsTyped'
  <2>1. todo' \in [Order -> Seq(Product)] /\ read' = [s \in Order |-> read'[s]]
    BY <1>1, <1>2, <1>3, <1>4 DEF RowsTyped
  <2>2. ASSUME NEW s \in Order
        PROVE  /\ read'[s] \in [DOMAIN read'[s] -> RowValue]
               /\ DOMAIN read'[s] \subseteq Product
               /\ Range(todo'[s]) \cup written'[s] \subseteq DOMAIN read'[s]
    <3>1. CASE s = o
      <4>1. read'[o] \in [Found(o) -> RowValue] /\ DOMAIN read'[o] = Found(o)
        BY <1>1, <1>5, FoundTyped DEF RowsTyped
      <4> QED BY <3>1, <4>1, <1>2, <1>4, <1>5, <1>6, FoundTyped
    <3>2. CASE s # o
      BY <3>2, <1>1, <1>2, <1>5 DEF RowsTyped
    <3> QED BY <3>1, <3>2
  <2> QED BY <1>1, <1>2, <2>1, <2>2 DEF RowsTyped
<1>8. RowsAreLocked'
  BY <1>2, <1>5 DEF RowsSound, RowsAreLocked
<1>9. VersionsTell'
  <2>1. ASSUME NEW s \in Order
        PROVE  /\ \A p \in DOMAIN read'[s] :
                    /\ read'[s][p].version <= inventory[p].version
                    /\ inventory[p].version = read'[s][p].version => inventory[p] = read'[s][p]
               /\ \A p \in written[s] : inventory[p].version = read'[s][p].version
    <3>1. CASE s = o
      <4>1. \A p \in DOMAIN read'[o] : read'[o][p] = inventory[p]
        BY <1>5
      <4>2. \A p \in DOMAIN read'[o] : inventory[p].version \in Nat
        BY <1>1, <1>5, FoundTyped DEF RowsTyped, RowValue
      <4> QED BY <3>1, <4>1, <4>2, <1>6
    <3>2. CASE s # o
      BY <3>2, <1>5 DEF RowsSound, VersionsTell, Matches
    <3> QED BY <3>1, <3>2
  <2> QED BY <1>2, <2>1 DEF VersionsTell, Matches
<1>10. UpdatesAreComplete'
  <2>1. ASSUME NEW s \in Order
        PROVE  /\ pc'[s] \in {"updating", "committing"} =>
                    /\ DOMAIN read'[s] = Found(s)
                    /\ \A p \in Found(s) : Removed(read'[s][p], LineQuantity(s, p)) # {}
               /\ pc'[s] = "committing" => written[s] = Found(s)
    <3>1. CASE s = o
      BY <3>1, <1>2, <1>5
    <3>2. CASE s # o
      BY <3>2, <1>5 DEF RowsSound, UpdatesAreComplete
    <3> QED BY <3>1, <3>2
  <2> QED BY <1>2, <2>1 DEF UpdatesAreComplete
<1> QED BY <1>7, <1>8, <1>9, <1>10 DEF RowsSound

LEMMA RowsUpdate ==
  ASSUME NEW o \in Order, RowsSound, pc \in [Order -> Places], Update(o)
  PROVE  RowsSound'
<1> DEFINE p == Head(todo[o])
           matched == {q \in {p} : Matches(o, q)}
<1>1. RowsTyped
  BY DEF RowsSound
<1>2. /\ inventory' = inventory /\ read' = read /\ pc' = pc /\ pc[o] = "updating"
      /\ written' = [written EXCEPT ![o] = @ \cup matched]
      /\ todo' = [todo EXCEPT ![o] = Tail(@)]
      /\ \A s \in Order \ {o} : p \notin written[s]
  BY DEF Update, placementVars, LockedByOther
<1>3. p \in DOMAIN read[o] /\ Tail(todo[o]) \in Seq(Product)
      /\ Range(Tail(todo[o])) \subseteq Range(todo[o])
  <2>1. todo[o] \in Seq(Product) /\ todo[o] # <<>>
    BY <1>1 DEF RowsTyped, Update
  <2>2. 1 \in DOMAIN todo[o] /\ p = todo[o][1]
    BY <2>1
  <2>3. p \in Range(todo[o])
    BY <2>2 DEF Range
  <2>4. \A i \in DOMAIN Tail(todo[o]) : Tail(todo[o])[i] = todo[o][i + 1] /\ i + 1 \in DOMAIN todo[o]
    BY <2>1
  <2>5. Range(Tail(todo[o])) \subseteq Range(todo[o])
    BY <2>4 DEF Range
  <2> QED BY <1>1, <2>1, <2>3, <2>5 DEF RowsTyped
<1> HIDE DEF p
<1>4. /\ written'[o] = written[o] \cup matched /\ todo'[o] = Tail(todo[o])
      /\ \A s \in Order \ {o} : written'[s] = written[s] /\ todo'[s] = todo[s]
  BY <1>1, <1>2 DEF RowsTyped
<1>5. RowsTyped'
  <2>1. written' \in [Order -> SUBSET Product]
    BY <1>1, <1>2, <1>3 DEF RowsTyped
  <2>2. todo' \in [Order -> Seq(Product)]
    BY <1>1, <1>2, <1>3 DEF RowsTyped
  <2>3. \A s \in Order : Range(todo'[s]) \cup written'[s] \subseteq DOMAIN read[s]
    BY <1>1, <1>3, <1>4 DEF RowsTyped
  <2> QED BY <1>1, <1>2, <2>1, <2>2, <2>3 DEF RowsTyped
<1>6. RowsAreLocked'
  BY <1>2, <1>4 DEF RowsSound, RowsAreLocked
<1>7. VersionsTell'
  <2>1. \A s \in Order : \A q \in written'[s] : inventory[q].version = read[s][q].version
    BY <1>4 DEF RowsSound, VersionsTell, Matches
  <2> QED BY <1>2, <2>1 DEF RowsSound, VersionsTell, Matches
<1>8. UpdatesAreComplete'
  BY <1>2, <1>4 DEF RowsSound, UpdatesAreComplete
<1> QED BY <1>5, <1>6, <1>7, <1>8 DEF RowsSound

\* As many rows as were read: all of them.
LEMMA RowsChecked ==
  ASSUME NEW o \in Order, RowsSound, pc \in [Order -> Places], CheckUpdates(o)
  PROVE  RowsSound'
<1>1. /\ UNCHANGED <<inventory, read, todo, written>> /\ pc[o] = "updating"
      /\ Cardinality(written[o]) = Cardinality(DOMAIN read[o])
  BY DEF CheckUpdates, AllMatched
<1>2. pc'[o] = "committing" /\ \A s \in Order \ {o} : pc'[s] = pc[s]
  BY DEF CheckUpdates, Goes
<1>3. DOMAIN read[o] = Found(o) /\ written[o] \in SUBSET Found(o)
  BY <1>1 DEF RowsSound, UpdatesAreComplete, RowsTyped
<1>4. written[o] = Found(o)
  BY <1>1, <1>3, FoundTyped, FS_Subset
<1>5. RowsTyped' /\ VersionsTell'
  BY <1>1 DEF RowsSound, RowsTyped, VersionsTell, Matches
<1>6. RowsAreLocked'
  BY <1>1, <1>2 DEF RowsSound, RowsAreLocked
<1>7. UpdatesAreComplete'
  BY <1>1, <1>2, <1>4 DEF RowsSound, UpdatesAreComplete
<1> QED BY <1>5, <1>6, <1>7 DEF RowsSound

\* What a commit does to the rows: the rows it wrote still held what had been
\* read.
LEMMA CommitTakes ==
  ASSUME NEW o \in Order, RowsSound, Commit(o)
  PROVE  /\ inventory' = [p \in Product |-> inventory'[p]]
         /\ \A p \in Found(o) :
              /\ p \in Product /\ LineQuantity(o, p) \in Int
              /\ LineQuantity(o, p) <= inventory[p].quantity
              /\ inventory'[p] = [quantity |-> inventory[p].quantity - LineQuantity(o, p),
                                  version |-> inventory[p].version + 1]
         /\ \A p \in Product \ Found(o) : inventory'[p] = inventory[p]
<1>1. written[o] = Found(o)
  BY DEF Commit, RowsSound, UpdatesAreComplete
<1>2. inventory' = [p \in Product |->
         IF p \in Found(o)
         THEN CHOOSE value \in Removed(read[o][p], LineQuantity(o, p)) : TRUE
         ELSE inventory[p]]
  BY <1>1 DEF Commit
<1>3. ASSUME NEW p \in Found(o)
      PROVE  /\ p \in Product /\ LineQuantity(o, p) \in Int
             /\ LineQuantity(o, p) <= inventory[p].quantity
             /\ inventory'[p] = [quantity |-> inventory[p].quantity - LineQuantity(o, p),
                                 version |-> inventory[p].version + 1]
  <2>1. p \in Product /\ LineQuantity(o, p) \in Int
    BY FoundTyped
  <2>2. inventory[p] = read[o][p] /\ inventory[p] \in RowValue
    BY <1>1, <2>1 DEF RowsSound, VersionsTell, RowsTyped
  <2>3. Removed(inventory[p], LineQuantity(o, p)) # {}
    BY <2>2 DEF Commit, RowsSound, UpdatesAreComplete
  <2>4. inventory'[p] = CHOOSE value \in Removed(inventory[p], LineQuantity(o, p)) : TRUE
    BY <1>2, <2>1, <2>2
  <2> QED BY <2>1, <2>2, <2>3, <2>4, RemovedIs
<1> QED BY <1>2, <1>3

LEMMA RowsCommit ==
  ASSUME NEW o \in Order, RowsSound, pc \in [Order -> Places], Commit(o)
  PROVE  RowsSound'
<1>1. RowsTyped
  BY DEF RowsSound
<1>2. /\ read' = read /\ todo' = todo /\ written' = [written EXCEPT ![o] = {}]
      /\ pc[o] = "committing" /\ Goes(o, "reserved")
  BY DEF Commit
<1>3. /\ written'[o] = {} /\ \A s \in Order \ {o} : written'[s] = written[s]
      /\ pc'[o] = "reserved" /\ \A s \in Order \ {o} : pc'[s] = pc[s]
  BY <1>1, <1>2 DEF RowsTyped, Goes
<1>4. written[o] = Found(o)
  BY <1>2 DEF RowsSound, UpdatesAreComplete
<1>5. inventory' \in [Product -> RowValue]
  <2>1. ASSUME NEW p \in Product
        PROVE  inventory'[p] \in RowValue
    <3>1. inventory[p] \in RowValue /\ inventory[p].quantity \in Nat /\ inventory[p].version \in Nat
      BY <1>1 DEF RowsTyped, RowValue
    <3>2. CASE p \in Found(o)
      <4> DEFINE left == inventory[p].quantity - LineQuantity(o, p)
                 next == inventory[p].version + 1
      <4>1. LineQuantity(o, p) \in Int /\ LineQuantity(o, p) <= inventory[p].quantity
            /\ inventory'[p] = [quantity |-> left, version |-> next]
        BY <3>2, CommitTakes
      <4>2. left \in Nat /\ next \in Nat \ {0}
        BY <3>1, <4>1
      <4> HIDE DEF left, next
      <4> QED BY <4>1, <4>2 DEF RowValue
    <3>3. CASE p \notin Found(o)
      BY <3>1, <3>3, CommitTakes
    <3> QED BY <3>2, <3>3
  <2> QED BY <2>1, CommitTakes
<1>6. RowsTyped'
  <2>1. written' \in [Order -> SUBSET Product]
    BY <1>1, <1>2 DEF RowsTyped
  <2> QED BY <1>1, <1>2, <1>3, <1>5, <2>1 DEF RowsTyped
<1>7. RowsAreLocked'
  BY <1>3 DEF RowsSound, RowsAreLocked
<1>8. VersionsTell'
  <2>1. ASSUME NEW s \in Order, NEW p \in DOMAIN read[s]
        PROVE  /\ read[s][p].version <= inventory'[p].version
               /\ inventory'[p].version = read[s][p].version => inventory'[p] = read[s][p]
    <3>1. /\ read[s][p].version <= inventory[p].version
          /\ inventory[p].version = read[s][p].version => inventory[p] = read[s][p]
      BY DEF RowsSound, VersionsTell, Matches
    <3>2. read[s][p].version \in Nat /\ inventory[p].version \in Nat /\ p \in Product
      BY <1>1 DEF RowsTyped, RowValue
    <3>3. CASE p \in Found(o)
      <4>1. inventory'[p] = [quantity |-> inventory[p].quantity - LineQuantity(o, p),
                             version |-> inventory[p].version + 1]
        BY <3>3, CommitTakes
      <4>2. inventory'[p].version = inventory[p].version + 1
        BY <4>1
      <4> QED BY <3>1, <3>2, <4>2
    <3>4. CASE p \notin Found(o)
      BY <3>1, <3>2, <3>4, CommitTakes
    <3> QED BY <3>3, <3>4
  <2>2. ASSUME NEW s \in Order, NEW p \in written'[s]
        PROVE  inventory'[p].version = read[s][p].version
    <3>1. s # o /\ p \in written[s] /\ p \in Product
      BY <1>1, <1>3 DEF RowsTyped
    <3>2. p \notin Found(o)
      BY <1>4, <3>1 DEF RowsSound, RowsAreLocked
    <3>3. inventory[p].version = read[s][p].version
      BY <3>1 DEF RowsSound, VersionsTell, Matches
    <3> QED BY <3>1, <3>2, <3>3, CommitTakes
  <2> QED BY <1>2, <2>1, <2>2 DEF VersionsTell, Matches
<1>9. UpdatesAreComplete'
  BY <1>2, <1>3 DEF RowsSound, UpdatesAreComplete
<1> QED BY <1>6, <1>7, <1>8, <1>9 DEF RowsSound

LEMMA RowsStep ==
  ASSUME RowsSound, pc \in [Order -> Places], [Next]_vars
  PROVE  RowsSound'
<1> USE DEF Places, PlacingPlaces, ReservingPlaces, AtRest, Ended
<1>1. ASSUME NEW o \in Order,
             \/ Request(o) \/ Begin(o) \/ Place(o) \/ PlaceFails(o) \/ BeginRecord(o)
             \/ FindSaga(o) \/ RecordFailure(o) \/ BeginFails(o)
      PROVE  RowsSound'
  <2>1. PICK place \in Places \ {"updating", "committing"} : Goes(o, place)
    <3>1. CASE Request(o)
      BY <3>1 DEF Request, RequestOrder
    <3>2. CASE Place(o)
      BY <3>2 DEF Place, PlaceOrder, PersistOrder, PersistSaga, CommitOrder, RollBackOrder
    <3>3. CASE PlaceFails(o)
      BY <3>3 DEF PlaceFails, PlacingFails
    <3>4. CASE Begin(o) \/ BeginRecord(o) \/ FindSaga(o) \/ RecordFailure(o) \/ BeginFails(o)
      BY <3>4 DEF Begin, BeginRecord, FindSaga, RecordFailure, BeginFails
    <3> QED BY <1>1, <3>1, <3>2, <3>3, <3>4
  <2>2. pc[o] \notin {"updating", "committing"}
    BY <1>1 DEF Request, RequestOrder, Begin, Place, PlaceOrder, PersistOrder, PersistSaga,
       CommitOrder, RollBackOrder, PlaceFails, PlacingFails, BeginRecord, FindSaga, RecordFailure,
       BeginFails
  <2>3. UNCHANGED <<inventory, read, todo, written>>
    BY <1>1 DEF Request, Begin, Place, PlaceFails, BeginRecord, FindSaga, RecordFailure,
       BeginFails, commandVars
  <2> HIDE DEF Places
  <2> QED BY <2>1, <2>2, <2>3, RowsMove
<1>2. ASSUME NEW o \in Order,
             FindTooLittle(o) \/ Conflict(o) \/ AbortDeadlock(o) \/ TransactionFails(o)
      PROVE  RowsSound'
  <2>1. PICK place \in Places \ {"updating", "committing"} : Goes(o, place)
    BY <1>2 DEF FindTooLittle, Conflict, AbortDeadlock, TransactionFails
  <2>2. RollBack(o)
    BY <1>2 DEF FindTooLittle, Conflict, AbortDeadlock, TransactionFails
  <2> HIDE DEF Places
  <2> QED BY <2>1, <2>2, RowsRollBack
<1>3. ASSUME NEW o \in Order, Read(o) \/ Update(o) \/ CheckUpdates(o) \/ Commit(o)
      PROVE  RowsSound'
  BY <1>3, RowsRead, RowsUpdate, RowsChecked, RowsCommit
<1>4. ASSUME Crash
      PROVE  RowsSound'
  <2>1. /\ inventory' = inventory /\ read' = read
        /\ written' = [o \in Order |-> {}] /\ todo' = [o \in Order |-> <<>>]
        /\ pc' = [o \in Order |-> IF pc[o] \in AtRest THEN pc[o] ELSE "dead"]
    BY <1>4 DEF Crash
  <2>2. \A o \in Order : /\ written'[o] = {} /\ todo'[o] = <<>> /\ Range(todo'[o]) = {}
                         /\ pc'[o] \notin {"updating", "committing"}
    BY <2>1 DEF Range
  <2>3. RowsTyped'
    <3>1. <<>> \in Seq(Product)
      OBVIOUS
    <3> QED BY <2>1, <2>2, <3>1 DEF RowsSound, RowsTyped
  <2>4. RowsAreLocked' /\ UpdatesAreComplete'
    BY <2>2 DEF RowsAreLocked, UpdatesAreComplete
  <2>5. VersionsTell'
    BY <2>1, <2>2 DEF RowsSound, VersionsTell, Matches
  <2> QED BY <2>3, <2>4, <2>5 DEF RowsSound
<1>5. CASE UNCHANGED vars
  BY <1>5 DEF vars, placementVars, commandVars, RowsSound, RowsTyped, RowsAreLocked, VersionsTell,
     Matches, UpdatesAreComplete
<1> QED BY <1>1, <1>2, <1>3, <1>4, <1>5 DEF Next, Proceed

------------------------------------------------------------------------------
(* What was taken. *)

QuantityTaken(p, takers) == SumFunctionOnSet([o \in takers |-> LineQuantity(o, p)], takers)

Counted(p) ==
  /\ IsFiniteSet(TakersOf(p))
  /\ inventory[p].version = 1 + Cardinality(TakersOf(p))
  /\ inventory[p].quantity + QuantityTaken(p, TakersOf(p)) = InitialStock[p]

LEMMA CountedParts ==
  /\ TakersAreCounted <=> \A p \in Product : Counted(p)
  /\ TakersAreCounted' <=> \A p \in Product : Counted(p)'
BY DEF TakersAreCounted, VersionsCountUpdates, Counted, QuantityTaken, TakersOf, SumFunction

\* Nobody takes anything.
LEMMA TakersStay ==
  ASSUME TakersAreCounted, inventory' = inventory,
         \A o \in Order : saga'[o] = "INVENTORY_RESERVED" <=> saga[o] = "INVENTORY_RESERVED"
  PROVE  TakersAreCounted'
<1>1. \A p \in Product : TakersOf(p)' = TakersOf(p)
  BY DEF TakersOf
<1>2. \A p \in Product : Counted(p)'
  BY <1>1, CountedParts DEF Counted, QuantityTaken
<1> QED BY <1>2, CountedParts

\* One more takes what it ordered.
LEMMA TakersGrow ==
  ASSUME NEW o \in Order, RowsSound, saga \in [Order -> Step \cup {None}], saga[o] = NewSaga,
         TakersAreCounted, Commit(o)
  PROVE  TakersAreCounted'
<1>1. saga'[o] = "INVENTORY_RESERVED" /\ \A s \in Order \ {o} : saga'[s] = saga[s]
  BY DEF Commit
<1>2. ASSUME NEW p \in Product
      PROVE  Counted(p)'
  <2>1. inventory[p].quantity \in Nat /\ inventory[p].version \in Nat
    BY DEF RowsSound, RowsTyped, RowValue
  <2>2. CASE p \notin Found(o)
    <3>1. TakersOf(p)' = TakersOf(p)
      BY <1>1, <2>2 DEF TakersOf
    <3>2. inventory'[p] = inventory[p] /\ Counted(p)
      BY <2>2, CommitTakes, CountedParts
    <3> QED BY <3>1, <3>2 DEF Counted, QuantityTaken
  <2>3. CASE p \in Found(o)
    <3> DEFINE T == TakersOf(p)
               f == [s \in T |-> LineQuantity(s, p)]
               g == [s \in T \cup {o} |-> LineQuantity(s, p)]
               q == LineQuantity(o, p)
    <3>1. TakersOf(p)' = T \cup {o} /\ o \notin T
      BY <1>1, <2>3 DEF TakersOf, NewSaga
    <3>2. /\ IsFiniteSet(T) /\ Cardinality(T) \in Nat
          /\ inventory[p].version = 1 + Cardinality(T)
          /\ inventory[p].quantity + SumFunctionOnSet(f, T) = InitialStock[p]
      BY CountedParts, FS_CardinalityType DEF Counted, QuantityTaken
    <3>3. IsFiniteSet(T \cup {o}) /\ Cardinality(T \cup {o}) = Cardinality(T) + 1
      BY <3>1, <3>2, FS_AddElement
    <3>4. \A s \in T \cup {o} : LineQuantity(s, p) \in Int
      BY <2>3, FoundTyped DEF TakersOf
    <3>5. \A s \in T : f[s] \in Int /\ f[s] = g[s]
      BY <3>4
    <3>6. g[o] = q /\ \A s \in T \cup {o} : g[s] \in Int
      BY <3>4
    <3>7. inventory'[p] = [quantity |-> inventory[p].quantity - q, version |-> inventory[p].version + 1]
      BY <2>3, CommitTakes
    <3>8. QuantityTaken(p, T \cup {o}) = SumFunctionOnSet(g, T \cup {o})
      BY DEF QuantityTaken
    <3>9. q \in Int
      BY <3>4
    <3> HIDE DEF T, f, g, q
    <3>10. SumFunctionOnSet(f, T) = SumFunctionOnSet(g, T) /\ SumFunctionOnSet(f, T) \in Int
      BY <3>2, <3>5, SumOfEqualTerms, SumType
    <3>11. SumFunctionOnSet(g, T \cup {o}) = SumFunctionOnSet(g, T) + q
      BY <3>1, <3>2, <3>6, SumOfOneMore
    <3>12. inventory'[p].quantity = inventory[p].quantity - q
           /\ inventory'[p].version = inventory[p].version + 1
      BY <3>7
    <3>13. inventory'[p].version = 1 + Cardinality(T \cup {o})
      BY <3>2, <3>3, <3>12
    <3>14. inventory'[p].quantity + QuantityTaken(p, T \cup {o}) = InitialStock[p]
      BY <2>1, <3>2, <3>8, <3>9, <3>10, <3>11, <3>12
    <3>15. QuantityTaken(p, TakersOf(p))' = QuantityTaken(p, T \cup {o})
      BY <3>1 DEF QuantityTaken
    <3> QED BY <3>1, <3>3, <3>13, <3>14, <3>15 DEF Counted
  <2> QED BY <2>2, <2>3
<1> QED BY <1>2, CountedParts

LEMMA TakersStep ==
  ASSUME TakersAreCounted, RowsSound, PlacementSound, pc \in [Order -> Places], [Next]_vars
  PROVE  TakersAreCounted'
<1>1. /\ saga \in [Order -> Step \cup {None}]
      /\ \A o \in Order : /\ pc[o] \in Unplaced => saga[o] = None
                          /\ pc[o] \in Undecided => saga[o] = NewSaga
  BY DEF PlacementSound, SagaFollows
<1>2. ASSUME NEW o \in Order, Commit(o)
      PROVE  TakersAreCounted'
  <2>1. saga[o] = NewSaga
    BY <1>1, <1>2 DEF Commit, Undecided
  <2> QED BY <1>1, <1>2, <2>1, TakersGrow
<1>3. ASSUME NEW o \in Order, Place(o) \/ RecordFailure(o)
      PROVE  TakersAreCounted'
  <2>1. inventory' = inventory
    BY <1>3 DEF Place, RecordFailure
  <2>2. \/ saga' = saga
        \/ saga[o] # "INVENTORY_RESERVED" /\ saga' = [saga EXCEPT ![o] = NewSaga]
        \/ saga[o] # "INVENTORY_RESERVED" /\ saga' = [saga EXCEPT ![o] = "INVENTORY_RESERVE_FAILED"]
    BY <1>1, <1>3 DEF Place, PlaceOrder, PersistOrder, PersistSaga, CommitOrder, RollBackOrder,
       RecordFailure, Unplaced, Undecided, None, NewSaga
  <2>3. \A s \in Order : saga'[s] = "INVENTORY_RESERVED" <=> saga[s] = "INVENTORY_RESERVED"
    BY <1>1, <2>2 DEF NewSaga
  <2> QED BY <2>1, <2>3, TakersStay
<1>4. ASSUME inventory' = inventory, saga' = saga
      PROVE  TakersAreCounted'
  BY <1>4, TakersStay
<1>5. ASSUME NEW o \in Order,
             \/ Request(o) \/ PlaceFails(o) \/ Begin(o) \/ Read(o) \/ FindTooLittle(o) \/ Update(o)
             \/ CheckUpdates(o) \/ Conflict(o) \/ AbortDeadlock(o) \/ BeginRecord(o) \/ FindSaga(o)
             \/ TransactionFails(o) \/ BeginFails(o)
      PROVE  TakersAreCounted'
  <2>1. inventory' = inventory /\ saga' = saga
    BY <1>5 DEF Request, RequestOrder, PlaceFails, PlacingFails, Begin, Read, FindTooLittle, Update,
       CheckUpdates, Conflict, AbortDeadlock, RollBack, BeginRecord, FindSaga, TransactionFails,
       BeginFails, placementVars
  <2> QED BY <1>4, <2>1
<1>6. CASE Crash
  BY <1>4, <1>6 DEF Crash
<1>7. CASE UNCHANGED vars
  BY <1>4, <1>7 DEF vars, placementVars
<1> QED BY <1>2, <1>3, <1>5, <1>6, <1>7 DEF Next, Proceed

------------------------------------------------------------------------------
(* The invariant. *)

HistorySound ==
  /\ published \in [Order -> SUBSET {"Reserved", "ReservationFailed"}]
  /\ crashes \in 0..MaxCrashes

LEMMA HistoryStep ==
  ASSUME HistorySound, [Next]_vars
  PROVE  HistorySound'
<1> USE FaultAssumption DEF HistorySound
<1>1. ASSUME NEW o \in Order,
             \/ Request(o) \/ Begin(o) \/ Place(o) \/ PlaceFails(o) \/ Read(o) \/ FindTooLittle(o)
             \/ Update(o) \/ Conflict(o) \/ Commit(o) \/ AbortDeadlock(o) \/ BeginRecord(o)
             \/ FindSaga(o) \/ TransactionFails(o) \/ BeginFails(o)
      PROVE  HistorySound'
  <2>1. published' = published /\ crashes' = crashes
    BY <1>1 DEF Request, Begin, Place, PlaceFails, Read, FindTooLittle, Update, Conflict, Commit,
       AbortDeadlock, RollBack, BeginRecord, FindSaga, TransactionFails, BeginFails, commandVars
  <2> QED BY <2>1
<1>2. ASSUME NEW o \in Order, CheckUpdates(o) \/ RecordFailure(o)
      PROVE  HistorySound'
  <2>1. PICK event \in {"Reserved", "ReservationFailed"} :
          published' = [published EXCEPT ![o] = @ \cup {event}]
    BY <1>2 DEF CheckUpdates, RecordFailure
  <2>2. crashes' = crashes
    BY <1>2 DEF CheckUpdates, RecordFailure
  <2> QED BY <2>1, <2>2
<1>3. CASE Crash
  BY <1>3 DEF Crash
<1>4. CASE UNCHANGED vars
  BY <1>4 DEF vars, commandVars
<1> QED BY <1>1, <1>2, <1>3, <1>4 DEF Next, Proceed

LEMMA InvariantParts ==
  /\ ReservationInvariant <=>
       CommandsSound /\ PlacementSound /\ RowsSound /\ TakersAreCounted /\ HistorySound
  /\ ReservationInvariant' <=>
       CommandsSound' /\ PlacementSound' /\ RowsSound' /\ TakersAreCounted' /\ HistorySound'
<1>1. Places = AtRest \cup {"ordering", "ordered", "recorded", "caught", "reading", "updating",
                            "committing", "failing", "finding", "recording"}
  BY DEF Places, PlacingPlaces, ReservingPlaces
<1>2. TypeOK /\ ConnectionsAreCounted /\ RepositoriesAreCurrent <=>
        /\ CommandsSound
        /\ orders \subseteq OrderRow /\ saga \in [Order -> Step \cup {None}]
        /\ pending \in [Order -> SUBSET OrderRow]
        /\ RowsTyped /\ HistorySound
  BY <1>1 DEF TypeOK, ConnectionsAreCounted, CommandsSound, UnitsSound, TransactionsFollow,
     PlacingPlaces, ReservingPlaces, RowsTyped, HistorySound
<1>3. (TypeOK /\ ConnectionsAreCounted /\ RepositoriesAreCurrent)' <=>
        /\ CommandsSound'
        /\ orders' \subseteq OrderRow /\ saga' \in [Order -> Step \cup {None}]
        /\ pending' \in [Order -> SUBSET OrderRow]
        /\ RowsTyped' /\ HistorySound'
  BY <1>1 DEF TypeOK, ConnectionsAreCounted, CommandsSound, UnitsSound, TransactionsFollow,
     PlacingPlaces, ReservingPlaces, RowsTyped, HistorySound
<1> QED BY <1>2, <1>3 DEF ReservationInvariant, PlacementSound, RowsSound

LEMMA InvariantInit == Init => ReservationInvariant
<1> SUFFICES ASSUME Init
             PROVE  ReservationInvariant
  OBVIOUS
<1> USE DEF Init
<1>1. CommandsSound
  <2>1. UnitsSound /\ \A w \in Handler : ~InTransaction(w)
    BY DEF UnitOfWorkInit, UnitsSound, UnitOfWorkTypeOK, InTransaction, NewUnit,
       RepositoriesAreCurrent
  <2> QED BY <2>1, Handlers DEF CommandsSound, TransactionsFollow, Places, AtRest, ReservingPlaces
<1>2. PlacementSound
  BY DEF PlacementSound, SagaFollows, RowsAreOrders, Placed, Unplaced, Undecided
<1>3. RowsSound
  <2>1. inventory \in [Product -> RowValue]
    BY InitialStockAssumption DEF RowValue, Initial
  <2>2. \A o \in Order : /\ read[o] = <<>> /\ DOMAIN read[o] = {}
                         /\ todo[o] \in Seq(Product) /\ Range(todo[o]) = {} /\ written[o] = {}
    BY DEF Range
  <2>3. RowsTyped
    <3>1. \A o \in Order : read[o] \in [DOMAIN read[o] -> RowValue]
      BY <2>2
    <3> QED BY <2>1, <2>2, <3>1 DEF RowsTyped
  <2>4. RowsAreLocked /\ VersionsTell /\ UpdatesAreComplete
    BY <2>2 DEF RowsAreLocked, VersionsTell, UpdatesAreComplete
  <2> QED BY <2>3, <2>4 DEF RowsSound
<1>4. TakersAreCounted
  <2>1. ASSUME NEW p \in Product
        PROVE  Counted(p)
    <3>1. TakersOf(p) = {}
      BY DEF TakersOf, None
    <3>2. QuantityTaken(p, {}) = 0
      BY SumOfNothing DEF QuantityTaken
    <3>3. inventory[p].version = 1 /\ inventory[p].quantity = InitialStock[p]
          /\ InitialStock[p] \in Nat
      BY InitialStockAssumption DEF Initial
    <3> QED BY <3>1, <3>2, <3>3, FS_EmptySet DEF Counted
  <2> QED BY <2>1, CountedParts
<1>5. HistorySound
  BY FaultAssumption DEF HistorySound
<1> QED BY <1>1, <1>2, <1>3, <1>4, <1>5, InvariantParts

LEMMA InvariantStep ==
  ASSUME ReservationInvariant, [Next]_vars
  PROVE  ReservationInvariant'
<1>1. /\ CommandsSound /\ PlacementSound /\ RowsSound /\ TakersAreCounted /\ HistorySound
      /\ pc \in [Order -> Places]
  BY InvariantParts DEF CommandsSound
<1> QED BY <1>1, CommandsStep, PlacementStep, RowsStep, TakersStep, HistoryStep, InvariantParts

\* In every state, for any orders, products, pool and faults: tables, rows,
\* versions, locks and connections are consistent with where the commands are.
THEOREM ReservationIsConsistent == Spec => []ReservationInvariant
<1>1. ReservationInvariant /\ [Next]_vars => ReservationInvariant'
  BY InvariantStep
<1> QED BY <1>1, InvariantInit, PTL DEF Spec

\* No update is lost, and none is applied to a row that had changed: a version
\* counts the orders that took from the row, and they took what is missing.
THEOREM NoUpdateIsLost == Spec => []VersionsCountUpdates
<1>1. ReservationInvariant => VersionsCountUpdates
  BY DEF ReservationInvariant, TakersAreCounted
<1> QED BY <1>1, ReservationIsConsistent, PTL

\* An order and its saga are written together, or neither is; a client that was
\* refused has no order.
THEOREM OrdersHaveSagas == Spec => []OrderWithItsSaga
<1>1. ReservationInvariant => OrderWithItsSaga
  BY DEF ReservationInvariant, SagaFollows, Unplaced, OrderWithItsSaga
<1> QED BY <1>1, ReservationIsConsistent, PTL

\* A repository is never used on the connection of an earlier transaction.
THEOREM RepositoriesStayCurrent == Spec => []RepositoriesAreCurrent
<1>1. ReservationInvariant => RepositoriesAreCurrent
  BY DEF ReservationInvariant
<1> QED BY <1>1, ReservationIsConsistent, PTL

\* Whichever way a command ended, its connections are back, but for the leaked.
THEOREM ConnectionsAreReturned == Spec => []ConnectionsComeBack
<1>1. ASSUME ReservationInvariant, NEW o \in Order, pc[o] \in AtRest
      PROVE  \A u \in {Placing(o), Reserving(o)} : held[u] = leaks[u]
  <2>1. CommandsSound
    BY <1>1, InvariantParts
  <2>2. ~InTransaction(Placing(o)) /\ ~InTransaction(Reserving(o))
    BY <1>1, <2>1 DEF CommandsSound, TransactionsFollow, PlacingPlaces, ReservingPlaces, AtRest, Ended
  <2>3. \A u \in Handler : leaks[u] \in Nat /\ (~InTransaction(u) => held[u] = leaks[u])
    BY <2>1 DEF CommandsSound, UnitsSound, UnitOfWorkTypeOK
  <2> QED BY <2>2, <2>3, Handlers
<1>2. ReservationInvariant => ConnectionsComeBack
  BY <1>1 DEF ConnectionsComeBack
<1> QED BY <1>2, ReservationIsConsistent, PTL

------------------------------------------------------------------------------
(* What is taken is charged. *)

LEMMA ChargedForFound ==
  ASSUME NEW o \in Order, Accepted(o)
  PROVE  TotalPrice(o) >=
           SumFunction([p \in Found(o) |-> Multiply(PriceOf[p], LineQuantity(o, p))])
<1> DEFINE L == DOMAIN Lines[o]
           S == Found(o)
           charge == [i \in L |-> Multiply(PriceAt(o, i), Lines[o][i].quantity)]
           taken == [p \in S |-> Multiply(PriceOf[p], LineQuantity(o, p))]
           IsFirst(i, p) == /\ i \in L
                            /\ Lines[o][i].product = p
                            /\ \A j \in 1..(i - 1) : Lines[o][j].product # p
                            /\ LineQuantity(o, p) = Lines[o][i].quantity
           first == [p \in S |-> CHOOSE i \in L : IsFirst(i, p)]
<1>1. IsFiniteSet(L)
  <2>1. DOMAIN Lines[o] = 1..Len(Lines[o]) /\ Len(Lines[o]) \in Nat
    BY LinesAssumption
  <2> QED BY <2>1, FS_Interval
<1>2. IsFiniteSet(S) /\ S \subseteq Product
  BY FoundTyped
<1>3. \A p \in S : first[p] \in L /\ IsFirst(first[p], p)
  <2> SUFFICES ASSUME NEW p \in S
               PROVE  \E i \in L : IsFirst(i, p)
    OBVIOUS
  <2> QED BY FirstLine DEF Found
<1>4. \A i \in L : charge[i] \in Nat
  BY AcceptedTyped
<1>5. \A p \in S : taken[p] = charge[first[p]]
  <2> SUFFICES ASSUME NEW p \in S
               PROVE  taken[p] = charge[first[p]]
    OBVIOUS
  <2>1. IsFirst(first[p], p) /\ first[p] \in L
    BY <1>3
  <2>2. p \in FoundProducts(o)
    BY <1>2, CatalogAssumption DEF FoundProducts, Found
  <2> HIDE DEF first
  <2>3. PriceAt(o, first[p]) = PriceOf[p]
    BY <2>1, <2>2 DEF PriceAt
  <2> QED BY <2>1, <2>3
<1>6. \A p, r \in S : first[p] = first[r] => p = r
  BY <1>3
<1>7. TotalPrice(o) = SumFunctionOnSet(charge, L) /\ SumFunction(taken) = SumFunctionOnSet(taken, S)
  BY DEF TotalPrice, SumFunction
<1> HIDE DEF L, S, charge, taken, first
<1>8. SumFunctionOnSet(taken, S) = SumFunctionOnSet(charge, {first[p] : p \in S})
  <2>1. \A p \in S : taken[p] \in Int /\ taken[p] = charge[first[p]]
    BY <1>3, <1>4, <1>5
  <2> QED BY <1>2, <1>6, <2>1, SumOverImage
<1>9. {first[p] : p \in S} \in SUBSET L
  BY <1>3
<1>10. SumFunctionOnSet(charge, {first[p] : p \in S}) <= SumFunctionOnSet(charge, L)
  BY <1>1, <1>4, <1>9, SumOfMore
<1>11. SumFunctionOnSet(charge, L) \in Int
  BY <1>1, <1>4, SumType
<1>12. SumFunctionOnSet(charge, {first[p] : p \in S}) \in Int
  BY <1>1, <1>4, <1>9, SumType
<1>13. TotalPrice(o) >= SumFunction(taken)
  BY <1>7, <1>8, <1>10, <1>11, <1>12
<1> QED BY <1>13 DEF taken, S

\* What an order took from the stock is in its total price, whichever products
\* its lines repeat or misspell.
THEOREM TakenGoodsAreCharged == Spec => []TakenIsCharged
<1>1. ASSUME ReservationInvariant, NEW row \in orders
      PROVE  row.total >= SumFunction([p \in Found(row.id) |->
                                         Multiply(PriceOf[p], LineQuantity(row.id, p))])
  <2>1. row.id \in Order /\ Accepted(row.id) /\ row.total = TotalPrice(row.id)
    BY <1>1 DEF ReservationInvariant, TypeOK, OrderRow, RowsAreOrders
  <2> QED BY <2>1, ChargedForFound
<1>2. ReservationInvariant => TakenIsCharged
  BY <1>1 DEF TakenIsCharged
<1> QED BY <1>2, ReservationIsConsistent, PTL

------------------------------------------------------------------------------
(* The promise is kept. *)

Available == [p \in Product |-> inventory[p].quantity]
Outcome == [o \in Order |-> CASE saga[o] = "INVENTORY_RESERVED" -> "reserved"
                              [] saga[o] = "INVENTORY_RESERVE_FAILED" -> "rejected"
                              [] OTHER -> "pending"]

\* A step that neither takes nor decides.
LEMMA PromiseStays ==
  ASSUME inventory' = inventory,
         \A o \in Order :
           \/ saga'[o] = saga[o]
           \/ {saga[o], saga'[o]} \subseteq {None, NewSaga}
  PROVE  UNCHANGED Promise!vars
<1>1. Available' = Available
  BY DEF Available
<1>2. Outcome' = Outcome
  BY DEF Outcome, None, NewSaga
<1> QED BY <1>1, <1>2 DEF Available, Outcome, Promise!vars

LEMMA PromiseReserve ==
  ASSUME NEW o \in Order, RowsSound, saga \in [Order -> Step \cup {None}], saga[o] = NewSaga,
         Commit(o)
  PROVE  Promise!Reserve(o)
<1>1. saga' = [saga EXCEPT ![o] = "INVENTORY_RESERVED"]
  BY DEF Commit
<1>2. Outcome[o] = "pending" /\ Outcome' = [Outcome EXCEPT ![o] = "reserved"]
  BY <1>1 DEF Outcome, NewSaga
<1>3. \A p \in Found(o) : LineQuantity(o, p) <= Available[p]
  BY CommitTakes DEF Available
<1>4. Available' = [p \in Product |-> IF p \in Found(o)
                                      THEN Available[p] - LineQuantity(o, p) ELSE Available[p]]
  <2>1. ASSUME NEW p \in Product
        PROVE  inventory'[p].quantity = IF p \in Found(o)
                                        THEN inventory[p].quantity - LineQuantity(o, p)
                                        ELSE inventory[p].quantity
    <3>1. CASE p \in Found(o)
      <4>1. inventory'[p] = [quantity |-> inventory[p].quantity - LineQuantity(o, p),
                             version |-> inventory[p].version + 1]
        BY <3>1, CommitTakes
      <4> QED BY <3>1, <4>1
    <3>2. CASE p \notin Found(o)
      BY <3>2, CommitTakes
    <3> QED BY <3>1, <3>2
  <2> QED BY <2>1 DEF Available
<1> QED BY <1>2, <1>3, <1>4 DEF Available, Outcome, Promise!Reserve

LEMMA PromiseReject ==
  ASSUME NEW o \in Order, saga \in [Order -> Step \cup {None}], saga[o] = NewSaga,
         RecordFailure(o)
  PROVE  Promise!Reject(o)
<1>1. saga' = [saga EXCEPT ![o] = "INVENTORY_RESERVE_FAILED"] /\ inventory' = inventory
  BY DEF RecordFailure
<1>2. Outcome[o] = "pending" /\ Outcome' = [Outcome EXCEPT ![o] = "rejected"]
  BY <1>1 DEF Outcome, NewSaga
<1>3. Available' = Available
  BY <1>1 DEF Available
<1> QED BY <1>2, <1>3 DEF Available, Outcome, Promise!Reject

LEMMA PromiseStep ==
  ASSUME ReservationInvariant, [Next]_vars
  PROVE  [Promise!Next]_Promise!vars
<1>1. /\ RowsSound /\ saga \in [Order -> Step \cup {None}]
      /\ \A o \in Order : /\ pc[o] \in Unplaced => saga[o] = None
                          /\ pc[o] \in Undecided => saga[o] = NewSaga
  BY InvariantParts DEF PlacementSound, SagaFollows
<1>2. ASSUME NEW o \in Order, Commit(o)
      PROVE  Promise!Next
  <2>1. saga[o] = NewSaga
    BY <1>1, <1>2 DEF Commit, Undecided
  <2> QED BY <1>1, <1>2, <2>1, PromiseReserve DEF Promise!Next
<1>3. ASSUME NEW o \in Order, RecordFailure(o)
      PROVE  Promise!Next
  <2>1. saga[o] = NewSaga
    BY <1>1, <1>3 DEF RecordFailure, Undecided
  <2> QED BY <1>1, <1>3, <2>1, PromiseReject DEF Promise!Next
<1>4. ASSUME NEW o \in Order, Place(o)
      PROVE  UNCHANGED Promise!vars
  <2>1. inventory' = inventory
    BY <1>4 DEF Place
  <2>2. saga' = saga \/ (saga[o] = None /\ saga' = [saga EXCEPT ![o] = NewSaga])
    BY <1>1, <1>4 DEF Place, PlaceOrder, PersistOrder, PersistSaga, CommitOrder, RollBackOrder,
       Unplaced
  <2>3. \A s \in Order : saga'[s] = saga[s] \/ {saga[s], saga'[s]} \subseteq {None, NewSaga}
    BY <1>1, <2>2
  <2> QED BY <2>1, <2>3, PromiseStays
<1>5. ASSUME inventory' = inventory, saga' = saga
      PROVE  UNCHANGED Promise!vars
  BY <1>5, PromiseStays
<1>6. ASSUME NEW o \in Order,
             \/ Request(o) \/ PlaceFails(o) \/ Begin(o) \/ Read(o) \/ FindTooLittle(o) \/ Update(o)
             \/ CheckUpdates(o) \/ Conflict(o) \/ AbortDeadlock(o) \/ BeginRecord(o) \/ FindSaga(o)
             \/ TransactionFails(o) \/ BeginFails(o)
      PROVE  UNCHANGED Promise!vars
  <2>1. inventory' = inventory /\ saga' = saga
    BY <1>6 DEF Request, RequestOrder, PlaceFails, PlacingFails, Begin, Read, FindTooLittle, Update,
       CheckUpdates, Conflict, AbortDeadlock, RollBack, BeginRecord, FindSaga, TransactionFails,
       BeginFails, placementVars
  <2> QED BY <1>5, <2>1
<1>7. CASE Crash
  BY <1>5, <1>7 DEF Crash
<1>8. CASE UNCHANGED vars
  BY <1>5, <1>8 DEF vars, placementVars
<1> QED BY <1>2, <1>3, <1>4, <1>6, <1>7, <1>8 DEF Next, Proceed

LEMMA PromiseInit == Init => Promise!Init
<1> SUFFICES ASSUME Init
             PROVE  Promise!Init
  OBVIOUS
<1>1. Available \in [Product -> Nat]
  BY InitialStockAssumption DEF Init, Available
<1>2. Outcome = [o \in Order |-> "pending"]
  BY DEF Init, Outcome, None
<1> QED BY <1>1, <1>2 DEF Available, Outcome, Promise!Init

\* The reservation implements its promise: all of an order's products are taken
\* in one step, from a stock that has them, or none are; the updates, locks,
\* rollbacks, deadlocks and crashes in between take nothing.
THEOREM ReservationKeepsItsPromise == Spec => ReservesAllOrNothing
<1>1. ReservationInvariant /\ [Next]_vars => [Promise!Next]_Promise!vars
  BY PromiseStep
<1> QED BY <1>1, PromiseInit, ReservationIsConsistent, PTL DEF Spec, ReservesAllOrNothing, Promise!Spec
==============================================================================
