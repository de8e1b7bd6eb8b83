------------------------------ MODULE UnitOfWork ------------------------------
(***************************************************************************)
(* A unit of work gives the statements of one command handler a connection  *)
(* and a transaction.  Every handler has its own (it is request-scoped) and *)
(* may run several transactions one after the other; all of them take their *)
(* connections from one pool.  The module holds the operations.             *)
(***************************************************************************)
EXTENDS Naturals, FiniteSetsExt

CONSTANTS
  Unit,      \* the units of work
  PoolSize   \* connections in the pool

VARIABLES
  unit,    \* [Unit -> its query runner and the one its repositories are made for; 0: none]
  held,    \* [Unit -> connections it has taken and not given back]
  leaks    \* history: those of them whose START TRANSACTION failed

UnitsUnchanged == UNCHANGED <<unit, held, leaks>>

NewUnit == [made |-> 0, runner |-> 0, repositories |-> 0]

UnitOfWorkTypeOK ==
  /\ unit \in [Unit -> [made : Nat, runner : Nat, repositories : Nat]]
  /\ held \in [Unit -> Nat]
  /\ leaks \in [Unit -> Nat]

UnitOfWorkInit ==
  /\ unit = [u \in Unit |-> NewUnit]
  /\ held = [u \in Unit |-> 0]
  /\ leaks = [u \in Unit |-> 0]

InTransaction(u) == unit[u].runner # 0
Leaked == SumFunctionOnSet(leaks, Unit)

\* createQueryRunner and connect: waits until the pool has a connection.
Connect(u) ==
  /\ SumFunctionOnSet(held, Unit) < PoolSize
  /\ held' = [held EXCEPT ![u] = @ + 1]

\* The beginning of execute, for a unit that has no transaction.
Execute(u) ==
  /\ Connect(u)
  /\ unit' = [unit EXCEPT ![u].made = @ + 1, ![u].runner = unit[u].made + 1]
  /\ UNCHANGED leaks

BeginTransaction(u) == IF InTransaction(u) THEN UnitsUnchanged ELSE Execute(u)

\* The pool gives no connection, or START TRANSACTION fails: it is called
\* outside of any try block, and the connection is never given back.
OpenFails(u) ==
  \/ UnitsUnchanged
  \/ /\ Connect(u)
     /\ leaks' = [leaks EXCEPT ![u] = @ + 1]
     /\ UNCHANGED unit

\* The getters make each repository once, for the manager of the moment.
UseRepositories(u) ==
  /\ InTransaction(u)
  /\ unit' = [unit EXCEPT ![u].repositories = IF @ = 0 THEN unit[u].runner ELSE @]
  /\ UNCHANGED <<held, leaks>>

\* Slip: the repositories of the last transaction are kept.
ResetRepositoriesNot(value) == [value EXCEPT !.runner = 0]

ResetRepositories(value) == [value EXCEPT !.runner = 0, !.repositories = 0]

\* The finally block: the connection goes back, the unit is as new.
Release(u) ==
  /\ held' = [held EXCEPT ![u] = @ - 1]
  /\ unit' = [unit EXCEPT ![u] = ResetRepositories(@)]
  /\ UNCHANGED leaks

CommitTransaction(u) == InTransaction(u) /\ Release(u)

\* Slip: the connection is not given back.
RollbackTransactionKeeps(u) ==
  IF InTransaction(u)
  THEN unit' = [unit EXCEPT ![u] = ResetRepositories(@)] /\ UNCHANGED <<held, leaks>>
  ELSE UnitsUnchanged

\* Does nothing after a commitTransaction, whether that succeeded or not.
RollbackTransaction(u) == IF InTransaction(u) THEN Release(u) ELSE UnitsUnchanged

\* The end of execute, after COMMIT or ROLLBACK, however they ended.
EndExecute(u) == Release(u)

\* The process dies with its units of work and its pool.
UnitsDie ==
  /\ unit' = [u \in Unit |-> NewUnit]
  /\ held' = [u \in Unit |-> 0]
  /\ leaks' = [u \in Unit |-> 0]

==============================================================================
