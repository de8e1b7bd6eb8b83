------------------------------ MODULE Inventory ------------------------------
(***************************************************************************)
(* Stock is kept twice.  A Redis counter per product answers reservations   *)
(* at once; the inventory table of PostgreSQL follows it through a BullMQ   *)
(* queue whose single worker adds and removes quantities.  At start-up the  *)
(* loader sets every counter to the quantity of the table.                  *)
(*                                                                         *)
(* The module holds the operations; the modules that EXTEND it say who      *)
(* calls them and when.                                                     *)
(***************************************************************************)
EXTENDS Naturals, Sequences

CONSTANTS
  Product,       \* the products that are sold
  InitialStock,  \* [Product -> Nat], quantities after the first start-up
  MaxAttempts    \* BullMQ "attempts" of a job (5 in queue.module.ts)

ASSUME InitialStockAssumption == InitialStock \in [Product -> Nat]
ASSUME MaxAttemptsAssumption == MaxAttempts \in Nat \ {0}

VARIABLES
  cache,    \* the Redis counters, inventory:product:<id>
  stock,    \* the quantity column of the inventory table
  jobs,     \* the waiting list of the inventory queue, oldest first
  applied   \* the head job is persisted but not yet acknowledged

inventoryVars == <<cache, stock, jobs, applied>>

JobName == {"RESERVE_INVENTORY", "COMPENSATE_INVENTORY"}

Job == [name : JobName, product : Product, quantity : Nat, attempts : Nat]

InventoryTypeOK ==
  /\ cache \in [Product -> Nat]
  /\ stock \in [Product -> Nat]
  /\ jobs \in Seq(Job)
  /\ applied \in BOOLEAN

InventoryInit ==
  /\ cache = InitialStock
  /\ stock = InitialStock
  /\ jobs = <<>>
  /\ applied = FALSE

------------------------------------------------------------------------------
(* The Redis counters. *)

Sufficient(p, q) == cache[p] >= q

\* Slip: the counter is decremented without the test.
ReserveInventoryBlindly(p, q) == cache' = [cache EXCEPT ![p] = @ - q]

\* The Lua script tests and decrements in one Redis command.
ReserveInventory(p, q) ==
  /\ Sufficient(p, q)
  /\ cache' = [cache EXCEPT ![p] = @ - q]

CompensateInventory(p, q) ==
  cache' = [cache EXCEPT ![p] = @ + q]

\* The loader runs before the saga recovery and knows nothing of the queue.  It
\* reads the whole table, and then sets one counter after the other.
ReadInventory == {<<p, stock[p]>> : p \in Product}

LoadCounter(read) == cache' = [cache EXCEPT ![read[1]] = read[2]]

------------------------------------------------------------------------------
(* The queue and its worker. *)

AddJob(n, p, q) ==
  jobs' = Append(jobs, [name |-> n, product |-> p, quantity |-> q, attempts |-> 0])

\* A new quantity is persisted; the job stays active until it is acknowledged.
PersistQuantity(p, q) ==
  /\ stock' = [stock EXCEPT ![p] = q]
  /\ applied' = TRUE
  /\ UNCHANGED <<cache, jobs>>

\* Slip: the quantity is subtracted unchecked.
HandleReserveUnchecked ==
  LET job == Head(jobs) IN
  /\ job.name = "RESERVE_INVENTORY"
  /\ PersistQuantity(job.product, stock[job.product] - job.quantity)

HandleReserveInventory ==
  LET job == Head(jobs) IN
  /\ job.name = "RESERVE_INVENTORY"
  /\ job.quantity <= stock[job.product]
  /\ PersistQuantity(job.product, stock[job.product] - job.quantity)

HandleCompensateInventory ==
  LET job == Head(jobs) IN
  /\ job.name = "COMPENSATE_INVENTORY"
  /\ PersistQuantity(job.product, stock[job.product] + job.quantity)

\* removeQuantity throws: the job waits behind the others for its next
\* attempt, and after the last one it is never run again.
RejectReserveInventory ==
  LET job == Head(jobs) IN
  /\ job.name = "RESERVE_INVENTORY"
  /\ job.quantity > stock[job.product]
  /\ jobs' = IF job.attempts + 1 < MaxAttempts
             THEN Append(Tail(jobs), [job EXCEPT !.attempts = @ + 1])
             ELSE Tail(jobs)
  /\ UNCHANGED <<cache, stock, applied>>

ProcessJob ==
  /\ jobs # <<>>
  /\ ~applied
  /\ \/ HandleReserveInventory
     \/ HandleCompensateInventory
     \/ RejectReserveInventory

AcknowledgeJob ==
  /\ applied
  /\ jobs # <<>>
  /\ jobs' = Tail(jobs)
  /\ applied' = FALSE
  /\ UNCHANGED <<cache, stock>>

Worker == ProcessJob \/ AcknowledgeJob

\* The process dies: an unacknowledged job is delivered again.
WorkerStops ==
  /\ applied' = FALSE
  /\ UNCHANGED <<stock, jobs>>

==============================================================================
