------------------------------ MODULE JobStore -------------------------------
(***************************************************************************)
(* The jobs table beside the inventory queue.  addJob puts a job into Redis *)
(* and then inserts a row for it, whose status is WAITING for good: the     *)
(* methods that would follow the job's status belong to a class of which    *)
(* the framework registers none.  At start-up the queue loader adds the     *)
(* jobs of waiting rows that Redis does not know.  Composed with Inventory, *)
(* whose counters, queue and worker these are: orders reserve one product   *)
(* each and some are canceled.  What a caller does when addJob throws is in *)
(* OrderSaga.                                                               *)
(***************************************************************************)
EXTENDS Inventory

CONSTANTS
  Order,        \* the orders that reserve
  ProductOf,    \* [Order -> Product]
  Cancelable,   \* the orders that may be canceled
  MaxRestarts,  \* bound on the number of crashes
  MaxLosses     \* bound on how often Redis loses its data

ASSUME ProductOfAssumption == ProductOf \in [Order -> Product]
ASSUME CancelableAssumption == Cancelable \subseteq Order
ASSUME BoundsAssumption == MaxRestarts \in Nat /\ MaxLosses \in Nat

VARIABLES
  ids,       \* beside jobs: the id of each waiting job and whose job it is
  nextId,    \* the id counter in Redis
  table,     \* the jobs table
  loading,   \* the counters the loader has still to set
  toCheck,   \* the rows the loader has still to look up
  pc,        \* how far each addJob is
  ticket,    \* the id each addJob was given
  times,     \* history: how often each job was applied to the inventory table
  again,     \* history: how often each was delivered again after that
  dropped,   \* history: the jobs the worker gave up after their last attempt
  lost,      \* history: the jobs that Redis lost while they waited
  server,    \* "up", "down", or "starting": the worker runs, requests are not served
  restarts, losses

loaderVars == <<loading, toCheck>>
storeVars == <<ids, nextId, table, loaderVars, pc, ticket, times, again, dropped, lost,
               server, restarts, losses>>
vars == <<inventoryVars, storeVars>>

\* An order's job to reserve, and the one to compensate.
Task == (Order \X {"RESERVE_INVENTORY"}) \cup (Cancelable \X {"COMPENSATE_INVENTORY"})
JobRow == [jobId : Nat, task : Task]

\* QueueType.INVENTORY: the name of the queue, which is the name of no job.
QueueName == "inventory"

TypeOK ==
  /\ cache \in [Product -> Nat] /\ stock \in [Product -> Nat] /\ applied \in BOOLEAN
  /\ jobs \in Seq([name : JobName \cup {QueueName}, product : Product, quantity : Nat,
                   attempts : Nat])
  /\ ids \in Seq([id : Nat, task : Task]) /\ Len(ids) = Len(jobs)
  /\ nextId \in Nat
  /\ table \subseteq JobRow /\ toCheck \subseteq table /\ loading \subseteq Product \X Nat
  /\ pc \in [Task -> {"idle", "counted", "queued", "stored", "failed"}]
  /\ ticket \in [Task -> Nat]
  /\ times \in [Task -> Nat] /\ again \in [Task -> Nat]
  /\ dropped \cup lost \subseteq Task
  /\ server \in {"up", "down", "starting"} /\ restarts \in 0..MaxRestarts /\ losses \in 0..MaxLosses

Init ==
  /\ InventoryInit
  /\ ids = <<>> /\ nextId = 1 /\ table = {} /\ dropped = {} /\ lost = {}
  /\ loading = {} /\ toCheck = {}
  /\ pc = [t \in Task |-> "idle"] /\ ticket = [t \in Task |-> 0]
  /\ times = [t \in Task |-> 0] /\ again = [t \in Task |-> 0]
  /\ server = "up" /\ restarts = 0 /\ losses = 0

Goes(t, place) == pc' = [pc EXCEPT ![t] = place]
History == UNCHANGED <<times, again, dropped, lost, server, restarts, losses>>

------------------------------------------------------------------------------
(* addJob: the queue first, then the row, in a transaction around both. *)

Count(t) ==
  LET p == ProductOf[t[1]] IN
  /\ server = "up" /\ pc[t] = "idle"
  /\ \/ t[2] = "RESERVE_INVENTORY" /\ ReserveInventory(p, 1)
     \/ /\ t[2] = "COMPENSATE_INVENTORY" /\ pc[<<t[1], "RESERVE_INVENTORY">>] = "stored"
        /\ CompensateInventory(p, 1)
  /\ Goes(t, "counted")
  /\ UNCHANGED <<stock, jobs, applied, ids, nextId, table, loaderVars, ticket>> /\ History

Enqueue(t, n) ==
  /\ AddJob(n, ProductOf[t[1]], 1)
  /\ ids' = Append(ids, [id |-> nextId, task |-> t])
  /\ nextId' = nextId + 1

\* Slip: the job is added under the name of its queue, as the loader does.
QueueJobMisnamed(t) ==
  /\ pc[t] = "counted"
  /\ Enqueue(t, QueueName)
  /\ ticket' = [ticket EXCEPT ![t] = nextId]
  /\ Goes(t, "queued")
  /\ UNCHANGED <<cache, stock, applied, table, loaderVars>> /\ History

QueueJob(t) ==
  /\ pc[t] = "counted"
  /\ Enqueue(t, t[2])
  /\ ticket' = [ticket EXCEPT ![t] = nextId]
  /\ Goes(t, "queued")
  /\ UNCHANGED <<cache, stock, applied, table, loaderVars>> /\ History

\* job_id is unique.  When PostgreSQL or the constraint rejects the row, addJob
\* throws, and the job stays in the queue.
StoreRow(t) ==
  /\ pc[t] = "queued"
  /\ \/ /\ \A row \in table : row.jobId # ticket[t]
        /\ table' = table \cup {[jobId |-> ticket[t], task |-> t]}
        /\ Goes(t, "stored")
     \/ Goes(t, "failed") /\ UNCHANGED table
  /\ UNCHANGED <<inventoryVars, ids, nextId, loaderVars, ticket>> /\ History

------------------------------------------------------------------------------
(* The worker. *)

\* A rejected job goes back to the end of the queue, or is given up.
ProcessStoredJob ==
  /\ ProcessJob
  /\ \/ applied' /\ UNCHANGED ids
     \/ ~applied' /\ Len(jobs') = Len(jobs) /\ ids' = Append(Tail(ids), Head(ids))
     \/ Len(jobs') < Len(jobs) /\ ids' = Tail(ids)
  /\ times' = IF applied' THEN [times EXCEPT ![Head(ids).task] = @ + 1] ELSE times
  /\ dropped' = IF Len(jobs') < Len(jobs) THEN dropped \cup {Head(ids).task} ELSE dropped
  /\ UNCHANGED <<nextId, table, loaderVars, pc, ticket, again, lost, server, restarts, losses>>

\* The default branch of the switch does nothing, and the job is completed.
IgnoreJob ==
  /\ jobs # <<>> /\ ~applied
  /\ Head(jobs).name = QueueName
  /\ jobs' = Tail(jobs) /\ ids' = Tail(ids)
  /\ UNCHANGED <<cache, stock, applied, nextId, table, loaderVars, pc, ticket>> /\ History

AcknowledgeStoredJob ==
  /\ AcknowledgeJob
  /\ ids' = Tail(ids)
  /\ UNCHANGED <<nextId, table, loaderVars, pc, ticket>> /\ History

WorkerStep ==
  /\ server # "down"
  /\ ProcessStoredJob \/ IgnoreJob \/ AcknowledgeStoredJob

------------------------------------------------------------------------------
(* Crashes, start-up, and Redis losing its data. *)

Crash ==
  /\ server # "down" /\ restarts < MaxRestarts
  /\ restarts' = restarts + 1
  /\ server' = "down"
  /\ WorkerStops
  /\ again' = IF applied THEN [again EXCEPT ![Head(ids).task] = @ + 1] ELSE again
  /\ pc' = [t \in Task |-> IF pc[t] \in {"counted", "queued"} THEN "failed" ELSE pc[t]]
  /\ loading' = {} /\ toCheck' = {}
  /\ UNCHANGED <<cache, ids, nextId, table, ticket, times, dropped, lost, losses>>

\* Both loaders read their table and go on one row at a time.  No row is inserted
\* before requests are served, so that the jobs table may be read here.
Start ==
  /\ server = "down"
  /\ server' = "starting"
  /\ loading' = ReadInventory
  /\ toCheck' = table
  /\ UNCHANGED <<inventoryVars, ids, nextId, table, pc, ticket, times, again, dropped, lost,
                 restarts, losses>>

LoadOne ==
  /\ \E read \in loading : LoadCounter(read) /\ loading' = loading \ {read}
  /\ UNCHANGED <<stock, jobs, applied, ids, nextId, table, toCheck, pc, ticket>> /\ History

\* Slip: Redis forgets a job when it is finished, as with removeOnComplete.
MissingWhenFinished(row) == \A i \in DOMAIN ids : ids[i].id # row.jobId

\* getJob: Redis keeps finished jobs, so it knows every id it has given out, to
\* whichever job.
Missing(row) == row.jobId >= nextId

\* Slip: jobs are added again under their own name.
ReaddByName(row) == Enqueue(row.task, row.task[2])

\* The queue's name and a new id: the row keeps the old one.
Readd(row) == Enqueue(row.task, QueueName)

\* A job that was added again a moment ago may have the id of a missing one.
CheckRow ==
  /\ \E row \in toCheck :
       /\ toCheck' = toCheck \ {row}
       /\ \/ Missing(row) /\ Readd(row)
          \/ ~Missing(row) /\ UNCHANGED <<jobs, ids, nextId>>
  /\ UNCHANGED <<cache, stock, applied, table, loading, pc, ticket>> /\ History

StartEnds ==
  /\ server = "starting" /\ loading = {} /\ toCheck = {}
  /\ server' = "up"
  /\ UNCHANGED <<inventoryVars, ids, nextId, table, loaderVars, pc, ticket, times, again,
                 dropped, lost, restarts, losses>>

StartUp == Start \/ LoadOne \/ CheckRow \/ StartEnds

\* Redis comes back empty: counters, jobs and the id counter are gone.  The job
\* the worker holds is lost as well, applied or not.
RedisLosesData ==
  /\ losses < MaxLosses
  /\ losses' = losses + 1
  /\ cache' = [p \in Product |-> 0]
  /\ jobs' = <<>> /\ ids' = <<>> /\ applied' = FALSE
  /\ nextId' = 1
  /\ lost' = lost \cup {ids[i].task : i \in DOMAIN ids}
  /\ UNCHANGED <<stock, table, loaderVars, pc, ticket, times, again, dropped, server, restarts>>

Next ==
  \/ \E t \in Task : Count(t) \/ QueueJob(t) \/ StoreRow(t)
  \/ WorkerStep \/ Crash \/ StartUp \/ RedisLosesData

Spec == Init /\ [][Next]_vars

\* Somebody restarts the server, and its start-up and its worker go on.
FairSpec == Spec /\ WF_vars(WorkerStep) /\ WF_vars(StartUp)

------------------------------------------------------------------------------
(* Properties. *)

\* A job changes the inventory table once, and once more only for each time it
\* was delivered again because the process died before it acknowledged it.  The
\* start-up loader adds nothing to that, although after a loss of Redis' data it
\* adds jobs again that were finished long ago, as every row still waits.
AppliedOncePerDelivery == \A t \in Task : times[t] <= 1 + again[t]

\* Until Redis loses data, no start-up queues again what is queued or done,
\* although every row waits for good and is looked up at every start: a task is
\* in the queue once at most, and was applied less often than it was delivered.
NothingIsQueuedAgain ==
  losses = 0 =>
    \A i \in DOMAIN ids :
      /\ \A j \in DOMAIN ids : ids[j].task = ids[i].task => j = i
      /\ times[ids[i].task] <= again[ids[i].task] + (IF applied /\ i = 1 THEN 1 ELSE 0)

\* A job that was queued and stored is applied in the end, whether or not the
\* process dies in between, unless the worker gives it up or Redis loses it.
StoredJobsAreApplied ==
  \A t \in Task :
    pc[t] = "stored" ~> (times[t] > 0 \/ t \in lost \/ t \in dropped)

\* What the loader at start-up is for: a lost job is applied in the end.
LostJobsAreRecovered == \A t \in Task : t \in lost /\ pc[t] = "stored" ~> times[t] > 0

==============================================================================
