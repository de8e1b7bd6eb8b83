-------------------------- MODULE JobStoreInvariants --------------------------
(***************************************************************************)
(* The inductive invariant behind the guarantees of JobStore.               *)
(***************************************************************************)
EXTENDS JobStore

\* Jobs are added under their own name by addJob, and by no one else; the
\* loader adds them under the name of the queue.
OwnName(i) == jobs[i].name # QueueName
Unqueued == {"idle", "counted"}

\* addJob queues each task once.
OneJobPerTask ==
  \A i \in DOMAIN jobs : OwnName(i) =>
    /\ pc[ids[i].task] \notin Unqueued
    /\ \A j \in DOMAIN jobs : OwnName(j) /\ ids[j].task = ids[i].task => j = i

\* A job that waits under its own name was applied no more often than it was
\* delivered again, but for the time it is not acknowledged.
DeliveriesAreCounted ==
  /\ applied => jobs # <<>> /\ OwnName(1) /\ times[ids[1].task] > 0
  /\ \A t \in Task : pc[t] \in Unqueued => times[t] = 0
  /\ \A i \in DOMAIN jobs : OwnName(i) =>
       times[ids[i].task] <= again[ids[i].task] + (IF applied /\ i = 1 THEN 1 ELSE 0)
  /\ AppliedOncePerDelivery

\* Until Redis loses data, ids are given once, the rows have those of their
\* jobs, and the loader has nothing to add.
TicketsAreUnique ==
  losses = 0 =>
    /\ \A t \in Task : /\ ticket[t] < nextId
                       /\ pc[t] \in Unqueued => ticket[t] = 0
                       /\ pc[t] = "queued" => ticket[t] # 0
                       /\ \A s \in Task : ticket[s] = ticket[t] => s = t \/ ticket[t] = 0
    /\ \A i \in DOMAIN jobs : OwnName(i) /\ ids[i].id = ticket[ids[i].task] /\ ids[i].id # 0
    /\ \A row \in table : row.jobId = ticket[row.task] /\ row.jobId # 0

JobsInvariant ==
  /\ TypeOK
  /\ OneJobPerTask
  /\ DeliveriesAreCounted
  /\ TicketsAreUnique

==============================================================================
