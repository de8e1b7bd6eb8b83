----------------------------- MODULE JobStoreProofs -----------------------------
(***************************************************************************)
(* The guarantees of the jobs table for any number of orders, attempts,     *)
(* crashes and losses of Redis.                                             *)
(***************************************************************************)
EXTENDS JobStoreInvariants, TLAPS

JobRecord == [name : JobName \cup {QueueName}, product : Product, quantity : Nat, attempts : Nat]
IdRecord == [id : Nat, task : Task]

------------------------------------------------------------------------------
(* What a step may do to the queue. *)

QueueStays ==
  /\ jobs' = jobs /\ ids' = ids

\* One job more: addJob's, or the loader's.
QueueGets(t, n) ==
  /\ Len(jobs') = Len(jobs) + 1
  /\ \A i \in 1..Len(jobs) : jobs'[i] = jobs[i] /\ ids'[i] = ids[i]
  /\ jobs'[Len(jobs) + 1].name = n
  /\ ids'[Len(jobs) + 1] = [id |-> nextId, task |-> t]

QueueShortens ==
  /\ Len(jobs') = Len(jobs) - 1
  /\ \A i \in 1..(Len(jobs) - 1) : jobs'[i] = jobs[i + 1] /\ ids'[i] = ids[i + 1]

\* The first job waits behind the others.
QueueTurns ==
  /\ Len(jobs') = Len(jobs)
  /\ \A i \in 1..(Len(jobs) - 1) : jobs'[i] = jobs[i + 1] /\ ids'[i] = ids[i + 1]
  /\ jobs'[Len(jobs)].name = jobs[1].name /\ ids'[Len(jobs)] = ids[1]

\* What the loader does to it.
QueueIsReadded ==
  /\ Len(jobs') >= Len(jobs)
  /\ \A i \in 1..Len(jobs) : jobs'[i] = jobs[i] /\ ids'[i] = ids[i]
  /\ \A i \in (Len(jobs) + 1)..Len(jobs') : jobs'[i].name = QueueName

QueueIsLost == jobs' = <<>> /\ ids' = <<>>

LEMMA HistoryTyped ==
  ASSUME TypeOK
  PROVE  /\ times \in [Task -> Nat] /\ again \in [Task -> Nat]
         /\ \A t \in Task : times[t] \in Nat /\ again[t] \in Nat
         /\ dropped \subseteq Task
BY DEF TypeOK

LEMMA QueueTyped ==
  ASSUME TypeOK
  PROVE  /\ jobs \in Seq(JobRecord) /\ ids \in Seq(IdRecord)
         /\ Len(jobs) \in Nat /\ Len(ids) = Len(jobs)
         /\ DOMAIN jobs = 1..Len(jobs) /\ DOMAIN ids = 1..Len(jobs)
         /\ \A i \in 1..Len(jobs) : ids[i].id \in Nat /\ ids[i].task \in Task
         /\ jobs # <<>> => 1 \in 1..Len(jobs) /\ Head(jobs) = jobs[1] /\ Head(ids) = ids[1]
<1>1. /\ jobs \in Seq(JobRecord) /\ ids \in Seq(IdRecord) /\ Len(ids) = Len(jobs)
  BY DEF TypeOK, JobRecord, IdRecord
<1>2. Len(jobs) \in Nat /\ DOMAIN jobs = 1..Len(jobs) /\ DOMAIN ids = 1..Len(jobs)
  BY <1>1
<1>3. \A i \in 1..Len(jobs) : ids[i] \in IdRecord
  BY <1>1, <1>2
<1>4. \A i \in 1..Len(jobs) : ids[i].id \in Nat /\ ids[i].task \in Task
  BY <1>3 DEF IdRecord
<1>5. jobs # <<>> => Len(jobs) # 0 /\ Head(jobs) = jobs[1] /\ Head(ids) = ids[1]
  BY <1>1
<1>6. jobs # <<>> => 1 \in 1..Len(jobs)
  BY <1>2, <1>5
<1> QED BY <1>1, <1>2, <1>4, <1>5, <1>6

\* A sequence without its first element, and with that at its end.
LEMMA TailIs ==
  ASSUME NEW S, NEW s \in Seq(S), s # <<>>
  PROVE  /\ Tail(s) \in Seq(S) /\ Len(Tail(s)) = Len(s) - 1
         /\ \A i \in 1..(Len(s) - 1) : Tail(s)[i] = s[i + 1]
         /\ Len(s) \in Nat \ {0}
OBVIOUS

LEMMA TurnedIs ==
  ASSUME NEW S, NEW s \in Seq(S), s # <<>>, NEW x \in S
  PROVE  /\ Append(Tail(s), x) \in Seq(S) /\ Len(Append(Tail(s), x)) = Len(s)
         /\ \A i \in 1..(Len(s) - 1) : Append(Tail(s), x)[i] = s[i + 1]
         /\ Append(Tail(s), x)[Len(s)] = x
<1> DEFINE r == Tail(s)
<1>1. /\ r \in Seq(S) /\ Len(r) = Len(s) - 1 /\ Len(s) \in Nat \ {0}
      /\ \A i \in 1..(Len(s) - 1) : r[i] = s[i + 1]
  BY TailIs
<1> HIDE DEF r
<1>2. /\ Append(r, x) \in Seq(S) /\ Len(Append(r, x)) = Len(r) + 1
      /\ \A i \in 1..Len(r) : Append(r, x)[i] = r[i]
      /\ Append(r, x)[Len(r) + 1] = x
  BY <1>1
<1>3. /\ Append(r, x) \in Seq(S) /\ Len(Append(r, x)) = Len(s)
      /\ \A i \in 1..(Len(s) - 1) : Append(r, x)[i] = s[i + 1]
      /\ Append(r, x)[Len(s)] = x
  BY <1>1, <1>2
<1> QED BY <1>3 DEF r

\* The three ways in which the worker deals with the first job.
WorkerApplies ==
  /\ QueueStays /\ applied' = TRUE /\ jobs # <<>> /\ OwnName(1)
  /\ times' = [times EXCEPT ![ids[1].task] = @ + 1] /\ dropped' = dropped

WorkerRetries ==
  /\ QueueTurns /\ applied' = FALSE
  /\ times' = times /\ dropped' = dropped

WorkerDrops ==
  /\ QueueShortens /\ applied' = FALSE
  /\ times' = times /\ dropped' = dropped \cup {ids[1].task}

LEMMA WorkerTyped ==
  ASSUME TypeOK, ProcessStoredJob
  PROVE  /\ TypeOK'
         /\ jobs # <<>> /\ ~applied
         /\ WorkerApplies \/ WorkerRetries \/ WorkerDrops
<1> DEFINE job == Head(jobs)
<1>1. jobs # <<>> /\ ~applied
  BY DEF ProcessStoredJob, ProcessJob
<1>2. job \in JobRecord /\ jobs \in Seq(JobRecord) /\ ids \in Seq(IdRecord) /\ ids # <<>>
  <2>1. jobs \in Seq(JobRecord) /\ ids \in Seq(IdRecord) /\ Len(ids) = Len(jobs)
    BY QueueTyped
  <2>2. jobs # <<>> => Len(jobs) # 0
    BY <2>1
  <2>3. ids # <<>>
    BY <1>1, <2>1, <2>2
  <2> QED BY <1>1, <2>1, <2>3
<1>3. /\ Head(ids) = ids[1] /\ job = jobs[1] /\ ids[1] \in IdRecord
  BY <1>1, <1>2, QueueTyped
<1>4. /\ nextId' = nextId /\ table' = table /\ pc' = pc /\ ticket' = ticket /\ again' = again
      /\ lost' = lost /\ server' = server /\ restarts' = restarts /\ losses' = losses
      /\ loading' = loading /\ toCheck' = toCheck
  BY DEF ProcessStoredJob, loaderVars
<1>5. ids[1].id \in Nat /\ ids[1].task \in Task
  BY <1>3 DEF IdRecord
<1>6. CASE HandleReserveInventory \/ HandleCompensateInventory
  <2>1. jobs' = jobs /\ cache' = cache /\ applied' = TRUE /\ OwnName(1)
    BY <1>3, <1>6 DEF HandleReserveInventory, HandleCompensateInventory, PersistQuantity, OwnName,
       QueueName
  <2>2. ~(Len(jobs') < Len(jobs))
    BY <1>2, <2>1
  <2>3. /\ ids' = ids /\ dropped' = dropped /\ times' = [times EXCEPT ![ids[1].task] = @ + 1]
    BY <1>3, <2>1, <2>2 DEF ProcessStoredJob
  <2>4. stock' \in [Product -> Nat]
    <3>1. stock \in [Product -> Nat]
      BY DEF TypeOK
    <3>2. job.product \in Product /\ job.quantity \in Nat
      BY <1>2 DEF JobRecord
    <3>3. CASE HandleReserveInventory
      <4> DEFINE left == stock[job.product] - job.quantity
      <4>1. stock' = [stock EXCEPT ![job.product] = left] /\ job.quantity <= stock[job.product]
        BY <3>3 DEF HandleReserveInventory, PersistQuantity
      <4>2. left \in Nat
        BY <3>1, <3>2, <4>1
      <4> HIDE DEF left
      <4> QED BY <3>1, <3>2, <4>1, <4>2
    <3>4. CASE HandleCompensateInventory
      <4> DEFINE more == stock[job.product] + job.quantity
      <4>1. stock' = [stock EXCEPT ![job.product] = more]
        BY <3>4 DEF HandleCompensateInventory, PersistQuantity
      <4>2. more \in Nat
        BY <3>1, <3>2
      <4> HIDE DEF more
      <4> QED BY <3>1, <3>2, <4>1, <4>2
    <3> QED BY <1>6, <3>3, <3>4
  <2>5. TypeOK'
    <3>2. times' \in [Task -> Nat]
      BY <1>5, <2>3, HistoryTyped
    <3> QED BY <1>4, <2>1, <2>3, <2>4, <3>2 DEF TypeOK
  <2> QED BY <1>1, <2>1, <2>3, <2>5 DEF WorkerApplies, QueueStays
<1>7. CASE RejectReserveInventory
  <2> DEFINE retried == [job EXCEPT !.attempts = @ + 1]
  <2>1. cache' = cache /\ stock' = stock /\ applied' = FALSE /\ times' = times
    BY <1>1, <1>7 DEF RejectReserveInventory, ProcessStoredJob, TypeOK
  <2>2. retried \in JobRecord /\ retried.name = job.name
    BY <1>2 DEF JobRecord
  <2>3. ASSUME jobs' = Append(Tail(jobs), retried)
        PROVE  TypeOK' /\ WorkerRetries
    <3>1. /\ jobs' \in Seq(JobRecord) /\ Len(jobs') = Len(jobs)
          /\ \A i \in 1..(Len(jobs) - 1) : jobs'[i] = jobs[i + 1]
          /\ jobs'[Len(jobs)] = retried
      <4> HIDE DEF retried
      <4> QED BY <1>1, <1>2, <2>2, <2>3, TurnedIs
    <3>2. ~(Len(jobs') < Len(jobs)) /\ Len(jobs') = Len(jobs)
      BY <1>2, <3>1
    <3>3. ids' = Append(Tail(ids), ids[1]) /\ dropped' = dropped
      BY <1>3, <2>1, <3>2 DEF ProcessStoredJob
    <3>4. /\ ids' \in Seq(IdRecord) /\ Len(ids') = Len(ids)
          /\ \A i \in 1..(Len(ids) - 1) : ids'[i] = ids[i + 1]
          /\ ids'[Len(ids)] = ids[1]
      BY <1>2, <1>3, <3>3, TurnedIs
    <3>6. TypeOK'
      BY <1>4, <2>1, <3>1, <3>3, <3>4 DEF TypeOK, JobRecord, IdRecord
    <3>7. QueueTurns
      BY <1>3, <2>2, <3>1, <3>4, QueueTyped DEF QueueTurns
    <3> QED BY <2>1, <3>3, <3>6, <3>7 DEF WorkerRetries
  <2>4. ASSUME jobs' = Tail(jobs)
        PROVE  TypeOK' /\ WorkerDrops
    <3>1. /\ jobs' \in Seq(JobRecord) /\ Len(jobs') = Len(jobs) - 1 /\ Len(jobs) \in Nat
          /\ \A i \in 1..(Len(jobs) - 1) : jobs'[i] = jobs[i + 1]
      BY <1>1, <1>2, <2>4, TailIs
    <3>2. Len(jobs') < Len(jobs) /\ Len(jobs') # Len(jobs)
      BY <3>1
    <3>3. ids' = Tail(ids) /\ dropped' = dropped \cup {ids[1].task}
      BY <1>3, <2>1, <3>2 DEF ProcessStoredJob
    <3>4. /\ ids' \in Seq(IdRecord) /\ Len(ids') = Len(ids) - 1
          /\ \A i \in 1..(Len(ids) - 1) : ids'[i] = ids[i + 1]
      BY <1>2, <3>3, TailIs
    <3>6. TypeOK'
      BY <1>4, <1>5, <2>1, <3>1, <3>3, <3>4 DEF TypeOK, JobRecord, IdRecord
    <3>7. QueueShortens
      BY <3>1, <3>4, QueueTyped DEF QueueShortens
    <3> QED BY <2>1, <3>3, <3>6, <3>7 DEF WorkerDrops
  <2>5. jobs' = Append(Tail(jobs), retried) \/ jobs' = Tail(jobs)
    BY <1>7 DEF RejectReserveInventory
  <2> QED BY <1>1, <2>3, <2>4, <2>5
<1> QED BY <1>6, <1>7 DEF ProcessStoredJob, ProcessJob

LEMMA TaskTyped ==
  ASSUME NEW t \in Task
  PROVE  t[1] \in Order /\ t[2] \in JobName /\ t[2] # QueueName /\ ProductOf[t[1]] \in Product
BY CancelableAssumption, ProductOfAssumption DEF Task, JobName, QueueName

LEMMA CountTyped ==
  ASSUME TypeOK, NEW t \in Task, Count(t)
  PROVE  TypeOK' /\ QueueStays
<1> DEFINE p == ProductOf[t[1]]
<1>1. /\ UNCHANGED <<stock, jobs, applied, ids, nextId, table, loading, toCheck, ticket>>
      /\ History /\ Goes(t, "counted")
  BY DEF Count, loaderVars
<1>2. p \in Product /\ cache \in [Product -> Nat]
  BY TaskTyped DEF TypeOK
<1>3. cache' \in [Product -> Nat]
  <2>1. CASE ReserveInventory(p, 1)
    <3>1. cache[p] - 1 \in Nat /\ cache' = [cache EXCEPT ![p] = cache[p] - 1]
      BY <1>2, <2>1 DEF ReserveInventory, Sufficient
    <3> QED BY <1>2, <3>1
  <2>2. CASE CompensateInventory(p, 1)
    <3>1. cache[p] + 1 \in Nat /\ cache' = [cache EXCEPT ![p] = cache[p] + 1]
      BY <1>2, <2>2 DEF CompensateInventory
    <3> QED BY <1>2, <3>1
  <2> QED BY <2>1, <2>2 DEF Count
<1>4. pc' \in [Task -> {"idle", "counted", "queued", "stored", "failed"}]
  BY <1>1 DEF Goes, TypeOK
<1> QED BY <1>1, <1>3, <1>4 DEF TypeOK, History, QueueStays

LEMMA EnqueueTyped ==
  ASSUME TypeOK, NEW t \in Task, NEW n \in JobName \cup {QueueName}, Enqueue(t, n)
  PROVE  /\ jobs' \in Seq(JobRecord) /\ ids' \in Seq(IdRecord) /\ Len(ids') = Len(jobs')
         /\ nextId' = nextId + 1 /\ nextId' \in Nat
         /\ QueueGets(t, n)
<1> DEFINE job == [name |-> n, product |-> ProductOf[t[1]], quantity |-> 1, attempts |-> 0]
           id == [id |-> nextId, task |-> t]
<1>1. jobs' = Append(jobs, job) /\ ids' = Append(ids, id) /\ nextId' = nextId + 1
  BY DEF Enqueue, AddJob
<1>2. nextId \in Nat
  BY DEF TypeOK
<1>3. job \in JobRecord /\ id \in IdRecord /\ job.name = n
  BY <1>2, TaskTyped DEF JobRecord, IdRecord
<1> HIDE DEF job, id
<1>4. /\ jobs' \in Seq(JobRecord) /\ Len(jobs') = Len(jobs) + 1 /\ jobs'[Len(jobs) + 1] = job
      /\ \A i \in 1..Len(jobs) : jobs'[i] = jobs[i]
  BY <1>1, <1>3, QueueTyped
<1>5. /\ ids' \in Seq(IdRecord) /\ Len(ids') = Len(ids) + 1 /\ ids'[Len(ids) + 1] = id
      /\ \A i \in 1..Len(ids) : ids'[i] = ids[i]
  BY <1>1, <1>3, QueueTyped
<1>6. QueueGets(t, n)
  BY <1>3, <1>4, <1>5, QueueTyped DEF QueueGets, id
<1>7. Len(ids') = Len(jobs')
  BY <1>4, <1>5, QueueTyped
<1> QED BY <1>1, <1>2, <1>4, <1>5, <1>6, <1>7

LEMMA QueueJobTyped ==
  ASSUME TypeOK, NEW t \in Task, QueueJob(t)
  PROVE  TypeOK' /\ QueueGets(t, t[2])
<1>1. /\ Enqueue(t, t[2])
      /\ UNCHANGED <<cache, stock, applied, table, loading, toCheck>> /\ History
      /\ ticket' = [ticket EXCEPT ![t] = nextId] /\ Goes(t, "queued")
  BY DEF QueueJob, loaderVars
<1>2. /\ jobs' \in Seq(JobRecord) /\ ids' \in Seq(IdRecord) /\ Len(ids') = Len(jobs')
      /\ nextId' \in Nat /\ QueueGets(t, t[2])
  BY <1>1, TaskTyped, EnqueueTyped
<1>3. /\ pc' \in [Task -> {"idle", "counted", "queued", "stored", "failed"}]
      /\ ticket' \in [Task -> Nat]
  BY <1>1 DEF Goes, TypeOK
<1> QED BY <1>1, <1>2, <1>3 DEF TypeOK, History, JobRecord, IdRecord

LEMMA StoreRowTyped ==
  ASSUME TypeOK, NEW t \in Task, StoreRow(t)
  PROVE  TypeOK' /\ QueueStays
<1> DEFINE row == [jobId |-> ticket[t], task |-> t]
<1>1. /\ UNCHANGED <<inventoryVars, ids, nextId, loading, toCheck, ticket>> /\ History
      /\ table' = table \/ table' = table \cup {row}
      /\ Goes(t, "stored") \/ Goes(t, "failed")
  BY DEF StoreRow, loaderVars
<1>2. row \in JobRow
  BY DEF JobRow, TypeOK
<1> HIDE DEF row
<1>3. table' \subseteq JobRow /\ toCheck' \subseteq table'
  BY <1>1, <1>2 DEF TypeOK
<1>4. pc' \in [Task -> {"idle", "counted", "queued", "stored", "failed"}]
  BY <1>1 DEF Goes, TypeOK
<1> QED BY <1>1, <1>3, <1>4 DEF TypeOK, History, QueueStays, inventoryVars

\* The first job is completed.
LEMMA CompleteTyped ==
  ASSUME TypeOK, IgnoreJob \/ AcknowledgeStoredJob
  PROVE  /\ TypeOK' /\ QueueShortens /\ jobs # <<>> /\ applied' = FALSE
         /\ UNCHANGED <<nextId, table, pc, ticket>> /\ History
<1>1. /\ jobs # <<>> /\ jobs' = Tail(jobs) /\ ids' = Tail(ids)
      /\ cache' = cache /\ stock' = stock /\ loading' = loading /\ toCheck' = toCheck
      /\ UNCHANGED <<nextId, table, pc, ticket>> /\ History
  BY DEF IgnoreJob, AcknowledgeStoredJob, AcknowledgeJob, loaderVars
<1>2. applied' = FALSE
  BY DEF IgnoreJob, AcknowledgeStoredJob, AcknowledgeJob, TypeOK
<1>3. ids # <<>>
  <2>1. jobs \in Seq(JobRecord) /\ ids \in Seq(IdRecord) /\ Len(ids) = Len(jobs)
    BY QueueTyped
  <2>2. Len(jobs) # 0
    BY <1>1, <2>1
  <2> QED BY <2>1, <2>2
<1>4. /\ jobs' \in Seq(JobRecord) /\ Len(jobs') = Len(jobs) - 1
      /\ \A i \in 1..(Len(jobs) - 1) : jobs'[i] = jobs[i + 1]
  BY <1>1, QueueTyped, TailIs
<1>5. /\ ids' \in Seq(IdRecord) /\ Len(ids') = Len(ids) - 1
      /\ \A i \in 1..(Len(ids) - 1) : ids'[i] = ids[i + 1]
  BY <1>1, <1>3, QueueTyped, TailIs
<1>6. QueueShortens
  BY <1>4, <1>5, QueueTyped DEF QueueShortens
<1>7. Len(ids') = Len(jobs')
  BY <1>4, <1>5, QueueTyped
<1> QED BY <1>1, <1>2, <1>4, <1>5, <1>6, <1>7 DEF TypeOK, History, JobRecord, IdRecord

LEMMA CrashTyped ==
  ASSUME TypeOK, Crash
  PROVE  TypeOK' /\ QueueStays
<1>1. /\ server' = "down" /\ restarts' = restarts + 1 /\ restarts < MaxRestarts
      /\ applied' = FALSE /\ UNCHANGED <<stock, jobs>> /\ loading' = {} /\ toCheck' = {}
      /\ again' = IF applied THEN [again EXCEPT ![Head(ids).task] = @ + 1] ELSE again
      /\ pc' = [t \in Task |-> IF pc[t] \in {"counted", "queued"} THEN "failed" ELSE pc[t]]
      /\ UNCHANGED <<cache, ids, nextId, table, ticket, times, dropped, lost, losses>>
  BY DEF Crash, WorkerStops
<1>2. restarts' \in 0..MaxRestarts
  BY <1>1, BoundsAssumption DEF TypeOK
<1>3. pc' \in [Task -> {"idle", "counted", "queued", "stored", "failed"}]
  BY <1>1 DEF TypeOK
<1>4. again' \in [Task -> Nat]
  <2>1. again \in [Task -> Nat] /\ \A t \in Task : again[t] + 1 \in Nat
    BY HistoryTyped
  <2>2. again' = again \/ again' = [again EXCEPT ![Head(ids).task] = again[Head(ids).task] + 1]
    BY <1>1
  <2> QED BY <2>1, <2>2
<1> QED BY <1>1, <1>2, <1>3, <1>4 DEF TypeOK, QueueStays

LEMMA RedisLosesDataTyped ==
  ASSUME TypeOK, RedisLosesData
  PROVE  TypeOK' /\ QueueIsLost /\ applied' = FALSE
<1>1. /\ losses < MaxLosses /\ losses' = losses + 1 /\ cache' = [p \in Product |-> 0]
      /\ jobs' = <<>> /\ ids' = <<>> /\ applied' = FALSE /\ nextId' = 1
      /\ lost' = lost \cup {ids[i].task : i \in DOMAIN ids}
      /\ UNCHANGED <<stock, table, loading, toCheck, pc, ticket, times, again, dropped,
                     server, restarts>>
  BY DEF RedisLosesData, loaderVars
<1>2. losses' \in 0..MaxLosses
  BY <1>1, BoundsAssumption DEF TypeOK
<1>3. lost' \subseteq Task
  <2>1. lost \subseteq Task
    BY DEF TypeOK
  <2> QED BY <1>1, <2>1, QueueTyped
<1>4. cache' \in [Product -> Nat]
  BY <1>1
<1>5. /\ jobs' \in Seq(JobRecord) /\ ids' \in Seq(IdRecord) /\ Len(ids') = Len(jobs')
      /\ applied' \in BOOLEAN /\ nextId' \in Nat
  <2>1. jobs' = <<>> /\ ids' = <<>> /\ applied' = FALSE /\ nextId' = 1
    BY <1>1
  <2>2. <<>> \in Seq(JobRecord) /\ <<>> \in Seq(IdRecord)
    OBVIOUS
  <2> QED BY <2>1, <2>2
<1>6. TypeOK'
  BY <1>1, <1>2, <1>3, <1>4, <1>5 DEF TypeOK, JobRecord, IdRecord
<1> QED BY <1>1, <1>6 DEF QueueIsLost

\* Start, LoadOne and StartEnds leave the queue alone.
LEMMA LoadingTyped ==
  ASSUME TypeOK, Start \/ LoadOne \/ StartEnds
  PROVE  /\ TypeOK' /\ QueueStays
         /\ UNCHANGED <<nextId, table, pc, ticket, applied, times, again, dropped, losses>>
<1> USE DEF QueueStays
<1>1. CASE Start
  <2>1. /\ UNCHANGED <<cache, stock, jobs, applied, ids, nextId, table, pc, ticket, times,
                       again, dropped, lost, restarts, losses>>
        /\ loading' = {<<p, stock[p]>> : p \in Product} /\ toCheck' = table
        /\ server' = "starting"
    BY <1>1 DEF Start, ReadInventory, inventoryVars
  <2>2. loading' \subseteq Product \X Nat
    BY <2>1 DEF TypeOK
  <2> QED BY <2>1, <2>2 DEF TypeOK
<1>2. CASE LoadOne
  <2>1. PICK read \in loading : LoadCounter(read) /\ loading' = loading \ {read}
    BY <1>2 DEF LoadOne
  <2>2. UNCHANGED <<stock, jobs, applied, ids, nextId, table, toCheck, pc, ticket>> /\ History
    BY <1>2 DEF LoadOne
  <2>3. read[2] \in Nat /\ loading' \subseteq Product \X Nat
    BY <2>1 DEF TypeOK
  <2>4. cache' \in [Product -> Nat]
    BY <2>1, <2>3 DEF LoadCounter, TypeOK
  <2> QED BY <2>2, <2>3, <2>4 DEF TypeOK, History
<1>3. CASE StartEnds
  <2>1. /\ UNCHANGED <<cache, stock, jobs, applied, ids, nextId, table, loading, toCheck, pc,
                       ticket, times, again, dropped, lost, restarts, losses>>
        /\ server' = "up"
    BY <1>3 DEF StartEnds, inventoryVars, loaderVars
  <2> QED BY <2>1 DEF TypeOK
<1> QED BY <1>1, <1>2, <1>3

\* The job of a missing row follows those that wait.
LEMMA CheckRowTyped ==
  ASSUME TypeOK, CheckRow
  PROVE  /\ TypeOK' /\ QueueIsReadded
         /\ UNCHANGED <<table, pc, ticket, applied, times, again, dropped, losses>>
         /\ (\A row \in table : ~Missing(row)) => QueueStays /\ nextId' = nextId
<1>1. PICK row \in toCheck :
        /\ toCheck' = toCheck \ {row}
        /\ \/ Missing(row) /\ Readd(row)
           \/ ~Missing(row) /\ UNCHANGED <<jobs, ids, nextId>>
  BY DEF CheckRow
<1>2. UNCHANGED <<cache, stock, applied, table, loading, pc, ticket>> /\ History
  BY DEF CheckRow
<1>3. row \in table /\ row.task \in Task /\ nextId \in Nat /\ toCheck' \subseteq table'
  BY <1>1, <1>2 DEF TypeOK, JobRow
<1>4. CASE Missing(row) /\ Readd(row)
  <2>1. /\ jobs' \in Seq(JobRecord) /\ ids' \in Seq(IdRecord) /\ Len(ids') = Len(jobs')
        /\ nextId' \in Nat /\ QueueGets(row.task, QueueName)
    BY <1>3, <1>4, EnqueueTyped DEF Readd
  <2>2. TypeOK'
    BY <1>2, <1>3, <2>1 DEF TypeOK, History, JobRecord, IdRecord
  <2>3. QueueIsReadded
    BY <2>1, QueueTyped DEF QueueGets, QueueIsReadded
  <2> QED BY <1>2, <1>3, <1>4, <2>2, <2>3 DEF History
<1>5. CASE ~Missing(row) /\ UNCHANGED <<jobs, ids, nextId>>
  <2>1. TypeOK'
    BY <1>2, <1>3, <1>5 DEF TypeOK, History
  <2>2. QueueIsReadded
    BY <1>5, QueueTyped DEF QueueIsReadded
  <2> QED BY <1>2, <1>5, <2>1, <2>2 DEF History, QueueStays
<1> QED BY <1>1, <1>4, <1>5

LEMMA NextQueueTyped ==
  ASSUME TypeOK'
  PROVE  /\ Len(jobs') \in Nat /\ Len(ids') = Len(jobs')
         /\ DOMAIN jobs' = 1..Len(jobs') /\ DOMAIN ids' = 1..Len(jobs')
         /\ \A i \in 1..Len(jobs') : ids'[i].id \in Nat /\ ids'[i].task \in Task
<1>1. /\ jobs' \in Seq(JobRecord) /\ ids' \in Seq(IdRecord) /\ Len(ids') = Len(jobs')
  BY DEF TypeOK, JobRecord, IdRecord
<1>2. Len(jobs') \in Nat /\ DOMAIN jobs' = 1..Len(jobs') /\ DOMAIN ids' = 1..Len(jobs')
  BY <1>1
<1>3. \A i \in 1..Len(jobs') : ids'[i] \in IdRecord
  BY <1>1, <1>2
<1> QED BY <1>1, <1>2, <1>3 DEF IdRecord

\* Types hold after every step.
LEMMA TypesStep ==
  ASSUME TypeOK, [Next]_vars
  PROVE  TypeOK'
<1>1. CASE UNCHANGED vars
  BY <1>1 DEF vars, storeVars, loaderVars, inventoryVars, TypeOK
<1>2. CASE Next
  BY <1>2, CountTyped, QueueJobTyped, StoreRowTyped, WorkerTyped, CompleteTyped, CrashTyped,
     LoadingTyped, CheckRowTyped, RedisLosesDataTyped DEF Next, WorkerStep, StartUp
<1> QED BY <1>1, <1>2

------------------------------------------------------------------------------
(* One job per task. *)

\* What has been queued stays so.
LEMMA PlacesFollow ==
  ASSUME TypeOK, [Next]_vars
  PROVE  \A t \in Task : pc[t] \notin Unqueued => pc'[t] \notin Unqueued
<1> USE DEF Unqueued
<1>1. pc \in [Task -> {"idle", "counted", "queued", "stored", "failed"}]
  BY DEF TypeOK
<1>2. ASSUME NEW t \in Task, Count(t) \/ QueueJob(t) \/ StoreRow(t)
      PROVE  \A s \in Task : pc[s] \notin Unqueued => pc'[s] \notin Unqueued
  <2>1. PICK place \in {"counted", "queued", "stored", "failed"} : Goes(t, place)
    BY <1>2 DEF Count, QueueJob, StoreRow
  <2>2. place = "counted" => pc[t] = "idle"
    BY <1>1, <1>2, <2>1 DEF Count, QueueJob, StoreRow, Goes
  <2> QED BY <1>1, <2>1, <2>2 DEF Goes
<1>3. CASE WorkerStep \/ StartUp \/ RedisLosesData \/ UNCHANGED vars
  <2>1. pc' = pc
    BY <1>3 DEF WorkerStep, ProcessStoredJob, IgnoreJob, AcknowledgeStoredJob, StartUp, Start,
       LoadOne, CheckRow, StartEnds, RedisLosesData, vars, storeVars
  <2> QED BY <2>1
<1>4. CASE Crash
  BY <1>1, <1>4 DEF Crash
<1> QED BY <1>2, <1>3, <1>4 DEF Next

LEMMA OneJobFollows ==
  ASSUME TypeOK, TypeOK', OneJobPerTask,
         \A t \in Task : pc[t] \notin Unqueued => pc'[t] \notin Unqueued,
         QueueStays \/ QueueShortens \/ QueueTurns \/ QueueIsReadded \/ QueueIsLost
  PROVE  OneJobPerTask'
<1>1. /\ Len(jobs) \in Nat /\ DOMAIN jobs = 1..Len(jobs)
      /\ \A i \in 1..Len(jobs) : ids[i].task \in Task
  BY QueueTyped
<1>2. Len(jobs') \in Nat /\ DOMAIN jobs' = 1..Len(jobs')
  BY NextQueueTyped
<1>3. \A i \in 1..Len(jobs) : OwnName(i) =>
        /\ pc'[ids[i].task] \notin Unqueued
        /\ \A j \in 1..Len(jobs) : OwnName(j) /\ ids[j].task = ids[i].task => j = i
  BY <1>1 DEF OneJobPerTask
<1> DEFINE Follows ==
      \A i \in 1..Len(jobs') : OwnName(i)' =>
        /\ pc'[ids'[i].task] \notin Unqueued
        /\ \A j \in 1..Len(jobs') : OwnName(j)' /\ ids'[j].task = ids'[i].task => j = i
<1> SUFFICES Follows
  BY <1>2 DEF OneJobPerTask
<1>4. CASE QueueStays
  BY <1>1, <1>3, <1>4 DEF QueueStays, OwnName
<1>5. CASE QueueShortens
  <2>1. \A i \in 1..Len(jobs') : /\ i + 1 \in 1..Len(jobs)
                                 /\ OwnName(i)' <=> OwnName(i + 1)
                                 /\ ids'[i] = ids[i + 1]
    BY <1>1, <1>2, <1>5 DEF QueueShortens, OwnName
  <2>2. \A i, j \in 1..Len(jobs') : i + 1 = j + 1 => i = j
    BY <1>2
  <2> QED BY <1>3, <2>1, <2>2
<1>6. CASE QueueTurns
  <2> DEFINE From(i) == IF i < Len(jobs) THEN i + 1 ELSE 1
  <2>1. \A i \in 1..Len(jobs') : /\ From(i) \in 1..Len(jobs)
                                 /\ OwnName(i)' <=> OwnName(From(i))
                                 /\ ids'[i] = ids[From(i)]
    BY <1>1, <1>2, <1>6 DEF QueueTurns, OwnName
  <2>2. \A i, j \in 1..Len(jobs') : From(i) = From(j) => i = j
    BY <1>1, <1>2, <1>6 DEF QueueTurns
  <2> HIDE DEF From
  <2> QED BY <1>3, <2>1, <2>2
<1>7. CASE QueueIsReadded
  <2>1. \A i \in 1..Len(jobs') : OwnName(i)' => /\ i \in 1..Len(jobs)
                                                /\ OwnName(i)
                                                /\ ids'[i] = ids[i]
    BY <1>1, <1>2, <1>7 DEF QueueIsReadded, OwnName
  <2> QED BY <1>3, <2>1
<1>8. CASE QueueIsLost
  BY <1>8 DEF QueueIsLost
<1> QED BY <1>4, <1>5, <1>6, <1>7, <1>8

LEMMA OneJobStep ==
  ASSUME TypeOK, OneJobPerTask, [Next]_vars
  PROVE  OneJobPerTask'
<1>1. TypeOK' /\ \A t \in Task : pc[t] \notin Unqueued => pc'[t] \notin Unqueued
  BY TypesStep, PlacesFollow
<1>2. ASSUME NEW t \in Task, QueueJob(t)
      PROVE  OneJobPerTask'
  <2>1. QueueGets(t, t[2]) /\ pc[t] \in Unqueued /\ pc'[t] \notin Unqueued
    BY <1>2, QueueJobTyped DEF QueueJob, Goes, Unqueued, TypeOK
  <2>2. /\ Len(jobs) \in Nat /\ DOMAIN jobs = 1..Len(jobs)
        /\ \A i \in 1..Len(jobs) : ids[i].task \in Task
    BY QueueTyped
  <2>3. Len(jobs') = Len(jobs) + 1 /\ DOMAIN jobs' = 1..(Len(jobs) + 1)
    BY <1>1, <2>1, NextQueueTyped DEF QueueGets
  <2>4. \A i \in 1..Len(jobs) :
          jobs'[i] = jobs[i] /\ ids'[i] = ids[i] /\ (OwnName(i) => ids[i].task # t)
    BY <2>1, <2>2 DEF QueueGets, OneJobPerTask
  <2>5. ids'[Len(jobs) + 1].task = t
    BY <2>1 DEF QueueGets
  <2>6. \A i \in 1..Len(jobs) : OwnName(i) =>
          /\ pc'[ids[i].task] \notin Unqueued
          /\ \A j \in 1..Len(jobs) : OwnName(j) /\ ids[j].task = ids[i].task => j = i
    BY <1>1, <2>2 DEF OneJobPerTask
  <2>7. \A i \in 1..(Len(jobs) + 1) : i \in 1..Len(jobs) \/ i = Len(jobs) + 1
    BY <2>2
  <2> QED BY <2>1, <2>3, <2>4, <2>5, <2>6, <2>7 DEF OneJobPerTask, OwnName
<1>3. ASSUME NEW t \in Task, Count(t) \/ StoreRow(t)
      PROVE  OneJobPerTask'
  BY <1>1, <1>3, CountTyped, StoreRowTyped, OneJobFollows
<1>4. CASE WorkerStep
  BY <1>1, <1>4, WorkerTyped, CompleteTyped, OneJobFollows
     DEF WorkerStep, WorkerApplies, WorkerRetries, WorkerDrops
<1>5. CASE Crash \/ StartUp \/ RedisLosesData
  BY <1>1, <1>5, CrashTyped, LoadingTyped, CheckRowTyped, RedisLosesDataTyped, OneJobFollows
     DEF StartUp
<1>6. CASE UNCHANGED vars
  <2>1. QueueStays
    BY <1>6 DEF vars, inventoryVars, storeVars, QueueStays
  <2> QED BY <1>1, <2>1, OneJobFollows
<1> QED BY <1>2, <1>3, <1>4, <1>5, <1>6 DEF Next

------------------------------------------------------------------------------
(* Deliveries. *)

Excess(i) == IF applied /\ i = 1 THEN 1 ELSE 0

WaitingSound ==
  /\ applied => jobs # <<>> /\ OwnName(1) /\ times[ids[1].task] > 0
  /\ \A i \in 1..Len(jobs) : OwnName(i) => times[ids[i].task] <= again[ids[i].task] + Excess(i)

CountsSound ==
  /\ \A t \in Task : pc[t] \in Unqueued => times[t] = 0
  /\ AppliedOncePerDelivery

LEMMA DeliveriesParts ==
  /\ TypeOK => (DeliveriesAreCounted <=> WaitingSound /\ CountsSound)
  /\ TypeOK' => (DeliveriesAreCounted' <=> WaitingSound' /\ CountsSound')
<1>1. TypeOK => (DeliveriesAreCounted <=> WaitingSound /\ CountsSound)
  BY QueueTyped DEF DeliveriesAreCounted, WaitingSound, CountsSound, Excess
<1>2. TypeOK' => (DeliveriesAreCounted' <=> WaitingSound' /\ CountsSound')
  BY NextQueueTyped DEF DeliveriesAreCounted, WaitingSound, CountsSound, Excess
<1> QED BY <1>1, <1>2

\* Steps that apply nothing keep the counts.
LEMMA CountsStay ==
  ASSUME CountsSound, times' = times, again' = again,
         \A t \in Task : pc[t] \notin Unqueued => pc'[t] \notin Unqueued
  PROVE  CountsSound'
BY DEF CountsSound, AppliedOncePerDelivery

\* The queue moves on without being applied.
LEMMA WaitingFollows ==
  ASSUME TypeOK, TypeOK', WaitingSound, times' = times, again' = again,
         \/ QueueStays /\ applied' = applied
         \/ QueueIsReadded /\ applied' = applied
         \/ QueueShortens /\ applied' = FALSE
         \/ QueueTurns /\ applied = FALSE /\ applied' = FALSE
         \/ QueueIsLost /\ applied' = FALSE
  PROVE  WaitingSound'
<1>1. /\ Len(jobs) \in Nat /\ (jobs # <<>> => 1 \in 1..Len(jobs))
      /\ \A i \in 1..Len(jobs) : ids[i].task \in Task
  BY QueueTyped
<1>2. Len(jobs') \in Nat
  BY NextQueueTyped
<1>3. \A t \in Task : times[t] \in Nat /\ again[t] \in Nat
  BY HistoryTyped
<1>4. /\ applied => jobs # <<>> /\ OwnName(1) /\ times[ids[1].task] > 0
      /\ \A i \in 1..Len(jobs) : OwnName(i) => times[ids[i].task] <= again[ids[i].task] + Excess(i)
  BY DEF WaitingSound
<1>5. CASE QueueStays /\ applied' = applied
  BY <1>4, <1>5 DEF QueueStays, OwnName, Excess, WaitingSound
<1>6. CASE QueueIsReadded /\ applied' = applied
  <2>1. \A i \in 1..Len(jobs') : OwnName(i)' => /\ i \in 1..Len(jobs)
                                                /\ OwnName(i) /\ ids'[i] = ids[i]
    BY <1>1, <1>2, <1>6 DEF QueueIsReadded, OwnName
  <2>2. jobs # <<>> => jobs' # <<>> /\ jobs'[1] = jobs[1] /\ ids'[1] = ids[1]
    BY <1>1, <1>2, <1>6 DEF QueueIsReadded
  <2>3. \A i \in 1..Len(jobs') : Excess(i)' = Excess(i)
    BY <1>6 DEF Excess
  <2>4. applied' => jobs' # <<>> /\ OwnName(1)' /\ times[ids'[1].task] > 0
    BY <1>4, <1>6, <2>2 DEF OwnName
  <2> QED BY <1>4, <2>1, <2>3, <2>4 DEF WaitingSound
<1>7. CASE QueueShortens /\ applied' = FALSE
  <2>1. \A i \in 1..Len(jobs') : /\ i + 1 \in 1..Len(jobs) /\ i + 1 # 1
                                 /\ OwnName(i)' <=> OwnName(i + 1)
                                 /\ ids'[i] = ids[i + 1]
    BY <1>1, <1>2, <1>7 DEF QueueShortens, OwnName
  <2>2. \A i \in 1..Len(jobs') : OwnName(i)' => times[ids'[i].task] <= again[ids'[i].task]
    BY <1>1, <1>3, <1>4, <2>1 DEF Excess
  <2> QED BY <1>1, <1>3, <1>7, <2>1, <2>2 DEF WaitingSound, Excess
<1>8. CASE QueueTurns /\ applied = FALSE /\ applied' = FALSE
  <2> DEFINE From(i) == IF i < Len(jobs) THEN i + 1 ELSE 1
  <2>1. \A i \in 1..Len(jobs') : /\ From(i) \in 1..Len(jobs)
                                 /\ OwnName(i)' <=> OwnName(From(i))
                                 /\ ids'[i] = ids[From(i)]
    BY <1>1, <1>2, <1>8 DEF QueueTurns, OwnName
  <2> HIDE DEF From
  <2>2. \A i \in 1..Len(jobs') : OwnName(i)' => times[ids'[i].task] <= again[ids'[i].task]
    BY <1>1, <1>3, <1>4, <1>8, <2>1 DEF Excess
  <2> QED BY <1>1, <1>3, <1>8, <2>1, <2>2 DEF WaitingSound, Excess
<1>9. CASE QueueIsLost /\ applied' = FALSE
  BY <1>9 DEF QueueIsLost, WaitingSound
<1> QED BY <1>5, <1>6, <1>7, <1>8, <1>9

\* The first job is applied: no other job of its task waits, and it was applied
\* at most as often as it was delivered again.
LEMMA AppliedIsCounted ==
  ASSUME TypeOK, TypeOK', OneJobPerTask, WaitingSound, CountsSound, WorkerApplies,
         ~applied, again' = again, pc' = pc
  PROVE  WaitingSound' /\ CountsSound'
<1> DEFINE t == ids[1].task
<1>1. /\ Len(jobs) \in Nat /\ DOMAIN jobs = 1..Len(jobs) /\ 1 \in 1..Len(jobs)
      /\ \A i \in 1..Len(jobs) : ids[i].task \in Task
  BY QueueTyped DEF WorkerApplies
<1>2. /\ jobs' = jobs /\ ids' = ids /\ applied' = TRUE /\ OwnName(1) /\ jobs # <<>>
      /\ times' = [times EXCEPT ![t] = @ + 1]
  BY DEF WorkerApplies, QueueStays
<1>3. times \in [Task -> Nat] /\ \A s \in Task : times[s] \in Nat /\ again[s] \in Nat
  BY HistoryTyped
<1>4. t \in Task /\ times[t] <= again[t] /\ pc[t] \notin Unqueued
  BY <1>1, <1>2, <1>3 DEF WaitingSound, Excess, OneJobPerTask
<1>5. \A i \in 1..Len(jobs) : OwnName(i) /\ i # 1 => ids[i].task # t
  BY <1>1, <1>2 DEF OneJobPerTask
<1>6. \A i \in 1..Len(jobs) : OwnName(i) => times[ids[i].task] <= again[ids[i].task]
  BY <1>1, <1>3 DEF WaitingSound, Excess
<1> HIDE DEF t
<1>7. times'[t] = times[t] + 1 /\ \A s \in Task \ {t} : times'[s] = times[s]
  BY <1>3, <1>4, <1>2
<1>8. CountsSound'
  BY <1>3, <1>4, <1>7 DEF CountsSound, AppliedOncePerDelivery
<1>9. ASSUME NEW i \in 1..Len(jobs), OwnName(i)
      PROVE  times'[ids[i].task] <= again[ids[i].task] + (IF i = 1 THEN 1 ELSE 0)
  <2>1. CASE i = 1
    BY <1>3, <1>4, <1>7, <2>1 DEF t
  <2>2. CASE i # 1
    BY <1>1, <1>3, <1>5, <1>6, <1>7, <1>9, <2>2
  <2> QED BY <2>1, <2>2
<1>10. times'[t] > 0
  BY <1>3, <1>4, <1>7
<1>11. WaitingSound'
  BY <1>2, <1>9, <1>10 DEF WaitingSound, OwnName, Excess, t
<1> QED BY <1>8, <1>11

LEMMA DeliveriesStep ==
  ASSUME TypeOK, OneJobPerTask, DeliveriesAreCounted, [Next]_vars
  PROVE  DeliveriesAreCounted'
<1>1. /\ TypeOK' /\ WaitingSound /\ CountsSound
      /\ \A t \in Task : pc[t] \notin Unqueued => pc'[t] \notin Unqueued
  BY TypesStep, PlacesFollow, DeliveriesParts
<1> SUFFICES WaitingSound' /\ CountsSound'
  BY <1>1, DeliveriesParts
<1>2. \A t \in Task : times[t] \in Nat /\ again[t] \in Nat
  BY HistoryTyped
<1>3. ASSUME NEW t \in Task, QueueJob(t)
      PROVE  WaitingSound' /\ CountsSound'
  <2>1. /\ QueueGets(t, t[2]) /\ pc[t] \in Unqueued /\ times' = times /\ again' = again
        /\ applied' = applied
    BY <1>3, QueueJobTyped DEF QueueJob, Unqueued, History
  <2>2. times[t] = 0
    BY <1>1, <2>1 DEF CountsSound
  <2>3. /\ Len(jobs) \in Nat /\ (jobs # <<>> => 1 \in 1..Len(jobs)) /\ Len(jobs') = Len(jobs) + 1
    BY <2>1, QueueTyped DEF QueueGets
  <2>4. \A i \in 1..Len(jobs) : jobs'[i] = jobs[i] /\ ids'[i] = ids[i]
    BY <2>1 DEF QueueGets
  <2>5. ids'[Len(jobs) + 1].task = t
    BY <2>1 DEF QueueGets
  <2>6. \A i \in 1..(Len(jobs) + 1) : i \in 1..Len(jobs) \/ i = Len(jobs) + 1
    BY <2>3
  <2>7. \A i \in 1..(Len(jobs) + 1) :
          OwnName(i)' => times[ids'[i].task] <= again[ids'[i].task] + Excess(i)'
    <3>1. \A i \in 1..Len(jobs) :
            OwnName(i)' => times[ids'[i].task] <= again[ids'[i].task] + Excess(i)'
      BY <1>1, <2>1, <2>4 DEF WaitingSound, OwnName, Excess
    <3>2. \A i : Excess(i)' \in {0, 1}
      BY DEF Excess
    <3> SUFFICES ASSUME NEW i \in 1..(Len(jobs) + 1), OwnName(i)'
                 PROVE  times[ids'[i].task] <= again[ids'[i].task] + Excess(i)'
      OBVIOUS
    <3>3. CASE i \in 1..Len(jobs)
      BY <3>1, <3>3
    <3>4. CASE i = Len(jobs) + 1
      <4>1. ids'[i].task = t
        BY <2>5, <3>4
      <4> QED BY <1>2, <2>2, <3>2, <4>1
    <3> QED BY <2>6, <3>3, <3>4
  <2>8. applied' => jobs' # <<>> /\ OwnName(1)' /\ times[ids'[1].task] > 0
    <3>1. jobs' # <<>>
      BY <2>3
    <3> QED BY <1>1, <2>1, <2>3, <2>4, <3>1 DEF WaitingSound, OwnName
  <2>9. WaitingSound'
    BY <2>1, <2>3, <2>7, <2>8 DEF WaitingSound
  <2> QED BY <1>1, <2>1, <2>9, CountsStay
<1>4. ASSUME NEW t \in Task, Count(t) \/ StoreRow(t)
      PROVE  WaitingSound' /\ CountsSound'
  <2>1. QueueStays /\ times' = times /\ again' = again /\ applied' = applied
    BY <1>4, CountTyped, StoreRowTyped DEF Count, StoreRow, History, inventoryVars
  <2> QED BY <1>1, <2>1, CountsStay, WaitingFollows
<1>5. CASE ProcessStoredJob
  <2>1. /\ ~applied /\ again' = again /\ pc' = pc
        /\ WorkerApplies \/ WorkerRetries \/ WorkerDrops
    BY <1>5, WorkerTyped DEF ProcessStoredJob
  <2>2. CASE WorkerApplies
    BY <1>1, <2>1, <2>2, AppliedIsCounted
  <2>3. CASE WorkerRetries \/ WorkerDrops
    <3>1. /\ times' = times /\ applied = FALSE /\ applied' = FALSE
          /\ QueueTurns \/ QueueShortens
      BY <2>1, <2>3 DEF WorkerRetries, WorkerDrops, TypeOK
    <3> QED BY <1>1, <2>1, <3>1, CountsStay, WaitingFollows
  <2> QED BY <2>1, <2>2, <2>3
<1>6. CASE IgnoreJob \/ AcknowledgeStoredJob
  <2>1. QueueShortens /\ applied' = FALSE /\ times' = times /\ again' = again
    BY <1>6, CompleteTyped DEF History
  <2> QED BY <1>1, <2>1, CountsStay, WaitingFollows
<1>7. CASE Start \/ LoadOne \/ StartEnds \/ UNCHANGED vars
  <2>1. QueueStays /\ times' = times /\ again' = again /\ applied' = applied
    BY <1>7, LoadingTyped DEF vars, storeVars, inventoryVars, QueueStays
  <2> QED BY <1>1, <2>1, CountsStay, WaitingFollows
<1>8. CASE CheckRow
  <2>1. QueueIsReadded /\ times' = times /\ again' = again /\ applied' = applied
    BY <1>8, CheckRowTyped
  <2> QED BY <1>1, <2>1, CountsStay, WaitingFollows
<1>9. CASE RedisLosesData
  <2>1. QueueIsLost /\ times' = times /\ again' = again /\ applied' = FALSE
    BY <1>9, RedisLosesDataTyped DEF RedisLosesData
  <2> QED BY <1>1, <2>1, CountsStay, WaitingFollows
<1>10. CASE Crash
  <2>1. /\ jobs' = jobs /\ ids' = ids /\ applied' = FALSE /\ times' = times
        /\ again' = IF applied THEN [again EXCEPT ![Head(ids).task] = @ + 1] ELSE again
    BY <1>10 DEF Crash, WorkerStops
  <2>2. /\ Len(jobs) \in Nat /\ DOMAIN jobs = 1..Len(jobs)
        /\ \A i \in 1..Len(jobs) : ids[i].task \in Task
        /\ jobs # <<>> => 1 \in 1..Len(jobs) /\ Head(ids) = ids[1]
    BY QueueTyped
  <2>3. again \in [Task -> Nat]
    BY HistoryTyped
  <2>4. \A t \in Task : again'[t] \in Nat /\ again[t] <= again'[t]
    BY <1>2, <2>1, <2>3
  <2>5. applied => again'[ids[1].task] = again[ids[1].task] + 1
    BY <1>1, <2>1, <2>2, <2>3 DEF WaitingSound
  <2>6. CountsSound'
    BY <1>1, <1>2, <2>1, <2>4 DEF CountsSound, AppliedOncePerDelivery
  <2>7. \A i \in 1..Len(jobs) : OwnName(i) => times[ids[i].task] <= again'[ids[i].task]
    <3> SUFFICES ASSUME NEW i \in 1..Len(jobs), OwnName(i)
                 PROVE  times[ids[i].task] <= again'[ids[i].task]
      OBVIOUS
    <3>1. times[ids[i].task] <= again[ids[i].task] + Excess(i)
      BY <1>1 DEF WaitingSound
    <3> QED BY <1>2, <2>2, <2>4, <2>5, <3>1 DEF Excess
  <2>8. \A i \in 1..Len(jobs) : times[ids[i].task] \in Nat /\ again'[ids[i].task] \in Nat
    BY <1>2, <2>2, <2>4
  <2>9. WaitingSound'
    BY <2>1, <2>7, <2>8 DEF WaitingSound, OwnName, Excess
  <2> QED BY <2>6, <2>9
<1> QED BY <1>3, <1>4, <1>5, <1>6, <1>7, <1>8, <1>9, <1>10 DEF Next, WorkerStep, StartUp

------------------------------------------------------------------------------
(* Ids, until Redis loses data. *)

IdsSound ==
  /\ \A t \in Task : /\ ticket[t] < nextId
                     /\ pc[t] \in Unqueued => ticket[t] = 0
                     /\ pc[t] = "queued" => ticket[t] # 0
                     /\ \A s \in Task : ticket[s] = ticket[t] => s = t \/ ticket[t] = 0
  /\ \A i \in 1..Len(jobs) : OwnName(i) /\ ids[i].id = ticket[ids[i].task] /\ ids[i].id # 0
  /\ \A row \in table : row.jobId = ticket[row.task] /\ row.jobId # 0

LEMMA TicketsParts ==
  /\ TypeOK => (TicketsAreUnique <=> (losses = 0 => IdsSound))
  /\ TypeOK' => (TicketsAreUnique' <=> (losses' = 0 => IdsSound'))
<1>1. TypeOK => (TicketsAreUnique <=> (losses = 0 => IdsSound))
  BY QueueTyped DEF TicketsAreUnique, IdsSound
<1>2. TypeOK' => (TicketsAreUnique' <=> (losses' = 0 => IdsSound'))
  BY NextQueueTyped DEF TicketsAreUnique, IdsSound
<1> QED BY <1>1, <1>2

\* Every job that waits after the step waited before it.
NothingNew ==
  \A i \in 1..Len(jobs') : \E j \in 1..Len(jobs) :
    ids'[i] = ids[j] /\ (OwnName(i)' <=> OwnName(j))

LEMMA QueueMoves ==
  ASSUME TypeOK, TypeOK', QueueStays \/ QueueShortens \/ QueueTurns
  PROVE  NothingNew
<1>1. Len(jobs) \in Nat /\ Len(jobs') \in Nat
  BY QueueTyped, NextQueueTyped
<1>2. CASE QueueStays
  BY <1>2 DEF QueueStays, NothingNew, OwnName
<1>3. CASE QueueShortens
  <2>1. \A i \in 1..Len(jobs') : /\ i + 1 \in 1..Len(jobs)
                                 /\ OwnName(i)' <=> OwnName(i + 1)
                                 /\ ids'[i] = ids[i + 1]
    BY <1>1, <1>3 DEF QueueShortens, OwnName
  <2> QED BY <2>1 DEF NothingNew
<1>4. CASE QueueTurns
  <2> DEFINE From(i) == IF i < Len(jobs) THEN i + 1 ELSE 1
  <2>1. \A i \in 1..Len(jobs') : /\ From(i) \in 1..Len(jobs)
                                 /\ OwnName(i)' <=> OwnName(From(i))
                                 /\ ids'[i] = ids[From(i)]
    BY <1>1, <1>4 DEF QueueTurns, OwnName
  <2> HIDE DEF From
  <2> QED BY <2>1 DEF NothingNew
<1> QED BY <1>2, <1>3, <1>4

\* Steps that move the queue and insert rows of queued jobs.
LEMMA IdsFollow ==
  ASSUME TypeOK, IdsSound, NothingNew, ticket' = ticket, nextId' = nextId,
         \A row \in table' : row.jobId = ticket[row.task] /\ row.jobId # 0,
         \A t \in Task : /\ pc'[t] \in Unqueued => pc[t] \in Unqueued
                         /\ pc'[t] = "queued" => pc[t] = "queued"
  PROVE  IdsSound'
<1>1. \A i \in 1..Len(jobs') : OwnName(i)' /\ ids'[i].id = ticket[ids'[i].task] /\ ids'[i].id # 0
  BY DEF IdsSound, NothingNew
<1> QED BY <1>1 DEF IdsSound

\* A new id belongs to no job and to no row.
LEMMA NewIdIsFresh ==
  ASSUME TypeOK, TypeOK', IdsSound, NEW t \in Task, QueueJob(t)
  PROVE  IdsSound'
<1>1. /\ QueueGets(t, t[2]) /\ pc[t] \in Unqueued /\ Goes(t, "queued")
      /\ ticket' = [ticket EXCEPT ![t] = nextId] /\ nextId' = nextId + 1
      /\ table' = table
  BY QueueJobTyped DEF QueueJob, Unqueued, Enqueue
<1>2. ticket \in [Task -> Nat] /\ nextId \in Nat
      /\ pc \in [Task -> {"idle", "counted", "queued", "stored", "failed"}]
  BY DEF TypeOK
<1>3. ticket[t] = 0 /\ nextId # 0
  BY <1>1, <1>2 DEF IdsSound
<1>4. /\ ticket'[t] = nextId /\ \A s \in Task \ {t} : ticket'[s] = ticket[s]
      /\ pc'[t] = "queued" /\ \A s \in Task \ {t} : pc'[s] = pc[s]
  BY <1>1, <1>2 DEF Goes
<1>5. /\ Len(jobs) \in Nat /\ Len(jobs') = Len(jobs) + 1
      /\ \A i \in 1..Len(jobs) : jobs'[i] = jobs[i] /\ ids'[i] = ids[i] /\ ids[i].task \in Task
      /\ jobs'[Len(jobs) + 1].name = t[2] /\ t[2] # QueueName
      /\ ids'[Len(jobs) + 1] = [id |-> nextId, task |-> t]
      /\ DOMAIN ids' = 1..(Len(jobs) + 1) /\ DOMAIN ids = 1..Len(jobs)
  BY <1>1, QueueTyped, NextQueueTyped, TaskTyped DEF QueueGets
<1>6. \A i \in 1..(Len(jobs) + 1) : i \in 1..Len(jobs) \/ i = Len(jobs) + 1
  BY <1>5
<1>7. \A row \in table : row.task \in Task /\ row.task # t
  BY <1>3 DEF IdsSound, TypeOK, JobRow
<1>8. ASSUME NEW s \in Task
      PROVE  /\ ticket'[s] < nextId' /\ (pc'[s] \in Unqueued => ticket'[s] = 0)
             /\ pc'[s] = "queued" => ticket'[s] # 0
  BY <1>1, <1>2, <1>3, <1>4 DEF IdsSound, Unqueued
<1>9. ASSUME NEW s \in Task, NEW r \in Task, ticket'[r] = ticket'[s]
      PROVE  r = s \/ ticket'[s] = 0
  <2>1. \A u \in Task \ {t} : ticket'[u] < nextId /\ ticket'[u] \in Nat
    BY <1>2, <1>4 DEF IdsSound
  <2>2. CASE r # t /\ s # t
    BY <1>4, <1>9, <2>2 DEF IdsSound
  <2>3. CASE r = t \/ s = t
    BY <1>2, <1>4, <1>9, <2>1, <2>3
  <2> QED BY <2>2, <2>3
<1>10. ASSUME NEW i \in 1..Len(jobs')
      PROVE  OwnName(i)' /\ ids'[i].id = ticket'[ids'[i].task] /\ ids'[i].id # 0
  <2>1. CASE i \in 1..Len(jobs)
    <3>1. OwnName(i) /\ ids[i].id = ticket[ids[i].task] /\ ids[i].id # 0
      BY <2>1 DEF IdsSound
    <3>2. ids[i].task # t
      BY <1>3, <3>1
    <3> QED BY <1>4, <1>5, <2>1, <3>1, <3>2 DEF OwnName
  <2>2. CASE i = Len(jobs) + 1
    <3>1. ids'[i].id = nextId /\ ids'[i].task = t /\ jobs'[i].name # QueueName
      BY <1>5, <2>2
    <3> QED BY <1>3, <1>4, <3>1 DEF OwnName
  <2> QED BY <1>5, <1>6, <2>1, <2>2
<1>11. \A row \in table' : row.jobId = ticket'[row.task] /\ row.jobId # 0
  BY <1>1, <1>4, <1>7 DEF IdsSound
<1> QED BY <1>8, <1>9, <1>10, <1>11 DEF IdsSound

\* The row of a queued job.
LEMMA RowsHaveTheirIds ==
  ASSUME TypeOK, TypeOK', IdsSound, NEW t \in Task, StoreRow(t)
  PROVE  IdsSound'
<1>1. QueueStays /\ ticket' = ticket /\ nextId' = nextId
  BY StoreRowTyped DEF StoreRow
<1>2. pc \in [Task -> {"idle", "counted", "queued", "stored", "failed"}]
  BY DEF TypeOK
<1>3. \A s \in Task : /\ pc'[s] \in Unqueued => pc[s] \in Unqueued
                      /\ pc'[s] = "queued" => pc[s] = "queued"
  BY <1>2 DEF StoreRow, Goes, Unqueued
<1>4. \A row \in table' : row.jobId = ticket[row.task] /\ row.jobId # 0
  <2>1. PICK new : new = [jobId |-> ticket[t], task |-> t]
    OBVIOUS
  <2>2. pc[t] = "queued" /\ (table' = table \/ table' = table \cup {new})
    BY <2>1 DEF StoreRow
  <2>3. new.jobId = ticket[new.task] /\ new.jobId # 0
    BY <2>1, <2>2 DEF IdsSound
  <2> QED BY <2>2, <2>3 DEF IdsSound
<1>5. NothingNew
  BY <1>1, QueueMoves
<1> QED BY <1>1, <1>3, <1>4, <1>5, IdsFollow

\* Steps of the worker, crashes and start-ups give no id.
LEMMA NoIdIsGiven ==
  ASSUME TypeOK, TypeOK', IdsSound, QueueStays \/ QueueShortens \/ QueueTurns,
         UNCHANGED <<ticket, nextId, table>>,
         \A t \in Task : /\ pc'[t] \in Unqueued => pc[t] \in Unqueued
                         /\ pc'[t] = "queued" => pc[t] = "queued"
  PROVE  IdsSound'
<1>1. NothingNew
  BY QueueMoves
<1>2. \A row \in table' : row.jobId = ticket[row.task] /\ row.jobId # 0
  BY DEF IdsSound
<1> QED BY <1>1, <1>2, IdsFollow

LEMMA TicketsStep ==
  ASSUME TypeOK, OneJobPerTask, DeliveriesAreCounted, TicketsAreUnique, [Next]_vars
  PROVE  TicketsAreUnique'
<1>1. TypeOK'
  BY TypesStep
<1> SUFFICES ASSUME losses' = 0
             PROVE  IdsSound'
  BY <1>1, TicketsParts
<1>2. losses = 0 /\ ~RedisLosesData
  <2>1. losses \in Nat
    BY BoundsAssumption DEF TypeOK
  <2>2. losses' = losses \/ RedisLosesData
    BY DEF Next, Count, QueueJob, StoreRow, WorkerStep, ProcessStoredJob, IgnoreJob,
           AcknowledgeStoredJob, Crash, StartUp, Start, LoadOne, CheckRow, StartEnds, History,
           vars, storeVars
  <2>3. RedisLosesData => losses' = losses + 1
    BY DEF RedisLosesData
  <2> QED BY <2>1, <2>2, <2>3
<1>3. IdsSound
  BY <1>2, TicketsParts
<1>4. ASSUME NEW t \in Task, Count(t)
      PROVE  IdsSound'
  <2>1. /\ QueueStays /\ Goes(t, "counted") /\ pc[t] = "idle"
        /\ UNCHANGED <<ticket, nextId, table>>
    BY <1>4, CountTyped DEF Count
  <2>2. \A s \in Task : /\ pc'[s] \in Unqueued => pc[s] \in Unqueued
                        /\ pc'[s] = "queued" => pc[s] = "queued"
    BY <2>1 DEF Goes, Unqueued, TypeOK
  <2> QED BY <1>1, <1>3, <2>1, <2>2, NoIdIsGiven
<1>5. ASSUME NEW t \in Task, QueueJob(t) \/ StoreRow(t)
      PROVE  IdsSound'
  BY <1>1, <1>3, <1>5, NewIdIsFresh, RowsHaveTheirIds
<1>6. CASE ProcessStoredJob
  <2>1. UNCHANGED <<ticket, nextId, table, pc>>
    BY <1>6 DEF ProcessStoredJob
  <2>2. QueueStays \/ QueueShortens \/ QueueTurns
    BY <1>6, WorkerTyped DEF WorkerApplies, WorkerRetries, WorkerDrops
  <2> QED BY <1>1, <1>3, <2>1, <2>2, NoIdIsGiven
<1>7. CASE IgnoreJob \/ AcknowledgeStoredJob
  BY <1>1, <1>3, <1>7, CompleteTyped, NoIdIsGiven
<1>8. CASE Crash
  <2>1. /\ UNCHANGED <<ticket, nextId, table>> /\ QueueStays
        /\ pc' = [t \in Task |-> IF pc[t] \in {"counted", "queued"} THEN "failed" ELSE pc[t]]
    BY <1>8, CrashTyped DEF Crash
  <2>2. \A t \in Task : /\ pc'[t] \in Unqueued => pc[t] \in Unqueued
                        /\ pc'[t] = "queued" => pc[t] = "queued"
    BY <2>1 DEF Unqueued
  <2> QED BY <1>1, <1>3, <2>1, <2>2, NoIdIsGiven
<1>9. CASE Start \/ LoadOne \/ StartEnds
  BY <1>1, <1>3, <1>9, LoadingTyped, NoIdIsGiven
<1>10. CASE CheckRow
  <2>1. \A row \in table : ~Missing(row)
    <3>1. \A row \in table : row.task \in Task /\ row.jobId = ticket[row.task]
      BY <1>3 DEF IdsSound, TypeOK, JobRow
    <3>2. \A t \in Task : ticket[t] < nextId /\ ticket[t] \in Nat /\ nextId \in Nat
      BY <1>3 DEF IdsSound, TypeOK
    <3> QED BY <3>1, <3>2 DEF Missing
  <2>2. QueueStays /\ UNCHANGED <<ticket, nextId, table, pc>>
    BY <1>10, <2>1, CheckRowTyped
  <2> QED BY <1>1, <1>3, <2>2, NoIdIsGiven
<1>11. CASE UNCHANGED vars
  <2>1. QueueStays /\ UNCHANGED <<ticket, nextId, table, pc>>
    BY <1>11 DEF vars, storeVars, inventoryVars, QueueStays
  <2> QED BY <1>1, <1>3, <2>1, NoIdIsGiven
<1> QED BY <1>2, <1>4, <1>5, <1>6, <1>7, <1>8, <1>9, <1>10, <1>11 DEF Next, WorkerStep, StartUp

------------------------------------------------------------------------------
(* Theorems. *)

LEMMA InvariantInit ==
  ASSUME Init
  PROVE  JobsInvariant
<1>1. /\ jobs = <<>> /\ ids = <<>> /\ applied = FALSE /\ nextId = 1 /\ table = {}
      /\ loading = {} /\ toCheck = {} /\ dropped = {} /\ lost = {}
      /\ pc = [t \in Task |-> "idle"] /\ ticket = [t \in Task |-> 0]
      /\ times = [t \in Task |-> 0] /\ again = [t \in Task |-> 0]
      /\ server = "up" /\ restarts = 0 /\ losses = 0
      /\ cache = InitialStock /\ stock = InitialStock
  BY DEF Init, InventoryInit
<1>2. <<>> \in Seq(JobRecord) /\ <<>> \in Seq(IdRecord)
  OBVIOUS
<1>3. TypeOK
  <2>1. /\ jobs \in Seq(JobRecord) /\ ids \in Seq(IdRecord) /\ Len(ids) = Len(jobs)
    BY <1>1, <1>2
  <2>2. /\ pc \in [Task -> {"idle", "counted", "queued", "stored", "failed"}]
        /\ ticket \in [Task -> Nat] /\ times \in [Task -> Nat] /\ again \in [Task -> Nat]
    BY <1>1
  <2>3. /\ cache \in [Product -> Nat] /\ stock \in [Product -> Nat]
        /\ table \subseteq JobRow /\ toCheck \subseteq table /\ dropped \cup lost \subseteq Task
        /\ loading \subseteq Product \X Nat
    BY <1>1, InitialStockAssumption
  <2>4. nextId \in Nat /\ restarts \in 0..MaxRestarts /\ losses \in 0..MaxLosses
    BY <1>1, BoundsAssumption
  <2>5. applied \in BOOLEAN /\ server \in {"up", "down", "starting"}
    BY <1>1
  <2> QED BY <2>1, <2>2, <2>3, <2>4, <2>5 DEF TypeOK, JobRecord, IdRecord
<1>4. OneJobPerTask
  BY <1>1 DEF OneJobPerTask
<1>5. DeliveriesAreCounted
  BY <1>1 DEF DeliveriesAreCounted, AppliedOncePerDelivery
<1>6. TicketsAreUnique
  BY <1>1 DEF TicketsAreUnique, Unqueued
<1> QED BY <1>3, <1>4, <1>5, <1>6 DEF JobsInvariant

LEMMA InvariantStep ==
  ASSUME JobsInvariant, [Next]_vars
  PROVE  JobsInvariant'
BY TypesStep, OneJobStep, DeliveriesStep, TicketsStep DEF JobsInvariant

\* Jobs, rows and counts stay in step through the writes of addJob, the attempts
\* of the worker, crashes, start-ups of the loaders and losses of Redis: one
\* waiting job for each addJob, one delivery more than the crashes it saw, and
\* one id for each job.
THEOREM JobsStayConsistent == Spec => []JobsInvariant
<1>1. Init => JobsInvariant
  BY InvariantInit
<1>2. JobsInvariant /\ [Next]_vars => JobsInvariant'
  BY InvariantStep
<1> QED BY <1>1, <1>2, PTL DEF Spec

\* However the loader, the worker and crashes meet, a job changes the inventory
\* table once, and once more only for each time it was delivered again after it
\* had been applied.
THEOREM JobsAreAppliedOnce == Spec => []AppliedOncePerDelivery
<1>1. JobsInvariant => AppliedOncePerDelivery
  BY DEF JobsInvariant, DeliveriesAreCounted
<1> QED BY <1>1, JobsStayConsistent, PTL

\* While Redis keeps its data no start-up queues a task that waits or was
\* applied, however many rows of finished jobs the loader looks up: ids are given
\* once, so that each row has the id by which Redis knows its job.
THEOREM StartsQueueNothingAgain == Spec => []NothingIsQueuedAgain
<1>1. ASSUME JobsInvariant, losses = 0
      PROVE  \A i \in DOMAIN ids :
               /\ \A j \in DOMAIN ids : ids[j].task = ids[i].task => j = i
               /\ times[ids[i].task] <= again[ids[i].task] + (IF applied /\ i = 1 THEN 1 ELSE 0)
  <2>1. DOMAIN ids = DOMAIN jobs
    BY <1>1, QueueTyped DEF JobsInvariant
  <2>2. \A i \in DOMAIN jobs : OwnName(i)
    BY <1>1 DEF JobsInvariant, TicketsAreUnique
  <2> QED BY <1>1, <2>1, <2>2 DEF JobsInvariant, OneJobPerTask, DeliveriesAreCounted
<1>2. JobsInvariant => NothingIsQueuedAgain
  BY <1>1 DEF NothingIsQueuedAgain
<1> QED BY <1>2, JobsStayConsistent, PTL

==============================================================================
