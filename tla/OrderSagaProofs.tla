--------------------------- MODULE OrderSagaProofs ---------------------------
(***************************************************************************)
(* The guarantees of OrderSagaInvariants, for every set of orders,          *)
(* products and requests, every pattern of failures and every number of     *)
(* restarts; and those of OrderSagaProperties, under the hypotheses that    *)
(* OrderSagaPhases names.                                                   *)
(***************************************************************************)
EXTENDS OrderSagaPhases, SequenceTheorems, FiniteSums, TLAPS

------------------------------------------------------------------------------
(* Type correctness. *)

\* The indices of an order's lines are positive numbers, and the list of all
\* of them is a list of lines.
LEMMA LinesTyped ==
  ASSUME NEW o \in Order
  PROVE  /\ LineIndex(o) = 1..Len(Lines[o])
         /\ LineIndex(o) \subseteq Nat \ {0}
         /\ 1 \in LineIndex(o)
         /\ AllLines(o) \in Seq(LineIndex(o))
         /\ AllLines(o) \in Seq(Nat \ {0})
         /\ AllLines(o) # <<>>
         /\ \A i \in LineIndex(o) : /\ Lines[o][i].product \in Product
                                    /\ Lines[o][i].quantity \in Nat
  <1>1. /\ Lines[o] \in Seq(Line) /\ Lines[o] # <<>> /\ Len(Lines[o]) \in Nat
        /\ DOMAIN Lines[o] = 1..Len(Lines[o])
        /\ Len(Lines[o]) > 0
    BY LinesAssumption
  <1>2. LineIndex(o) = 1..Len(Lines[o]) /\ 1 \in LineIndex(o)
    BY <1>1 DEF LineIndex
  <1>3. AllLines(o) \in [1..Len(Lines[o]) -> 1..Len(Lines[o])]
    BY <1>2 DEF AllLines
  <1>4. /\ AllLines(o) \in Seq(LineIndex(o))
        /\ AllLines(o) \in Seq(Nat \ {0})
        /\ AllLines(o) # <<>>
    BY <1>1, <1>2, <1>3
  <1>5. \A i \in LineIndex(o) : Lines[o][i] \in Line
    BY <1>1, <1>2
  <1> QED BY <1>2, <1>4, <1>5 DEF Line

\* Init satisfies the type invariant.
LEMMA InitTypeOK == Init => TypeOK
  <1> SUFFICES ASSUME Init PROVE TypeOK
    OBVIOUS
  <1>1. InventoryTypeOK
    <2>1. jobs \in Seq(Job)
      BY EmptySeq DEF Init, InventoryInit
    <2> QED BY <2>1, InitialStockAssumption DEF Init, InventoryInit, InventoryTypeOK
  <1>2. payments \in [Order -> Seq(PaymentState)]
    <2>1. <<>> \in Seq(PaymentState)
      BY EmptySeq
    <2> QED BY <2>1 DEF Init
  <1>3. saga \in [Order -> [step : SagaStep \cup {None}, reserved : Seq(Nat \ {0})]]
    <2>1. <<>> \in Seq(Nat \ {0})
      BY EmptySeq
    <2> QED BY <2>1 DEF Init
  <1>4. \A o \in Order : saga[o].reserved \in Seq(LineIndex(o))
    BY EmptySeq DEF Init
  <1>5. /\ orderState \in [Order -> OrderState \cup {None}]
        /\ \A t \in tasks : TaskTyped(t)
        /\ server \in {"up", "booting", "down", "aborted"}
        /\ loading \subseteq Product \X Nat
        /\ boot \subseteq Order
        /\ used \subseteq Request
        /\ granted \in [Order -> SUBSET Product]
        /\ restarts \in 0..MaxRestarts
    BY MaxRestartsAssumption DEF Init
  <1> QED BY <1>1, <1>2, <1>3, <1>4, <1>5 DEF TypeOK

\* The tasks the orchestrator starts are well typed.
LEMMA NewTaskTyped ==
  ASSUME NEW f \in Flow, NEW o \in Order, NEW c \in Command \ {"ReserveInventory"}
  PROVE  /\ TaskTyped(NewTask(f, c, o))
         /\ TaskTyped(OrderCanceled(f, o))
         /\ \A i \in LineIndex(o) : TaskTyped(ReserveLine(f, o, i))
         /\ \A i \in Nat \ {0}, r \in {"PAID", "FAILED"} : TaskTyped(Payment(f, o, i, r))
  <1>1. <<>> \in Seq(LineIndex(o)) /\ <<>> \in Seq(Nat \ {0})
    BY EmptySeq
  <1> USE <1>1, LinesTyped DEF TaskTyped, TaskWith, Task, Pc, Command
  <1>2. TaskTyped(NewTask(f, c, o))
    BY DEF NewTask
  <1>3. TaskTyped(OrderCanceled(f, o))
    BY DEF OrderCanceled
  <1>4. ASSUME NEW i \in LineIndex(o) PROVE TaskTyped(ReserveLine(f, o, i))
    BY DEF ReserveLine
  <1>5. ASSUME NEW i \in Nat \ {0}, NEW r \in {"PAID", "FAILED"}
        PROVE  TaskTyped(Payment(f, o, i, r))
    BY DEF Payment
  <1> QED BY <1>2, <1>3, <1>4, <1>5

\* Lists of lines are lists of positive numbers.
LEMMA SeqOfLines ==
  ASSUME NEW o \in Order, NEW s \in Seq(LineIndex(o))
  PROVE  s \in Seq(Nat \ {0})
  BY LinesTyped, ElementOfSeq, LenProperties

\* Taking the first line off a list of lines.
LEMMA LineTaken ==
  ASSUME NEW o \in Order, NEW s \in Seq(LineIndex(o)), s # <<>>
  PROVE  /\ Head(s) \in LineIndex(o)
         /\ Tail(s) \in Seq(LineIndex(o))
         /\ Lines[o][Head(s)].product \in Product
         /\ Lines[o][Head(s)].quantity \in Nat
  BY LinesTyped, HeadTailProperties

\* What a task becomes in its steps.
LEMMA TaskUpdated ==
  ASSUME NEW t, TaskTyped(t), NEW pc \in Pc, NEW arg \in Nat \ {0},
         NEW seen \in Seq(LineIndex(t.order)), NEW todo \in Seq(LineIndex(t.order))
  PROVE  /\ t.order \in Order
         /\ TaskTyped([t EXCEPT !.pc = pc])
         /\ TaskTyped([t EXCEPT !.pc = pc, !.seen = seen])
         /\ TaskTyped([t EXCEPT !.pc = pc, !.todo = todo])
         /\ TaskTyped([t EXCEPT !.todo = todo])
         /\ TaskTyped([t EXCEPT !.todo = todo, !.pc = pc])
         /\ TaskTyped([t EXCEPT !.pc = pc, !.seen = seen, !.todo = todo])
         /\ t.cmd # "ReserveInventory" => TaskTyped([t EXCEPT !.pc = pc, !.arg = arg])
  <1>1. t \in Task /\ t.order \in Order
    BY DEF TaskTyped, Task
  <1>2. seen \in Seq(Nat \ {0}) /\ todo \in Seq(Nat \ {0})
    BY <1>1, SeqOfLines
  <1> USE <1>1, <1>2 DEF TaskTyped, Task
  <1>3. TaskTyped([t EXCEPT !.pc = pc])
    OBVIOUS
  <1>4. TaskTyped([t EXCEPT !.pc = pc, !.seen = seen])
    OBVIOUS
  <1>5. TaskTyped([t EXCEPT !.pc = pc, !.todo = todo])
    OBVIOUS
  <1>6. TaskTyped([t EXCEPT !.todo = todo])
    OBVIOUS
  <1>7. TaskTyped([t EXCEPT !.todo = todo, !.pc = pc])
    OBVIOUS
  <1>8. TaskTyped([t EXCEPT !.pc = pc, !.seen = seen, !.todo = todo])
    OBVIOUS
  <1>9. t.cmd # "ReserveInventory" => TaskTyped([t EXCEPT !.pc = pc, !.arg = arg])
    OBVIOUS
  <1> QED BY <1>3, <1>4, <1>5, <1>6, <1>7, <1>8, <1>9

\* Replacing a task.
LEMMA TasksReplaced ==
  ASSUME TypeOK, NEW t, NEW new, \A u \in new : TaskTyped(u), Replace(t, new)
  PROVE  \A u \in tasks' : TaskTyped(u)
  BY DEF TypeOK, Replace

\* Writing a saga row.
LEMMA SagaWritten ==
  ASSUME TypeOK, NEW o \in Order, NEW step \in SagaStep,
         NEW reserved \in Seq(LineIndex(o)), WriteSaga(o, step, reserved)
  PROVE  /\ saga' \in [Order -> [step : SagaStep \cup {None}, reserved : Seq(Nat \ {0})]]
         /\ \A q \in Order : saga'[q].reserved \in Seq(LineIndex(q))
  <1>1. reserved \in Seq(Nat \ {0})
    BY SeqOfLines
  <1>2. [step |-> step, reserved |-> reserved]
          \in [step : SagaStep \cup {None}, reserved : Seq(Nat \ {0})]
    BY <1>1
  <1> QED BY <1>2 DEF TypeOK, WriteSaga

\* Returning a quantity to its counter.
LEMMA CounterGrows ==
  ASSUME TypeOK, NEW p \in Product, NEW q \in Nat, CompensateInventory(p, q)
  PROVE  cache' \in [Product -> Nat]
  <1>1. cache \in [Product -> Nat] /\ cache[p] + q \in Nat
    BY DEF TypeOK, InventoryTypeOK
  <1> QED BY <1>1 DEF CompensateInventory

\* Adding a job.
LEMMA JobAdded ==
  ASSUME TypeOK, NEW n \in JobName, NEW p \in Product, NEW q \in Nat, AddJob(n, p, q)
  PROVE  jobs' \in Seq(Job)
  <1>1. [name |-> n, product |-> p, quantity |-> q, attempts |-> 0] \in Job
    BY DEF Job
  <1> QED BY <1>1, AppendProperties DEF AddJob, TypeOK, InventoryTypeOK

\* The actions of a task that leave the inventory alone, up to the parts of
\* the state that they share.
LEMMA TaskStepKeepsTypes ==
  ASSUME TypeOK, NEW t \in tasks, TaskStep(t)
  PROVE  TypeOK'
  <1> USE DEF OrderCreated, ProductReserved, InventoryReserved, PaymentInitiated, ReservationFailed,
              ReservationReleased, InventoryCompensated, PaymentFailed, PaymentPaid
  <1> DEFINE o == t.order
  <1>1. /\ TaskTyped(t) /\ o \in Order /\ t \in Task
        /\ t.seen \in Seq(LineIndex(o)) /\ t.todo \in Seq(LineIndex(o))
        /\ t.arg \in Nat \ {0} /\ t.flow \in Flow
        /\ t.cmd = "ReserveInventory" => t.arg \in LineIndex(o)
    BY DEF TypeOK, TaskTyped, Task
  <1>2. saga[o].reserved \in Seq(LineIndex(o))
    BY <1>1 DEF TypeOK
  <1>3. t.cmd = "ReserveInventory" =>
          /\ LineOf(t).product \in Product
          /\ LineOf(t).quantity \in Nat
    BY <1>1, LinesTyped DEF LineOf
  <1>4. /\ \A c \in Command \ {"ReserveInventory"} : TaskTyped(NewTask(t.flow, c, o))
        /\ TaskTyped(OrderCanceled(ChildFlow(t), o))
        /\ \A i \in LineIndex(o) : TaskTyped(ReserveLine(t.flow, o, i))
    <2>1. ChildFlow(t) \in Flow /\ "MarkOrderFail" \in Command \ {"ReserveInventory"}
      BY <1>1 DEF ChildFlow, Flow, Command
    <2>2. \A c \in Command \ {"ReserveInventory"} : TaskTyped(NewTask(t.flow, c, o))
      BY <1>1, NewTaskTyped
    <2>3. TaskTyped(OrderCanceled(ChildFlow(t), o))
      BY <1>1, <2>1, NewTaskTyped
    <2>4. \A i \in LineIndex(o) : TaskTyped(ReserveLine(t.flow, o, i))
      BY <1>1, <2>1, NewTaskTyped
    <2> QED BY <2>2, <2>3, <2>4
  <1>5. \A pc \in Pc : TaskTyped([t EXCEPT !.pc = pc])
    BY <1>1, TaskUpdated
  <1>6. \A pc \in Pc : \A s \in Seq(LineIndex(o)) : TaskTyped([t EXCEPT !.pc = pc, !.seen = s])
    BY <1>1, TaskUpdated
  <1>7. AllLines(o) \in Seq(LineIndex(o)) /\ LineIndex(o) \subseteq Nat \ {0}
    BY <1>1, LinesTyped
  <1>8. ASSUME NEW pc \in Pc, ReadSaga(t, pc)
        PROVE  \A u \in tasks' : TaskTyped(u)
    BY <1>2, <1>6, <1>8, TasksReplaced DEF ReadSaga
  <1>a. CASE ReserveInCache(t)
    <2> DEFINE p == LineOf(t).product
               q == LineOf(t).quantity
    <2>0. /\ p \in Product /\ q \in Nat
          /\ cache \in [Product -> Nat] /\ granted \in [Order -> SUBSET Product]
      BY <1>a, <1>3 DEF ReserveInCache, TypeOK, InventoryTypeOK
    <2>1. /\ cache' \in [Product -> Nat]
          /\ granted' \in [Order -> SUBSET Product]
      <3>1. CASE ~Sufficient(p, q)
        BY <1>a, <3>1, <2>0 DEF ReserveInCache, ReserveInventory
      <3>2. CASE Sufficient(p, q)
        <4>1. /\ cache' = [cache EXCEPT ![p] = @ - q]
              /\ granted' = [granted EXCEPT ![o] = @ \cup {p}]
          BY <1>a, <3>2 DEF ReserveInCache, ReserveInventory
        <4>2. cache[p] - q \in Nat
          BY <3>2, <2>0 DEF Sufficient
        <4>3. cache' \in [Product -> Nat]
          BY <4>1, <4>2, <2>0
        <4> QED BY <4>1, <4>3, <2>0, <1>1
      <3> QED BY <3>1, <3>2
    <2>2. \A u \in tasks' : TaskTyped(u)
      BY <1>a, <1>4, <1>5, TasksReplaced DEF ReserveInCache, Continue, Pc, Command
    <2> QED BY <1>a, <2>1, <2>2
      DEF ReserveInCache, Frame, TypeOK, InventoryTypeOK, tableVars, serverVars
  <1>b. CASE ReserveReadsSaga(t)
    <2>1. \A u \in tasks' : TaskTyped(u)
      BY <1>b, <1>8 DEF ReserveReadsSaga, Pc
    <2> QED BY <1>b, <2>1
      DEF ReserveReadsSaga, Frame, TypeOK, InventoryTypeOK, inventoryVars, tableVars, serverVars
  <1>c. CASE ReservePersistsSaga(t)
    <2> DEFINE reserved == Append(t.seen, t.arg)
    <2>1. reserved \in Seq(LineIndex(o))
      BY <1>c, <1>1, AppendProperties DEF ReservePersistsSaga
    <2>2. TaskTyped([t EXCEPT !.pc = "saved", !.seen = reserved])
      BY <2>1, <1>6 DEF Pc
    <2>3. \A u \in tasks' : TaskTyped(u)
      BY <1>c, <2>2, TasksReplaced DEF ReservePersistsSaga
    <2>4. PICK step \in SagaStep : WriteSaga(o, step, reserved)
      BY <1>c DEF ReservePersistsSaga, SagaStep
    <2>5. /\ saga' \in [Order -> [step : SagaStep \cup {None}, reserved : Seq(Nat \ {0})]]
          /\ \A q \in Order : saga'[q].reserved \in Seq(LineIndex(q))
      BY <1>1, <2>1, <2>4, SagaWritten
    <2> QED BY <1>c, <2>3, <2>5
      DEF ReservePersistsSaga, Frame, TypeOK, InventoryTypeOK, inventoryVars, serverVars
  <1>d. CASE ReserveEnqueues(t)
    <2>1. jobs' \in Seq(Job)
      BY <1>d, <1>3, JobAdded DEF ReserveEnqueues, JobName
    <2>2. \A u \in tasks' : TaskTyped(u)
      BY <1>d, <1>4, TasksReplaced DEF ReserveEnqueues, Unreserved, Command
    <2> QED BY <1>d, <2>1, <2>2
      DEF ReserveEnqueues, Frame, TypeOK, InventoryTypeOK, tableVars, serverVars
  <1>e. CASE ReleaseReadsSaga(t)
    <2> DEFINE pc == IF saga[o].reserved = <<>> THEN "returned" ELSE "returning"
    <2>1. TaskTyped([t EXCEPT !.pc = pc, !.seen = saga[o].reserved, !.todo = saga[o].reserved])
      BY <1>1, <1>2, TaskUpdated, ZenonT(30) DEF Pc
    <2>2. \A u \in tasks' : TaskTyped(u)
      BY <1>e, <2>1, TasksReplaced DEF ReleaseReadsSaga
    <2> QED BY <1>e, <2>2
      DEF ReleaseReadsSaga, Frame, TypeOK, InventoryTypeOK, inventoryVars, tableVars, serverVars
  <1>f. CASE ReturnLine(t)
    <2>1. /\ Lines[o][Head(t.todo)].product \in Product
          /\ Lines[o][Head(t.todo)].quantity \in Nat
          /\ Tail(t.todo) \in Seq(LineIndex(o))
      BY <1>f, <1>1, LineTaken DEF ReturnLine
    <2>2. cache' \in [Product -> Nat]
      BY <1>f, <2>1, CounterGrows DEF ReturnLine
    <2>3. TaskTyped([t EXCEPT !.todo = Tail(t.todo),
                              !.pc = IF Tail(t.todo) = <<>> THEN "returned" ELSE @])
      BY <1>f, <1>1, <2>1, TaskUpdated, ZenonT(30) DEF ReturnLine, Pc
    <2>4. \A u \in tasks' : TaskTyped(u)
      BY <1>f, <2>3, TasksReplaced DEF ReturnLine
    <2> QED BY <1>f, <2>2, <2>4
      DEF ReturnLine, Frame, TypeOK, InventoryTypeOK, tableVars, serverVars
  <1>g. CASE CompensateReadsSaga(t)
    <2>1. \A u \in tasks' : TaskTyped(u)
      BY <1>g, <1>8 DEF CompensateReadsSaga, Pc
    <2> QED BY <1>g, <2>1
      DEF CompensateReadsSaga, Frame, TypeOK, InventoryTypeOK, inventoryVars, tableVars, serverVars
  <1>h. CASE ReturnPersistsSaga(t)
    <2> DEFINE todo == IF t.cmd = "ReleaseReservation" THEN t.seen ELSE AllLines(o)
    <2>0. todo \in Seq(LineIndex(o))
      BY <1>1, <1>7
    <2>z. TaskTyped([t EXCEPT !.pc = "saved", !.todo = todo])
      BY <2>0, <1>1, TaskUpdated, ZenonT(30) DEF Pc
    <2>1. \A u \in tasks' : TaskTyped(u)
      BY <1>h, <2>z, TasksReplaced DEF ReturnPersistsSaga
    <2>2. /\ saga' \in [Order -> [step : SagaStep \cup {None}, reserved : Seq(Nat \ {0})]]
          /\ \A q \in Order : saga'[q].reserved \in Seq(LineIndex(q))
      BY <1>h, <1>1, SagaWritten DEF ReturnPersistsSaga, SagaStep
    <2> QED BY <1>h, <2>1, <2>2
      DEF ReturnPersistsSaga, Frame, TypeOK, InventoryTypeOK, inventoryVars, serverVars
  <1>i. CASE ReturnEnqueues(t)
    <2>1. /\ Lines[o][Head(t.todo)].product \in Product
          /\ Lines[o][Head(t.todo)].quantity \in Nat
          /\ Tail(t.todo) \in Seq(LineIndex(o))
      BY <1>i, <1>1, LineTaken DEF ReturnEnqueues
    <2>2. jobs' \in Seq(Job)
      BY <1>i, <2>1, JobAdded DEF ReturnEnqueues, EnqueueHead, JobName
    <2>3. TaskTyped([t EXCEPT !.todo = Tail(t.todo)])
      BY <1>1, <2>1, TaskUpdated DEF Pc
    <2>4. \A u \in tasks' : TaskTyped(u)
      BY <1>i, <2>3, TasksReplaced DEF ReturnEnqueues
    <2> QED BY <1>i, <2>2, <2>4
      DEF ReturnEnqueues, Frame, TypeOK, InventoryTypeOK, tableVars, serverVars
  <1>j. CASE ReturnPublishes(t)
    <2>1. \A u \in tasks' : TaskTyped(u)
      BY <1>j, <1>4, TasksReplaced DEF ReturnPublishes, Command
    <2> QED BY <1>j, <2>1
      DEF ReturnPublishes, Frame, TypeOK, InventoryTypeOK, inventoryVars, tableVars, serverVars
  <1>k. CASE InitiatePaymentReads(t)
    <2>1. \A u \in tasks' : TaskTyped(u)
      BY <1>k, <1>8 DEF InitiatePaymentReads, Pc
    <2> QED BY <1>k, <2>1
      DEF InitiatePaymentReads, Frame, TypeOK, InventoryTypeOK, inventoryVars, tableVars, serverVars
  <1>l. CASE InitiatePaymentCommits(t)
    <2>1. payments' \in [Order -> Seq(PaymentState)]
      BY <1>l, <1>1, AppendProperties DEF InitiatePaymentCommits, PaymentState, TypeOK
    <2>2. \A u \in tasks' : TaskTyped(u)
      BY <1>l, <1>4, TasksReplaced DEF InitiatePaymentCommits, Command
    <2>3. /\ saga' \in [Order -> [step : SagaStep \cup {None}, reserved : Seq(Nat \ {0})]]
          /\ \A q \in Order : saga'[q].reserved \in Seq(LineIndex(q))
      BY <1>l, <1>1, SagaWritten DEF InitiatePaymentCommits, SagaStep
    <2> QED BY <1>l, <2>1, <2>2, <2>3
      DEF InitiatePaymentCommits, Frame, TypeOK, InventoryTypeOK, inventoryVars, serverVars
  <1>m. ASSUME UNCHANGED inventoryVars, UNCHANGED tableVars, UNCHANGED granted, Frame,
               \A u \in tasks' : TaskTyped(u)
        PROVE  TypeOK'
    BY <1>m DEF Frame, TypeOK, InventoryTypeOK, inventoryVars, tableVars, serverVars
  <1>n. CASE Throws(t) /\ UNCHANGED jobs
    <2>1. \A u \in tasks' : TaskTyped(u)
      BY <1>n DEF Throws, TypeOK
    <2>2. /\ server' \in {"up", "starting", "loading", "booting", "down", "aborted"}
          /\ boot' \subseteq Order /\ applied' \in BOOLEAN
      BY <1>n DEF Throws, TypeOK, InventoryTypeOK
    <2> QED BY <1>n, <2>1, <2>2 DEF Throws, TypeOK, InventoryTypeOK, tableVars
  <1>o. CASE TransactionReadsSaga(t)
    <2>1. \A u \in tasks' : TaskTyped(u)
      BY <1>o, <1>8 DEF TransactionReadsSaga, Pc
    <2> QED BY <1>o, <1>m, <2>1 DEF TransactionReadsSaga
  <1>p. CASE OrderCommandLoads(t)
    <2>1. Continue(t, "loaded") => \A u \in tasks' : TaskTyped(u)
      BY <1>5, TasksReplaced DEF Continue, Pc
    <2> QED BY <1>p, <1>m, <1>n, <2>1 DEF OrderCommandLoads
  <1>q. ASSUME t.cmd \in MarkingCommand \cup {"CancelOrder"}, WriteOrder(t), Replace(t, {})
        PROVE  TypeOK'
    <2>1. NewOrderState(t.cmd) \in OrderState /\ NewStep(t.cmd) \in SagaStep
      BY <1>q DEF MarkingCommand, NewOrderState, NewStep, OrderState, SagaStep
    <2>2. orderState' \in [Order -> OrderState \cup {None}]
      BY <1>q, <1>1, <2>1 DEF WriteOrder, TypeOK
    <2>3. /\ saga' \in [Order -> [step : SagaStep \cup {None}, reserved : Seq(Nat \ {0})]]
          /\ \A r \in Order : saga'[r].reserved \in Seq(LineIndex(r))
      BY <1>q, <1>1, <2>1, SagaWritten DEF WriteOrder
    <2>4. \A u \in tasks' : TaskTyped(u)
      BY <1>q, TasksReplaced
    <2> QED BY <1>q, <2>2, <2>3, <2>4
      DEF WriteOrder, Frame, TypeOK, InventoryTypeOK, inventoryVars, serverVars
  <1>r. CASE MarkOrderCommits(t)
    BY <1>q, <1>r DEF MarkOrderCommits
  <1>s. CASE CancelOrderPublishes(t)
    <2>1. \A u \in tasks' : TaskTyped(u)
      BY <1>s, <1>4, <1>5, TasksReplaced DEF CancelOrderPublishes, Pc
    <2> QED BY <1>s, <1>m, <2>1 DEF CancelOrderPublishes
  <1>t. CASE CancelOrderCommits(t)
    BY <1>q, <1>t DEF CancelOrderCommits
  <1>u. CASE PayForOrderLoads(t)
    <2>1. Continue(t, "loaded") => \A u \in tasks' : TaskTyped(u)
      BY <1>5, TasksReplaced DEF Continue, Pc
    <2> QED BY <1>u, <1>m, <1>n, <2>1 DEF PayForOrderLoads
  <1>v. CASE PayForOrderPublishes(t)
    <2>1. \A u \in tasks' : TaskTyped(u)
      BY <1>v, <1>4, <1>5, TasksReplaced DEF PayForOrderPublishes, Pc, Command
    <2> QED BY <1>v, <1>m, <2>1 DEF PayForOrderPublishes
  <1>w. ASSUME NEW s \in PaymentState, PaymentBecomes(o, t.arg, s)
        PROVE  payments' \in [Order -> Seq(PaymentState)]
    <2>1. [payments[o] EXCEPT ![t.arg] = s] \in Seq(PaymentState)
      <3>1. payments[o] \in Seq(PaymentState)
        BY <1>1 DEF TypeOK
      <3>2. CASE t.arg \in 1..Len(payments[o])
        BY <3>1, <3>2, ExceptSeq
      <3>3. CASE t.arg \notin 1..Len(payments[o])
        <4>1. t.arg \notin DOMAIN payments[o]
          BY <3>1, <3>3, LenProperties
        <4>2. [payments[o] EXCEPT ![t.arg] = s] = [k \in DOMAIN payments[o] |-> payments[o][k]]
          BY <4>1
        <4>3. payments[o] = [k \in DOMAIN payments[o] |-> payments[o][k]]
          BY <3>1, LenProperties
        <4> QED BY <3>1, <4>2, <4>3
      <3> QED BY <3>2, <3>3
    <2> QED BY <1>w, <2>1, <1>1 DEF PaymentBecomes, TypeOK
  <1>x. CASE PayForOrderCommits(t)
    <2>1. payments' \in [Order -> Seq(PaymentState)]
      BY <1>x, <1>1, <1>w DEF PayForOrderCommits, PaymentState, Task
    <2>2. /\ saga' \in [Order -> [step : SagaStep \cup {None}, reserved : Seq(Nat \ {0})]]
          /\ \A r \in Order : saga'[r].reserved \in Seq(LineIndex(r))
      <3>1. PICK step \in SagaStep : WriteSaga(o, step, t.seen)
        BY <1>x DEF PayForOrderCommits, SagaStep
      <3> QED BY <1>1, <3>1, SagaWritten
    <2>3. \A u \in tasks' : TaskTyped(u)
      BY <1>x, TasksReplaced DEF PayForOrderCommits
    <2> QED BY <1>x, <2>1, <2>2, <2>3
      DEF PayForOrderCommits, Frame, TypeOK, InventoryTypeOK, inventoryVars, serverVars
  <1>y. CASE CancelPaymentLoads(t)
    <2>1. ASSUME NEW i \in DOMAIN payments[o], t.cmd = "CancelPayment",
                 Replace(t, {[t EXCEPT !.pc = "loaded", !.arg = i]})
          PROVE  \A u \in tasks' : TaskTyped(u)
      <3>1. i \in Nat \ {0}
        BY <1>1, <2>1 DEF TypeOK
      <3>2. TaskTyped([t EXCEPT !.pc = "loaded", !.arg = i])
        BY <1>1, <2>1, <3>1, TaskUpdated DEF Pc
      <3> QED BY <2>1, <3>2, TasksReplaced
    <2>2. Replace(t, {}) => \A u \in tasks' : TaskTyped(u)
      BY TasksReplaced
    <2> QED BY <1>y, <1>m, <1>n, <2>1, <2>2 DEF CancelPaymentLoads
  <1>z. CASE CancelPaymentCommits(t)
    <2>1. payments' \in [Order -> Seq(PaymentState)]
      BY <1>z, <1>w DEF CancelPaymentCommits, PaymentState
    <2>2. /\ saga' \in [Order -> [step : SagaStep \cup {None}, reserved : Seq(Nat \ {0})]]
          /\ \A r \in Order : saga'[r].reserved \in Seq(LineIndex(r))
      BY <1>z, <1>1, SagaWritten DEF CancelPaymentCommits, SagaStep
    <2>3. \A u \in tasks' : TaskTyped(u)
      BY <1>z, TasksReplaced DEF CancelPaymentCommits
    <2> QED BY <1>z, <2>1, <2>2, <2>3
      DEF CancelPaymentCommits, Frame, TypeOK, InventoryTypeOK, inventoryVars, serverVars
  <1> QED BY <1>a, <1>b, <1>c, <1>d, <1>e, <1>f, <1>g, <1>h, <1>i, <1>j, <1>k, <1>l,
            <1>o, <1>p, <1>r, <1>s, <1>t, <1>u, <1>v, <1>x, <1>y, <1>z DEF TaskStep

\* The failures of a task.
LEMMA TaskFailsKeepsTypes ==
  ASSUME TypeOK, NEW t \in tasks, TaskFails(t)
  PROVE  TypeOK'
  <1> USE DEF OrderCreated, ProductReserved, InventoryReserved, PaymentInitiated, ReservationFailed,
              ReservationReleased, InventoryCompensated, PaymentFailed, PaymentPaid
  <1> DEFINE o == t.order
  <1>1. /\ TaskTyped(t) /\ o \in Order /\ t.todo \in Seq(LineIndex(o))
        /\ t.flow \in Flow
        /\ t.cmd = "ReserveInventory" => t.arg \in LineIndex(o)
    BY DEF TypeOK, TaskTyped, Task
  <1>2. CASE ReserveCatches(t)
    <2>1. LineOf(t).product \in Product /\ LineOf(t).quantity \in Nat
      BY <1>1, <1>2, LinesTyped DEF LineOf, ReserveCatches
    <2>2. jobs' \in Seq(Job)
      <3>1. jobs \in Seq(Job)
        BY DEF TypeOK, InventoryTypeOK
      <3>2. AddJob("RESERVE_INVENTORY", LineOf(t).product, LineOf(t).quantity)
              => jobs' \in Seq(Job)
        BY <2>1, JobAdded DEF JobName
      <3> QED BY <1>2, <3>1, <3>2 DEF ReserveCatches
    <2>3. cache' \in [Product -> Nat]
      <3>1. CASE UNCHANGED cache
        BY <3>1 DEF TypeOK, InventoryTypeOK
      <3>2. CASE CompensateInventory(LineOf(t).product, LineOf(t).quantity)
        BY <2>1, <3>2, CounterGrows
      <3> QED BY <1>2, <3>1, <3>2 DEF ReserveCatches
    <2>4. \A u \in tasks' : TaskTyped(u)
      <3>1. TaskTyped(NewTask(t.flow, "ReleaseReservation", o))
        BY <1>1, NewTaskTyped DEF Command
      <3> QED BY <1>2, <3>1, TasksReplaced DEF ReserveCatches
    <2> QED BY <1>2, <2>2, <2>3, <2>4
      DEF ReserveCatches, Frame, TypeOK, InventoryTypeOK, tableVars, serverVars
  <1>3. CASE DependencyFails(t)
    <2>1. jobs' \in Seq(Job)
      <3>1. CASE UNCHANGED jobs
        BY <3>1 DEF TypeOK, InventoryTypeOK
      <3>2. CASE t.todo # <<>> /\ EnqueueHead(t)
        <4>1. /\ Lines[o][Head(t.todo)].product \in Product
              /\ Lines[o][Head(t.todo)].quantity \in Nat
          BY <1>1, <3>2, LineTaken
        <4> QED BY <3>2, <4>1, JobAdded DEF EnqueueHead, JobName
      <3> QED BY <1>3, <3>1, <3>2 DEF DependencyFails
    <2>2. Throws(t)
      BY <1>3 DEF DependencyFails
    <2>3. \A u \in tasks' : TaskTyped(u)
      BY <2>2 DEF Throws, TypeOK
    <2>4. /\ server' \in {"up", "starting", "loading", "booting", "down", "aborted"}
          /\ boot' \subseteq Order /\ applied' \in BOOLEAN
      BY <2>2 DEF Throws, TypeOK, InventoryTypeOK
    <2> QED BY <2>1, <2>2, <2>3, <2>4 DEF Throws, TypeOK, InventoryTypeOK, tableVars
  <1> QED BY <1>2, <1>3 DEF TaskFails

\* The worker of the queue.
LEMMA WorkerKeepsTypes ==
  ASSUME TypeOK, WorkerStep
  PROVE  TypeOK'
  <1> DEFINE job == Head(jobs)
  <1>1. /\ cache \in [Product -> Nat] /\ stock \in [Product -> Nat]
        /\ jobs \in Seq(Job) /\ applied \in BOOLEAN
    BY DEF TypeOK, InventoryTypeOK
  <1>2. jobs # <<>> => /\ Tail(jobs) \in Seq(Job)
                       /\ job.product \in Product /\ job.quantity \in Nat
                       /\ job \in Job
    <2>1. jobs # <<>> => Tail(jobs) \in Seq(Job) /\ job \in Job
      BY <1>1, HeadTailProperties
    <2> QED BY <2>1 DEF Job
  <1>3. InventoryTypeOK'
    <2>1. CASE AcknowledgeJob
      <3>1. Tail(jobs) \in Seq(Job)
        BY <2>1, <1>2 DEF AcknowledgeJob
      <3> QED BY <1>1, <2>1, <3>1 DEF AcknowledgeJob, InventoryTypeOK
    <2>2. CASE jobs # <<>> /\ HandleReserveInventory
      <3>1. stock[job.product] - job.quantity \in Nat
        BY <1>1, <1>2, <2>2 DEF HandleReserveInventory
      <3> QED BY <1>1, <1>2, <2>2, <3>1
        DEF HandleReserveInventory, PersistQuantity, InventoryTypeOK
    <2>3. CASE jobs # <<>> /\ HandleCompensateInventory
      <3>1. stock[job.product] + job.quantity \in Nat
        BY <1>1, <1>2, <2>3
      <3> QED BY <1>1, <1>2, <2>3, <3>1
        DEF HandleCompensateInventory, PersistQuantity, InventoryTypeOK
    <2>4. CASE jobs # <<>> /\ RejectReserveInventory
      <3>1. [job EXCEPT !.attempts = @ + 1] \in Job
        BY <1>2, <2>4 DEF Job
      <3>2. Append(Tail(jobs), [job EXCEPT !.attempts = @ + 1]) \in Seq(Job)
        BY <1>2, <2>4, <3>1, AppendProperties
      <3>3. jobs' \in Seq(Job)
        BY <1>2, <2>4, <3>2 DEF RejectReserveInventory
      <3> QED BY <1>1, <2>4, <3>3 DEF RejectReserveInventory, InventoryTypeOK
    <2> QED BY <2>1, <2>2, <2>3, <2>4 DEF WorkerStep, Worker, ProcessJob
  <1> QED BY <1>3 DEF WorkerStep, TypeOK, tableVars, serverVars

\* The recovery, the crashes and the requests.
LEMMA OtherStepKeepsTypes ==
  ASSUME TypeOK,
         \/ \E o \in Order : RecoverSaga(o) \/ PlaceOrder(o)
         \/ RecoveryEnds \/ Restart \/ LoaderRuns \/ Crash
         \/ \E r \in Request : RequestCancel(r) \/ RequestPayment(r)
  PROVE  TypeOK'
  <1> USE DEF OrderCreated, ProductReserved, InventoryReserved, PaymentInitiated, ReservationFailed,
              ReservationReleased, InventoryCompensated, PaymentFailed, PaymentPaid
  <1>1. ASSUME NEW o \in Order, RecoverSaga(o) PROVE TypeOK'
    <2>1. \A u \in Recovered(o) : TaskTyped(u)
      <3>1. {"saga", "boot"} \subseteq Flow
        BY DEF Flow
      <3>2. \A f \in {"saga", "boot"} : \A c \in Command \ {"ReserveInventory"} :
              TaskTyped(NewTask(f, c, o))
        BY <3>1, NewTaskTyped
      <3>3. TaskTyped(OrderCanceled("saga", o)) /\ TaskTyped(ReserveLine("saga", o, 1))
        <4>1. "CancelOrder" \in Command \ {"ReserveInventory"}
          BY DEF Command
        <4> QED BY <3>1, <4>1, NewTaskTyped, LinesTyped
      <3> QED BY <3>2, <3>3 DEF Recovered, Command
    <2>2. \A u \in tasks' : TaskTyped(u)
      BY <1>1, <2>1 DEF RecoverSaga, TypeOK
    <2> QED BY <1>1, <2>2
      DEF RecoverSaga, TypeOK, InventoryTypeOK, inventoryVars, tableVars
  <1>2. ASSUME NEW o \in Order, PlaceOrder(o) PROVE TypeOK'
    <2>1. \A u \in tasks' : TaskTyped(u)
      <3>1. "saga" \in Flow /\ "CancelOrder" \in Command \ {"ReserveInventory"}
        BY DEF Flow, Command
      <3>2. TaskTyped(ReserveLine("saga", o, 1))
        BY <3>1, NewTaskTyped, LinesTyped
      <3> QED BY <1>2, <3>2 DEF PlaceOrder, TypeOK
    <2>2. /\ saga' \in [Order -> [step : SagaStep \cup {None}, reserved : Seq(Nat \ {0})]]
          /\ \A q \in Order : saga'[q].reserved \in Seq(LineIndex(q))
      BY <1>2, SagaWritten, EmptySeq DEF PlaceOrder, SagaStep
    <2>3. orderState' \in [Order -> OrderState \cup {None}]
      BY <1>2 DEF PlaceOrder, TypeOK, OrderState
    <2> QED BY <1>2, <2>1, <2>2, <2>3
      DEF PlaceOrder, Frame, TypeOK, InventoryTypeOK, inventoryVars, serverVars
  <1>3. CASE RecoveryEnds
    BY <1>3 DEF RecoveryEnds, TypeOK, InventoryTypeOK, inventoryVars, tableVars
  <1>4. CASE Restart
    BY <1>4, MaxRestartsAssumption
      DEF Restart, TypeOK, InventoryTypeOK, inventoryVars, tableVars
  <1>5. CASE LoaderRuns
    <2>1. CASE LoaderReads
      <3>1. ReadInventory \subseteq Product \X Nat
        BY DEF ReadInventory, TypeOK, InventoryTypeOK
      <3> QED BY <2>1, <3>1 DEF LoaderReads, TypeOK, InventoryTypeOK, inventoryVars, tableVars
    <2>2. CASE LoaderSets
      <3>1. PICK read \in loading : LoadCounter(read) /\ loading' = loading \ {read}
        BY <2>2 DEF LoaderSets
      <3>2. read[1] \in Product /\ read[2] \in Nat
        BY <3>1 DEF TypeOK
      <3>3. cache' \in [Product -> Nat] /\ loading' \subseteq Product \X Nat
        BY <3>1, <3>2 DEF LoadCounter, TypeOK, InventoryTypeOK
      <3> QED BY <2>2, <3>3 DEF LoaderSets, TypeOK, InventoryTypeOK, tableVars
    <2>3. CASE LoaderEnds
      BY <2>3 DEF LoaderEnds, TypeOK, InventoryTypeOK, inventoryVars, tableVars
    <2> QED BY <1>5, <2>1, <2>2, <2>3 DEF LoaderRuns
  <1>6. CASE Crash
    BY <1>6 DEF Crash, WorkerStops, TypeOK, InventoryTypeOK, tableVars
  <1>7. ASSUME NEW r \in Request, RequestCancel(r) \/ RequestPayment(r) PROVE TypeOK'
    <2>1. About[r] \in Order /\ r \in Flow
      BY AboutAssumption DEF Flow
    <2>2. TaskTyped(NewTask(r, "CancelOrder", About[r]))
      BY <2>1, NewTaskTyped DEF Command
    <2>3. \A i \in DOMAIN payments[About[r]], result \in {"PAID", "FAILED"} :
            TaskTyped(Payment(r, About[r], i, result))
      <3>1. DOMAIN payments[About[r]] \subseteq Nat \ {0}
        BY <2>1 DEF TypeOK
      <3>2. "CancelOrder" \in Command \ {"ReserveInventory"}
        BY DEF Command
      <3> QED BY <2>1, <3>1, <3>2, NewTaskTyped
    <2>4. \A u \in tasks' : TaskTyped(u)
      BY <1>7, <2>2, <2>3 DEF RequestCancel, RequestPayment, TypeOK
    <2> QED BY <1>7, <2>4
      DEF RequestCancel, RequestPayment, Arrives, TypeOK, InventoryTypeOK,
          inventoryVars, tableVars, serverVars
  <1> QED BY <1>1, <1>2, <1>3, <1>4, <1>5, <1>6, <1>7

\* Every step preserves the type invariant.
LEMMA NextTypeOK == TypeOK /\ [Next]_vars => TypeOK'
  <1> SUFFICES ASSUME TypeOK, [Next]_vars PROVE TypeOK'
    OBVIOUS
  <1>1. CASE UNCHANGED vars
    BY <1>1 DEF vars, inventoryVars, tableVars, serverVars, TypeOK, InventoryTypeOK
  <1>2. CASE Next
    BY <1>2, TaskStepKeepsTypes, TaskFailsKeepsTypes, WorkerKeepsTypes, OtherStepKeepsTypes
      DEF Next, Progress
  <1> QED BY <1>1, <1>2

\* The tables, the counters, the queue and the commands in execution stay well
\* typed: in particular no Redis counter and no quantity ever becomes negative,
\* and no saga row lists a line the order does not have.
THEOREM TypeCorrect == Spec => []TypeOK
  <1> QED BY InitTypeOK, NextTypeOK, PTL DEF Spec

------------------------------------------------------------------------------
(* The inductive invariant.  It is taken apart into what holds of each order *)
(* and what holds of each task, so that a step of a task has to be looked at *)
(* for its own order and for the tasks it starts only.                       *)

\* What the invariant says of the rows of one order.
RowSound(o) ==
  /\ \A k \in DOMAIN saga[o].reserved :
       Lines[o][saga[o].reserved[k]].product \in granted[o]
  /\ saga[o].step = "INVENTORY_RESERVED" => Granted(o)
  /\ payments[o] # <<>> => saga[o].step \notin ReservationStep /\ Granted(o)
  /\ saga[o].step = "PAYMENT_CREATED" => payments[o] # <<>>
  /\ Len(payments[o]) <= 1
  /\ orderState[o] = "FAILED" => payments[o] = <<>> /\ saga[o].step \notin ReservationStep

\* What it says of one task.
TaskSound(u) ==
  /\ \A k \in DOMAIN u.seen : Lines[u.order][u.seen[k]].product \in granted[u.order]
  /\ u.cmd = "ReserveInventory" /\ u.pc # "start" => LineOf(u).product \in granted[u.order]
  /\ u.cmd = "InitiatePayment" => Granted(u.order)
  /\ u.cmd \in ChainCommand =>
       /\ payments[u.order] # <<>> <=> u.cmd = "MarkOrderAwaitingPayment"
       /\ orderState[u.order] # "FAILED"

Parts ==
  /\ TypeOK /\ OneChain /\ NotPlaced /\ RecoveryIsFirst
  /\ \A o \in Order : RowSound(o)
  /\ \A u \in tasks : TaskSound(u)

\* The invariant is the conjunction of these parts.
LEMMA InvariantHasParts == SagaInvariant => Parts
  <1> SUFFICES ASSUME SagaInvariant PROVE Parts
    OBVIOUS
  <1>1. \A o \in Order : RowSound(o)
    BY DEF SagaInvariant, ReservedIsGranted, GrantedBeforePayment, PaymentEndsReservation,
           FailureEndsReservation, PaymentNeedsReservation, AtMostOnePayment,
           FailedOrderHasNoPayment, RowSound, Granted
  <1>2. \A u \in tasks : TaskSound(u)
    <2> SUFFICES ASSUME NEW u \in tasks PROVE TaskSound(u)
      OBVIOUS
    <2>1. u.order \in Order
      BY DEF SagaInvariant, TypeOK, TaskTyped, Task
    <2> QED BY <2>1
      DEF SagaInvariant, ReservedIsGranted, GrantedBeforePayment, PaymentEndsReservation,
          FailureEndsReservation, TaskSound
  <1> QED BY <1>1, <1>2 DEF SagaInvariant, Parts

\* And the parts after a step give the invariant after the step.
LEMMA PartsMakeInvariant == Parts' => SagaInvariant'
  <1> SUFFICES ASSUME Parts' PROVE SagaInvariant'
    OBVIOUS
  <1>1. ReservedIsGranted' /\ GrantedBeforePayment'
    BY DEF Parts, RowSound, TaskSound, ReservedIsGranted, GrantedBeforePayment
  <1>2. PaymentEndsReservation' /\ FailureEndsReservation'
    BY DEF Parts, RowSound, TaskSound, PaymentEndsReservation, FailureEndsReservation
  <1>3. (PaymentNeedsReservation /\ AtMostOnePayment /\ FailedOrderHasNoPayment)'
    BY DEF Parts, RowSound, Granted, PaymentNeedsReservation, AtMostOnePayment,
           FailedOrderHasNoPayment
  <1> QED BY <1>1, <1>2, <1>3 DEF Parts, SagaInvariant

\* Initially nothing is placed.
LEMMA InitInvariant == Init => SagaInvariant
  <1> SUFFICES ASSUME Init PROVE SagaInvariant
    OBVIOUS
  <1>1. TypeOK
    BY InitTypeOK
  <1>2. \A o \in Order : Len(payments[o]) = 0
    BY EmptySeq DEF Init
  <1> QED BY <1>1, <1>2
    DEF Init, SagaInvariant, OneChain, NotPlaced, RecoveryIsFirst, ReservedIsGranted,
        GrantedBeforePayment, PaymentEndsReservation, FailureEndsReservation,
        PaymentNeedsReservation, AtMostOnePayment, FailedOrderHasNoPayment, None,
        ReservationStep

------------------------------------------------------------------------------
(* Steps of a task. *)

\* A task that is replaced by tasks of its own order, of which at most one
\* carries on the chain it was part of.
Succeeds(t, new) ==
  /\ Replace(t, new)
  /\ \A u \in new : u.order = t.order
  /\ \A u \in new : u.cmd \in ChainCommand => t.cmd \in ChainCommand
  /\ \A u, v \in new : {u.cmd, v.cmd} \subseteq ChainCommand => u = v

\* A step that changes the rows of one order only, and leaves them and the new
\* tasks sound.
LEMMA TaskEffect ==
  ASSUME Parts, TypeOK', NEW t \in tasks, NEW new, Succeeds(t, new),
         UNCHANGED <<server, boot>>,
         \A q \in Order \ {t.order} :
           /\ orderState'[q] = orderState[q] /\ payments'[q] = payments[q]
           /\ saga'[q] = saga[q] /\ granted'[q] = granted[q],
         granted[t.order] \subseteq granted'[t.order],
         orderState'[t.order] # None,
         \/ t.cmd \in ChainCommand
         \/ /\ payments'[t.order] # <<>> <=> payments[t.order] # <<>>
            /\ orderState'[t.order] = "FAILED" => orderState[t.order] = "FAILED",
         RowSound(t.order)',
         \A u \in new : TaskSound(u)'
  PROVE  Parts'
  <1> DEFINE o == t.order
  <1>1. o \in Order /\ \A u \in tasks : u.order \in Order
    BY DEF Parts, TypeOK, TaskTyped, Task
  <1>2. tasks' = (tasks \ {t}) \cup new
    BY DEF Succeeds, Replace
  <1>3. ASSUME NEW q \in Order PROVE RowSound(q)'
    <2>1. CASE q = o
      BY <2>1
    <2>2. CASE q # o
      <3>1. RowSound(q)
        BY DEF Parts
      <3> QED BY <2>2, <3>1 DEF RowSound, Granted
    <2> QED BY <2>1, <2>2
  <1>4. ASSUME NEW u \in tasks' PROVE TaskSound(u)'
    <2>1. CASE u \in new
      BY <2>1
    <2>2. CASE u \in tasks \ {t} /\ u.order # o
      <3>1. TaskSound(u)
        BY <2>2 DEF Parts
      <3>2. /\ granted'[u.order] = granted[u.order]
            /\ payments'[u.order] = payments[u.order]
            /\ orderState'[u.order] = orderState[u.order]
        BY <1>1, <2>2
      <3> QED BY <3>1, <3>2 DEF TaskSound, Granted, LineOf
    <2>3. CASE u \in tasks \ {t} /\ u.order = o
      <3>1. TaskSound(u)
        BY <2>3 DEF Parts
      <3>2. u.cmd \in ChainCommand => t.cmd \notin ChainCommand
        BY <2>3 DEF Parts, OneChain
      <3>3. u.cmd \in ChainCommand =>
              /\ payments'[o] # <<>> <=> payments[o] # <<>>
              /\ orderState'[o] = "FAILED" => orderState[o] = "FAILED"
        BY <3>2
      <3> QED BY <2>3, <3>1, <3>3 DEF TaskSound, Granted, LineOf
    <2> QED BY <1>2, <2>1, <2>2, <2>3
  <1>5. OneChain'
    BY <1>2 DEF Parts, OneChain, Succeeds
  <1>6. NotPlaced'
    <2> SUFFICES ASSUME NEW q \in Order, orderState'[q] = None
                 PROVE  /\ payments'[q] = <<>> /\ saga'[q].step = None
                        /\ \A u \in tasks' : u.order # q
      BY DEF NotPlaced
    <2>1. q # o
      OBVIOUS
    <2> QED BY <1>2, <2>1 DEF Parts, NotPlaced, Succeeds
  <1>7. RecoveryIsFirst'
    <2>1. server \notin {"down", "starting", "loading", "aborted"} /\ o \notin boot
      BY DEF Parts, RecoveryIsFirst
    <2>2. \A u \in tasks' : u.order \notin boot
      BY <1>2, <2>1 DEF Parts, RecoveryIsFirst, Succeeds
    <2>3. \A q \in boot : orderState'[q] # None
      BY <2>1 DEF Parts, RecoveryIsFirst, TypeOK
    <2> QED BY <2>1, <2>2, <2>3 DEF Parts, RecoveryIsFirst
  <1> QED BY <1>3, <1>4, <1>5, <1>6, <1>7 DEF Parts

\* A step that changes no row.
LEMMA QuietStep ==
  ASSUME Parts, TypeOK', NEW t \in tasks, NEW new, Succeeds(t, new),
         UNCHANGED tableVars, UNCHANGED granted, Frame,
         \A u \in new : TaskSound(u)
  PROVE  Parts'
  <1>1. t.order \in Order
    BY DEF Parts, TypeOK, TaskTyped, Task
  <1>2. orderState[t.order] # None
    BY <1>1 DEF Parts, NotPlaced
  <1>3. RowSound(t.order)'
    BY <1>1 DEF Parts, RowSound, Granted, tableVars
  <1>4. \A u \in new : TaskSound(u)'
    BY DEF TaskSound, Granted, LineOf, tableVars
  <1> QED BY <1>1, <1>2, <1>3, <1>4, TaskEffect DEF Frame, serverVars, tableVars

\* A task that starts afresh on an order.
LEMMA FreshTaskSound ==
  ASSUME NEW u, u.seen = <<>>, u.pc = "start" \/ u.cmd # "ReserveInventory",
         u.cmd = "InitiatePayment" => Granted(u.order),
         u.cmd \in ChainCommand =>
           /\ payments[u.order] # <<>> <=> u.cmd = "MarkOrderAwaitingPayment"
           /\ orderState[u.order] # "FAILED"
  PROVE  TaskSound(u)
  BY EmptySeq DEF TaskSound

\* A task that goes on with the lines it has read.
LEMMA ContinuedTaskSound ==
  ASSUME NEW t, TaskSound(t), NEW u,
         u.cmd = t.cmd, u.order = t.order,
         \A k \in DOMAIN u.seen : Lines[u.order][u.seen[k]].product \in granted[u.order],
         u.cmd = "ReserveInventory" /\ u.pc # "start" => LineOf(u).product \in granted[u.order]
  PROVE  TaskSound(u)
  BY DEF TaskSound

\* The steps of a task that change no row of the tables.
LEMMA TaskStepQuiet ==
  ASSUME Parts, TypeOK', NEW t \in tasks,
         \/ ReserveReadsSaga(t) \/ ReserveEnqueues(t) \/ ReleaseReadsSaga(t)
         \/ ReturnLine(t) \/ CompensateReadsSaga(t) \/ ReturnEnqueues(t)
         \/ ReturnPublishes(t) \/ InitiatePaymentReads(t) \/ TransactionReadsSaga(t)
         \/ CancelOrderPublishes(t) \/ PayForOrderPublishes(t)
  PROVE  Parts'
  <1> USE DEF OrderCreated, ProductReserved, InventoryReserved, PaymentInitiated, ReservationFailed,
              ReservationReleased, InventoryCompensated, PaymentFailed, PaymentPaid
  <1> DEFINE o == t.order
  <1>1. TaskSound(t) /\ RowSound(o) /\ t \in Task /\ o \in Order
    BY DEF Parts, TypeOK, TaskTyped, Task
  <1>2. UNCHANGED tableVars /\ UNCHANGED granted /\ Frame
    BY DEF ReserveReadsSaga, ReserveEnqueues, ReleaseReadsSaga, ReturnLine, CompensateReadsSaga,
           ReturnEnqueues, ReturnPublishes, InitiatePaymentReads, TransactionReadsSaga,
           CancelOrderPublishes, PayForOrderPublishes
  <1>3. ASSUME NEW u, u.cmd = t.cmd, u.order = o, Replace(t, {u}), TaskSound(u)
        PROVE  Parts'
    <2>1. Succeeds(t, {u})
      BY <1>3 DEF Succeeds
    <2> QED BY <1>2, <1>3, <2>1, QuietStep
  <1>4. ASSUME NEW u, u.order = o, Replace(t, {u}), TaskSound(u), t.cmd \in ChainCommand
        PROVE  Parts'
    <2>1. Succeeds(t, {u})
      BY <1>4 DEF Succeeds
    <2> QED BY <1>2, <1>4, <2>1, QuietStep
  <1>5. ASSUME NEW pc \in Pc, ReadSaga(t, pc), t.cmd = "ReserveInventory" => t.pc # "start"
        PROVE  Parts'
    <2> DEFINE u == [t EXCEPT !.pc = pc, !.seen = saga[o].reserved]
    <2>1. /\ u.cmd = t.cmd /\ u.order = o /\ u.seen = saga[o].reserved /\ u.arg = t.arg
          /\ Replace(t, {u})
      BY <1>1, <1>5 DEF ReadSaga, Task
    <2>2. TaskSound(u)
      <3>1. u.cmd = "ReserveInventory" => LineOf(u).product \in granted[o]
        BY <1>1, <1>5, <2>1 DEF TaskSound, LineOf
      <3>2. \A k \in DOMAIN u.seen : Lines[o][u.seen[k]].product \in granted[o]
        BY <1>1, <2>1 DEF RowSound
      <3> HIDE DEF u
      <3> QED BY <1>1, <2>1, <3>1, <3>2, ContinuedTaskSound
    <2> HIDE DEF u
    <2> QED BY <1>3, <2>1, <2>2
  <1>a. CASE ReserveReadsSaga(t) \/ CompensateReadsSaga(t) \/ InitiatePaymentReads(t)
              \/ (TransactionReadsSaga(t) /\ t.cmd # "ReserveInventory")
    BY <1>a, <1>5
      DEF ReserveReadsSaga, CompensateReadsSaga, InitiatePaymentReads, TransactionReadsSaga, Pc
  <1>b. CASE TransactionReadsSaga(t) /\ t.cmd = "ReserveInventory"
    BY <1>b, <1>5 DEF TransactionReadsSaga, Pc
  <1>c. CASE ReserveEnqueues(t)
    <2>1. /\ t.cmd = "ReserveInventory" /\ t.cmd \in ChainCommand
          /\ payments[o] = <<>> /\ orderState[o] # "FAILED"
      BY <1>c, <1>1 DEF ReserveEnqueues, TaskSound, ChainCommand
    <2>2. CASE Replace(t, {NewTask(t.flow, "InitiatePayment", o)})
               /\ Unreserved(o, t.seen) = {}
      <3>1. Granted(o)
        BY <1>1, <2>2 DEF Unreserved, TaskSound, Granted
      <3>2. TaskSound(NewTask(t.flow, "InitiatePayment", o))
        BY <2>1, <3>1, FreshTaskSound DEF NewTask, TaskWith
      <3> QED BY <1>4, <2>1, <2>2, <3>2 DEF NewTask, TaskWith
    <2>3. ASSUME NEW i \in LineIndex(o), Replace(t, {ReserveLine(t.flow, o, i)})
          PROVE  Parts'
      <3>1. TaskSound(ReserveLine(t.flow, o, i))
        BY <2>1, FreshTaskSound DEF ReserveLine, TaskWith
      <3> QED BY <1>4, <2>1, <2>3, <3>1 DEF ReserveLine, TaskWith
    <2> QED BY <1>c, <2>2, <2>3 DEF ReserveEnqueues, Unreserved
  <1>d. CASE ReleaseReadsSaga(t)
    <2> DEFINE u == [t EXCEPT !.pc = IF saga[o].reserved = <<>> THEN "returned" ELSE "returning",
                              !.seen = saga[o].reserved, !.todo = saga[o].reserved]
    <2>1. /\ u.cmd = t.cmd /\ u.order = o /\ u.seen = saga[o].reserved
          /\ t.cmd = "ReleaseReservation" /\ Replace(t, {u})
      BY <1>1, <1>d DEF ReleaseReadsSaga, Task
    <2>2. TaskSound(u)
      <3>1. \A k \in DOMAIN u.seen : Lines[o][u.seen[k]].product \in granted[o]
        BY <1>1, <2>1 DEF RowSound
      <3> HIDE DEF u
      <3> QED BY <1>1, <2>1, <3>1, ContinuedTaskSound
    <2> HIDE DEF u
    <2> QED BY <1>3, <2>1, <2>2
  <1>6. ASSUME NEW u, u.cmd = t.cmd, u.order = o, u.seen = t.seen, Replace(t, {u}),
               t.cmd # "ReserveInventory"
        PROVE  Parts'
    <2>1. TaskSound(u)
      BY <1>1, <1>6, ContinuedTaskSound DEF TaskSound
    <2> QED BY <1>3, <1>6, <2>1
  <1>e. CASE ReturnLine(t)
    <2> DEFINE u == [t EXCEPT !.todo = Tail(t.todo),
                              !.pc = IF Tail(t.todo) = <<>> THEN "returned" ELSE @]
    <2>1. u.cmd = t.cmd /\ u.order = o /\ u.seen = t.seen /\ u.arg = t.arg
      BY <1>1 DEF Task
    <2>2. Replace(t, {u})
      BY <1>e DEF ReturnLine
    <2>3. t.cmd = "ReserveInventory" => LineOf(u).product \in granted[o]
      BY <1>e, <1>1, <2>1 DEF ReturnLine, TaskSound, LineOf
    <2> HIDE DEF u
    <2>4. TaskSound(u)
      BY <1>1, <2>1, <2>3, ContinuedTaskSound DEF TaskSound
    <2> QED BY <1>3, <2>1, <2>2, <2>4
  <1>f. CASE ReturnEnqueues(t)
    <2> DEFINE u == [t EXCEPT !.todo = Tail(t.todo)]
    <2>1. u.cmd = t.cmd /\ u.order = o /\ u.seen = t.seen /\ t.cmd # "ReserveInventory"
      BY <1>f, <1>1 DEF Task, ReturnEnqueues
    <2>2. Replace(t, {u})
      BY <1>f DEF ReturnEnqueues
    <2> HIDE DEF u
    <2> QED BY <1>6, <2>1, <2>2
  <1>g. CASE ReturnPublishes(t)
    <2>1. CASE t.cmd = "ReleaseReservation"
      <3> DEFINE u == NewTask(t.flow, "MarkOrderFail", o)
      <3>1. /\ u.order = o /\ u.seen = <<>> /\ u.pc = "start" /\ u.cmd = "MarkOrderFail"
            /\ Replace(t, {u}) /\ t.cmd \in ChainCommand
        BY <1>g, <2>1 DEF ReturnPublishes, NewTask, TaskWith, ChainCommand
      <3> HIDE DEF u
      <3>2. TaskSound(u)
        BY <1>1, <2>1, <3>1, FreshTaskSound DEF TaskSound
      <3> QED BY <1>4, <3>1, <3>2
    <2>2. CASE t.cmd = "CompensateOrderInventory"
      <3> DEFINE u == NewTask(t.flow, "CancelPayment", o)
      <3>1. /\ u.order = o /\ u.seen = <<>> /\ u.pc = "start" /\ u.cmd = "CancelPayment"
            /\ Replace(t, {u}) /\ u.cmd \notin ChainCommand
        BY <1>g, <2>2 DEF ReturnPublishes, NewTask, TaskWith, ChainCommand
      <3> HIDE DEF u
      <3>2. TaskSound(u)
        BY <3>1, FreshTaskSound
      <3>3. Succeeds(t, {u})
        BY <3>1 DEF Succeeds
      <3> QED BY <1>2, <3>2, <3>3, QuietStep
    <2> QED BY <1>g, <2>1, <2>2 DEF ReturnPublishes
  <1>7. ASSUME NEW u, u.order = o, u.seen = <<>>, u.cmd \notin ChainCommand,
               Replace(t, {[t EXCEPT !.pc = "published"], u}),
               t.cmd \in {"CancelOrder", "PayForOrder"}
        PROVE  Parts'
    <2> DEFINE w == [t EXCEPT !.pc = "published"]
    <2>1. w.cmd = t.cmd /\ w.order = o /\ w.seen = t.seen
      BY <1>1 DEF Task
    <2>2. Replace(t, {w, u})
      BY <1>7
    <2> HIDE DEF w
    <2>3. t.cmd \notin ChainCommand /\ u.cmd \notin {"ReserveInventory", "InitiatePayment"}
      BY <1>7 DEF ChainCommand
    <2>4. TaskSound(w) /\ TaskSound(u)
      BY <1>1, <1>7, <2>1, <2>3, ContinuedTaskSound, FreshTaskSound DEF TaskSound
    <2>5. Succeeds(t, {w, u})
      BY <1>7, <2>1, <2>2, <2>3 DEF Succeeds
    <2> QED BY <1>2, <2>4, <2>5, QuietStep
  <1>h. CASE CancelOrderPublishes(t)
    <2> DEFINE u == OrderCanceled(ChildFlow(t), o)
    <2>1. u.order = o /\ u.seen = <<>> /\ u.cmd \notin ChainCommand
      BY DEF OrderCanceled, TaskWith, ChainCommand
    <2> QED BY <1>7, <1>h, <2>1 DEF CancelOrderPublishes
  <1>i. CASE PayForOrderPublishes(t)
    <2> DEFINE u == IF t.outcome = "PAID" THEN PaymentPaid(t.flow, o) ELSE PaymentFailed(t.flow, o)
    <2>1. u.order = o /\ u.seen = <<>> /\ u.cmd \notin ChainCommand
      BY DEF NewTask, TaskWith, ChainCommand
    <2> QED BY <1>7, <1>i, <2>1 DEF PayForOrderPublishes
  <1> QED BY <1>a, <1>b, <1>c, <1>d, <1>e, <1>f, <1>g, <1>h, <1>i

\* Redis grants a line, or refuses it and the reservation is released.
LEMMA ReserveInCacheSound ==
  ASSUME Parts, TypeOK', NEW t \in tasks, ReserveInCache(t)
  PROVE  Parts'
  <1> USE DEF OrderCreated, ProductReserved, InventoryReserved, PaymentInitiated, ReservationFailed,
              ReservationReleased, InventoryCompensated, PaymentFailed, PaymentPaid
  <1> DEFINE o == t.order
             p == LineOf(t).product
  <1>1. TaskSound(t) /\ RowSound(o) /\ t \in Task /\ o \in Order
    BY DEF Parts, TypeOK, TaskTyped, Task
  <1>2. t.cmd \in ChainCommand /\ t.cmd = "ReserveInventory"
    BY DEF ReserveInCache, ChainCommand
  <1>3. UNCHANGED tableVars /\ Frame
    BY DEF ReserveInCache
  <1>4. CASE /\ granted' = [granted EXCEPT ![o] = @ \cup {p}]
             /\ Continue(t, "granted")
    <2> DEFINE u == [t EXCEPT !.pc = "granted"]
    <2>1. /\ u.cmd = t.cmd /\ u.order = o /\ u.seen = t.seen /\ u.arg = t.arg
          /\ Replace(t, {u})
      BY <1>1, <1>4 DEF Task, Continue
    <2> HIDE DEF u
    <2>2. granted'[o] = granted[o] \cup {p} /\ \A q \in Order \ {o} : granted'[q] = granted[q]
      BY <1>1, <1>4 DEF Parts, TypeOK
    <2>3. RowSound(o)'
      BY <1>1, <1>3, <2>2 DEF RowSound, Granted, tableVars
    <2>4. TaskSound(u)'
      BY <1>1, <1>2, <1>3, <2>1, <2>2 DEF TaskSound, Granted, LineOf, tableVars
    <2>5. Succeeds(t, {u})
      BY <2>1 DEF Succeeds
    <2>6. orderState[o] # None
      BY <1>1 DEF Parts, NotPlaced
    <2> QED BY <1>2, <1>3, <2>2, <2>3, <2>4, <2>5, <2>6, TaskEffect
      DEF Frame, serverVars, tableVars
  <1>5. CASE /\ Replace(t, {NewTask(t.flow, "ReleaseReservation", o)})
             /\ UNCHANGED granted
    <2> DEFINE u == NewTask(t.flow, "ReleaseReservation", o)
    <2>1. u.cmd = "ReleaseReservation" /\ u.order = o /\ u.seen = <<>>
      BY DEF NewTask, TaskWith
    <2> HIDE DEF u
    <2>2. TaskSound(u)
      BY <1>1, <1>2, <2>1, FreshTaskSound DEF TaskSound
    <2>3. Succeeds(t, {u})
      BY <1>2, <1>5, <2>1 DEF Succeeds, u
    <2> QED BY <1>3, <1>5, <2>2, <2>3, QuietStep
  <1> QED BY <1>4, <1>5 DEF ReserveInCache

\* A step that writes a saga row, and maybe the order and its payments.
LEMMA WriteEffect ==
  ASSUME Parts, TypeOK', NEW t \in tasks, NEW new, Succeeds(t, new), Frame,
         UNCHANGED granted,
         NEW step, NEW reserved, WriteSaga(t.order, step, reserved),
         \A q \in Order \ {t.order} :
           orderState'[q] = orderState[q] /\ payments'[q] = payments[q],
         orderState'[t.order] # None,
         \/ t.cmd \in ChainCommand
         \/ /\ payments'[t.order] # <<>> <=> payments[t.order] # <<>>
            /\ orderState'[t.order] = "FAILED" => orderState[t.order] = "FAILED",
         \A k \in DOMAIN reserved : Lines[t.order][reserved[k]].product \in granted[t.order],
         step = "INVENTORY_RESERVED" => Granted(t.order),
         payments'[t.order] # <<>> => step \notin ReservationStep /\ Granted(t.order),
         step = "PAYMENT_CREATED" => payments'[t.order] # <<>>,
         Len(payments'[t.order]) <= 1,
         orderState'[t.order] = "FAILED" =>
           payments'[t.order] = <<>> /\ step \notin ReservationStep,
         \A u \in new : TaskSound(u)'
  PROVE  Parts'
  <1> DEFINE o == t.order
  <1>1. t.order \in Order
    BY DEF Parts, TypeOK, TaskTyped, Task
  <1>2. /\ saga'[o].step = step /\ saga'[o].reserved = reserved
        /\ \A q \in Order \ {o} : saga'[q] = saga[q]
    BY <1>1 DEF WriteSaga, Parts, TypeOK
  <1>3. RowSound(o)'
    BY <1>2 DEF RowSound, Granted
  <1> QED BY <1>2, <1>3, TaskEffect DEF Frame, serverVars

\* The steps that write the saga row, the order and the payment.
LEMMA TaskStepWrites ==
  ASSUME Parts, TypeOK', NEW t \in tasks,
         \/ ReservePersistsSaga(t) \/ ReturnPersistsSaga(t) \/ InitiatePaymentCommits(t)
         \/ MarkOrderCommits(t) \/ CancelOrderCommits(t)
         \/ PayForOrderCommits(t) \/ CancelPaymentCommits(t)
  PROVE  Parts'
  <1> USE DEF OrderCreated, ProductReserved, InventoryReserved, PaymentInitiated, ReservationFailed,
              ReservationReleased, InventoryCompensated, PaymentFailed, PaymentPaid
  <1> DEFINE o == t.order
  <1>1. TaskSound(t) /\ RowSound(o) /\ t \in Task /\ o \in Order
    BY DEF Parts, TypeOK, TaskTyped, Task
  <1>2. orderState[o] # None
    BY <1>1 DEF Parts, NotPlaced
  <1>3. \A k \in DOMAIN t.seen : Lines[o][t.seen[k]].product \in granted[o]
    BY <1>1 DEF TaskSound
  <1>4. payments \in [Order -> Seq(PaymentState)] /\ payments[o] \in Seq(PaymentState)
    BY <1>1 DEF Parts, TypeOK
  <1>5. Succeeds(t, {}) <=> Replace(t, {})
    BY DEF Succeeds
  <1>9. ASSUME t.cmd \in ChainCommand, payments[o] = <<>>, orderState[o] # "FAILED",
               NEW new, Succeeds(t, new), \A u \in new : TaskSound(u)',
               UNCHANGED <<orderState, payments, granted>>, Frame,
               NEW step, NEW reserved, WriteSaga(o, step, reserved),
               \A k \in DOMAIN reserved : Lines[o][reserved[k]].product \in granted[o],
               step = "INVENTORY_RESERVED" => Granted(o),
               step # "PAYMENT_CREATED", Len(payments[o]) <= 1
        PROVE  Parts'
    BY <1>2, <1>9, WriteEffect
  <1>a. CASE ReservePersistsSaga(t)
    <2> DEFINE reserved == Append(t.seen, t.arg)
               step == IF Unreserved(o, reserved) = {}
                       THEN "INVENTORY_RESERVED" ELSE "INVENTORY_RESERVING"
               u == [t EXCEPT !.pc = "saved", !.seen = reserved]
    <2>1. /\ t.cmd = "ReserveInventory" /\ t.cmd \in ChainCommand /\ t.pc # "start"
          /\ payments[o] = <<>> /\ orderState[o] # "FAILED" /\ LineOf(t).product \in granted[o]
      BY <1>a, <1>1 DEF ReservePersistsSaga, TaskSound, ChainCommand
    <2>2. /\ UNCHANGED <<orderState, payments, granted>> /\ Frame
          /\ Replace(t, {u}) /\ WriteSaga(o, step, reserved)
      BY <1>a DEF ReservePersistsSaga
    <2>3. u.cmd = t.cmd /\ u.order = o /\ u.seen = reserved /\ u.arg = t.arg
      BY <1>1 DEF Task
    <2>4. \A k \in DOMAIN reserved : Lines[o][reserved[k]].product \in granted[o]
      <3>1. t.seen \in Seq(LineIndex(o)) /\ t.arg \in LineIndex(o)
        BY <2>1 DEF Parts, TypeOK, TaskTyped
      <3>2. \A k \in DOMAIN reserved :
              \/ reserved[k] = t.arg
              \/ k \in DOMAIN t.seen /\ reserved[k] = t.seen[k]
        <4>1. /\ Len(reserved) = Len(t.seen) + 1 /\ reserved \in Seq(LineIndex(o))
              /\ \A k \in 1..Len(t.seen) : reserved[k] = t.seen[k]
              /\ reserved[Len(t.seen) + 1] = t.arg
          BY <3>1, AppendProperties
        <4>2. /\ DOMAIN t.seen = 1..Len(t.seen) /\ Len(t.seen) \in Nat
              /\ DOMAIN reserved = 1..(Len(t.seen) + 1)
          BY <3>1, <4>1, LenProperties
        <4> HIDE DEF reserved
        <4>3. \A k \in 1..(Len(t.seen) + 1) : k \in 1..Len(t.seen) \/ k = Len(t.seen) + 1
          BY <4>2
        <4> QED BY <4>1, <4>2, <4>3
      <3> QED BY <1>3, <2>1, <3>2 DEF LineOf
    <2>5. step = "INVENTORY_RESERVED" => Granted(o)
      BY <2>4 DEF Unreserved, Granted
    <2> HIDE DEF u, reserved, step
    <2>6. TaskSound(u)'
      BY <1>1, <2>1, <2>2, <2>3, <2>4 DEF TaskSound, LineOf, Granted
    <2>7. Succeeds(t, {u})
      BY <2>2, <2>3 DEF Succeeds
    <2>8. Len(payments[o]) <= 1 /\ step # "PAYMENT_CREATED"
      BY <1>1 DEF RowSound, step
    <2> QED BY <1>9, <2>1, <2>2, <2>4, <2>5, <2>6, <2>7, <2>8
  <1>b. CASE ReturnPersistsSaga(t)
    <2> DEFINE u == [t EXCEPT !.pc = "saved",
                              !.todo = IF t.cmd = "ReleaseReservation" THEN t.seen ELSE AllLines(o)]
    <2>1. /\ UNCHANGED <<orderState, payments, granted>> /\ Frame
          /\ Replace(t, {u}) /\ WriteSaga(o, "INVENTORY_COMPENSATED", t.seen)
          /\ t.cmd # "ReserveInventory"
      BY <1>b DEF ReturnPersistsSaga
    <2>2. u.cmd = t.cmd /\ u.order = o /\ u.seen = t.seen
      BY <1>1 DEF Task
    <2> HIDE DEF u
    <2>3. TaskSound(u)'
      BY <1>1, <2>1, <2>2 DEF TaskSound, Granted
    <2>4. Succeeds(t, {u})
      BY <2>1, <2>2 DEF Succeeds
    <2>5. "INVENTORY_COMPENSATED" \notin ReservationStep
      BY DEF ReservationStep
    <2> QED BY <1>1, <1>2, <1>3, <2>1, <2>3, <2>4, <2>5, WriteEffect DEF RowSound
  <1>c. CASE InitiatePaymentCommits(t)
    <2> DEFINE u == NewTask(t.flow, "MarkOrderAwaitingPayment", o)
    <2>1. /\ t.cmd = "InitiatePayment" /\ t.cmd \in ChainCommand
          /\ payments[o] = <<>> /\ orderState[o] # "FAILED" /\ Granted(o)
      BY <1>c, <1>1 DEF InitiatePaymentCommits, TaskSound, ChainCommand
    <2>2. /\ UNCHANGED <<orderState, granted>> /\ Frame
          /\ payments' = [payments EXCEPT ![o] = Append(@, "OPEN")]
          /\ Replace(t, {u}) /\ WriteSaga(o, "PAYMENT_CREATED", t.seen)
      BY <1>c DEF InitiatePaymentCommits
    <2>3. /\ u.cmd = "MarkOrderAwaitingPayment" /\ u.order = o /\ u.seen = <<>>
      BY DEF NewTask, TaskWith
    <2> HIDE DEF u
    <2>4. payments'[o] = Append(payments[o], "OPEN")
      BY <1>1, <1>4, <2>2
    <2>5. Len(payments'[o]) = 1 /\ payments'[o] # <<>>
      <3>1. Append(payments[o], "OPEN") \in Seq(PaymentState)
        BY <1>4, AppendProperties DEF PaymentState
      <3>2. Len(payments[o]) = 0 /\ Len(Append(payments[o], "OPEN")) = Len(payments[o]) + 1
        BY <1>4, <2>1, AppendProperties, EmptySeq DEF PaymentState
      <3> QED BY <2>4, <3>1, <3>2, EmptySeq
    <2>6. \A q \in Order \ {o} : payments'[q] = payments[q]
      BY <1>1, <1>4, <2>2
    <2>7. TaskSound(u)'
      BY <2>1, <2>2, <2>3, <2>5 DEF TaskSound
    <2>8. Succeeds(t, {u})
      BY <2>1, <2>2, <2>3 DEF Succeeds
    <2>9. "PAYMENT_CREATED" \notin ReservationStep
      BY DEF ReservationStep
    <2> QED BY <1>2, <1>3, <2>1, <2>2, <2>5, <2>6, <2>7, <2>8, <2>9, WriteEffect
  <1>6. \A c \in MarkingCommand \cup {"CancelOrder"} :
          /\ NewStep(c) \notin ReservationStep \cup {"PAYMENT_CREATED"}
          /\ NewOrderState(c) # None
          /\ NewOrderState(c) = "FAILED" <=> c = "MarkOrderFail"
    BY DEF MarkingCommand, NewStep, NewOrderState, ReservationStep, None
  <1>7. ASSUME t.cmd \in MarkingCommand \cup {"CancelOrder"}, WriteOrder(t), Replace(t, {})
        PROVE  Parts'
    <2>1. /\ orderState'[o] = NewOrderState(t.cmd)
          /\ \A q \in Order \ {o} : orderState'[q] = orderState[q]
      BY <1>1, <1>7 DEF WriteOrder, Parts, TypeOK
    <2>2. /\ UNCHANGED <<payments, granted>> /\ Frame
          /\ WriteSaga(o, NewStep(t.cmd), t.seen)
      BY <1>7 DEF WriteOrder
    <2>3. "INVENTORY_RESERVED" \in ReservationStep
      BY DEF ReservationStep
    <2>4. orderState'[o] = "FAILED" => payments[o] = <<>> /\ t.cmd \in ChainCommand
      BY <1>1, <1>6, <1>7, <2>1 DEF TaskSound, ChainCommand
    <2> DEFINE step == NewStep(t.cmd)
    <2>5. /\ step # "INVENTORY_RESERVED" /\ step # "PAYMENT_CREATED"
          /\ step \notin ReservationStep /\ orderState'[o] # None
      BY <1>6, <1>7, <2>1, <2>3
    <2>6. WriteSaga(o, step, t.seen)
      BY <2>2
    <2>7. /\ payments[o] # <<>> => Granted(o)
          /\ Len(payments[o]) <= 1
      BY <1>1 DEF RowSound
    <2> HIDE DEF step
    <2> QED BY <1>3, <1>5, <1>7, <2>1, <2>2, <2>4, <2>5, <2>6, <2>7, WriteEffect
  <1>d. CASE MarkOrderCommits(t)
    BY <1>d, <1>7 DEF MarkOrderCommits
  <1>e. CASE CancelOrderCommits(t)
    BY <1>e, <1>7 DEF CancelOrderCommits
  <1>8. ASSUME NEW s \in PaymentState, PaymentBecomes(o, t.arg, s), Replace(t, {}), Frame,
               UNCHANGED <<orderState, granted>>,
               NEW step, step \notin ReservationStep, step # "PAYMENT_CREATED",
               WriteSaga(o, step, t.seen)
        PROVE  Parts'
    <2>1. /\ payments'[o] = [payments[o] EXCEPT ![t.arg] = s]
          /\ \A q \in Order \ {o} : payments'[q] = payments[q]
      BY <1>1, <1>4, <1>8 DEF PaymentBecomes
    <2>2. DOMAIN payments'[o] = DOMAIN payments[o] /\ payments'[o] \in Seq(PaymentState)
      BY <1>1, <2>1 DEF TypeOK
    <2>3. /\ Len(payments'[o]) = Len(payments[o])
          /\ payments'[o] # <<>> <=> payments[o] # <<>>
      BY <1>4, <2>2, LenProperties, EmptySeq
    <2>4. step # "INVENTORY_RESERVED"
      BY <1>8 DEF ReservationStep
    <2>5. /\ payments'[o] # <<>> => Granted(o)
          /\ Len(payments'[o]) <= 1
          /\ orderState'[o] = "FAILED" => payments'[o] = <<>>
      BY <1>1, <1>8, <2>3 DEF RowSound
    <2> QED BY <1>2, <1>3, <1>5, <1>8, <2>1, <2>3, <2>4, <2>5, WriteEffect
  <1>f. CASE PayForOrderCommits(t)
    <2>1. t.outcome \in PaymentState
      BY <1>1 DEF Task, PaymentState
    <2>2. CASE t.outcome = "PAID"
      BY <1>f, <1>8, <2>1, <2>2 DEF PayForOrderCommits, ReservationStep
    <2>3. CASE t.outcome # "PAID"
      BY <1>f, <1>8, <2>1, <2>3 DEF PayForOrderCommits, ReservationStep
    <2> QED BY <2>2, <2>3
  <1>g. CASE CancelPaymentCommits(t)
    <2>1. "PAYMENT_CANCELED" \notin ReservationStep /\ "CANCELED" \in PaymentState
      BY DEF ReservationStep, PaymentState
    <2> QED BY <1>g, <1>8, <2>1 DEF CancelPaymentCommits
  <1> QED BY <1>a, <1>b, <1>c, <1>d, <1>e, <1>f, <1>g

\* An exception takes its task away, or every task.
LEMMA ThrowsSound ==
  ASSUME Parts, TypeOK', NEW t \in tasks, Throws(t)
  PROVE  Parts'
  <1>1. UNCHANGED tableVars /\ UNCHANGED granted /\ tasks' \subseteq tasks
    BY DEF Throws
  <1>2. \A o \in Order : RowSound(o)'
    BY <1>1 DEF Parts, RowSound, Granted, tableVars
  <1>3. \A u \in tasks' : TaskSound(u)'
    BY <1>1 DEF Parts, TaskSound, Granted, LineOf, tableVars
  <1>4. OneChain' /\ NotPlaced'
    BY <1>1 DEF Parts, OneChain, NotPlaced, tableVars
  <1>5. RecoveryIsFirst'
    <2>1. CASE t.flow = "boot"
      BY <2>1 DEF Throws, RecoveryIsFirst
    <2>2. CASE t.flow # "boot"
      BY <1>1, <2>2 DEF Throws, Parts, RecoveryIsFirst, tableVars
    <2> QED BY <2>1, <2>2
  <1> QED BY <1>2, <1>3, <1>4, <1>5 DEF Parts

\* The loads of the transactional handlers, which may throw.
LEMMA TaskStepLoads ==
  ASSUME Parts, TypeOK', NEW t \in tasks,
         OrderCommandLoads(t) \/ PayForOrderLoads(t) \/ CancelPaymentLoads(t)
  PROVE  Parts'
  <1> DEFINE o == t.order
  <1>1. TaskSound(t) /\ t \in Task /\ o \in Order
    BY DEF Parts, TypeOK, TaskTyped, Task
  <1>2. t.cmd # "ReserveInventory"
    BY DEF OrderCommandLoads, PayForOrderLoads, CancelPaymentLoads, MarkingCommand
  <1>3. ASSUME UNCHANGED tableVars, UNCHANGED granted, Frame,
               NEW u, u.cmd = t.cmd, u.order = o, u.seen = t.seen, Replace(t, {u})
        PROVE  Parts'
    <2>1. TaskSound(u)
      BY <1>1, <1>2, <1>3, ContinuedTaskSound DEF TaskSound
    <2>2. Succeeds(t, {u})
      BY <1>3 DEF Succeeds
    <2> QED BY <1>3, <2>1, <2>2, QuietStep
  <1>4. ASSUME UNCHANGED tableVars, UNCHANGED granted, Frame, Replace(t, {}) PROVE Parts'
    <2>1. Succeeds(t, {})
      BY <1>4 DEF Succeeds
    <2> QED BY <1>4, <2>1, QuietStep
  <1>5. CASE UNCHANGED tableVars /\ UNCHANGED granted /\ Frame /\ Continue(t, "loaded")
    <2> DEFINE u == [t EXCEPT !.pc = "loaded"]
    <2>1. u.cmd = t.cmd /\ u.order = o /\ u.seen = t.seen /\ Replace(t, {u})
      BY <1>1, <1>5 DEF Task, Continue
    <2> HIDE DEF u
    <2> QED BY <1>3, <1>5, <2>1
  <1>6. ASSUME UNCHANGED tableVars, UNCHANGED granted, Frame, NEW i,
               Replace(t, {[t EXCEPT !.pc = "loaded", !.arg = i]})
        PROVE  Parts'
    <2> DEFINE u == [t EXCEPT !.pc = "loaded", !.arg = i]
    <2>1. u.cmd = t.cmd /\ u.order = o /\ u.seen = t.seen /\ Replace(t, {u})
      BY <1>1, <1>6 DEF Task
    <2> HIDE DEF u
    <2> QED BY <1>3, <1>6, <2>1
  <1> QED BY <1>4, <1>5, <1>6, ThrowsSound
    DEF OrderCommandLoads, PayForOrderLoads, CancelPaymentLoads

\* The failures of a task.
LEMMA TaskFailsSound ==
  ASSUME Parts, TypeOK', NEW t \in tasks, TaskFails(t)
  PROVE  Parts'
  <1> USE DEF OrderCreated, ProductReserved, InventoryReserved, PaymentInitiated, ReservationFailed,
              ReservationReleased, InventoryCompensated, PaymentFailed, PaymentPaid
  <1> DEFINE o == t.order
             u == NewTask(t.flow, "ReleaseReservation", o)
  <1>1. TaskSound(t)
    BY DEF Parts
  <1>2. CASE ReserveCatches(t)
    <2>1. UNCHANGED tableVars /\ UNCHANGED granted /\ Frame /\ t.cmd = "ReserveInventory"
      BY <1>2 DEF ReserveCatches
    <2>2. u.cmd = "ReleaseReservation" /\ u.order = o /\ u.seen = <<>>
      BY DEF NewTask, TaskWith
    <2>3. Replace(t, {u}) \/ Replace(t, {})
      BY <1>2 DEF ReserveCatches
    <2> HIDE DEF u
    <2>4. TaskSound(u)
      BY <1>1, <2>1, <2>2, FreshTaskSound DEF TaskSound, ChainCommand
    <2>5. CASE Replace(t, {u})
      <3>1. Succeeds(t, {u})
        BY <2>1, <2>2, <2>5 DEF Succeeds, ChainCommand
      <3> QED BY <2>1, <2>4, <3>1, QuietStep
    <2>6. CASE Replace(t, {})
      <3>1. Succeeds(t, {})
        BY <2>6 DEF Succeeds
      <3> QED BY <2>1, <3>1, QuietStep
    <2> QED BY <2>3, <2>5, <2>6
  <1>3. CASE DependencyFails(t)
    BY <1>3, ThrowsSound DEF DependencyFails
  <1> QED BY <1>2, <1>3 DEF TaskFails

------------------------------------------------------------------------------
(* Steps of customers, of the server and of the recovery. *)

\* A task of an order that had none, or one outside of the chain.
LEMMA TaskStarts ==
  ASSUME Parts, TypeOK', NEW u, TaskSound(u), u.order \in Order,
         tasks' = tasks \cup {u},
         UNCHANGED tableVars, UNCHANGED granted, UNCHANGED server,
         server \notin {"down", "starting", "loading", "aborted"},
         boot' \subseteq boot, u.order \notin boot',
         orderState[u.order] # None,
         u.cmd \notin ChainCommand \/ \A v \in tasks : v.order # u.order
  PROVE  Parts'
  <1>1. \A o \in Order : RowSound(o)'
    BY DEF Parts, RowSound, Granted, tableVars
  <1>2. \A v \in tasks' : TaskSound(v)'
    BY DEF Parts, TaskSound, Granted, LineOf, tableVars
  <1>3. OneChain'
    BY DEF Parts, OneChain
  <1>4. NotPlaced'
    BY DEF Parts, NotPlaced, tableVars
  <1>5. RecoveryIsFirst'
    BY DEF Parts, RecoveryIsFirst, tableVars
  <1> QED BY <1>1, <1>2, <1>3, <1>4, <1>5 DEF Parts

\* A step of the server that starts no task.
LEMMA ServerMoves ==
  ASSUME Parts, TypeOK', tasks' \subseteq tasks,
         UNCHANGED tableVars, UNCHANGED granted,
         server' \in {"down", "starting", "loading", "aborted"} => tasks' = {},
         server' # "booting" => boot' = {},
         \A v \in tasks' : v.order \notin boot',
         \A o \in boot' : orderState[o] # None
  PROVE  Parts'
  <1>1. \A o \in Order : RowSound(o)'
    BY DEF Parts, RowSound, Granted, tableVars
  <1>2. \A v \in tasks' : TaskSound(v)'
    BY DEF Parts, TaskSound, Granted, LineOf, tableVars
  <1>3. OneChain' /\ NotPlaced'
    BY DEF Parts, OneChain, NotPlaced, tableVars
  <1>4. RecoveryIsFirst'
    BY DEF RecoveryIsFirst, tableVars
  <1> QED BY <1>1, <1>2, <1>3, <1>4 DEF Parts

\* No handler of the saga writes the step of the optimistic reservation.
LEMMA StepIsKnown ==
  ASSUME TypeOK, NEW o \in Order
  PROVE  saga[o].step # "INVENTORY_RESERVE_FAILED"
  BY DEF TypeOK, SagaStep, None

\* The recovery hands a saga to the command that follows its step.
LEMMA RecoverSagaSound ==
  ASSUME Parts, TypeOK', NEW o \in Order, RecoverSaga(o)
  PROVE  Parts'
  <1> USE DEF OrderCreated, ProductReserved, InventoryReserved, PaymentInitiated, ReservationFailed,
              ReservationReleased, InventoryCompensated, PaymentFailed, PaymentPaid
  <1>1. /\ RowSound(o) /\ orderState[o] # None /\ \A v \in tasks : v.order # o
        /\ server = "booting" /\ boot' = boot \ {o} /\ tasks' = tasks \cup Recovered(o)
        /\ UNCHANGED tableVars /\ UNCHANGED granted /\ UNCHANGED server
    BY DEF RecoverSaga, Parts, RecoveryIsFirst
  <1>2. ASSUME NEW u, Recovered(o) = {u}, u.order = o, TaskSound(u)
        PROVE  Parts'
    BY <1>1, <1>2, TaskStarts
  <1>3. CASE Recovered(o) = {}
    <2>1. tasks' = tasks
      BY <1>1, <1>3
    <2> QED BY <1>1, <2>1, ServerMoves DEF Parts, RecoveryIsFirst
  <1>4. saga[o].step \in ReservationStep => payments[o] = <<>> /\ orderState[o] # "FAILED"
    BY <1>1 DEF RowSound
  <1>5. CASE saga[o].step = "INITIATED"
    <2> DEFINE u == ReserveLine("saga", o, 1)
    <2>1. /\ Recovered(o) = {u} /\ u.order = o /\ u.seen = <<>> /\ u.pc = "start"
          /\ u.cmd = "ReserveInventory"
      BY <1>5 DEF Recovered, ReserveLine, TaskWith
    <2> HIDE DEF u
    <2>2. TaskSound(u)
      BY <1>4, <1>5, <2>1, FreshTaskSound DEF ReservationStep
    <2> QED BY <1>2, <2>1, <2>2
  <1>6. CASE saga[o].step = "INVENTORY_RESERVED"
    <2> DEFINE u == NewTask("saga", "InitiatePayment", o)
    <2>1. /\ Recovered(o) = {u} /\ u.order = o /\ u.seen = <<>> /\ u.pc = "start"
          /\ u.cmd = "InitiatePayment"
      BY <1>6 DEF Recovered, NewTask, TaskWith
    <2> HIDE DEF u
    <2>2. TaskSound(u)
      BY <1>1, <1>4, <1>6, <2>1, FreshTaskSound DEF ReservationStep, RowSound
    <2> QED BY <1>2, <2>1, <2>2
  <1>7. CASE saga[o].step = "PAYMENT_CREATED"
    <2> DEFINE u == NewTask("saga", "MarkOrderAwaitingPayment", o)
    <2>1. /\ Recovered(o) = {u} /\ u.order = o /\ u.seen = <<>> /\ u.pc = "start"
          /\ u.cmd = "MarkOrderAwaitingPayment"
      BY <1>7 DEF Recovered, NewTask, TaskWith
    <2> HIDE DEF u
    <2>2. TaskSound(u)
      BY <1>1, <1>7, <2>1, FreshTaskSound DEF RowSound
    <2> QED BY <1>2, <2>1, <2>2
  <1>8. ASSUME NEW f, NEW c \in {"CancelPayment", "CancelOrder", "MarkOrderAsComplete"},
               Recovered(o) = {NewTask(f, c, o)}
        PROVE  Parts'
    <2> DEFINE u == NewTask(f, c, o)
    <2>1. u.order = o /\ u.seen = <<>> /\ u.pc = "start" /\ u.cmd = c
      BY DEF NewTask, TaskWith
    <2>2. Recovered(o) = {u}
      BY <1>8
    <2> HIDE DEF u
    <2>3. TaskSound(u)
      BY <2>1, FreshTaskSound DEF ChainCommand
    <2> QED BY <1>2, <2>1, <2>2, <2>3
  <1>9. CASE saga[o].step = "ORDER_CANCELED"
    <2> DEFINE u == OrderCanceled("saga", o)
    <2>1. /\ Recovered(o) = {u} /\ u.order = o /\ u.seen = <<>>
          /\ u.cmd = "CompensateOrderInventory"
      BY <1>9 DEF Recovered, OrderCanceled, TaskWith
    <2> HIDE DEF u
    <2>2. TaskSound(u)
      BY <2>1, FreshTaskSound DEF ChainCommand
    <2> QED BY <1>2, <2>1, <2>2
  <1>10. CASE saga[o].step = "INVENTORY_COMPENSATED" /\ payments[o] # <<>>
    BY <1>8, <1>10 DEF Recovered
  <1>11. CASE saga[o].step = "PAYMENT_FAILED"
    BY <1>8, <1>11 DEF Recovered
  <1>12. CASE saga[o].step = "PAYMENT_SUCCEEDED"
    BY <1>8, <1>12 DEF Recovered
  <1>13. saga[o].step # "INVENTORY_RESERVE_FAILED"
    BY StepIsKnown DEF Parts
  <1> QED BY <1>3, <1>5, <1>6, <1>7, <1>9, <1>10, <1>11, <1>12, <1>13 DEF Recovered

\* The other steps.
LEMMA OtherStepSound ==
  ASSUME Parts, TypeOK',
         \/ \E o \in Order : RecoverSaga(o) \/ PlaceOrder(o)
         \/ RecoveryEnds \/ Restart \/ LoaderRuns \/ Crash \/ WorkerStep
         \/ \E r \in Request : RequestCancel(r) \/ RequestPayment(r)
  PROVE  Parts'
  <1> USE DEF OrderCreated, ProductReserved, InventoryReserved, PaymentInitiated, ReservationFailed,
              ReservationReleased, InventoryCompensated, PaymentFailed, PaymentPaid
  <1>1. ASSUME NEW o \in Order, PlaceOrder(o) PROVE Parts'
    <2> DEFINE u == ReserveLine("saga", o, 1)
    <2>1. /\ u.order = o /\ u.seen = <<>> /\ u.pc = "start" /\ u.cmd = "ReserveInventory"
      BY DEF ReserveLine, TaskWith
    <2>2. /\ tasks' = tasks \cup {u} /\ server = "up" /\ orderState[o] = None
          /\ orderState' = [orderState EXCEPT ![o] = "PENDING"]
          /\ WriteSaga(o, "INITIATED", <<>>)
          /\ UNCHANGED <<payments, granted, server, boot>>
      BY <1>1 DEF PlaceOrder, Frame, serverVars
    <2> HIDE DEF u
    <2>3. /\ orderState'[o] = "PENDING"
          /\ \A q \in Order \ {o} : orderState'[q] = orderState[q] /\ saga'[q] = saga[q]
          /\ saga'[o].step = "INITIATED" /\ saga'[o].reserved = <<>>
      BY <2>2 DEF WriteSaga, Parts, TypeOK
    <2>4. payments[o] = <<>> /\ \A v \in tasks : v.order # o
      BY <2>2 DEF Parts, NotPlaced
    <2>5. \A v \in tasks : v.order \in Order
      BY DEF Parts, TypeOK, TaskTyped, Task
    <2>6. ASSUME NEW q \in Order PROVE RowSound(q)'
      <3>1. CASE q = o
        BY <2>2, <2>3, <2>4, <3>1, EmptySeq DEF RowSound
      <3>2. CASE q # o
        BY <2>2, <2>3, <3>2 DEF Parts, RowSound, Granted
      <3> QED BY <3>1, <3>2
    <2>7. ASSUME NEW v \in tasks' PROVE TaskSound(v)'
      <3>1. CASE v = u
        BY <2>1, <2>2, <2>3, <2>4, <3>1, EmptySeq DEF TaskSound
      <3>2. CASE v \in tasks
        BY <2>2, <2>3, <2>4, <2>5, <3>2 DEF Parts, TaskSound, Granted, LineOf
      <3> QED BY <2>2, <3>1, <3>2
    <2>8. OneChain'
      BY <2>1, <2>2, <2>4 DEF Parts, OneChain
    <2>9. NotPlaced'
      <3>1. "PENDING" # None
        BY DEF None
      <3> QED BY <2>1, <2>2, <2>3, <3>1 DEF Parts, NotPlaced
    <2>10. RecoveryIsFirst'
      BY <2>2 DEF Parts, RecoveryIsFirst
    <2> QED BY <2>6, <2>7, <2>8, <2>9, <2>10 DEF Parts
  <1>2. CASE RecoveryEnds
    BY <1>2, ServerMoves DEF RecoveryEnds, Parts, RecoveryIsFirst
  <1>3. CASE Restart
    BY <1>3, ServerMoves DEF Restart, Parts, RecoveryIsFirst
  <1>4. CASE LoaderRuns
    <2>1. \A o \in boot' : orderState[o] # None
      BY <1>4 DEF LoaderRuns, LoaderReads, LoaderSets, LoaderEnds, Parts, NotPlaced, RecoveryIsFirst
    <2>2. CASE LoaderReads \/ LoaderSets
      BY <1>4, <2>1, <2>2, ServerMoves DEF LoaderReads, LoaderSets, Parts, RecoveryIsFirst
    <2>3. CASE LoaderEnds
      BY <1>4, <2>1, <2>3, ServerMoves DEF LoaderEnds, Parts, RecoveryIsFirst
    <2> QED BY <1>4, <2>2, <2>3 DEF LoaderRuns
  <1>5. CASE Crash
    BY <1>5, ServerMoves DEF Crash
  <1>6. CASE WorkerStep
    BY <1>6, ServerMoves DEF WorkerStep, serverVars, tableVars, Parts, RecoveryIsFirst
  <1>7. ASSUME NEW r \in Request, RequestCancel(r) \/ RequestPayment(r) PROVE Parts'
    <2>1. /\ About[r] \in Order /\ server = "up" /\ boot = {} /\ boot' = {}
          /\ UNCHANGED tableVars /\ UNCHANGED granted /\ UNCHANGED server
      BY <1>7, AboutAssumption
        DEF RequestCancel, RequestPayment, Arrives, serverVars, Parts, RecoveryIsFirst
    <2>2. orderState[About[r]] # None
      BY <1>7, CustomerAssumption DEF RequestCancel, RequestPayment, OrderState, None
    <2>3. PICK u : /\ tasks' = tasks \cup {u} /\ u.order = About[r] /\ u.seen = <<>>
                   /\ u.cmd \in {"CancelOrder", "PayForOrder"}
      <3>1. CASE RequestCancel(r)
        <4> DEFINE u == NewTask(r, "CancelOrder", About[r])
        <4>1. u.order = About[r] /\ u.seen = <<>> /\ u.cmd = "CancelOrder"
          BY DEF NewTask, TaskWith
        <4>2. tasks' = tasks \cup {u}
          BY <3>1 DEF RequestCancel
        <4> QED BY <4>1, <4>2
      <3>2. CASE RequestPayment(r)
        <4>1. PICK i, result : tasks' = tasks \cup {Payment(r, About[r], i, result)}
          BY <3>2 DEF RequestPayment
        <4> DEFINE u == Payment(r, About[r], i, result)
        <4>2. u.order = About[r] /\ u.seen = <<>> /\ u.cmd = "PayForOrder"
          BY DEF Payment, TaskWith
        <4> QED BY <4>1, <4>2
      <3> QED BY <1>7, <3>1, <3>2
    <2>4. u.cmd \notin ChainCommand
      BY <2>3 DEF ChainCommand
    <2>5. TaskSound(u)
      BY <2>3, <2>4, FreshTaskSound
    <2> QED BY <2>1, <2>2, <2>3, <2>4, <2>5, TaskStarts
  <1> QED BY <1>1, <1>2, <1>3, <1>4, <1>5, <1>6, <1>7, RecoverSagaSound

------------------------------------------------------------------------------
(* The theorems. *)

\* Every step preserves the invariant.
LEMMA NextInvariant == SagaInvariant /\ [Next]_vars => SagaInvariant'
  <1> SUFFICES ASSUME SagaInvariant, [Next]_vars PROVE SagaInvariant'
    OBVIOUS
  <1>1. Parts /\ TypeOK
    BY InvariantHasParts DEF Parts
  <1>2. TypeOK'
    BY <1>1, NextTypeOK
  <1>3. CASE UNCHANGED vars
    <2>1. UNCHANGED tableVars /\ UNCHANGED granted /\ UNCHANGED <<tasks, server, boot>>
      BY <1>3 DEF vars, serverVars
    <2>2. Parts'
      BY <1>1, <1>2, <2>1, ServerMoves DEF Parts, RecoveryIsFirst
    <2> QED BY <2>2, PartsMakeInvariant
  <1>4. ASSUME NEW t \in tasks, TaskStep(t) PROVE Parts'
    BY <1>1, <1>2, <1>4, TaskStepQuiet, TaskStepWrites, TaskStepLoads, ReserveInCacheSound
      DEF TaskStep
  <1>5. CASE Next
    <2>1. Parts'
      BY <1>1, <1>2, <1>4, <1>5, TaskFailsSound, OtherStepSound DEF Next, Progress
    <2> QED BY <2>1, PartsMakeInvariant
  <1> QED BY <1>3, <1>5

\* The inductive invariant of the order processing saga holds whatever customers,
\* crashes and failing dependencies do.
THEOREM InvariantHolds == Spec => []SagaInvariant
  <1> QED BY InitInvariant, NextInvariant, PTL DEF Spec

\* No payment is opened before Redis has granted every product of the order.
THEOREM PaymentsAreBacked == Spec => []PaymentNeedsReservation
  <1>1. SagaInvariant => PaymentNeedsReservation
    BY DEF SagaInvariant
  <1> QED BY <1>1, InvariantHolds, PTL

\* An order has at most one payment row, although the recovery publishes the
\* events of the saga again.
THEOREM PaymentsAreUnique == Spec => []AtMostOnePayment
  <1>1. SagaInvariant => AtMostOnePayment
    BY DEF SagaInvariant
  <1> QED BY <1>1, InvariantHolds, PTL

\* An order that failed was never offered for payment.
THEOREM FailureExcludesPayment == Spec => []FailedOrderHasNoPayment
  <1>1. SagaInvariant => FailedOrderHasNoPayment
    BY DEF SagaInvariant
  <1> QED BY <1>1, InvariantHolds, PTL

\* No step removes a payment.
LEMMA PaymentsStay ==
  ASSUME TypeOK, [Next]_vars, NEW o \in Order, payments[o] # <<>>
  PROVE  payments'[o] # <<>>
  <1>1. payments \in [Order -> Seq(PaymentState)] /\ payments[o] \in Seq(PaymentState)
    BY DEF TypeOK
  <1>2. CASE UNCHANGED payments
    BY <1>2
  <1>3. ASSUME NEW t \in tasks, InitiatePaymentCommits(t)
        PROVE  payments'[o] # <<>>
    <2>1. Append(payments[o], "OPEN") # <<>>
      BY <1>1, AppendProperties DEF PaymentState
    <2> QED BY <1>1, <1>3, <2>1 DEF InitiatePaymentCommits
  <1>4. ASSUME NEW q, NEW i, NEW s, PaymentBecomes(q, i, s)
        PROVE  payments'[o] # <<>>
    <2>1. DOMAIN payments'[o] = DOMAIN payments[o]
      BY <1>1, <1>4 DEF PaymentBecomes
    <2>2. DOMAIN payments[o] # {}
      <3>1. Len(payments[o]) \in Nat /\ Len(payments[o]) # 0
        BY <1>1, EmptySeq, LenProperties
      <3>2. 1 \in 1..Len(payments[o])
        BY <3>1
      <3> QED BY <1>1, <3>2, LenProperties
    <2>3. DOMAIN <<>> = {}
      OBVIOUS
    <2> QED BY <2>1, <2>2, <2>3
  <1>5. ASSUME NEW t \in tasks, TaskStep(t) PROVE payments'[o] # <<>>
    <2>1. CASE PayForOrderCommits(t) \/ CancelPaymentCommits(t)
      BY <1>4, <2>1 DEF PayForOrderCommits, CancelPaymentCommits
    <2>2. CASE InitiatePaymentCommits(t)
      BY <1>3, <2>2
    <2>3. CASE ~(PayForOrderCommits(t) \/ CancelPaymentCommits(t) \/ InitiatePaymentCommits(t))
      <3>1. UNCHANGED payments
        BY <1>5, <2>3
          DEF TaskStep, ReserveInCache, ReserveReadsSaga, ReservePersistsSaga, ReserveEnqueues,
              ReleaseReadsSaga, ReturnLine, CompensateReadsSaga, ReturnPersistsSaga,
              ReturnEnqueues, ReturnPublishes, InitiatePaymentReads, TransactionReadsSaga,
              OrderCommandLoads, MarkOrderCommits, CancelOrderPublishes, CancelOrderCommits,
              WriteOrder, PayForOrderLoads, PayForOrderPublishes, CancelPaymentLoads, Throws,
              tableVars
      <3> QED BY <1>2, <3>1
    <2> QED BY <2>1, <2>2, <2>3
  <1>6. CASE Next
    <2>1. CASE \E t \in tasks : TaskStep(t)
      BY <1>5, <2>1
    <2>2. CASE ~\E t \in tasks : TaskStep(t)
      BY <1>2, <1>6, <2>2
        DEF Next, Progress, TaskFails, ReserveCatches, DependencyFails, Throws, WorkerStep,
            RecoverSaga, RecoveryEnds, Restart, LoaderRuns, LoaderReads, LoaderSets, LoaderEnds, PlaceOrder, RequestCancel,
            RequestPayment, Arrives, Crash, tableVars
    <2> QED BY <2>1, <2>2
  <1> QED BY <1>2, <1>6 DEF vars, tableVars

\* Once a payment exists, no step takes the saga row back to a step from which
\* the recovery would open a second one.
THEOREM ReservationIsNotRepeated == Spec => NoReturnToReservation
  <1>1. SagaInvariant /\ SagaInvariant' /\ [Next]_vars =>
          [\A o \in Order :
             payments[o] # <<>> =>
               saga'[o].step \notin {"INITIATED", "INVENTORY_RESERVING", "INVENTORY_RESERVED"}]_vars
    <2> SUFFICES ASSUME SagaInvariant, SagaInvariant', [Next]_vars,
                        NEW o \in Order, payments[o] # <<>>
                 PROVE  saga'[o].step \notin ReservationStep
      BY DEF ReservationStep
    <2>1. payments'[o] # <<>>
      BY PaymentsStay DEF SagaInvariant
    <2> QED BY <2>1 DEF SagaInvariant, PaymentEndsReservation
  <1> QED BY <1>1, InvariantHolds, PTL DEF Spec, NoReturnToReservation

------------------------------------------------------------------------------
(* The phases of a saga, and what follows for the stock, the reservations    *)
(* and the payments. *)

------------------------------------------------------------------------------
(* First layer. *)

\* What the invariant says of a task and of its order.
LEMMA TaskFacts ==
  ASSUME LinesInvariant, NEW t \in tasks
  PROVE  /\ t \in Task /\ TaskTyped(t) /\ TaskReserves(t)
         /\ t.order \in Order /\ RowReserves(t.order) /\ orderState[t.order] # None
         /\ saga[t.order].reserved \in Seq(LineIndex(t.order))
         /\ t.cmd \in ChainCommand =>
              /\ payments[t.order] # <<>> <=> t.cmd = "MarkOrderAwaitingPayment"
              /\ \A u \in tasks : u.order = t.order => u = t
  <1>1. SagaInvariant /\ TypeOK /\ TaskTyped(t)
    BY DEF LinesInvariant, SagaInvariant, TypeOK
  <1>2. t \in Task /\ t.order \in Order
    BY <1>1 DEF TaskTyped, Task
  <1>3. /\ orderState[t.order] # None
        /\ t.cmd \in ChainCommand => (payments[t.order] # <<>> <=> t.cmd = "MarkOrderAwaitingPayment")
    BY <1>1, <1>2 DEF SagaInvariant, NotPlaced, PaymentEndsReservation
  <1>4. TaskReserves(t) /\ RowReserves(t.order)
    BY <1>2 DEF LinesInvariant
  <1>5. ASSUME t.cmd \in ChainCommand, NEW u \in tasks, u.order = t.order PROVE u = t
    <2>1. u.cmd \in ChainCommand
      BY <1>4, <1>5 DEF LinesInvariant, TaskReserves
    <2> QED BY <1>1, <1>5, <2>1 DEF SagaInvariant, OneChain
  <1> QED BY <1>1, <1>2, <1>3, <1>4, <1>5 DEF TypeOK

\* A step of a task leaves the tasks and rows of other orders alone.  Commands
\* outside of the chain leave the reserved lines alone and no order PENDING.
LEMMA LinesEffect ==
  ASSUME LinesInvariant, SagaInvariant', NEW t \in tasks, NEW new, Replace(t, new),
         \A u \in new : u.order = t.order,
         \A q \in Order \ {t.order} :
           orderState'[q] = orderState[q] /\ payments'[q] = payments[q] /\ saga'[q] = saga[q],
         \/ t.cmd \in ChainCommand
         \/ saga'[t.order].reserved = saga[t.order].reserved /\ orderState'[t.order] # "PENDING",
         RowReserves(t.order)',
         \A u \in new : TaskReserves(u)'
  PROVE  LinesInvariant'
  <1> DEFINE o == t.order
  <1>1. /\ tasks' = (tasks \ {t}) \cup new
        /\ \A u \in tasks : u.order \in Order
    BY TaskFacts DEF Replace
  <1>2. ASSUME NEW q \in Order PROVE RowReserves(q)'
    <2>1. CASE q = o
      BY <2>1
    <2>2. CASE q # o
      <3>1. RowReserves(q)
        BY DEF LinesInvariant
      <3> QED BY <2>2, <3>1 DEF RowReserves, AllReserved
    <2> QED BY <2>1, <2>2
  <1>3. ASSUME NEW u \in tasks \ {t} PROVE TaskReserves(u)'
    <2>1. TaskReserves(u) /\ u.order \in Order
      BY <1>1 DEF LinesInvariant
    <2>2. CASE u.order # o
      <3>1. saga'[u.order] = saga[u.order] /\ orderState'[u.order] = orderState[u.order]
        BY <2>1, <2>2
      <3> QED BY <2>1, <3>1 DEF TaskReserves
    <2>3. CASE u.order = o
      <3>1. t.cmd \notin ChainCommand
        BY <2>3, TaskFacts
      <3>2. orderState[o] # "PENDING"
        BY <3>1, TaskFacts DEF TaskReserves
      <3>3. u.cmd \notin ChainCommand
        BY <2>1, <2>3, <3>2 DEF TaskReserves
      <3> QED BY <2>1, <2>3, <3>1, <3>3 DEF TaskReserves, ChainCommand
    <2> QED BY <2>2, <2>3
  <1> QED BY <1>1, <1>2, <1>3 DEF LinesInvariant

\* A step that changes no row.
LEMMA LinesQuiet ==
  ASSUME LinesInvariant, SagaInvariant', NEW t \in tasks, NEW new, Replace(t, new),
         \A u \in new : u.order = t.order, UNCHANGED tableVars,
         \A u \in new : TaskReserves(u)
  PROVE  LinesInvariant'
  <1>1. \A u \in new : TaskReserves(u)'
    BY DEF TaskReserves, tableVars
  <1>2. RowReserves(t.order)'
    BY TaskFacts DEF RowReserves, AllReserved, tableVars
  <1>3. t.cmd \in ChainCommand \/ orderState[t.order] # "PENDING"
    BY TaskFacts DEF TaskReserves
  <1> QED BY <1>1, <1>2, <1>3, LinesEffect DEF tableVars

\* Task t goes on as a task that differs from it in these fields.
GoesOn(t, pc, arg, seen, todo) ==
  \E u : /\ Replace(t, {u})
         /\ u.flow = t.flow /\ u.cmd = t.cmd /\ u.order = t.order /\ u.outcome = t.outcome
         /\ u.pc = pc /\ u.arg = arg /\ u.seen = seen /\ u.todo = todo

\* Task t ends, and its event starts a command that works on arg.
LeadsTo(t, c, arg) ==
  \E u : /\ Replace(t, {u})
         /\ u.flow = t.flow /\ u.cmd = c /\ u.order = t.order
         /\ u.pc = "start" /\ u.arg = arg

\* What becomes of a task in each of its steps.
LEMMA StepShapes ==
  ASSUME NEW t \in Task
  PROVE  /\ \A pc : Continue(t, pc) => GoesOn(t, pc, t.arg, t.seen, t.todo)
         /\ \A pc : ReadSaga(t, pc) => GoesOn(t, pc, t.arg, saga[t.order].reserved, t.todo)
         /\ \A c : Replace(t, {NewTask(t.flow, c, t.order)}) => LeadsTo(t, c, 1)
         /\ \A i : Replace(t, {ReserveLine(t.flow, t.order, i)}) => LeadsTo(t, "ReserveInventory", i)
         /\ ReservePersistsSaga(t) =>
              GoesOn(t, "saved", t.arg, Append(t.seen, t.arg), t.todo)
         /\ ReleaseReadsSaga(t) =>
              GoesOn(t, IF saga[t.order].reserved = <<>> THEN "returned" ELSE "returning",
                     t.arg, saga[t.order].reserved, saga[t.order].reserved)
         /\ ReturnLine(t) =>
              GoesOn(t, IF Tail(t.todo) = <<>> THEN "returned" ELSE "returning",
                     t.arg, t.seen, Tail(t.todo))
         /\ ReturnPersistsSaga(t) =>
              GoesOn(t, "saved", t.arg, t.seen,
                     IF t.cmd = "ReleaseReservation" THEN t.seen ELSE AllLines(t.order))
         /\ ReturnEnqueues(t) => GoesOn(t, "saved", t.arg, t.seen, Tail(t.todo))
         /\ \A i : Replace(t, {[t EXCEPT !.pc = "loaded", !.arg = i]}) =>
              GoesOn(t, "loaded", i, t.seen, t.todo)
  <1>a. ASSUME NEW u, Replace(t, {u}), u.flow = t.flow, u.cmd = t.cmd, u.order = t.order,
               u.outcome = t.outcome
        PROVE  GoesOn(t, u.pc, u.arg, u.seen, u.todo)
    BY <1>a DEF GoesOn
  <1>b. ASSUME NEW u, Replace(t, {u}), u.flow = t.flow, u.order = t.order, u.pc = "start"
        PROVE  LeadsTo(t, u.cmd, u.arg)
    BY <1>b DEF LeadsTo
  <1>1. ASSUME NEW pc, Continue(t, pc) PROVE GoesOn(t, pc, t.arg, t.seen, t.todo)
    <2> DEFINE u == [t EXCEPT !.pc = pc]
    <2>1. /\ Replace(t, {u})
          /\ u.flow = t.flow /\ u.cmd = t.cmd /\ u.order = t.order /\ u.outcome = t.outcome
          /\ u.pc = pc /\ u.arg = t.arg /\ u.seen = t.seen /\ u.todo = t.todo
      BY <1>1 DEF Continue, Task
    <2> HIDE DEF u
    <2> QED BY <1>a, <2>1
  <1>2. ASSUME NEW pc, ReadSaga(t, pc)
        PROVE  GoesOn(t, pc, t.arg, saga[t.order].reserved, t.todo)
    <2> DEFINE u == [t EXCEPT !.pc = pc, !.seen = saga[t.order].reserved]
    <2>1. /\ Replace(t, {u})
          /\ u.flow = t.flow /\ u.cmd = t.cmd /\ u.order = t.order /\ u.outcome = t.outcome
          /\ u.pc = pc /\ u.arg = t.arg /\ u.seen = saga[t.order].reserved /\ u.todo = t.todo
      BY <1>2 DEF ReadSaga, Task
    <2> HIDE DEF u
    <2> QED BY <1>a, <2>1
  <1>3. ASSUME NEW c, Replace(t, {NewTask(t.flow, c, t.order)}) PROVE LeadsTo(t, c, 1)
    <2> DEFINE u == NewTask(t.flow, c, t.order)
    <2>1. /\ Replace(t, {u})
          /\ u.flow = t.flow /\ u.order = t.order /\ u.pc = "start"
          /\ u.cmd = c /\ u.arg = 1
      BY <1>3 DEF NewTask, TaskWith
    <2> HIDE DEF u
    <2> QED BY <1>b, <2>1
  <1>4. ASSUME NEW i, Replace(t, {ReserveLine(t.flow, t.order, i)})
        PROVE  LeadsTo(t, "ReserveInventory", i)
    <2> DEFINE u == ReserveLine(t.flow, t.order, i)
    <2>1. /\ Replace(t, {u})
          /\ u.flow = t.flow /\ u.order = t.order /\ u.pc = "start"
          /\ u.cmd = "ReserveInventory" /\ u.arg = i
      BY <1>4 DEF ReserveLine, TaskWith
    <2> HIDE DEF u
    <2> QED BY <1>b, <2>1
  <1>5. ASSUME ReservePersistsSaga(t)
        PROVE  GoesOn(t, "saved", t.arg, Append(t.seen, t.arg), t.todo)
    <2> DEFINE u == [t EXCEPT !.pc = "saved", !.seen = Append(t.seen, t.arg)]
    <2>1. /\ Replace(t, {u})
          /\ u.flow = t.flow /\ u.cmd = t.cmd /\ u.order = t.order /\ u.outcome = t.outcome
          /\ u.pc = "saved" /\ u.arg = t.arg /\ u.seen = Append(t.seen, t.arg) /\ u.todo = t.todo
      BY <1>5 DEF ReservePersistsSaga, Task
    <2> HIDE DEF u
    <2> QED BY <1>a, <2>1
  <1>6. ASSUME ReleaseReadsSaga(t)
        PROVE  GoesOn(t, IF saga[t.order].reserved = <<>> THEN "returned" ELSE "returning",
                      t.arg, saga[t.order].reserved, saga[t.order].reserved)
    <2> DEFINE u == [t EXCEPT !.pc = IF saga[t.order].reserved = <<>> THEN "returned" ELSE "returning",
                             !.seen = saga[t.order].reserved, !.todo = saga[t.order].reserved]
    <2>1. /\ Replace(t, {u})
          /\ u.flow = t.flow /\ u.cmd = t.cmd /\ u.order = t.order /\ u.outcome = t.outcome
          /\ u.pc = (IF saga[t.order].reserved = <<>> THEN "returned" ELSE "returning")
          /\ u.arg = t.arg /\ u.seen = saga[t.order].reserved /\ u.todo = saga[t.order].reserved
      BY <1>6 DEF ReleaseReadsSaga, Task
    <2> HIDE DEF u
    <2> QED BY <1>a, <2>1
  <1>7. ASSUME ReturnLine(t)
        PROVE  GoesOn(t, IF Tail(t.todo) = <<>> THEN "returned" ELSE "returning",
                      t.arg, t.seen, Tail(t.todo))
    <2> DEFINE u == [t EXCEPT !.todo = Tail(t.todo),
                             !.pc = IF Tail(t.todo) = <<>> THEN "returned" ELSE @]
    <2>1. /\ Replace(t, {u})
          /\ u.flow = t.flow /\ u.cmd = t.cmd /\ u.order = t.order /\ u.outcome = t.outcome
          /\ u.pc = (IF Tail(t.todo) = <<>> THEN "returned" ELSE "returning")
          /\ u.arg = t.arg /\ u.seen = t.seen /\ u.todo = Tail(t.todo)
      BY <1>7 DEF ReturnLine, Task
    <2> HIDE DEF u
    <2> QED BY <1>a, <2>1
  <1>8. ASSUME ReturnPersistsSaga(t)
        PROVE  GoesOn(t, "saved", t.arg, t.seen,
                      IF t.cmd = "ReleaseReservation" THEN t.seen ELSE AllLines(t.order))
    <2> DEFINE u == [t EXCEPT !.pc = "saved",
                             !.todo = IF t.cmd = "ReleaseReservation"
                                      THEN t.seen ELSE AllLines(t.order)]
    <2>1. /\ Replace(t, {u})
          /\ u.flow = t.flow /\ u.cmd = t.cmd /\ u.order = t.order /\ u.outcome = t.outcome
          /\ u.pc = "saved"
          /\ u.arg = t.arg /\ u.seen = t.seen /\ u.todo = (IF t.cmd = "ReleaseReservation" THEN t.seen ELSE AllLines(t.order))
      BY <1>8 DEF ReturnPersistsSaga, Task
    <2> HIDE DEF u
    <2> QED BY <1>a, <2>1
  <1>9. ASSUME ReturnEnqueues(t) PROVE GoesOn(t, "saved", t.arg, t.seen, Tail(t.todo))
    <2> DEFINE u == [t EXCEPT !.todo = Tail(t.todo)]
    <2>1. /\ Replace(t, {u})
          /\ u.flow = t.flow /\ u.cmd = t.cmd /\ u.order = t.order /\ u.outcome = t.outcome
          /\ u.pc = "saved" /\ u.arg = t.arg /\ u.seen = t.seen /\ u.todo = Tail(t.todo)
      BY <1>9 DEF ReturnEnqueues, Task
    <2> HIDE DEF u
    <2> QED BY <1>a, <2>1
  <1>10. ASSUME NEW i, Replace(t, {[t EXCEPT !.pc = "loaded", !.arg = i]})
         PROVE  GoesOn(t, "loaded", i, t.seen, t.todo)
    <2> DEFINE u == [t EXCEPT !.pc = "loaded", !.arg = i]
    <2>1. /\ Replace(t, {u})
          /\ u.flow = t.flow /\ u.cmd = t.cmd /\ u.order = t.order /\ u.outcome = t.outcome
          /\ u.pc = "loaded" /\ u.arg = i /\ u.seen = t.seen /\ u.todo = t.todo
      BY <1>10 DEF Task
    <2> HIDE DEF u
    <2> QED BY <1>a, <2>1
  <1> QED BY <1>1, <1>2, <1>3, <1>4, <1>5, <1>6, <1>7, <1>8, <1>9, <1>10

\* A step that changes no row and takes a command on, or leaves it where it is.
LEMMA LinesGoOn ==
  ASSUME LinesInvariant, SagaInvariant', NEW t \in tasks, UNCHANGED tableVars,
         NEW pc, NEW arg, NEW seen, NEW todo, GoesOn(t, pc, arg, seen, todo),
         pc \in PcOf(t.cmd),
         arg = t.arg \/ t.cmd = "CancelPayment",
         HasRead(t.cmd, pc) => seen = saga[t.order].reserved,
         pc = "returning" => IsInjective(todo),
         t.cmd \in {"ReserveInventory", "ReleaseReservation"} => (t.pc = "saved" <=> pc = "saved")
  PROVE  LinesInvariant'
  <1>1. PICK u : /\ Replace(t, {u})
                 /\ u.cmd = t.cmd /\ u.order = t.order
                 /\ u.pc = pc /\ u.arg = arg /\ u.seen = seen /\ u.todo = todo
    BY DEF GoesOn
  <1>2. TaskReserves(t)
    BY TaskFacts
  <1>3. TaskReserves(u)
    BY <1>1, <1>2 DEF TaskReserves
  <1> QED BY <1>1, <1>3, LinesQuiet

\* A command of the chain that starts, and one outside of it.
LEMMA LinesStart ==
  ASSUME NEW u, u.cmd \in Command,
         u.pc = IF u.cmd = "CompensateOrderInventory" THEN "returning" ELSE "start",
         u.pc = "returning" => IsInjective(u.todo),
         u.cmd \in ChainCommand <=> orderState[u.order] = "PENDING",
         u.cmd = "ReserveInventory" =>
           /\ saga[u.order].step \in ReservationStep
           /\ u.arg \in Unreserved(u.order, saga[u.order].reserved),
         u.cmd = "ReleaseReservation" => saga[u.order].step \in ReservationStep,
         u.cmd = "MarkOrderFail" => saga[u.order].step = "INVENTORY_COMPENSATED",
         u.cmd = "InitiatePayment" => saga[u.order].step = "INVENTORY_RESERVED"
  PROVE  TaskReserves(u)
  <1>1. u.pc \in PcOf(u.cmd) /\ ~HasRead(u.cmd, u.pc)
    BY DEF PcOf, HasRead, Command, MarkingCommand
  <1> QED BY <1>1 DEF TaskReserves

\* The list of all lines has no repetition, and no list of lines gets one by
\* losing its head.
LEMMA ListsStayInjective ==
  ASSUME NEW o \in Order
  PROVE  /\ IsInjective(AllLines(o))
         /\ \A s \in Seq(LineIndex(o)) : s # <<>> /\ IsInjective(s) =>
              IsInjective(Tail(s)) /\ Range(Tail(s)) = Range(s) \ {Head(s)} /\ Head(s) \in Range(s)
  <1>1. IsInjective(AllLines(o))
    BY DEF AllLines, IsInjective
  <1>2. ASSUME NEW s \in Seq(LineIndex(o)), s # <<>>, IsInjective(s)
        PROVE  IsInjective(Tail(s)) /\ Range(Tail(s)) = Range(s) \ {Head(s)} /\ Head(s) \in Range(s)
    <2>1. /\ DOMAIN s = 1..Len(s) /\ Len(s) \in Nat \ {0} /\ Head(s) = s[1]
          /\ DOMAIN Tail(s) = 1..(Len(s) - 1)
          /\ \A i \in 1..(Len(s) - 1) : Tail(s)[i] = s[i + 1]
      BY <1>2, LenProperties, EmptySeq, HeadTailProperties
    <2>2. \A i, j \in 1..Len(s) : s[i] = s[j] => i = j
      BY <1>2, <2>1 DEF IsInjective
    <2>3. IsInjective(Tail(s))
      BY <2>1, <2>2 DEF IsInjective
    <2>4. \A i \in 1..Len(s) : i # 1 => i - 1 \in 1..(Len(s) - 1) /\ Tail(s)[i - 1] = s[i]
      BY <2>1
    <2>5. ASSUME NEW x PROVE x \in Range(Tail(s)) <=> x \in Range(s) \ {Head(s)}
      <3>1. ASSUME x \in Range(Tail(s)) PROVE x \in Range(s) /\ x # Head(s)
        <4>1. PICK i \in 1..(Len(s) - 1) : x = Tail(s)[i]
          BY <2>1, <3>1 DEF Range
        <4>2. i + 1 \in 1..Len(s) /\ x = s[i + 1] /\ i + 1 # 1 /\ 1 \in 1..Len(s)
          BY <2>1, <4>1
        <4> QED BY <2>1, <2>2, <4>2 DEF Range
      <3>2. ASSUME x \in Range(s), x # Head(s) PROVE x \in Range(Tail(s))
        <4>1. PICK i \in 1..Len(s) : x = s[i]
          BY <2>1, <3>2 DEF Range
        <4>2. i # 1
          BY <2>1, <3>2, <4>1
        <4> QED BY <2>1, <2>4, <4>1, <4>2 DEF Range
      <3> QED BY <3>1, <3>2
    <2>6. Head(s) \in Range(s)
      BY <2>1 DEF Range
    <2> QED BY <2>3, <2>5, <2>6
  <1> QED BY <1>1, <1>2

\* A step that changes no row and starts the next command of an order.
LEMMA LinesLeadOn ==
  ASSUME LinesInvariant, SagaInvariant', NEW t \in tasks, UNCHANGED tableVars,
         NEW c \in Command \ {"CompensateOrderInventory"}, NEW arg, LeadsTo(t, c, arg),
         c \in ChainCommand <=> t.cmd \in ChainCommand,
         c = "ReserveInventory" =>
           /\ saga[t.order].step \in ReservationStep
           /\ arg \in Unreserved(t.order, saga[t.order].reserved),
         c = "ReleaseReservation" => saga[t.order].step \in ReservationStep,
         c = "MarkOrderFail" => saga[t.order].step = "INVENTORY_COMPENSATED",
         c = "InitiatePayment" => saga[t.order].step = "INVENTORY_RESERVED"
  PROVE  LinesInvariant'
  <1>1. PICK u : /\ Replace(t, {u})
                 /\ u.cmd = c /\ u.order = t.order /\ u.pc = "start" /\ u.arg = arg
    BY DEF LeadsTo
  <1>2. t.cmd \in ChainCommand <=> orderState[t.order] = "PENDING"
    BY TaskFacts DEF TaskReserves
  <1>3. TaskReserves(u)
    BY <1>1, <1>2, LinesStart
  <1> QED BY <1>1, <1>3, LinesQuiet

\* Steps after which fewer tasks run.
LEMMA LinesFewer ==
  ASSUME LinesInvariant, SagaInvariant', tasks' \subseteq tasks, UNCHANGED tableVars
  PROVE  LinesInvariant'
  <1>1. \A o \in Order : RowReserves(o)'
    BY DEF LinesInvariant, RowReserves, AllReserved, tableVars
  <1>2. \A t \in tasks' : TaskReserves(t)'
    BY DEF LinesInvariant, TaskReserves, tableVars
  <1> QED BY <1>1, <1>2 DEF LinesInvariant

\* Steps that start one task more.
LEMMA LinesMore ==
  ASSUME LinesInvariant, SagaInvariant', NEW u, TaskReserves(u), tasks' = tasks \cup {u},
         UNCHANGED tableVars
  PROVE  LinesInvariant'
  <1>1. \A o \in Order : RowReserves(o)'
    BY DEF LinesInvariant, RowReserves, AllReserved, tableVars
  <1>2. \A t \in tasks' : TaskReserves(t)'
    BY DEF LinesInvariant, TaskReserves, tableVars
  <1> QED BY <1>1, <1>2 DEF LinesInvariant

\* Steps that write the rows of an order that is no longer PENDING.
LEMMA LinesSettle ==
  ASSUME LinesInvariant, SagaInvariant', NEW t \in tasks, NEW new, Replace(t, new),
         \A u \in new : u.order = t.order,
         NEW step, WriteSaga(t.order, step, saga[t.order].reserved),
         step \notin ReservationStep \cup {None, "PAYMENT_CREATED"},
         \A q \in Order \ {t.order} : orderState'[q] = orderState[q] /\ payments'[q] = payments[q],
         orderState'[t.order] # "PENDING",
         payments'[t.order] # <<>> => payments[t.order] # <<>>,
         \A u \in new : TaskReserves(u)'
  PROVE  LinesInvariant'
  <1> DEFINE o == t.order
  <1>1. o \in Order /\ RowReserves(o)
    BY TaskFacts
  <1>2. /\ saga'[o].step = step /\ saga'[o].reserved = saga[o].reserved
        /\ \A q \in Order \ {o} : saga'[q] = saga[q]
    BY <1>1 DEF WriteSaga, LinesInvariant, SagaInvariant, TypeOK
  <1>3. RowReserves(o)'
    BY <1>1, <1>2 DEF RowReserves, AllReserved, ReservationStep
  <1> QED BY <1>2, <1>3, LinesEffect

\* A list that gets a line it did not have.
LEMMA AppendStaysInjective ==
  ASSUME NEW o \in Order, NEW s \in Seq(LineIndex(o)), IsInjective(s),
         NEW x \in Unreserved(o, s)
  PROVE  /\ IsInjective(Append(s, x))
         /\ Range(Append(s, x)) = Range(s) \cup {x}
         /\ x \notin Range(s)
  <1> DEFINE r == Append(s, x)
  <1>1. x \in LineIndex(o) /\ \A k \in DOMAIN s : Lines[o][x].product # Lines[o][s[k]].product
    BY DEF Unreserved
  <1>2. /\ DOMAIN s = 1..Len(s) /\ Len(s) \in Nat
        /\ r \in Seq(LineIndex(o)) /\ Len(r) = Len(s) + 1
        /\ \A k \in 1..Len(s) : r[k] = s[k]
        /\ r[Len(s) + 1] = x
    BY <1>1, AppendProperties, LenProperties
  <1>3. DOMAIN r = 1..(Len(s) + 1)
    BY <1>2, LenProperties
  <1> HIDE DEF r
  <1>4. \A k \in 1..(Len(s) + 1) : k \in 1..Len(s) \/ k = Len(s) + 1
    BY <1>2
  <1>5. \A k \in 1..Len(s) : k \in 1..(Len(s) + 1) /\ r[k] # x
    BY <1>1, <1>2
  <1>6. Len(s) + 1 \in 1..(Len(s) + 1)
    BY <1>2
  <1>7. \A i, j \in 1..Len(s) : s[i] = s[j] => i = j
    BY <1>2 DEF IsInjective
  <1>8. IsInjective(r)
    BY <1>2, <1>3, <1>4, <1>5, <1>7 DEF IsInjective
  <1>9. Range(r) = Range(s) \cup {x}
    BY <1>2, <1>3, <1>4, <1>5, <1>6 DEF Range
  <1>10. x \notin Range(s)
    BY <1>1 DEF Range
  <1> QED BY <1>8, <1>9, <1>10 DEF r

\* Reserving a line: the counter is taken, the row is read, and written.
LEMMA LinesOfReserve ==
  ASSUME LinesInvariant, SagaInvariant', NEW t \in tasks,
         \/ ReserveInCache(t) \/ ReserveReadsSaga(t) \/ ReservePersistsSaga(t)
         \/ ReserveEnqueues(t) \/ ReserveCatches(t)
  PROVE  LinesInvariant'
  <1> USE DEF OrderCreated, ProductReserved, InventoryReserved, PaymentInitiated, ReservationFailed,
              ReservationReleased, InventoryCompensated, PaymentFailed, PaymentPaid
  <1> DEFINE o == t.order
  <1>1. /\ t \in Task /\ TaskReserves(t) /\ o \in Order /\ RowReserves(o)
        /\ t.cmd = "ReserveInventory" /\ t.cmd \in ChainCommand /\ "ReleaseReservation" \in ChainCommand
        /\ "ReserveInventory" \in ChainCommand /\ "InitiatePayment" \in ChainCommand
        /\ orderState[o] = "PENDING" /\ payments[o] = <<>> /\ saga[o].step \in ReservationStep
        /\ saga[o].reserved \in Seq(LineIndex(o))
        /\ TaskTyped(t)
    BY TaskFacts
      DEF ReserveInCache, ReserveReadsSaga, ReservePersistsSaga, ReserveEnqueues, ReserveCatches,
          ChainCommand, TaskReserves
  <1>2. {"start", "granted", "read", "saved"} = PcOf(t.cmd)
    BY <1>1 DEF PcOf, MarkingCommand
  <1>3. ASSUME UNCHANGED tableVars, LeadsTo(t, "ReleaseReservation", 1) PROVE LinesInvariant'
    BY <1>1, <1>3, LinesLeadOn DEF Command
  <1>a. CASE ReserveInCache(t)
    <2>1. UNCHANGED tableVars /\ t.pc = "start"
      BY <1>a DEF ReserveInCache
    <2>2. CASE Continue(t, "granted")
      <3>1. GoesOn(t, "granted", t.arg, t.seen, t.todo)
        BY <1>1, <2>2, StepShapes
      <3> QED BY <1>1, <1>2, <2>1, <3>1, LinesGoOn DEF HasRead
    <2>3. CASE Replace(t, {NewTask(t.flow, "ReleaseReservation", o)})
      BY <1>1, <1>3, <2>1, <2>3, StepShapes
    <2> QED BY <1>a, <2>2, <2>3 DEF ReserveInCache
  <1>b. CASE ReserveReadsSaga(t)
    <2>1. UNCHANGED tableVars /\ t.pc = "granted" /\ ReadSaga(t, "read")
      BY <1>b DEF ReserveReadsSaga
    <2>2. GoesOn(t, "read", t.arg, saga[o].reserved, t.todo)
      BY <1>1, <2>1, StepShapes
    <2> QED BY <1>1, <1>2, <2>1, <2>2, LinesGoOn
  <1>c. CASE ReservePersistsSaga(t)
    <2> DEFINE reserved == Append(t.seen, t.arg)
               step == IF Unreserved(o, reserved) = {}
                       THEN "INVENTORY_RESERVED" ELSE "INVENTORY_RESERVING"
    <2>1. /\ t.pc = "read" /\ UNCHANGED <<orderState, payments>> /\ WriteSaga(o, step, reserved)
      BY <1>c DEF ReservePersistsSaga
    <2>2. t.seen = saga[o].reserved /\ t.arg \in Unreserved(o, saga[o].reserved)
      BY <1>1, <2>1 DEF TaskReserves, HasRead
    <2>3. IsInjective(reserved)
      BY <1>1, <2>2, AppendStaysInjective DEF RowReserves
    <2>9. GoesOn(t, "saved", t.arg, reserved, t.todo)
      BY <1>1, <1>c, StepShapes
    <2>4. PICK u : /\ Replace(t, {u}) /\ u.cmd = t.cmd /\ u.order = o
                   /\ u.pc = "saved" /\ u.arg = t.arg /\ u.seen = reserved /\ u.todo = t.todo
      BY <2>9 DEF GoesOn
    <2>5. /\ step \in ReservationStep /\ step \notin {None, "INITIATED", "PAYMENT_CREATED"}
          /\ step = "INVENTORY_RESERVED" <=> Unreserved(o, reserved) = {}
      BY DEF ReservationStep, None
    <2>6. /\ saga'[o].step = step /\ saga'[o].reserved = reserved
          /\ \A q \in Order \ {o} : saga'[q] = saga[q]
      BY <1>1, <2>1 DEF WriteSaga, LinesInvariant, SagaInvariant, TypeOK
    <2> HIDE DEF reserved, step
    <2>7. RowReserves(o)'
      BY <1>1, <2>1, <2>3, <2>5, <2>6 DEF RowReserves, AllReserved, Unreserved
    <2>8. TaskReserves(u)'
      BY <1>1, <1>2, <2>1, <2>4, <2>5, <2>6 DEF TaskReserves
    <2> QED BY <1>1, <2>1, <2>4, <2>6, <2>7, <2>8, LinesEffect
  <1>d. CASE ReserveEnqueues(t)
    <2>1. UNCHANGED tableVars /\ t.pc = "saved" /\ t.seen = saga[o].reserved
      BY <1>1, <1>d DEF ReserveEnqueues, TaskReserves, HasRead
    <2>2. CASE Unreserved(o, t.seen) = {} /\ Replace(t, {NewTask(t.flow, "InitiatePayment", o)})
      <3>1. saga[o].step = "INVENTORY_RESERVED"
        BY <1>1, <2>1, <2>2 DEF RowReserves, AllReserved
      <3>2. LeadsTo(t, "InitiatePayment", 1)
        BY <1>1, <2>2, StepShapes
      <3> QED BY <1>1, <2>1, <3>1, <3>2, LinesLeadOn DEF Command
    <2>3. ASSUME NEW i \in Unreserved(o, t.seen), Replace(t, {ReserveLine(t.flow, o, i)})
          PROVE  LinesInvariant'
      <3>1. LeadsTo(t, "ReserveInventory", i)
        BY <1>1, <2>3, StepShapes
      <3> QED BY <1>1, <2>1, <2>3, <3>1, LinesLeadOn DEF Command
    <2> QED BY <1>d, <2>2, <2>3 DEF ReserveEnqueues
  <1>e. CASE ReserveCatches(t)
    <2>1. UNCHANGED tableVars
      BY <1>e DEF ReserveCatches
    <2>2. CASE Replace(t, {NewTask(t.flow, "ReleaseReservation", o)})
      BY <1>1, <1>3, <2>1, <2>2, StepShapes
    <2>3. CASE Replace(t, {})
      BY <2>1, <2>3, LinesFewer DEF Replace
    <2> QED BY <1>e, <2>2, <2>3 DEF ReserveCatches
  <1> QED BY <1>a, <1>b, <1>c, <1>d, <1>e

\* Returning lines, those the row lists or all of them.
LEMMA LinesOfReturn ==
  ASSUME LinesInvariant, SagaInvariant', NEW t \in tasks,
         \/ ReleaseReadsSaga(t) \/ ReturnLine(t) \/ CompensateReadsSaga(t)
         \/ ReturnPersistsSaga(t) \/ ReturnEnqueues(t) \/ ReturnPublishes(t)
  PROVE  LinesInvariant'
  <1> USE DEF OrderCreated, ProductReserved, InventoryReserved, PaymentInitiated, ReservationFailed,
              ReservationReleased, InventoryCompensated, PaymentFailed, PaymentPaid
  <1> DEFINE o == t.order
  <1>1. /\ t \in Task /\ TaskReserves(t) /\ o \in Order /\ RowReserves(o) /\ TaskTyped(t)
        /\ saga[o].reserved \in Seq(LineIndex(o))
    BY TaskFacts
  <1>2. /\ PcOf("ReleaseReservation") = {"start", "returning", "returned", "saved"}
        /\ PcOf("CompensateOrderInventory") = {"returning", "returned", "read", "saved"}
    BY DEF PcOf, MarkingCommand
  <1>3. t.pc = "returning" => t.cmd \in {"ReleaseReservation", "CompensateOrderInventory"}
    <2>1. t.cmd \in Command
      BY <1>1 DEF Task
    <2> QED BY <1>1, <2>1 DEF TaskReserves, PcOf, MarkingCommand, Command
  <1>4. IsInjective(AllLines(o)) /\ IsInjective(saga[o].reserved)
    BY <1>1, ListsStayInjective DEF RowReserves
  <1>a. CASE ReleaseReadsSaga(t)
    <2>1. UNCHANGED tableVars /\ t.pc = "start" /\ t.cmd = "ReleaseReservation"
      BY <1>a DEF ReleaseReadsSaga
    <2>2. PICK pc \in {"returned", "returning"} :
            GoesOn(t, pc, t.arg, saga[o].reserved, saga[o].reserved)
      BY <1>1, <1>a, StepShapes
    <2> QED BY <1>1, <1>2, <1>4, <2>1, <2>2, LinesGoOn
  <1>b. CASE ReturnLine(t)
    <2>1. UNCHANGED tableVars /\ t.pc = "returning" /\ t.todo # <<>>
      BY <1>b DEF ReturnLine
    <2>2. PICK pc \in {"returned", "returning"} : GoesOn(t, pc, t.arg, t.seen, Tail(t.todo))
      BY <1>1, <1>b, StepShapes
    <2>3. IsInjective(Tail(t.todo))
      BY <1>1, <2>1, ListsStayInjective DEF TaskTyped, TaskReserves
    <2>4. HasRead(t.cmd, pc) => t.seen = saga[o].reserved
      BY <1>1, <2>1 DEF HasRead, TaskReserves
    <2> QED BY <1>1, <1>2, <1>3, <2>1, <2>2, <2>3, <2>4, LinesGoOn
  <1>c. CASE CompensateReadsSaga(t)
    <2>1. /\ UNCHANGED tableVars /\ t.pc = "returned" /\ ReadSaga(t, "read")
          /\ t.cmd = "CompensateOrderInventory"
      BY <1>c DEF CompensateReadsSaga
    <2>2. GoesOn(t, "read", t.arg, saga[o].reserved, t.todo)
      BY <1>1, <2>1, StepShapes
    <2> QED BY <1>1, <1>2, <2>1, <2>2, LinesGoOn
  <1>d. CASE ReturnPersistsSaga(t)
    <2> DEFINE todo == IF t.cmd = "ReleaseReservation" THEN t.seen ELSE AllLines(o)
    <2>1. /\ UNCHANGED <<orderState, payments>>
          /\ WriteSaga(o, "INVENTORY_COMPENSATED", t.seen)
          /\ \/ t.cmd = "ReleaseReservation" /\ t.pc = "returned"
             \/ t.cmd = "CompensateOrderInventory" /\ t.pc = "read"
      BY <1>d DEF ReturnPersistsSaga
    <2>2. t.seen = saga[o].reserved
      BY <1>1, <2>1 DEF TaskReserves, HasRead
    <2>3. GoesOn(t, "saved", t.arg, t.seen, todo)
      BY <1>1, <1>d, StepShapes
    <2>4. PICK u : /\ Replace(t, {u}) /\ u.cmd = t.cmd /\ u.order = o
                   /\ u.pc = "saved" /\ u.arg = t.arg /\ u.seen = t.seen
      BY <2>3 DEF GoesOn
    <2>5. /\ saga'[o].step = "INVENTORY_COMPENSATED" /\ saga'[o].reserved = saga[o].reserved
          /\ \A q \in Order \ {o} : saga'[q] = saga[q]
      BY <1>1, <2>1, <2>2 DEF WriteSaga, LinesInvariant, SagaInvariant, TypeOK
    <2>6. RowReserves(o)'
      <3>1. orderState[o] = "PENDING" => payments[o] = <<>>
        <4>1. orderState[o] = "PENDING" => t.cmd = "ReleaseReservation"
          BY <1>1, <2>1 DEF TaskReserves, ChainCommand
        <4> QED BY <4>1, TaskFacts DEF ChainCommand
      <3> QED BY <1>1, <2>1, <2>5, <3>1, SMTT(30)
        DEF RowReserves, AllReserved, Unreserved, ReservationStep, None
    <2>7. TaskReserves(u)'
      BY <1>1, <1>2, <2>1, <2>2, <2>4, <2>5 DEF TaskReserves
    <2>8. t.cmd \in ChainCommand \/ orderState'[o] # "PENDING"
      BY <1>1, <2>1 DEF TaskReserves
    <2> QED BY <1>1, <2>1, <2>4, <2>5, <2>6, <2>7, <2>8, LinesEffect
  <1>e. CASE ReturnEnqueues(t)
    <2>1. UNCHANGED tableVars /\ t.pc = "saved"
          /\ t.cmd \in {"ReleaseReservation", "CompensateOrderInventory"}
      BY <1>e DEF ReturnEnqueues
    <2>2. GoesOn(t, "saved", t.arg, t.seen, Tail(t.todo))
      BY <1>1, <1>e, StepShapes
    <2> QED BY <1>1, <1>2, <2>1, <2>2, LinesGoOn DEF TaskReserves
  <1>f. CASE ReturnPublishes(t)
    <2>1. UNCHANGED tableVars /\ t.pc = "saved"
      BY <1>f DEF ReturnPublishes
    <2>2. CASE t.cmd = "ReleaseReservation" /\ Replace(t, {NewTask(t.flow, "MarkOrderFail", o)})
      <3>1. LeadsTo(t, "MarkOrderFail", 1)
        BY <1>1, <2>2, StepShapes
      <3>2. saga[o].step = "INVENTORY_COMPENSATED"
        BY <1>1, <2>1, <2>2 DEF TaskReserves
      <3> QED BY <2>1, <2>2, <3>1, <3>2, LinesLeadOn DEF Command, ChainCommand
    <2>3. CASE /\ t.cmd = "CompensateOrderInventory"
               /\ Replace(t, {NewTask(t.flow, "CancelPayment", o)})
      <3>1. LeadsTo(t, "CancelPayment", 1)
        BY <1>1, <2>3, StepShapes
      <3> QED BY <2>1, <2>3, <3>1, LinesLeadOn DEF Command, ChainCommand
    <2> QED BY <1>f, <2>2, <2>3 DEF ReturnPublishes
  <1> QED BY <1>a, <1>b, <1>c, <1>d, <1>e, <1>f

\* An exception, and the failure of a dependency.
LEMMA LinesOfThrows ==
  ASSUME LinesInvariant, SagaInvariant', NEW t \in tasks, Throws(t)
  PROVE  LinesInvariant'
  BY LinesFewer DEF Throws

\* The transactions up to their commit.
LEMMA LinesOfReads ==
  ASSUME LinesInvariant, SagaInvariant', NEW t \in tasks,
         \/ InitiatePaymentReads(t) \/ TransactionReadsSaga(t) \/ OrderCommandLoads(t)
         \/ PayForOrderLoads(t) \/ CancelPaymentLoads(t)
  PROVE  LinesInvariant'
  <1> DEFINE o == t.order
  <1>1. /\ t \in Task /\ TaskReserves(t) /\ o \in Order /\ t.cmd \in Command
    BY TaskFacts DEF Task
  <1>2. /\ PcOf("InitiatePayment") = {"start", "read"}
        /\ \A c \in MarkingCommand \cup {"CancelPayment"} : PcOf(c) = {"start", "loaded", "read"}
        /\ \A c \in {"CancelOrder", "PayForOrder"} : PcOf(c) = {"start", "loaded", "read", "published"}
    BY DEF PcOf, MarkingCommand
  <1>3. ASSUME UNCHANGED tableVars, NEW arg, GoesOn(t, "loaded", arg, t.seen, t.todo),
               arg = t.arg \/ t.cmd = "CancelPayment",
               t.cmd \in MarkingCommand \cup {"CancelOrder", "PayForOrder", "CancelPayment"}
        PROVE  LinesInvariant'
    BY <1>1, <1>2, <1>3, LinesGoOn DEF HasRead, MarkingCommand
  <1>4. ASSUME UNCHANGED tableVars, Replace(t, {}) PROVE LinesInvariant'
    BY <1>4, LinesFewer DEF Replace
  <1>5. ASSUME UNCHANGED tableVars, ReadSaga(t, "read"), "read" \in PcOf(t.cmd),
               t.pc # "saved"
        PROVE  LinesInvariant'
    <2>1. GoesOn(t, "read", t.arg, saga[o].reserved, t.todo)
      BY <1>1, <1>5, StepShapes
    <2> QED BY <1>1, <1>5, <2>1, LinesGoOn
  <1>a. CASE InitiatePaymentReads(t)
    BY <1>a, <1>2, <1>5 DEF InitiatePaymentReads
  <1>b. CASE TransactionReadsSaga(t)
    <2>1. "read" \in PcOf(t.cmd)
      <3>1. t.pc = "loaded"
        BY <1>b DEF TransactionReadsSaga
      <3> QED BY <1>1, <3>1 DEF TaskReserves, PcOf, Command, MarkingCommand
    <2> QED BY <1>b, <1>5, <2>1 DEF TransactionReadsSaga
  <1>c. CASE OrderCommandLoads(t)
    BY <1>1, <1>3, <1>c, StepShapes, LinesOfThrows DEF OrderCommandLoads
  <1>d. CASE PayForOrderLoads(t)
    BY <1>1, <1>3, <1>d, StepShapes, LinesOfThrows DEF PayForOrderLoads
  <1>e. CASE CancelPaymentLoads(t)
    <2>1. ASSUME UNCHANGED tableVars, NEW i, Replace(t, {[t EXCEPT !.pc = "loaded", !.arg = i]}),
                 t.cmd = "CancelPayment"
          PROVE  LinesInvariant'
      <3>1. GoesOn(t, "loaded", i, t.seen, t.todo)
        BY <1>1, <2>1, StepShapes
      <3> QED BY <1>3, <2>1, <3>1
    <2> QED BY <1>4, <1>e, <2>1, LinesOfThrows DEF CancelPaymentLoads
  <1> QED BY <1>a, <1>b, <1>c, <1>d, <1>e

\* The transactions that publish their event before they commit.
LEMMA LinesOfPublishes ==
  ASSUME LinesInvariant, SagaInvariant', NEW t \in tasks,
         CancelOrderPublishes(t) \/ PayForOrderPublishes(t)
  PROVE  LinesInvariant'
  <1> USE DEF PaymentFailed, PaymentPaid
  <1> DEFINE o == t.order
  <1>1. /\ t \in Task /\ TaskReserves(t) /\ o \in Order /\ RowReserves(o)
        /\ UNCHANGED tableVars /\ t.pc = "read"
        /\ t.cmd \in {"CancelOrder", "PayForOrder"} /\ t.cmd \notin ChainCommand
    BY TaskFacts DEF CancelOrderPublishes, PayForOrderPublishes, ChainCommand
  <1>2. orderState[o] # "PENDING" /\ t.seen = saga[o].reserved
    BY <1>1 DEF TaskReserves, HasRead
  <1>3. /\ PcOf("CancelOrder") = {"start", "loaded", "read", "published"}
        /\ PcOf("PayForOrder") = {"start", "loaded", "read", "published"}
    BY DEF PcOf, MarkingCommand
  <1>4. ASSUME NEW u, u.order = o, u.cmd \in Command \ ChainCommand,
               u.pc = IF u.cmd = "CompensateOrderInventory" THEN "returning" ELSE "start",
               u.pc = "returning" => IsInjective(u.todo),
               Replace(t, {[t EXCEPT !.pc = "published"], u})
        PROVE  LinesInvariant'
    <2> DEFINE w == [t EXCEPT !.pc = "published"]
    <2>1. /\ w.order = o /\ w.cmd = t.cmd /\ w.pc = "published" /\ w.seen = t.seen
          /\ Replace(t, {w, u})
      BY <1>1, <1>4 DEF Task
    <2> HIDE DEF w
    <2>2. TaskReserves(w)
      BY <1>1, <1>2, <1>3, <2>1 DEF TaskReserves
    <2>3. TaskReserves(u)
      BY <1>2, <1>4, LinesStart DEF ChainCommand
    <2> QED BY <1>1, <1>4, <2>1, <2>2, <2>3, LinesQuiet
  <1>a. CASE CancelOrderPublishes(t)
    <2> DEFINE u == OrderCanceled(ChildFlow(t), o)
    <2>1. /\ u.order = o /\ u.cmd = "CompensateOrderInventory" /\ u.pc = "returning"
          /\ u.todo = AllLines(o)
      BY DEF OrderCanceled, TaskWith
    <2>2. Replace(t, {[t EXCEPT !.pc = "published"], u})
      BY <1>a DEF CancelOrderPublishes
    <2>3. IsInjective(AllLines(o))
      BY <1>1, ListsStayInjective
    <2> HIDE DEF u
    <2> QED BY <1>4, <2>1, <2>2, <2>3 DEF Command, ChainCommand
  <1>b. CASE PayForOrderPublishes(t)
    <2> DEFINE u == IF t.outcome = "PAID" THEN NewTask(t.flow, "MarkOrderAsComplete", o)
                                          ELSE NewTask(t.flow, "CancelOrder", o)
    <2>1. u.order = o /\ u.cmd \in {"MarkOrderAsComplete", "CancelOrder"} /\ u.pc = "start"
      BY DEF NewTask, TaskWith
    <2>2. Replace(t, {[t EXCEPT !.pc = "published"], u})
      BY <1>b DEF PayForOrderPublishes
    <2> HIDE DEF u
    <2> QED BY <1>4, <2>1, <2>2 DEF Command, ChainCommand
  <1> QED BY <1>a, <1>b

\* The commits.
LEMMA LinesOfCommits ==
  ASSUME LinesInvariant, SagaInvariant', NEW t \in tasks,
         \/ InitiatePaymentCommits(t) \/ MarkOrderCommits(t) \/ CancelOrderCommits(t)
         \/ PayForOrderCommits(t) \/ CancelPaymentCommits(t)
  PROVE  LinesInvariant'
  <1> USE DEF PaymentInitiated
  <1> DEFINE o == t.order
  <1>1. /\ t \in Task /\ TaskReserves(t) /\ o \in Order /\ RowReserves(o)
        /\ orderState \in [Order -> OrderState \cup {None}]
        /\ payments \in [Order -> Seq(PaymentState)]
        /\ t.seen = saga[o].reserved
    <2>1. t.pc \in {"read", "published"}
      BY DEF InitiatePaymentCommits, MarkOrderCommits, CancelOrderCommits, PayForOrderCommits,
             CancelPaymentCommits
    <2> QED BY <2>1, TaskFacts DEF TaskReserves, HasRead, LinesInvariant, SagaInvariant, TypeOK
  <1>a. CASE InitiatePaymentCommits(t)
    <2>1. /\ t.cmd = "InitiatePayment" /\ t.cmd \in ChainCommand
          /\ payments' = [payments EXCEPT ![o] = Append(@, "OPEN")]
          /\ WriteSaga(o, "PAYMENT_CREATED", saga[o].reserved)
          /\ UNCHANGED orderState
      BY <1>1, <1>a DEF InitiatePaymentCommits, ChainCommand
    <2>9. LeadsTo(t, "MarkOrderAwaitingPayment", 1)
      BY <1>1, <1>a, StepShapes DEF InitiatePaymentCommits
    <2>2. PICK u : /\ Replace(t, {u}) /\ u.cmd = "MarkOrderAwaitingPayment"
                   /\ u.order = o /\ u.pc = "start"
      BY <2>9 DEF LeadsTo
    <2>3. /\ saga'[o].step = "PAYMENT_CREATED" /\ saga'[o].reserved = saga[o].reserved
          /\ \A q \in Order \ {o} : saga'[q] = saga[q] /\ payments'[q] = payments[q]
      BY <1>1, <2>1 DEF WriteSaga, LinesInvariant, SagaInvariant, TypeOK
    <2>4. /\ orderState[o] = "PENDING" /\ saga[o].step = "INVENTORY_RESERVED" /\ AllReserved(o)
      BY <1>1, <2>1 DEF TaskReserves, RowReserves, ReservationStep
    <2>5. payments'[o] # <<>>
      <3>1. Append(payments[o], "OPEN") # <<>>
        BY <1>1, AppendProperties DEF PaymentState
      <3> QED BY <1>1, <2>1, <3>1
    <2>6. RowReserves(o)'
      BY <1>1, <2>1, <2>3, <2>4, <2>5, SMTT(30)
        DEF RowReserves, AllReserved, Unreserved, ReservationStep, None
    <2>7. TaskReserves(u)'
      <3>1. "start" \in PcOf("MarkOrderAwaitingPayment")
        BY DEF PcOf, MarkingCommand
      <3> QED BY <2>1, <2>2, <2>4, <3>1 DEF TaskReserves, HasRead, ChainCommand
    <2> QED BY <2>1, <2>2, <2>3, <2>6, <2>7, LinesEffect
  <1>2. ASSUME t.cmd \in MarkingCommand \cup {"CancelOrder"}, WriteOrder(t), Replace(t, {})
        PROVE  LinesInvariant'
    <2>1. /\ orderState'[o] = NewOrderState(t.cmd)
          /\ \A q \in Order \ {o} : orderState'[q] = orderState[q]
          /\ UNCHANGED payments /\ WriteSaga(o, NewStep(t.cmd), saga[o].reserved)
      BY <1>1, <1>2 DEF WriteOrder
    <2>2. /\ NewStep(t.cmd) \notin ReservationStep \cup {None, "PAYMENT_CREATED"}
          /\ NewOrderState(t.cmd) # "PENDING"
      BY <1>2 DEF MarkingCommand, NewStep, NewOrderState, ReservationStep, None
    <2> QED BY <1>2, <2>1, <2>2, LinesSettle
  <1>3. ASSUME NEW s, PaymentBecomes(o, t.arg, s), Replace(t, {}), UNCHANGED orderState,
               t.cmd \in {"PayForOrder", "CancelPayment"},
               NEW step, step \notin ReservationStep \cup {None, "PAYMENT_CREATED"},
               WriteSaga(o, step, saga[o].reserved)
        PROVE  LinesInvariant'
    <2>1. \A q \in Order \ {o} : payments'[q] = payments[q]
      BY <1>1, <1>3 DEF PaymentBecomes
    <2>2. payments[o] = <<>> => payments'[o] = <<>>
      <3>1. payments'[o] = [payments[o] EXCEPT ![t.arg] = s]
        BY <1>1, <1>3 DEF PaymentBecomes
      <3> QED BY <3>1
    <2>3. orderState[o] # "PENDING"
      BY <1>1, <1>3 DEF TaskReserves, ChainCommand
    <2> QED BY <1>3, <2>1, <2>2, <2>3, LinesSettle
  <1>b. CASE MarkOrderCommits(t)
    BY <1>b, <1>2 DEF MarkOrderCommits
  <1>c. CASE CancelOrderCommits(t)
    BY <1>c, <1>2 DEF CancelOrderCommits
  <1>d. CASE PayForOrderCommits(t)
    <2> DEFINE step == IF t.outcome = "PAID" THEN "PAYMENT_SUCCEEDED" ELSE "PAYMENT_FAILED"
    <2>1. step \notin ReservationStep \cup {None, "PAYMENT_CREATED"}
      BY DEF ReservationStep, None
    <2>2. WriteSaga(o, step, saga[o].reserved)
      BY <1>1, <1>d DEF PayForOrderCommits
    <2> HIDE DEF step
    <2> QED BY <1>3, <1>d, <2>1, <2>2 DEF PayForOrderCommits
  <1>e. CASE CancelPaymentCommits(t)
    BY <1>1, <1>e, <1>3 DEF CancelPaymentCommits, ReservationStep, None
  <1> QED BY <1>a, <1>b, <1>c, <1>d, <1>e

\* Customers place orders and ask about those that are no longer PENDING.
LEMMA LinesOfCustomers ==
  ASSUME LinesInvariant, SagaInvariant', CustomersWait,
         \/ \E o \in Order : PlaceOrder(o)
         \/ \E r \in Request : RequestCancel(r) \/ RequestPayment(r)
  PROVE  LinesInvariant'
  <1> USE DEF OrderCreated
  <1>1. ASSUME NEW o \in Order, PlaceOrder(o) PROVE LinesInvariant'
    <2> DEFINE u == ReserveLine("saga", o, 1)
    <2>1. /\ u.order = o /\ u.cmd = "ReserveInventory" /\ u.pc = "start" /\ u.arg = 1
      BY DEF ReserveLine, TaskWith
    <2>2. /\ tasks' = tasks \cup {u} /\ orderState[o] = None
          /\ orderState' = [orderState EXCEPT ![o] = "PENDING"]
          /\ WriteSaga(o, "INITIATED", <<>>) /\ UNCHANGED payments
      BY <1>1 DEF PlaceOrder
    <2> HIDE DEF u
    <2>3. /\ orderState'[o] = "PENDING" /\ saga'[o].step = "INITIATED" /\ saga'[o].reserved = <<>>
          /\ \A q \in Order \ {o} : orderState'[q] = orderState[q] /\ saga'[q] = saga[q]
      BY <2>2 DEF WriteSaga, LinesInvariant, SagaInvariant, TypeOK
    <2>4. payments[o] = <<>> /\ \A v \in tasks : v.order # o
      BY <2>2 DEF LinesInvariant, SagaInvariant, NotPlaced
    <2>5. Unreserved(o, <<>>) = LineIndex(o) /\ 1 \in LineIndex(o)
      BY LinesTyped DEF Unreserved
    <2>6. ASSUME NEW q \in Order PROVE RowReserves(q)'
      <3>1. CASE q = o
        <4>1. IsInjective(<<>>)
          BY DEF IsInjective
        <4> QED BY <2>2, <2>3, <2>4, <2>5, <3>1, <4>1
              DEF RowReserves, AllReserved, Unreserved, ReservationStep
      <3>2. CASE q # o
        BY <2>2, <2>3, <3>2 DEF LinesInvariant, RowReserves, AllReserved
      <3> QED BY <3>1, <3>2
    <2>7. ASSUME NEW v \in tasks' PROVE TaskReserves(v)'
      <3>1. CASE v = u
        <4>1. "start" \in PcOf("ReserveInventory")
          BY DEF PcOf, MarkingCommand
        <4> QED BY <2>1, <2>3, <2>5, <3>1, <4>1
              DEF TaskReserves, HasRead, ChainCommand, ReservationStep, Unreserved
      <3>2. CASE v \in tasks
        <4>1. v.order \in Order \ {o}
          BY <2>4, <3>2, TaskFacts
        <4>2. TaskReserves(v) /\ saga'[v.order] = saga[v.order]
              /\ orderState'[v.order] = orderState[v.order]
          BY <2>3, <3>2, <4>1 DEF LinesInvariant
        <4> QED BY <4>2 DEF TaskReserves
      <3> QED BY <2>2, <3>1, <3>2
    <2> QED BY <2>6, <2>7 DEF LinesInvariant
  <1>2. ASSUME NEW r \in Request, RequestCancel(r) \/ RequestPayment(r)
        PROVE  LinesInvariant'
    <2>1. orderState[About[r]] # "PENDING" /\ UNCHANGED tableVars
      BY <1>2 DEF RequestCancel, RequestPayment, Arrives, CustomersWait
    <2>2. ASSUME NEW u, u.order = About[r], u.cmd \in {"CancelOrder", "PayForOrder"},
                 u.pc = "start", tasks' = tasks \cup {u}
          PROVE  LinesInvariant'
      <3>1. TaskReserves(u)
        BY <2>1, <2>2, LinesStart DEF Command, ChainCommand
      <3> QED BY <2>1, <2>2, <3>1, LinesMore
    <2>3. CASE RequestCancel(r)
      <3> DEFINE u == NewTask(r, "CancelOrder", About[r])
      <3>1. u.order = About[r] /\ u.cmd = "CancelOrder" /\ u.pc = "start"
        BY DEF NewTask, TaskWith
      <3>2. tasks' = tasks \cup {u}
        BY <2>3 DEF RequestCancel
      <3> HIDE DEF u
      <3> QED BY <2>2, <3>1, <3>2
    <2>4. CASE RequestPayment(r)
      <3>1. PICK i, result : tasks' = tasks \cup {Payment(r, About[r], i, result)}
        BY <2>4 DEF RequestPayment
      <3> DEFINE u == Payment(r, About[r], i, result)
      <3>2. u.order = About[r] /\ u.cmd = "PayForOrder" /\ u.pc = "start"
        BY DEF Payment, TaskWith
      <3>3. tasks' = tasks \cup {u}
        BY <3>1
      <3> HIDE DEF u
      <3> QED BY <2>2, <3>2, <3>3
    <2> QED BY <1>2, <2>3, <2>4
  <1> QED BY <1>1, <1>2

\* The recovery starts the command that follows the step of a saga.
LEMMA LinesOfRecovery ==
  ASSUME LinesInvariant, SagaInvariant', NEW o \in Order, RecoverSaga(o)
  PROVE  LinesInvariant'
  <1> USE DEF OrderCreated, InventoryReserved, PaymentInitiated
  <1>1. RowReserves(o) /\ UNCHANGED tableVars /\ tasks' = tasks \cup Recovered(o)
    BY DEF LinesInvariant, RecoverSaga
  <1>2. ASSUME NEW u, Recovered(o) = {u}, u.order = o, u.cmd \in Command,
               u.pc = IF u.cmd = "CompensateOrderInventory" THEN "returning" ELSE "start",
               u.pc = "returning" => IsInjective(u.todo),
               u.cmd \in ChainCommand <=> orderState[o] = "PENDING",
               u.cmd = "ReserveInventory" =>
                 /\ saga[o].step \in ReservationStep
                 /\ u.arg \in Unreserved(o, saga[o].reserved),
               u.cmd \notin {"ReleaseReservation", "MarkOrderFail"},
               u.cmd = "InitiatePayment" => saga[o].step = "INVENTORY_RESERVED"
        PROVE  LinesInvariant'
    <2>1. TaskReserves(u)
      BY <1>2, LinesStart
    <2> QED BY <1>1, <1>2, <2>1, LinesMore
  <1>3. CASE Recovered(o) = {}
    BY <1>1, <1>3, LinesFewer
  <1>4. CASE saga[o].step = "INITIATED"
    <2> DEFINE u == ReserveLine("saga", o, 1)
    <2>1. /\ Recovered(o) = {u} /\ u.order = o /\ u.pc = "start"
          /\ u.cmd = "ReserveInventory" /\ u.arg = 1
      BY <1>4 DEF Recovered, ReserveLine, TaskWith
    <2>2. Unreserved(o, <<>>) = LineIndex(o) /\ 1 \in LineIndex(o)
      BY LinesTyped DEF Unreserved
    <2>3. saga[o].reserved = <<>> /\ orderState[o] = "PENDING" /\ saga[o].step \in ReservationStep
      BY <1>1, <1>4 DEF RowReserves, ReservationStep
    <2> HIDE DEF u
    <2> QED BY <1>2, <2>1, <2>2, <2>3 DEF Command, ChainCommand
  <1>5. ASSUME NEW f, NEW c \in Command \ {"ReserveInventory", "ReleaseReservation", "MarkOrderFail",
                                           "CompensateOrderInventory"},
               Recovered(o) = {NewTask(f, c, o)},
               c \in ChainCommand <=> orderState[o] = "PENDING",
               c = "InitiatePayment" => saga[o].step = "INVENTORY_RESERVED"
        PROVE  LinesInvariant'
    <2> DEFINE u == NewTask(f, c, o)
    <2>1. u.order = o /\ u.pc = "start" /\ u.cmd = c
      BY DEF NewTask, TaskWith
    <2>2. Recovered(o) = {u}
      BY <1>5
    <2> HIDE DEF u
    <2> QED BY <1>2, <1>5, <2>1, <2>2
  <1>6. CASE saga[o].step = "INVENTORY_RESERVED"
    <2>1. orderState[o] = "PENDING"
      BY <1>1, <1>6 DEF RowReserves, ReservationStep
    <2> QED BY <1>5, <1>6, <2>1 DEF Recovered, Command, ChainCommand
  <1>7. CASE saga[o].step = "PAYMENT_CREATED"
    <2>1. orderState[o] = "PENDING"
      BY <1>1, <1>7 DEF RowReserves
    <2> QED BY <1>5, <1>7, <2>1 DEF Recovered, Command, ChainCommand
  <1>8. CASE saga[o].step = "ORDER_CANCELED"
    <2> DEFINE u == OrderCanceled("saga", o)
    <2>1. /\ Recovered(o) = {u} /\ u.order = o /\ u.pc = "returning"
          /\ u.cmd = "CompensateOrderInventory" /\ u.todo = AllLines(o)
      BY <1>8 DEF Recovered, OrderCanceled, TaskWith
    <2>2. orderState[o] # "PENDING"
      BY <1>1, <1>8 DEF RowReserves, ReservationStep
    <2>3. IsInjective(AllLines(o))
      BY ListsStayInjective
    <2> HIDE DEF u
    <2> QED BY <1>2, <2>1, <2>2, <2>3 DEF Command, ChainCommand
  <1>9. CASE saga[o].step = "INVENTORY_COMPENSATED" /\ payments[o] # <<>>
    <2>1. orderState[o] # "PENDING"
      BY <1>1, <1>9 DEF RowReserves
    <2>2. Recovered(o) = {NewTask("boot", "CancelPayment", o)}
      BY <1>9 DEF Recovered
    <2> QED BY <1>5, <2>1, <2>2 DEF Command, ChainCommand
  <1>10. CASE saga[o].step = "PAYMENT_FAILED"
    <2>1. orderState[o] # "PENDING"
      BY <1>1, <1>10 DEF RowReserves, ReservationStep
    <2> QED BY <1>5, <1>10, <2>1 DEF Recovered, Command, ChainCommand
  <1>11. CASE saga[o].step = "PAYMENT_SUCCEEDED"
    <2>1. orderState[o] # "PENDING"
      BY <1>1, <1>11 DEF RowReserves, ReservationStep
    <2> QED BY <1>5, <1>11, <2>1 DEF Recovered, Command, ChainCommand
  <1>12. saga[o].step # "INVENTORY_RESERVE_FAILED"
    BY StepIsKnown DEF LinesInvariant, SagaInvariant
  <1> QED BY <1>3, <1>4, <1>6, <1>7, <1>8, <1>9, <1>10, <1>11, <1>12 DEF Recovered

\* Every step of customers who wait preserves the first layer.
LEMMA LinesNext ==
  ASSUME CustomersWait, LinesInvariant, [Next]_vars
  PROVE  LinesInvariant'
  <1>1. SagaInvariant'
    BY NextInvariant DEF LinesInvariant
  <1>2. CASE UNCHANGED vars
    BY <1>1, <1>2, LinesFewer DEF vars
  <1>3. ASSUME NEW t \in tasks, TaskStep(t) \/ TaskFails(t) PROVE LinesInvariant'
    BY <1>1, <1>3, LinesOfReserve, LinesOfReturn, LinesOfReads, LinesOfPublishes, LinesOfCommits,
       LinesOfThrows
      DEF TaskStep, TaskFails, DependencyFails
  <1>4. CASE WorkerStep \/ RecoveryEnds \/ Restart \/ LoaderRuns \/ Crash
    BY <1>1, <1>4, LinesFewer DEF WorkerStep, RecoveryEnds, Restart, LoaderRuns, LoaderReads, LoaderSets,
                                    LoaderEnds, Crash
  <1> QED BY <1>1, <1>2, <1>3, <1>4, LinesOfCustomers, LinesOfRecovery DEF Next, Progress

\* Initially no order is placed.
LEMMA LinesInit == Init => LinesInvariant
  <1> SUFFICES ASSUME Init PROVE LinesInvariant
    OBVIOUS
  <1>1. SagaInvariant
    BY InitInvariant
  <1>2. ASSUME NEW o \in Order PROVE RowReserves(o)
    <2>1. /\ orderState[o] = None /\ payments[o] = <<>>
          /\ saga[o].step = None /\ saga[o].reserved = <<>>
      BY DEF Init
    <2>2. IsInjective(<<>>)
      BY DEF IsInjective
    <2> QED BY <2>1, <2>2 DEF RowReserves, ReservationStep, None
  <1> QED BY <1>1, <1>2 DEF LinesInvariant, Init

\* When customers wait for the offer, the saga row of a PENDING order shows how
\* far its reservation is, whatever fails, crashes and is recovered.
THEOREM ReservationIsRecorded ==
  ASSUME CustomersWait
  PROVE  Spec => []LinesInvariant
  <1>1. LinesInvariant /\ [Next]_vars => LinesInvariant'
    BY LinesNext
  <1> QED BY <1>1, LinesInit, PTL DEF Spec

\* getNextLineToReserve skips no line when the products differ.
LEMMA NoLineIsSkipped ==
  ASSUME ProductsDiffer, LinesInvariant
  PROVE  ReservesEveryLine
  <1> SUFFICES ASSUME NEW o \in Order, payments[o] # <<>>
               PROVE  LineIndex(o) = Range(saga[o].reserved)
    BY DEF ReservesEveryLine
  <1> DEFINE s == saga[o].reserved
  <1>1. s \in Seq(LineIndex(o)) /\ Unreserved(o, s) = {}
    BY DEF LinesInvariant, SagaInvariant, TypeOK, RowReserves, AllReserved
  <1>2. \A k \in DOMAIN s : s[k] \in LineIndex(o)
    BY <1>1, ElementOfSeq, LenProperties
  <1> HIDE DEF s
  <1>3. ASSUME NEW i \in LineIndex(o) PROVE i \in Range(s)
    <2>1. PICK k \in DOMAIN s : Lines[o][i].product = Lines[o][s[k]].product
      BY <1>1 DEF Unreserved
    <2>2. i = s[k]
      BY <1>2, <2>1 DEF ProductsDiffer
    <2> QED BY <2>1, <2>2 DEF Range
  <1> QED BY <1>2, <1>3 DEF Range, s

------------------------------------------------------------------------------
(* Second layer. *)

\* The payment of an order.
LEMMA PaymentFacts ==
  ASSUME SagaInvariant, NEW o \in Order
  PROVE  /\ payments[o] = <<>> <=> PaymentOf(o) = None
         /\ payments[o] # <<>> => DOMAIN payments[o] = {1} /\ PaymentOf(o) = payments[o][1]
         /\ PaymentOf(o) # None => PaymentOf(o) \in PaymentState
  <1>1. payments[o] \in Seq(PaymentState) /\ Len(payments[o]) <= 1
    BY DEF SagaInvariant, TypeOK, AtMostOnePayment
  <1>2. CASE payments[o] # <<>>
    <2>1. Len(payments[o]) \in Nat /\ Len(payments[o]) # 0 /\ DOMAIN payments[o] = 1..Len(payments[o])
      BY <1>1, <1>2, EmptySeq, LenProperties
    <2>2. DOMAIN payments[o] = {1}
      BY <1>1, <2>1
    <2>3. payments[o][1] \in PaymentState
      BY <1>1, <2>1, <2>2, ElementOfSeq
    <2> QED BY <1>2, <2>2, <2>3 DEF PaymentOf, PaymentState, None
  <1>3. CASE payments[o] = <<>>
    BY <1>3 DEF PaymentOf
  <1> QED BY <1>2, <1>3

\* Writing the payment of an order.
LEMMA PaymentWritten ==
  ASSUME SagaInvariant, NEW o \in Order, payments[o] # <<>>, NEW s, PaymentBecomes(o, 1, s)
  PROVE  /\ PaymentOf(o)' = s
         /\ \A q \in Order \ {o} : payments'[q] = payments[q]
  <1>1. payments \in [Order -> Seq(PaymentState)] /\ DOMAIN payments[o] = {1}
    BY PaymentFacts DEF SagaInvariant, TypeOK
  <1>2. payments'[o] = [payments[o] EXCEPT ![1] = s]
    BY <1>1 DEF PaymentBecomes
  <1>3. DOMAIN payments'[o] = {1} /\ payments'[o][1] = s
    BY <1>1, <1>2
  <1>4. payments'[o] # <<>>
    BY <1>3
  <1> QED BY <1>1, <1>3, <1>4 DEF PaymentBecomes, PaymentOf

\* What the second layer says of a task.
LEMMA PhaseFacts ==
  ASSUME LifecycleInvariant, NEW t \in tasks
  PROVE  /\ LinesInvariant /\ SagaInvariant
         /\ t \in Task /\ TaskTyped(t) /\ TaskReserves(t) /\ TaskInPhase(t)
         /\ t.order \in Order /\ RowReserves(t.order) /\ RowInPhase(t.order)
         /\ orderState[t.order] # None
         /\ t.cmd \in ChainCommand => \A w \in tasks \ {t} : w.order # t.order
         /\ t.pc # "published" /\ SagaRowFree(t.order) => \A w \in tasks \ {t} : w.order # t.order
         /\ t.cmd = "CancelPayment" => \A w \in tasks \ {t} : w.order # t.order
         /\ t.cmd = "CompensateOrderInventory" /\ t.pc = "saved" =>
              \A w \in tasks \ {t} : w.order # t.order
  <1>1. LinesInvariant /\ SagaInvariant
    BY DEF LifecycleInvariant, LinesInvariant
  <1>2. /\ t \in Task /\ TaskTyped(t) /\ TaskReserves(t) /\ t.order \in Order
        /\ RowReserves(t.order) /\ orderState[t.order] # None
        /\ t.cmd \in ChainCommand => \A w \in tasks \ {t} : w.order # t.order
    BY <1>1, TaskFacts
  <1>3. TaskInPhase(t) /\ RowInPhase(t.order)
    BY <1>2 DEF LifecycleInvariant
  <1>4. \A w \in tasks \ {t} : w.order = t.order => Follows(t, w) \/ Follows(w, t)
    BY DEF LifecycleInvariant, OneCommand
  <1>5. t.pc # "published" /\ SagaRowFree(t.order) => \A w \in tasks \ {t} : w.order # t.order
    BY <1>4 DEF Follows, SagaRowFree
  <1>6. t.cmd = "CancelPayment" => \A w \in tasks \ {t} : w.order # t.order
    BY <1>4 DEF Follows
  <1>7. t.cmd = "CompensateOrderInventory" /\ t.pc = "saved" =>
          \A w \in tasks \ {t} : w.order # t.order
    BY <1>4 DEF Follows
  <1> QED BY <1>1, <1>2, <1>3, <1>5, <1>6, <1>7

\* The commands of the chain run in the phases of their rows.
LEMMA ChainInPhase ==
  \A u : u.cmd \in ChainCommand => TaskInPhase(u) /\ TaskInPhase(u)'
  BY DEF TaskInPhase, ChainCommand

\* A step of a task leaves the phases of other orders alone.
LEMMA PhaseEffect ==
  ASSUME LifecycleInvariant, LinesInvariant', NEW t \in tasks, NEW new, Replace(t, new),
         \A u \in new : u.order = t.order, UNCHANGED used,
         \A q \in Order \ {t.order} :
           orderState'[q] = orderState[q] /\ payments'[q] = payments[q] /\ saga'[q] = saga[q],
         RowInPhase(t.order)',
         \A u \in new : TaskInPhase(u)',
         \A w \in tasks \ {t} : w.order = t.order => TaskInPhase(w)',
         \A u, v \in new : u = v \/ Follows(u, v) \/ Follows(v, u),
         \A u \in new, w \in tasks \ {t} :
           w.order = t.order => Follows(u, w) \/ Follows(w, u)
  PROVE  LifecycleInvariant'
  <1> DEFINE o == t.order
  <1>1. tasks' = (tasks \ {t}) \cup new /\ \A u \in tasks : u.order \in Order
    BY PhaseFacts DEF Replace
  <1>2. \A q \in Order : Asked(q)' <=> Asked(q)
    BY DEF Asked
  <1>3. ASSUME NEW q \in Order PROVE RowInPhase(q)'
    <2>1. CASE q = o
      BY <2>1
    <2>2. CASE q # o
      <3>1. RowInPhase(q) /\ PaymentOf(q)' = PaymentOf(q)
        BY <2>2 DEF LifecycleInvariant, PaymentOf
      <3> QED BY <1>2, <2>2, <3>1 DEF RowInPhase, InPhase, At
    <2> QED BY <2>1, <2>2
  <1>4. ASSUME NEW u \in tasks' PROVE TaskInPhase(u)'
    <2>1. CASE u \in new
      BY <2>1
    <2>2. CASE u \in tasks \ {t} /\ u.order = o
      BY <2>2
    <2>3. CASE u \in tasks \ {t} /\ u.order # o
      <3>1. TaskInPhase(u) /\ u.order \in Order \ {o}
        BY <1>1, <2>3 DEF LifecycleInvariant
      <3>2. OfOrder(u.order)' = OfOrder(u.order)
        BY <1>1, <2>3 DEF OfOrder
      <3>3. /\ Paying(u.order)' <=> Paying(u.order)
            /\ Canceling(u.order)' <=> Canceling(u.order)
        BY <3>2 DEF Paying, Canceling
      <3>4. PaymentOf(u.order)' = PaymentOf(u.order)
        BY <3>1 DEF PaymentOf
      <3> QED BY <1>2, <3>1, <3>3, <3>4 DEF TaskInPhase
    <2> QED BY <1>1, <2>1, <2>2, <2>3
  <1>5. OneCommand'
    <2> SUFFICES ASSUME NEW a \in tasks', NEW b \in tasks', a.order = b.order
                 PROVE  a = b \/ Follows(a, b) \/ Follows(b, a)
      BY DEF OneCommand, Follows
    <2>1. CASE a \in tasks \ {t} /\ b \in tasks \ {t}
      BY <2>1 DEF LifecycleInvariant, OneCommand
    <2> QED BY <1>1, <2>1
  <1> QED BY <1>3, <1>4, <1>5 DEF LifecycleInvariant

\* A step of the only task of an order.
LEMMA PhaseAlone ==
  ASSUME LifecycleInvariant, LinesInvariant', NEW t \in tasks, NEW new, Replace(t, new),
         \A w \in tasks \ {t} : w.order # t.order,
         \A u \in new : u.order = t.order, UNCHANGED used,
         \A q \in Order \ {t.order} :
           orderState'[q] = orderState[q] /\ payments'[q] = payments[q] /\ saga'[q] = saga[q],
         RowInPhase(t.order)',
         \A u \in new : TaskInPhase(u)',
         \A u, v \in new : u = v \/ Follows(u, v) \/ Follows(v, u)
  PROVE  LifecycleInvariant'
  BY PhaseEffect

\* Rows that do not change stay in their phase.
LEMMA RowStaysInPhase ==
  ASSUME NEW o \in Order, RowInPhase(o), UNCHANGED tableVars, used \subseteq used'
  PROVE  RowInPhase(o)'
  <1>1. Asked(o) => Asked(o)'
    BY DEF Asked
  <1>2. PaymentOf(o)' = PaymentOf(o)
    BY DEF PaymentOf, tableVars
  <1> QED BY <1>1, <1>2 DEF RowInPhase, InPhase, At, tableVars

\* A step that changes no row and takes a command on.
LEMMA PhaseGoOn ==
  ASSUME LifecycleInvariant, LinesInvariant', NEW t \in tasks, UNCHANGED tableVars, UNCHANGED used,
         NEW pc, NEW arg, NEW seen, NEW todo, GoesOn(t, pc, arg, seen, todo),
         t.pc # "published", pc # "published",
         t.cmd = "CompensateOrderInventory" => (t.pc = "saved" <=> pc = "saved"),
         t.cmd = "CancelOrder" => orderState[t.order] = "AWAITING_PAYMENT",
         IF t.cmd = "CancelPayment" THEN PaymentOf(t.order) = "OPEN" /\ arg = 1 ELSE arg = t.arg
  PROVE  LifecycleInvariant'
  <1> DEFINE o == t.order
  <1>1. PICK u : /\ Replace(t, {u})
                 /\ u.cmd = t.cmd /\ u.order = o /\ u.pc = pc /\ u.arg = arg
    BY DEF GoesOn
  <1>2. TaskInPhase(t) /\ RowInPhase(o) /\ o \in Order
    BY PhaseFacts
  <1>3. \A w \in tasks \ {t} : w.order = o => Follows(t, w) /\ TaskInPhase(w)
    <2>1. \A w \in tasks \ {t} : w.order = o => Follows(t, w) \/ Follows(w, t)
      BY DEF LifecycleInvariant, OneCommand
    <2>2. \A w \in tasks : ~Follows(w, t)
      BY DEF Follows
    <2> QED BY <2>1, <2>2 DEF LifecycleInvariant
  <1>4. \A w \in tasks \ {t} : w.order = o => Follows(u, w)
    BY <1>1, <1>3 DEF Follows
  <1>5. (Paying(o) => Paying(o)') /\ (Canceling(o) => Canceling(o)')
    BY <1>1 DEF Paying, Canceling, OfOrder, Replace
  <1>6. PaymentOf(o)' = PaymentOf(o) /\ (Asked(o) => Asked(o)')
    BY DEF PaymentOf, Asked, tableVars
  <1>7. TaskInPhase(u)'
    BY <1>1, <1>2, <1>5, <1>6 DEF TaskInPhase, tableVars
  <1>8. ASSUME NEW w \in tasks \ {t}, w.order = o PROVE TaskInPhase(w)'
    BY <1>3, <1>5, <1>6, <1>8 DEF TaskInPhase, tableVars
  <1>9. RowInPhase(o)'
    BY <1>2, RowStaysInPhase
  <1> QED BY <1>1, <1>4, <1>7, <1>8, <1>9, PhaseEffect DEF tableVars

\* A step that changes no row and leads to the next command of an order.
LEMMA PhaseLeadOn ==
  ASSUME LifecycleInvariant, LinesInvariant', NEW t \in tasks, UNCHANGED tableVars, UNCHANGED used,
         \A w \in tasks \ {t} : w.order # t.order,
         NEW c, NEW arg, LeadsTo(t, c, arg),
         \/ c \in ChainCommand
         \/ /\ c = "CancelPayment" /\ Asked(t.order) /\ orderState[t.order] = "CANCELED"
            /\ saga[t.order].step = "INVENTORY_COMPENSATED"
  PROVE  LifecycleInvariant'
  <1>1. PICK u : Replace(t, {u}) /\ u.cmd = c /\ u.order = t.order /\ u.pc = "start"
    BY DEF LeadsTo
  <1>2. RowInPhase(t.order)'
    BY PhaseFacts, RowStaysInPhase
  <1>3. TaskInPhase(u)'
    <2>1. CASE c \in ChainCommand
      BY <1>1, <2>1, ChainInPhase
    <2>2. CASE c \notin ChainCommand
      <3>1. Asked(t.order)'
        BY <2>2 DEF Asked
      <3> QED BY <1>1, <2>2, <3>1 DEF TaskInPhase, tableVars
    <2> QED BY <2>1, <2>2
  <1> QED BY <1>1, <1>2, <1>3, PhaseAlone DEF tableVars

\* A step after which fewer tasks run, none of which follows one that is gone.
LEMMA PhaseFewer ==
  ASSUME LifecycleInvariant, LinesInvariant', UNCHANGED tableVars, UNCHANGED used,
         tasks' \subseteq tasks,
         tasks' = {} \/ \A w \in tasks \ tasks' : w.pc # "published"
  PROVE  LifecycleInvariant'
  <1>1. \A o \in Order : RowInPhase(o)'
    BY RowStaysInPhase DEF LifecycleInvariant
  <1>2. OneCommand'
    BY DEF LifecycleInvariant, OneCommand, Follows
  <1>3. ASSUME NEW u \in tasks' PROVE TaskInPhase(u)'
    <2>1. TaskInPhase(u)
      BY <1>3 DEF LifecycleInvariant
    <2>2. (Paying(u.order) => Paying(u.order)') /\ (Canceling(u.order) => Canceling(u.order)')
      BY <1>3 DEF Paying, Canceling, OfOrder
    <2>3. PaymentOf(u.order)' = PaymentOf(u.order) /\ (Asked(u.order) => Asked(u.order)')
      BY DEF PaymentOf, Asked, tableVars
    <2> QED BY <2>1, <2>2, <2>3 DEF TaskInPhase, tableVars
  <1> QED BY <1>1, <1>2, <1>3 DEF LifecycleInvariant

\* A task that starts on an order that had none.
LEMMA PhaseMore ==
  ASSUME LifecycleInvariant, LinesInvariant', UNCHANGED tableVars, used \subseteq used',
         NEW u, tasks' = tasks \cup {u}, \A w \in tasks : w.order # u.order,
         TaskInPhase(u)'
  PROVE  LifecycleInvariant'
  <1>1. \A o \in Order : RowInPhase(o)'
    BY RowStaysInPhase DEF LifecycleInvariant
  <1>2. OneCommand'
    BY DEF LifecycleInvariant, OneCommand, Follows
  <1>3. ASSUME NEW w \in tasks PROVE TaskInPhase(w)'
    <2>1. TaskInPhase(w)
      BY DEF LifecycleInvariant
    <2>2. (Paying(w.order) => Paying(w.order)') /\ (Canceling(w.order) => Canceling(w.order)')
      BY DEF Paying, Canceling, OfOrder
    <2>3. PaymentOf(w.order)' = PaymentOf(w.order) /\ (Asked(w.order) => Asked(w.order)')
      BY DEF PaymentOf, Asked, tableVars
    <2> QED BY <2>1, <2>2, <2>3 DEF TaskInPhase, tableVars
  <1> QED BY <1>1, <1>2, <1>3 DEF LifecycleInvariant

\* Reserving a line.
LEMMA PhaseOfReserve ==
  ASSUME LifecycleInvariant, LinesInvariant', NEW t \in tasks,
         \/ ReserveInCache(t) \/ ReserveReadsSaga(t) \/ ReservePersistsSaga(t)
         \/ ReserveEnqueues(t) \/ ReserveCatches(t)
  PROVE  LifecycleInvariant'
  <1> USE DEF OrderCreated, ProductReserved, InventoryReserved, PaymentInitiated, ReservationFailed,
              ReservationReleased, InventoryCompensated, PaymentFailed, PaymentPaid
  <1> DEFINE o == t.order
  <1>1. t.cmd = "ReserveInventory" /\ t.cmd \in ChainCommand
    BY DEF ReserveInCache, ReserveReadsSaga, ReservePersistsSaga, ReserveEnqueues, ReserveCatches,
           ChainCommand
  <1>2. /\ t \in Task /\ o \in Order /\ TaskReserves(t) /\ RowInPhase(o) /\ TaskTyped(t)
        /\ \A w \in tasks \ {t} : w.order # o
        /\ payments[o] = <<>> /\ orderState[o] = "PENDING" /\ t.pc # "published"
    <2>1. t.pc # "published"
      BY <1>1, PhaseFacts DEF TaskReserves, PcOf, MarkingCommand
    <2> QED BY <1>1, <2>1, PhaseFacts, TaskFacts DEF TaskReserves
  <1>3. UNCHANGED used
    BY DEF ReserveInCache, ReserveReadsSaga, ReservePersistsSaga, ReserveEnqueues, ReserveCatches,
           Frame
  <1>4. ASSUME UNCHANGED tableVars, NEW pc, pc # "published", NEW seen, NEW todo,
               GoesOn(t, pc, t.arg, seen, todo)
        PROVE  LifecycleInvariant'
    BY <1>1, <1>2, <1>3, <1>4, PhaseGoOn
  <1>5. ASSUME UNCHANGED tableVars, NEW c \in ChainCommand, NEW arg, LeadsTo(t, c, arg)
        PROVE  LifecycleInvariant'
    BY <1>2, <1>3, <1>5, PhaseLeadOn
  <1>6. {"ReserveInventory", "ReleaseReservation", "InitiatePayment"} \subseteq ChainCommand
    BY DEF ChainCommand
  <1>a. CASE ReserveInCache(t)
    <2>1. CASE Continue(t, "granted")
      BY <1>2, <1>4, <1>a, <2>1, StepShapes DEF ReserveInCache
    <2>2. CASE Replace(t, {NewTask(t.flow, "ReleaseReservation", o)})
      <3>1. LeadsTo(t, "ReleaseReservation", 1)
        BY <1>2, <2>2, StepShapes
      <3> QED BY <1>5, <1>6, <1>a, <3>1 DEF ReserveInCache
    <2> QED BY <1>a, <2>1, <2>2 DEF ReserveInCache
  <1>b. CASE ReserveReadsSaga(t)
    BY <1>2, <1>4, <1>b, StepShapes DEF ReserveReadsSaga
  <1>c. CASE ReservePersistsSaga(t)
    <2> DEFINE reserved == Append(t.seen, t.arg)
               step == IF Unreserved(o, reserved) = {}
                       THEN "INVENTORY_RESERVED" ELSE "INVENTORY_RESERVING"
    <2>1. GoesOn(t, "saved", t.arg, reserved, t.todo)
      BY <1>2, <1>c, StepShapes
    <2>2. PICK u : Replace(t, {u}) /\ u.cmd = t.cmd /\ u.order = o
      BY <2>1 DEF GoesOn
    <2>3. UNCHANGED <<orderState, payments>> /\ WriteSaga(o, step, reserved)
      BY <1>c DEF ReservePersistsSaga
    <2>4. step \in ReservationStep
      BY DEF ReservationStep
    <2> HIDE DEF reserved, step
    <2>5. saga'[o].step = step /\ \A q \in Order \ {o} : saga'[q] = saga[q]
      BY <1>2, <2>3 DEF WriteSaga, LifecycleInvariant, LinesInvariant, SagaInvariant, TypeOK
    <2>6. RowInPhase(o)'
      <3>1. PaymentOf(o)' = None
        BY <1>2, <2>3 DEF PaymentOf
      <3>2. orderState'[o] = "PENDING"
        BY <1>2, <2>3
      <3> QED BY <2>4, <2>5, <3>1, <3>2 DEF RowInPhase, InPhase, At
    <2> QED BY <1>1, <1>2, <1>3, <2>2, <2>3, <2>5, <2>6, ChainInPhase, PhaseAlone
  <1>d. CASE ReserveEnqueues(t)
    <2>1. CASE Replace(t, {NewTask(t.flow, "InitiatePayment", o)})
      <3>1. LeadsTo(t, "InitiatePayment", 1)
        BY <1>2, <2>1, StepShapes
      <3> QED BY <1>5, <1>6, <1>d, <3>1 DEF ReserveEnqueues
    <2>2. ASSUME NEW i, Replace(t, {ReserveLine(t.flow, o, i)}) PROVE LifecycleInvariant'
      <3>1. LeadsTo(t, "ReserveInventory", i)
        BY <1>2, <2>2, StepShapes
      <3> QED BY <1>5, <1>6, <1>d, <3>1 DEF ReserveEnqueues
    <2> QED BY <1>d, <2>1, <2>2 DEF ReserveEnqueues
  <1>e. CASE ReserveCatches(t)
    <2>1. CASE Replace(t, {NewTask(t.flow, "ReleaseReservation", o)})
      <3>1. LeadsTo(t, "ReleaseReservation", 1)
        BY <1>2, <2>1, StepShapes
      <3> QED BY <1>5, <1>6, <1>e, <3>1 DEF ReserveCatches
    <2>2. CASE Replace(t, {})
      <3>1. tasks' \subseteq tasks /\ \A w \in tasks \ tasks' : w.pc # "published"
        BY <1>2, <2>2 DEF Replace
      <3> QED BY <1>3, <1>e, <3>1, PhaseFewer DEF ReserveCatches
    <2> QED BY <1>e, <2>1, <2>2 DEF ReserveCatches
  <1> QED BY <1>a, <1>b, <1>c, <1>d, <1>e

\* Returning lines.
LEMMA PhaseOfReturn ==
  ASSUME LifecycleInvariant, LinesInvariant', NEW t \in tasks,
         \/ ReleaseReadsSaga(t) \/ ReturnLine(t) \/ CompensateReadsSaga(t)
         \/ ReturnPersistsSaga(t) \/ ReturnEnqueues(t) \/ ReturnPublishes(t)
  PROVE  LifecycleInvariant'
  <1> USE DEF OrderCreated, ProductReserved, InventoryReserved, PaymentInitiated, ReservationFailed,
              ReservationReleased, InventoryCompensated, PaymentFailed, PaymentPaid
  <1> DEFINE o == t.order
  <1>1. /\ t \in Task /\ o \in Order /\ TaskReserves(t) /\ RowInPhase(o) /\ TaskInPhase(t)
        /\ t.cmd \in Command /\ RowReserves(o)
    BY PhaseFacts DEF Task
  <1>2. t.cmd \in {"ReleaseReservation", "CompensateOrderInventory"} /\ t.pc # "published"
    <2>1. t.pc = "returning" => t.cmd \in {"ReleaseReservation", "CompensateOrderInventory"}
      BY <1>1 DEF TaskReserves, PcOf, MarkingCommand, Command
    <2> QED BY <2>1 DEF ReleaseReadsSaga, ReturnLine, CompensateReadsSaga, ReturnPersistsSaga,
                        ReturnEnqueues, ReturnPublishes
  <1>3. UNCHANGED used
    BY DEF ReleaseReadsSaga, ReturnLine, CompensateReadsSaga, ReturnPersistsSaga, ReturnEnqueues,
           ReturnPublishes, Frame
  <1>4. ASSUME UNCHANGED tableVars, NEW pc, pc # "published", t.pc = "saved" <=> pc = "saved",
               NEW seen, NEW todo, GoesOn(t, pc, t.arg, seen, todo)
        PROVE  LifecycleInvariant'
    BY <1>2, <1>3, <1>4, PhaseGoOn
  <1>a. CASE ReleaseReadsSaga(t)
    <2>1. PICK pc \in {"returned", "returning"} :
            GoesOn(t, pc, t.arg, saga[o].reserved, saga[o].reserved)
      BY <1>1, <1>a, StepShapes
    <2> QED BY <1>4, <1>a, <2>1 DEF ReleaseReadsSaga
  <1>b. CASE ReturnLine(t)
    <2>1. PICK pc \in {"returned", "returning"} : GoesOn(t, pc, t.arg, t.seen, Tail(t.todo))
      BY <1>1, <1>b, StepShapes
    <2> QED BY <1>4, <1>b, <2>1 DEF ReturnLine
  <1>c. CASE CompensateReadsSaga(t)
    BY <1>1, <1>4, <1>c, StepShapes DEF CompensateReadsSaga
  <1>d. CASE ReturnPersistsSaga(t)
    <2> DEFINE todo == IF t.cmd = "ReleaseReservation" THEN t.seen ELSE AllLines(o)
    <2>1. GoesOn(t, "saved", t.arg, t.seen, todo)
      BY <1>1, <1>d, StepShapes
    <2>2. PICK u : Replace(t, {u}) /\ u.cmd = t.cmd /\ u.order = o /\ u.pc = "saved"
      BY <2>1 DEF GoesOn
    <2>3. /\ UNCHANGED <<orderState, payments>> /\ WriteSaga(o, "INVENTORY_COMPENSATED", t.seen)
          /\ SagaRowFree(o) /\ t.pc # "saved"
      BY <1>d DEF ReturnPersistsSaga
    <2>4. \A w \in tasks \ {t} : w.order # o
      BY <1>2, <2>3, PhaseFacts
    <2>5. saga'[o].step = "INVENTORY_COMPENSATED" /\ \A q \in Order \ {o} : saga'[q] = saga[q]
      BY <1>1, <2>3 DEF WriteSaga, LifecycleInvariant, LinesInvariant, SagaInvariant, TypeOK
    <2>6. PaymentOf(o)' = PaymentOf(o) /\ (Asked(o)' <=> Asked(o)) /\ orderState'[o] = orderState[o]
      BY <1>3, <2>3 DEF PaymentOf, Asked
    <2>7. CASE t.cmd = "ReleaseReservation"
      <3>1. t.cmd \in ChainCommand
        BY <2>7 DEF ChainCommand
      <3>2. orderState[o] = "PENDING" /\ PaymentOf(o) = None
        BY <1>1, <2>7, <3>1, TaskFacts, PhaseFacts, PaymentFacts DEF TaskReserves
      <3>3. RowInPhase(o)'
        BY <2>5, <2>6, <3>2 DEF RowInPhase, InPhase, At
      <3> QED BY <1>3, <2>2, <2>3, <2>4, <2>5, <3>1, <3>3, ChainInPhase, PhaseAlone
    <2>8. CASE t.cmd = "CompensateOrderInventory"
      <3>1. ~Canceling(o)
        BY <1>1, <2>3 DEF Canceling, OfOrder, SagaRowFree
      <3>2. orderState[o] = "CANCELED" /\ saga[o].step = "ORDER_CANCELED" /\ Asked(o)
        BY <1>1, <2>3, <2>8, <3>1 DEF TaskInPhase, ChainCommand
      <3>3. PaymentOf(o) \in {"OPEN", "FAILED"}
        BY <1>1, <3>2 DEF RowInPhase, InPhase, At, ReservationStep, None
      <3>4. RowInPhase(o)'
        BY <2>5, <2>6, <3>2, <3>3 DEF RowInPhase, InPhase, At
      <3>5. TaskInPhase(u)'
        BY <2>2, <2>5, <2>6, <2>8, <3>2 DEF TaskInPhase
      <3> QED BY <1>3, <2>2, <2>3, <2>4, <2>5, <3>4, <3>5, PhaseAlone
    <2> QED BY <1>2, <2>7, <2>8
  <1>e. CASE ReturnEnqueues(t)
    <2>1. GoesOn(t, "saved", t.arg, t.seen, Tail(t.todo))
      BY <1>1, <1>e, StepShapes
    <2> QED BY <1>4, <1>e, <2>1 DEF ReturnEnqueues
  <1>f. CASE ReturnPublishes(t)
    <2>1. UNCHANGED tableVars /\ t.pc = "saved"
      BY <1>f DEF ReturnPublishes
    <2>2. CASE t.cmd = "ReleaseReservation" /\ Replace(t, {NewTask(t.flow, "MarkOrderFail", o)})
      <3>1. LeadsTo(t, "MarkOrderFail", 1)
        BY <1>1, <2>2, StepShapes
      <3>2. \A w \in tasks \ {t} : w.order # o
        BY <2>2, PhaseFacts DEF ChainCommand
      <3>3. "MarkOrderFail" \in ChainCommand
        BY DEF ChainCommand
      <3> QED BY <1>3, <2>1, <3>1, <3>2, <3>3, PhaseLeadOn
    <2>3. CASE /\ t.cmd = "CompensateOrderInventory"
               /\ Replace(t, {NewTask(t.flow, "CancelPayment", o)})
      <3>1. LeadsTo(t, "CancelPayment", 1)
        BY <1>1, <2>3, StepShapes
      <3>2. \A w \in tasks \ {t} : w.order # o
        BY <2>1, <2>3, PhaseFacts
      <3>3. orderState[o] = "CANCELED" /\ saga[o].step = "INVENTORY_COMPENSATED" /\ Asked(o)
        BY <1>1, <2>1, <2>3 DEF TaskInPhase, ChainCommand
      <3> QED BY <1>3, <2>1, <3>1, <3>2, <3>3, PhaseLeadOn
    <2> QED BY <1>f, <2>2, <2>3 DEF ReturnPublishes
  <1> QED BY <1>a, <1>b, <1>c, <1>d, <1>e, <1>f

\* An exception outside of a transaction that has published its event.
LEMMA PhaseOfThrows ==
  ASSUME LifecycleInvariant, LinesInvariant', NEW t \in tasks, Throws(t), t.pc # "published"
  PROVE  LifecycleInvariant'
  <1>1. tasks' = {} \/ tasks' = tasks \ {t}
    BY DEF Throws
  <1>2. tasks' = {} \/ \A w \in tasks \ tasks' : w.pc # "published"
    BY <1>1
  <1> QED BY <1>1, <1>2, PhaseFewer DEF Throws

\* The transactions up to their commit.
LEMMA PhaseOfReads ==
  ASSUME LifecycleInvariant, LinesInvariant', NEW t \in tasks,
         \/ InitiatePaymentReads(t) \/ TransactionReadsSaga(t) \/ OrderCommandLoads(t)
         \/ PayForOrderLoads(t) \/ CancelPaymentLoads(t)
  PROVE  LifecycleInvariant'
  <1> DEFINE o == t.order
  <1>1. /\ t \in Task /\ o \in Order /\ TaskReserves(t) /\ RowInPhase(o) /\ TaskInPhase(t)
        /\ SagaInvariant
    BY PhaseFacts
  <1>2. t.pc \in {"start", "loaded"}
    BY DEF InitiatePaymentReads, TransactionReadsSaga, OrderCommandLoads, PayForOrderLoads,
           CancelPaymentLoads
  <1>3. ASSUME UNCHANGED tableVars, UNCHANGED used, ReadSaga(t, "read"),
               t.pc = "loaded" \/ t.cmd = "InitiatePayment"
        PROVE  LifecycleInvariant'
    <2>1. GoesOn(t, "read", t.arg, saga[o].reserved, t.todo)
      BY <1>1, <1>3, StepShapes
    <2>2. t.cmd = "CompensateOrderInventory" => FALSE
      BY <1>1, <1>2, <1>3 DEF TaskReserves, PcOf, MarkingCommand
    <2>3. t.cmd = "CancelOrder" => orderState[o] = "AWAITING_PAYMENT"
      BY <1>1, <1>3 DEF TaskInPhase
    <2>4. t.cmd = "CancelPayment" => PaymentOf(o) = "OPEN" /\ t.arg = 1
      BY <1>1, <1>3 DEF TaskInPhase
    <2> QED BY <1>2, <1>3, <2>1, <2>2, <2>3, <2>4, PhaseGoOn
  <1>4. ASSUME UNCHANGED tableVars, UNCHANGED used, Continue(t, "loaded"),
               t.cmd \in MarkingCommand \cup {"CancelOrder", "PayForOrder"},
               t.cmd = "CancelOrder" => orderState[o] = "AWAITING_PAYMENT"
        PROVE  LifecycleInvariant'
    <2>1. GoesOn(t, "loaded", t.arg, t.seen, t.todo)
      BY <1>1, <1>4, StepShapes
    <2> QED BY <1>2, <1>4, <2>1, PhaseGoOn DEF MarkingCommand
  <1>a. CASE InitiatePaymentReads(t)
    BY <1>3, <1>a DEF InitiatePaymentReads, Frame
  <1>b. CASE TransactionReadsSaga(t)
    BY <1>3, <1>b DEF TransactionReadsSaga, Frame
  <1>c. CASE OrderCommandLoads(t)
    <2>1. CASE Throws(t)
      BY <1>2, <2>1, PhaseOfThrows
    <2>2. CASE ~Throws(t)
      <3>1. /\ UNCHANGED tableVars /\ UNCHANGED used /\ Continue(t, "loaded")
            /\ t.cmd \in MarkingCommand \cup {"CancelOrder"} /\ t.pc = "start"
            /\ OrderMayBecome(o, NewOrderState(t.cmd))
        BY <1>c, <2>2 DEF OrderCommandLoads, Frame
      <3>2. t.cmd = "CancelOrder" => orderState[o] = "AWAITING_PAYMENT"
        BY <1>1, <3>1 DEF TaskInPhase, OrderMayBecome, FailedOrderState
      <3> QED BY <1>4, <3>1, <3>2
    <2> QED BY <2>1, <2>2
  <1>d. CASE PayForOrderLoads(t)
    BY <1>2, <1>4, <1>d, PhaseOfThrows DEF PayForOrderLoads, Frame
  <1>e. CASE CancelPaymentLoads(t)
    <2>1. ASSUME UNCHANGED tableVars, UNCHANGED used,
                 NEW i \in DOMAIN payments[o], PaymentMayBecome(o, i, "CANCELED"),
                 Replace(t, {[t EXCEPT !.pc = "loaded", !.arg = i]}), t.cmd = "CancelPayment"
          PROVE  LifecycleInvariant'
      <3>1. GoesOn(t, "loaded", i, t.seen, t.todo)
        BY <1>1, <2>1, StepShapes
      <3>2. payments[o] # <<>>
        BY <2>1
      <3>3. i = 1 /\ PaymentOf(o) = payments[o][1] /\ PaymentOf(o) \in PaymentState
        BY <1>1, <2>1, <3>2, PaymentFacts
      <3>4. PaymentOf(o) = "OPEN"
        BY <2>1, <3>3
          DEF PaymentMayBecome, PaymentState, PaidPaymentState, FailedPaymentState,
              CanceledPaymentState
      <3> QED BY <1>2, <2>1, <3>1, <3>3, <3>4, PhaseGoOn
    <2>2. ASSUME UNCHANGED tableVars, UNCHANGED used, Replace(t, {}) PROVE LifecycleInvariant'
      <3>1. tasks' \subseteq tasks /\ \A w \in tasks \ tasks' : w.pc # "published"
        BY <1>2, <2>2 DEF Replace
      <3> QED BY <2>2, <3>1, PhaseFewer
    <2> QED BY <1>2, <1>e, <2>1, <2>2, PhaseOfThrows DEF CancelPaymentLoads, Frame
  <1> QED BY <1>a, <1>b, <1>c, <1>d, <1>e

\* The transactions that publish their event before they commit.
LEMMA PhaseOfPublishes ==
  ASSUME LifecycleInvariant, LinesInvariant', NEW t \in tasks,
         CancelOrderPublishes(t) \/ PayForOrderPublishes(t)
  PROVE  LifecycleInvariant'
  <1> USE DEF PaymentFailed, PaymentPaid
  <1> DEFINE o == t.order
             w == [t EXCEPT !.pc = "published"]
  <1>1. /\ t \in Task /\ o \in Order /\ RowInPhase(o) /\ TaskInPhase(t)
        /\ t.pc = "read" /\ UNCHANGED tableVars /\ UNCHANGED used /\ SagaRowFree(o)
        /\ t.cmd \notin ChainCommand
    BY PhaseFacts DEF CancelOrderPublishes, PayForOrderPublishes, Frame, ChainCommand
  <1>2. \A v \in tasks \ {t} : v.order # o
    BY <1>1, PhaseFacts
  <1>3. /\ w.order = o /\ w.cmd = t.cmd /\ w.pc = "published" /\ w.arg = t.arg
        /\ w.outcome = t.outcome
    BY <1>1 DEF Task
  <1> HIDE DEF w
  <1>4. PaymentOf(o)' = PaymentOf(o) /\ (Asked(o) <=> Asked(o)') /\ Asked(o)
    BY <1>1 DEF PaymentOf, Asked, tableVars, TaskInPhase
  <1>5. RowInPhase(o)'
    BY <1>1, RowStaysInPhase
  <1>6. TaskInPhase(w)'
    BY <1>1, <1>3, <1>4 DEF TaskInPhase, tableVars, CancelOrderPublishes, PayForOrderPublishes
  <1>7. ASSUME NEW u, Replace(t, {w, u}), u.order = o, TaskInPhase(u)', Follows(u, w)
        PROVE  LifecycleInvariant'
    BY <1>1, <1>2, <1>3, <1>5, <1>6, <1>7, PhaseAlone DEF tableVars
  <1>a. CASE CancelOrderPublishes(t)
    <2> DEFINE u == OrderCanceled(ChildFlow(t), o)
    <2>1. u.order = o /\ u.cmd = "CompensateOrderInventory" /\ u.pc = "returning"
      BY DEF OrderCanceled, TaskWith
    <2>2. Replace(t, {w, u}) /\ t.cmd = "CancelOrder"
      BY <1>a DEF CancelOrderPublishes, w
    <2> HIDE DEF u
    <2>3. Canceling(o)'
      BY <1>3, <2>2 DEF Canceling, OfOrder, Replace
    <2>4. TaskInPhase(u)'
      BY <1>4, <2>1, <2>3 DEF TaskInPhase
    <2>5. Follows(u, w)
      BY <1>3, <2>1, <2>2 DEF Follows
    <2> QED BY <1>7, <2>1, <2>2, <2>4, <2>5
  <1>b. CASE PayForOrderPublishes(t)
    <2> DEFINE u == IF t.outcome = "PAID" THEN NewTask(t.flow, "MarkOrderAsComplete", o)
                                          ELSE NewTask(t.flow, "CancelOrder", o)
    <2>1. /\ u.order = o /\ u.pc = "start"
          /\ u.cmd = IF t.outcome = "PAID" THEN "MarkOrderAsComplete" ELSE "CancelOrder"
      BY DEF NewTask, TaskWith
    <2>2. Replace(t, {w, u}) /\ t.cmd = "PayForOrder"
      BY <1>b DEF PayForOrderPublishes, w
    <2> HIDE DEF u
    <2>3. t.outcome = "PAID" => Paying(o)'
      BY <1>3, <2>2 DEF Paying, OfOrder, Replace
    <2>4. orderState'[o] = "AWAITING_PAYMENT" /\ PaymentOf(o) = "OPEN"
      BY <1>1, <2>2 DEF TaskInPhase, tableVars
    <2>5. TaskInPhase(u)'
      BY <1>4, <2>1, <2>3, <2>4 DEF TaskInPhase
    <2>6. Follows(u, w)
      BY <1>3, <2>1, <2>2 DEF Follows
    <2> QED BY <1>7, <2>1, <2>2, <2>5, <2>6
  <1> QED BY <1>a, <1>b

\* A commit: what it does to the phase of its order.
LEMMA PhaseOfCommits ==
  ASSUME LifecycleInvariant, LinesInvariant', NEW t \in tasks,
         \/ InitiatePaymentCommits(t) \/ MarkOrderCommits(t) \/ CancelOrderCommits(t)
         \/ PayForOrderCommits(t) \/ CancelPaymentCommits(t)
  PROVE  LifecycleInvariant'
  <1> USE DEF PaymentInitiated
  <1> DEFINE o == t.order
  <1>1. /\ t \in Task /\ o \in Order /\ TaskReserves(t) /\ RowReserves(o)
        /\ RowInPhase(o) /\ InPhase(o) /\ TaskInPhase(t)
        /\ SagaInvariant /\ orderState \in [Order -> OrderState \cup {None}]
        /\ payments \in [Order -> Seq(PaymentState)]
    BY PhaseFacts DEF SagaInvariant, TypeOK, RowInPhase
  <1>2. UNCHANGED used /\ (Asked(o)' <=> Asked(o))
    BY DEF InitiatePaymentCommits, MarkOrderCommits, CancelOrderCommits, PayForOrderCommits,
           CancelPaymentCommits, WriteOrder, Frame, Asked
  <1>3. \A step, reserved : WriteSaga(o, step, reserved) =>
          saga'[o].step = step /\ \A q \in Order \ {o} : saga'[q] = saga[q]
    BY <1>1 DEF WriteSaga, SagaInvariant, TypeOK
  <1>a. CASE InitiatePaymentCommits(t)
    <2>1. /\ t.cmd \in ChainCommand /\ t.cmd = "InitiatePayment" /\ UNCHANGED orderState
          /\ payments' = [payments EXCEPT ![o] = Append(@, "OPEN")]
          /\ WriteSaga(o, "PAYMENT_CREATED", t.seen)
      BY <1>a DEF InitiatePaymentCommits, ChainCommand
    <2>2. LeadsTo(t, "MarkOrderAwaitingPayment", 1)
      BY <1>1, <1>a, StepShapes DEF InitiatePaymentCommits
    <2>3. PICK u : Replace(t, {u}) /\ u.cmd = "MarkOrderAwaitingPayment" /\ u.order = o
      BY <2>2 DEF LeadsTo
    <2>4. orderState[o] = "PENDING" /\ payments[o] = <<>>
      BY <1>1, <2>1, TaskFacts, PhaseFacts DEF TaskReserves
    <2>5. PaymentOf(o)' = "OPEN" /\ \A q \in Order \ {o} : payments'[q] = payments[q]
      <3>1. payments'[o] = Append(<<>>, "OPEN")
        BY <1>1, <2>1, <2>4
      <3>2. payments'[o] = <<"OPEN">>
        BY <3>1
      <3>3. payments'[o] # <<>> /\ payments'[o][1] = "OPEN"
        BY <3>2
      <3>4. \A q \in Order \ {o} : payments'[q] = payments[q]
        BY <1>1, <2>1
      <3> QED BY <3>3, <3>4 DEF PaymentOf
    <2>6. RowInPhase(o)'
      BY <1>3, <2>1, <2>4, <2>5 DEF RowInPhase, InPhase, At
    <2>7. \A w \in tasks \ {t} : w.order # o
      BY <2>1, PhaseFacts
    <2>8. "MarkOrderAwaitingPayment" \in ChainCommand
      BY DEF ChainCommand
    <2> QED BY <1>2, <1>3, <2>1, <2>3, <2>5, <2>6, <2>7, <2>8, ChainInPhase, PhaseAlone
  <1>4. ASSUME t.cmd \in MarkingCommand \cup {"CancelOrder"}, WriteOrder(t)
        PROVE  /\ orderState'[o] = NewOrderState(t.cmd) /\ saga'[o].step = NewStep(t.cmd)
               /\ UNCHANGED payments /\ PaymentOf(o)' = PaymentOf(o)
               /\ \A q \in Order \ {o} : /\ orderState'[q] = orderState[q]
                                         /\ payments'[q] = payments[q] /\ saga'[q] = saga[q]
    BY <1>1, <1>3, <1>4 DEF WriteOrder, PaymentOf
  <1>b. CASE MarkOrderCommits(t)
    <2>1. /\ t.cmd \in MarkingCommand /\ t.pc = "read" /\ SagaRowFree(o)
          /\ Replace(t, {}) /\ WriteOrder(t)
      BY <1>b DEF MarkOrderCommits
    <2>2. \A w \in tasks \ {t} : w.order # o
      BY <2>1, PhaseFacts
    <2>3. RowInPhase(o)'
      <3>1. CASE t.cmd = "MarkOrderAwaitingPayment"
        <4>1. orderState[o] = "PENDING" /\ payments[o] # <<>>
          BY <1>1, <3>1, TaskFacts, PhaseFacts DEF TaskReserves, ChainCommand
        <4>2. PaymentOf(o) = "OPEN"
          BY <1>1, <4>1, PaymentFacts DEF InPhase, At, PaymentState, None
        <4> QED BY <1>4, <2>1, <3>1, <4>2
              DEF RowInPhase, InPhase, At, NewOrderState, NewStep
      <3>2. CASE t.cmd = "MarkOrderFail"
        <4>1. PaymentOf(o) = None
          BY <1>1, <3>2, TaskFacts, PhaseFacts, PaymentFacts DEF ChainCommand
        <4> QED BY <1>4, <2>1, <3>2, <4>1
              DEF RowInPhase, InPhase, At, NewOrderState, NewStep
      <3>3. CASE t.cmd = "MarkOrderAsComplete"
        <4>1. ~Paying(o)
          BY <2>1 DEF Paying, OfOrder, SagaRowFree
        <4>2. PaymentOf(o) = "PAID" /\ Asked(o)
          BY <1>1, <3>3, <4>1 DEF TaskInPhase, ChainCommand
        <4> QED BY <1>2, <1>4, <2>1, <3>3, <4>2
              DEF RowInPhase, InPhase, At, NewOrderState, NewStep
      <3> QED BY <2>1, <3>1, <3>2, <3>3 DEF MarkingCommand
    <2> QED BY <1>2, <1>4, <2>1, <2>2, <2>3, PhaseAlone
  <1>c. CASE CancelOrderCommits(t)
    <2>1. t.cmd = "CancelOrder" /\ t.pc = "published" /\ Replace(t, {}) /\ WriteOrder(t)
      BY <1>c DEF CancelOrderCommits
    <2>2. PaymentOf(o) \in {"OPEN", "FAILED"} /\ Asked(o)
      BY <1>1, <2>1 DEF TaskInPhase, ChainCommand
    <2>3. orderState'[o] = "CANCELED" /\ saga'[o].step = "ORDER_CANCELED"
      BY <1>4, <2>1 DEF NewOrderState, NewStep
    <2>4. RowInPhase(o)'
      BY <1>2, <1>4, <2>1, <2>2, <2>3 DEF RowInPhase, InPhase, At
    <2>5. ASSUME NEW w \in tasks \ {t}, w.order = o PROVE TaskInPhase(w)'
      <3>1. Follows(t, w) \/ Follows(w, t)
        BY <2>5 DEF LifecycleInvariant, OneCommand
      <3>2. w.cmd = "CompensateOrderInventory" /\ w.pc # "saved"
        BY <2>1, <3>1 DEF Follows
      <3> QED BY <1>2, <2>2, <2>3, <2>5, <3>2 DEF TaskInPhase
    <2> QED BY <1>2, <1>4, <2>1, <2>4, <2>5, PhaseEffect
  <1>5. ASSUME orderState[o] # "PENDING", PaymentOf(o) = "OPEN", t.arg = 1,
               NEW s, PaymentBecomes(o, t.arg, s)
        PROVE  /\ PaymentOf(o)' = s
               /\ \A q \in Order \ {o} : payments'[q] = payments[q]
    <2>1. payments[o] # <<>>
      BY <1>1, <1>5, PaymentFacts DEF None
    <2> QED BY <1>1, <1>5, <2>1, PaymentWritten
  <1>d. CASE PayForOrderCommits(t)
    <2> DEFINE step == IF t.outcome = "PAID" THEN "PAYMENT_SUCCEEDED" ELSE "PAYMENT_FAILED"
    <2>1. /\ t.cmd = "PayForOrder" /\ t.pc = "published" /\ Replace(t, {})
          /\ WriteSaga(o, step, t.seen) /\ UNCHANGED orderState
          /\ PaymentBecomes(o, t.arg, t.outcome)
      BY <1>d DEF PayForOrderCommits
    <2>2. /\ orderState[o] = "AWAITING_PAYMENT" /\ PaymentOf(o) = "OPEN" /\ t.arg = 1 /\ Asked(o)
      BY <1>1, <2>1 DEF TaskInPhase, ChainCommand
    <2>3. /\ PaymentOf(o)' = t.outcome /\ \A q \in Order \ {o} : payments'[q] = payments[q]
      BY <1>5, <2>1, <2>2
    <2>4. t.outcome \in {"PAID", "FAILED"}
      BY <1>1 DEF Task
    <2>5. saga'[o].step = step /\ \A q \in Order \ {o} : saga'[q] = saga[q]
      BY <1>3, <2>1
    <2>6. RowInPhase(o)'
      BY <1>2, <2>1, <2>2, <2>3, <2>4, <2>5 DEF RowInPhase, InPhase, At
    <2>7. ASSUME NEW w \in tasks \ {t}, w.order = o PROVE TaskInPhase(w)'
      <3>1. Follows(t, w) \/ Follows(w, t)
        BY <2>7 DEF LifecycleInvariant, OneCommand
      <3>2. w.cmd = IF t.outcome = "PAID" THEN "MarkOrderAsComplete" ELSE "CancelOrder"
        BY <2>1, <3>1 DEF Follows
      <3> QED BY <1>2, <2>1, <2>2, <2>3, <2>4, <2>7, <3>2 DEF TaskInPhase
    <2> QED BY <1>2, <2>1, <2>3, <2>5, <2>6, <2>7, PhaseEffect
  <1>e. CASE CancelPaymentCommits(t)
    <2>1. /\ t.cmd = "CancelPayment" /\ t.pc = "read" /\ Replace(t, {})
          /\ WriteSaga(o, "PAYMENT_CANCELED", t.seen) /\ UNCHANGED orderState
          /\ PaymentBecomes(o, t.arg, "CANCELED")
      BY <1>e DEF CancelPaymentCommits
    <2>2. orderState[o] = "CANCELED" /\ PaymentOf(o) = "OPEN" /\ t.arg = 1 /\ Asked(o)
      BY <1>1, <2>1 DEF TaskInPhase, ChainCommand
    <2>3. /\ PaymentOf(o)' = "CANCELED" /\ \A q \in Order \ {o} : payments'[q] = payments[q]
      BY <1>5, <2>1, <2>2
    <2>4. RowInPhase(o)'
      BY <1>2, <1>3, <2>1, <2>2, <2>3 DEF RowInPhase, InPhase, At
    <2>5. \A w \in tasks \ {t} : w.order # o
      BY <2>1, PhaseFacts
    <2> QED BY <1>2, <1>3, <2>1, <2>3, <2>4, <2>5, PhaseAlone
  <1> QED BY <1>a, <1>b, <1>c, <1>d, <1>e

\* An order nobody asked about has at most the command that creates it.
LEMMA NobodyAsked ==
  ASSUME LifecycleInvariant, CustomersArePatient, NEW r \in Request, r \notin used,
         orderState[About[r]] \in CancelFrom \cup PayFrom
  PROVE  /\ About[r] \in Order
         /\ \A w \in tasks : w.order # About[r]
         /\ \/ orderState[About[r]] = "AWAITING_PAYMENT" /\ PaymentOf(About[r]) = "OPEN"
            \/ orderState[About[r]] = "FAILED" /\ PaymentOf(About[r]) = None
  <1> DEFINE o == About[r]
  <1>1. o \in Order
    BY AboutAssumption
  <1>2. ~Asked(o)
    BY DEF Asked, CustomersArePatient, OneRequest, LifecycleInvariant, LinesInvariant, SagaInvariant, TypeOK
  <1>3. orderState[o] \in OrderState \ {"PENDING"}
    BY CustomerAssumption DEF CustomersArePatient, CustomersWait
  <1>4. ASSUME NEW w \in tasks, w.order = o PROVE FALSE
    <2>1. w.cmd \in ChainCommand
      BY <1>2, <1>4 DEF LifecycleInvariant, TaskInPhase
    <2> QED BY <1>3, <1>4, <2>1, PhaseFacts DEF TaskReserves
  <1>5. RowInPhase(o)
    BY <1>1 DEF LifecycleInvariant
  <1>6. \/ orderState[o] = "AWAITING_PAYMENT" /\ PaymentOf(o) = "OPEN"
        \/ orderState[o] = "FAILED" /\ PaymentOf(o) = None
    BY <1>2, <1>3, <1>5 DEF RowInPhase, InPhase, At, OrderState, None
  <1> QED BY <1>1, <1>4, <1>6

\* Customers place orders, and cancel or pay them once.
LEMMA PhaseOfCustomers ==
  ASSUME LifecycleInvariant, LinesInvariant', CustomersArePatient,
         \/ \E o \in Order : PlaceOrder(o)
         \/ \E r \in Request : RequestCancel(r) \/ RequestPayment(r)
  PROVE  LifecycleInvariant'
  <1> USE DEF OrderCreated
  <1>1. ASSUME NEW o \in Order, PlaceOrder(o) PROVE LifecycleInvariant'
    <2> DEFINE u == ReserveLine("saga", o, 1)
    <2>1. u.order = o /\ u.cmd = "ReserveInventory" /\ u.cmd \in ChainCommand
      BY DEF ReserveLine, TaskWith, ChainCommand
    <2>2. /\ tasks' = tasks \cup {u} /\ orderState[o] = None
          /\ orderState' = [orderState EXCEPT ![o] = "PENDING"]
          /\ WriteSaga(o, "INITIATED", <<>>) /\ UNCHANGED payments /\ UNCHANGED used
      BY <1>1 DEF PlaceOrder, Frame
    <2> HIDE DEF u
    <2>3. /\ orderState'[o] = "PENDING" /\ saga'[o].step = "INITIATED"
          /\ \A q \in Order \ {o} : orderState'[q] = orderState[q] /\ saga'[q] = saga[q]
      BY <2>2 DEF WriteSaga, LifecycleInvariant, LinesInvariant, SagaInvariant, TypeOK
    <2>4. payments[o] = <<>> /\ \A v \in tasks : v.order # o
      BY <2>2 DEF LifecycleInvariant, LinesInvariant, SagaInvariant, NotPlaced
    <2>5. \A q \in Order : PaymentOf(q)' = PaymentOf(q) /\ (Asked(q)' <=> Asked(q))
      BY <2>2 DEF PaymentOf, Asked
    <2>6. ASSUME NEW q \in Order PROVE RowInPhase(q)'
      <3>1. CASE q = o
        BY <2>3, <2>4, <2>5, <3>1 DEF RowInPhase, InPhase, At, PaymentOf, ReservationStep
      <3>2. CASE q # o
        BY <2>3, <2>5, <3>2 DEF LifecycleInvariant, RowInPhase, InPhase, At
      <3> QED BY <3>1, <3>2
    <2>7. OneCommand'
      BY <2>1, <2>2, <2>4 DEF LifecycleInvariant, OneCommand, Follows
    <2>8. ASSUME NEW v \in tasks' PROVE TaskInPhase(v)'
      <3>1. CASE v = u
        BY <2>1, <3>1, ChainInPhase
      <3>2. CASE v \in tasks
        <4>1. v.order \in Order \ {o} /\ TaskInPhase(v)
          BY <2>4, <3>2, PhaseFacts
        <4>2. saga'[v.order] = saga[v.order] /\ orderState'[v.order] = orderState[v.order]
          BY <2>3, <4>1
        <4>3. OfOrder(v.order)' = OfOrder(v.order)
          BY <2>1, <2>2, <4>1 DEF OfOrder
        <4>4. (Paying(v.order)' <=> Paying(v.order)) /\ (Canceling(v.order)' <=> Canceling(v.order))
          BY <4>3 DEF Paying, Canceling
        <4> QED BY <2>5, <4>1, <4>2, <4>4 DEF TaskInPhase
      <3> QED BY <2>2, <3>1, <3>2
    <2> QED BY <2>6, <2>7, <2>8 DEF LifecycleInvariant
  <1>2. ASSUME NEW r \in Request, RequestCancel(r) \/ RequestPayment(r)
        PROVE  LifecycleInvariant'
    <2> DEFINE o == About[r]
    <2>1. /\ UNCHANGED tableVars /\ r \notin used /\ used' = used \cup {r}
          /\ orderState[o] \in CancelFrom \cup PayFrom
      BY <1>2 DEF RequestCancel, RequestPayment, Arrives
    <2>2. /\ o \in Order /\ \A w \in tasks : w.order # o
          /\ \/ orderState[o] = "AWAITING_PAYMENT" /\ PaymentOf(o) = "OPEN"
             \/ orderState[o] = "FAILED" /\ PaymentOf(o) = None
      BY <2>1, NobodyAsked
    <2>3. Asked(o)' /\ PaymentOf(o)' = PaymentOf(o)
      BY <2>1 DEF Asked, PaymentOf, tableVars
    <2>4. CASE RequestCancel(r)
      <3> DEFINE u == NewTask(r, "CancelOrder", o)
      <3>1. u.order = o /\ u.cmd = "CancelOrder" /\ u.pc = "start"
        BY DEF NewTask, TaskWith
      <3>2. tasks' = tasks \cup {u}
        BY <2>4 DEF RequestCancel
      <3> HIDE DEF u
      <3>3. TaskInPhase(u)'
        BY <2>1, <2>2, <2>3, <3>1 DEF TaskInPhase, tableVars
      <3> QED BY <2>1, <2>2, <3>1, <3>2, <3>3, PhaseMore
    <2>5. CASE RequestPayment(r)
      <3>1. PICK i \in DOMAIN payments[o], result \in {"PAID", "FAILED"} :
              tasks' = tasks \cup {Payment(r, o, i, result)}
        BY <2>5 DEF RequestPayment
      <3> DEFINE u == Payment(r, o, i, result)
      <3>2. u.order = o /\ u.cmd = "PayForOrder" /\ u.pc = "start" /\ u.arg = i
        BY DEF Payment, TaskWith
      <3>3. tasks' = tasks \cup {u}
        BY <3>1
      <3> HIDE DEF u
      <3>4. payments[o] # <<>>
        BY <3>1
      <3>5. i = 1 /\ PaymentOf(o) # None
        BY <2>2, <3>1, <3>4, PaymentFacts DEF LifecycleInvariant, LinesInvariant
      <3>6. TaskInPhase(u)'
        BY <2>1, <2>2, <2>3, <3>2, <3>5 DEF TaskInPhase, tableVars
      <3> QED BY <2>1, <2>2, <3>2, <3>3, <3>6, PhaseMore
    <2> QED BY <1>2, <2>4, <2>5
  <1> QED BY <1>1, <1>2

\* The recovery starts a command in its phase.
LEMMA PhaseOfRecovery ==
  ASSUME LifecycleInvariant, LinesInvariant', NEW o \in Order, RecoverSaga(o)
  PROVE  LifecycleInvariant'
  <1> USE DEF OrderCreated, InventoryReserved, PaymentInitiated
  <1>1. /\ RowInPhase(o) /\ InPhase(o) /\ SagaInvariant
        /\ UNCHANGED tableVars /\ UNCHANGED used /\ tasks' = tasks \cup Recovered(o)
        /\ \A w \in tasks : w.order # o
    BY DEF LifecycleInvariant, LinesInvariant, SagaInvariant, RecoveryIsFirst, RecoverSaga,
           RowInPhase
  <1>2. PaymentOf(o)' = PaymentOf(o) /\ (Asked(o)' <=> Asked(o))
    BY <1>1 DEF PaymentOf, Asked, tableVars
  <1>3. ASSUME NEW u, Recovered(o) = {u}, u.order = o, TaskInPhase(u)'
        PROVE  LifecycleInvariant'
    BY <1>1, <1>3, PhaseMore
  <1>4. CASE Recovered(o) = {}
    <2>1. tasks' = tasks
      BY <1>1, <1>4
    <2> QED BY <1>1, <2>1, PhaseFewer
  <1>5. CASE saga[o].step = "INITIATED"
    <2> DEFINE u == ReserveLine("saga", o, 1)
    <2>1. Recovered(o) = {u} /\ u.order = o /\ u.cmd \in ChainCommand
      BY <1>5 DEF Recovered, ReserveLine, TaskWith, ChainCommand
    <2> HIDE DEF u
    <2> QED BY <1>3, <2>1, ChainInPhase
  <1>6. CASE saga[o].step = "INVENTORY_RESERVED"
    <2> DEFINE u == NewTask("saga", "InitiatePayment", o)
    <2>1. Recovered(o) = {u} /\ u.order = o /\ u.cmd \in ChainCommand
      BY <1>6 DEF Recovered, NewTask, TaskWith, ChainCommand
    <2> HIDE DEF u
    <2> QED BY <1>3, <2>1, ChainInPhase
  <1>7. CASE saga[o].step = "PAYMENT_CREATED"
    <2> DEFINE u == NewTask("saga", "MarkOrderAwaitingPayment", o)
    <2>1. Recovered(o) = {u} /\ u.order = o /\ u.cmd \in ChainCommand
      BY <1>7 DEF Recovered, NewTask, TaskWith, ChainCommand
    <2> HIDE DEF u
    <2> QED BY <1>3, <2>1, ChainInPhase
  <1>8. CASE saga[o].step = "ORDER_CANCELED"
    <2> DEFINE u == OrderCanceled("saga", o)
    <2>1. /\ Recovered(o) = {u} /\ u.order = o /\ u.pc = "returning"
          /\ u.cmd = "CompensateOrderInventory"
      BY <1>8 DEF Recovered, OrderCanceled, TaskWith
    <2>2. orderState[o] = "CANCELED" /\ Asked(o)
      BY <1>1, <1>8 DEF RowInPhase, InPhase, At, ReservationStep, None
    <2> HIDE DEF u
    <2>3. TaskInPhase(u)'
      BY <1>1, <1>2, <1>8, <2>1, <2>2 DEF TaskInPhase, tableVars
    <2> QED BY <1>3, <2>1, <2>3
  <1>9. ASSUME NEW f, NEW c, Recovered(o) = {NewTask(f, c, o)},
               \A u : u.order = o /\ u.cmd = c /\ u.pc = "start" => TaskInPhase(u)'
        PROVE  LifecycleInvariant'
    <2> DEFINE u == NewTask(f, c, o)
    <2>1. u.order = o /\ u.pc = "start" /\ u.cmd = c
      BY DEF NewTask, TaskWith
    <2>2. Recovered(o) = {u}
      BY <1>9
    <2> HIDE DEF u
    <2> QED BY <1>3, <1>9, <2>1, <2>2
  <1>10. CASE saga[o].step = "INVENTORY_COMPENSATED" /\ payments[o] # <<>>
    <2>1. PaymentOf(o) # None
      BY <1>1, <1>10, PaymentFacts
    <2>2. orderState[o] = "CANCELED" /\ Asked(o)
      BY <1>1, <1>10, <2>1 DEF RowInPhase, InPhase, At, ReservationStep, None
    <2>3. Recovered(o) = {NewTask("boot", "CancelPayment", o)}
      BY <1>10 DEF Recovered
    <2>4. \A u : u.order = o /\ u.cmd = "CancelPayment" /\ u.pc = "start" => TaskInPhase(u)'
      BY <1>1, <1>2, <1>10, <2>2 DEF TaskInPhase, tableVars
    <2> QED BY <1>9, <2>3, <2>4
  <1>11. CASE saga[o].step = "PAYMENT_FAILED"
    <2>1. orderState[o] = "AWAITING_PAYMENT" /\ PaymentOf(o) = "FAILED" /\ Asked(o)
      BY <1>1, <1>11 DEF RowInPhase, InPhase, At, ReservationStep, None
    <2>2. Recovered(o) = {NewTask("boot", "CancelOrder", o)}
      BY <1>11 DEF Recovered
    <2>3. \A u : u.order = o /\ u.cmd = "CancelOrder" /\ u.pc = "start" => TaskInPhase(u)'
      BY <1>1, <1>2, <2>1 DEF TaskInPhase, tableVars
    <2> QED BY <1>9, <2>2, <2>3
  <1>12. CASE saga[o].step = "PAYMENT_SUCCEEDED"
    <2>1. orderState[o] = "AWAITING_PAYMENT" /\ PaymentOf(o) = "PAID" /\ Asked(o)
      BY <1>1, <1>12 DEF RowInPhase, InPhase, At, ReservationStep, None
    <2>2. Recovered(o) = {NewTask("boot", "MarkOrderAsComplete", o)}
      BY <1>12 DEF Recovered
    <2>3. \A u : u.order = o /\ u.cmd = "MarkOrderAsComplete" /\ u.pc = "start" => TaskInPhase(u)'
      BY <1>1, <1>2, <2>1 DEF TaskInPhase, tableVars
    <2> QED BY <1>9, <2>2, <2>3
  <1>13. saga[o].step # "INVENTORY_RESERVE_FAILED"
    BY StepIsKnown DEF LifecycleInvariant, LinesInvariant, SagaInvariant
  <1> QED BY <1>4, <1>5, <1>6, <1>7, <1>8, <1>10, <1>11, <1>12, <1>13 DEF Recovered

\* Every step preserves the second layer.
LEMMA PhaseNext ==
  ASSUME CustomersArePatient, TransactionsCommit, LifecycleInvariant, [Next]_vars
  PROVE  LifecycleInvariant'
  <1>1. LinesInvariant'
    BY LinesNext DEF LifecycleInvariant, CustomersArePatient
  <1>2. CASE UNCHANGED vars
    BY <1>1, <1>2, PhaseFewer DEF vars
  <1>3. ASSUME NEW t \in tasks, DependencyFails(t) PROVE LifecycleInvariant'
    <2>1. Throws(t) /\ t.pc # "published"
      BY <1>3 DEF DependencyFails, Dependency, TransactionsCommit
    <2> QED BY <1>1, <2>1, PhaseOfThrows
  <1>4. ASSUME NEW t \in tasks, TaskStep(t) \/ TaskFails(t) PROVE LifecycleInvariant'
    BY <1>1, <1>3, <1>4, PhaseOfReserve, PhaseOfReturn, PhaseOfReads, PhaseOfPublishes,
       PhaseOfCommits
      DEF TaskStep, TaskFails
  <1>5. CASE WorkerStep \/ RecoveryEnds \/ Restart \/ LoaderRuns \/ Crash
    BY <1>1, <1>5, PhaseFewer DEF WorkerStep, RecoveryEnds, Restart, LoaderRuns, LoaderReads, LoaderSets,
                                    LoaderEnds, Crash, serverVars
  <1> QED BY <1>1, <1>2, <1>4, <1>5, PhaseOfCustomers, PhaseOfRecovery DEF Next, Progress

\* Initially no order is placed.
LEMMA PhaseInit == Init => LifecycleInvariant
  <1> SUFFICES ASSUME Init PROVE LifecycleInvariant
    OBVIOUS
  <1>1. LinesInvariant
    BY LinesInit
  <1>2. ASSUME NEW o \in Order PROVE RowInPhase(o)
    <2>1. orderState[o] = None /\ PaymentOf(o) = None /\ saga[o].step = None
      BY DEF Init, PaymentOf
    <2> QED BY <2>1 DEF RowInPhase, InPhase, At, None
  <1> QED BY <1>1, <1>2 DEF LifecycleInvariant, OneCommand, Init

\* When a customer sends one request about an offered order and transactions
\* commit, an order has one command in execution, in a phase that allows it,
\* whatever Redis and the queue do and however often the server restarts.
THEOREM PhasesHold ==
  ASSUME CustomersArePatient, TransactionsCommit
  PROVE  Spec => []LifecycleInvariant
  <1>1. LifecycleInvariant /\ [Next]_vars => LifecycleInvariant'
    BY PhaseNext
  <1> QED BY <1>1, PhaseInit, PTL DEF Spec

------------------------------------------------------------------------------
(* The sides of a payment, for orders that are the subject of one request. *)

\* What the invariant says of a task and of its order.
LEMMA SideFacts ==
  ASSUME SidesInvariant, NEW t \in tasks
  PROVE  /\ t \in Task /\ t.order \in Order /\ OneSide(t.order)
         /\ PaidTask(t) => PaidSide(t.order) /\ ~UnpaidSide(t.order)
         /\ UnpaidTask(t) => UnpaidSide(t.order) /\ ~PaidSide(t.order)
         /\ HasPaid(t.order) => ~UnpaidTask(t)
  <1>1. t \in Task /\ t.order \in Order
    BY DEF SidesInvariant, SagaInvariant, TypeOK, TaskTyped, Task
  <1>2. OneSide(t.order)
    BY <1>1 DEF SidesInvariant
  <1>3. /\ PaidTask(t) => PaidSide(t.order)
        /\ UnpaidTask(t) => UnpaidSide(t.order)
        /\ HasPaid(t.order) => PaidSide(t.order)
    BY DEF PaidSide, UnpaidSide, OfOrder, PaidRow
  <1> QED BY <1>1, <1>2, <1>3 DEF OneSide

\* A step of a task brings its order on no side on which it was not.
LEMMA SideEffect ==
  ASSUME SidesInvariant, SagaInvariant', NEW t \in tasks, NEW new, Replace(t, new),
         UNCHANGED used,
         \A u \in new :
           /\ u.order = t.order
           /\ PaidTask(u) => PaidTask(t)
           /\ UnpaidTask(u) => UnpaidTask(t)
           /\ u.cmd = "PayForOrder" => t.cmd = "PayForOrder" /\ u.arg = t.arg,
         \A q \in Order \ {t.order} :
           orderState'[q] = orderState[q] /\ payments'[q] = payments[q] /\ saga'[q] = saga[q],
         DOMAIN payments[t.order] \subseteq DOMAIN payments'[t.order],
         payments[t.order] # <<>> => payments'[t.order] # <<>>,
         PaidRow(t.order)' => PaidRow(t.order) \/ PaidTask(t),
         UnpaidRow(t.order)' => UnpaidRow(t.order) \/ UnpaidTask(t),
         TransactionsCommit =>
           /\ HasPaid(t.order) => HasPaid(t.order)'
           /\ PaidRow(t.order)' =>
                \/ PaidRow(t.order) \/ HasPaid(t.order)'
                \/ t.cmd = "MarkOrderAsComplete" /\ SagaRowFree(t.order)
           /\ \A u \in new : u.cmd = "MarkOrderAsComplete" =>
                t.cmd = "MarkOrderAsComplete" \/ Paying(t.order)'
           /\ t.cmd = "PayForOrder" /\ t.pc = "published" /\ t.outcome = "PAID" => HasPaid(t.order)'
  PROVE  SidesInvariant'
  <1> DEFINE o == t.order
  <1>1. /\ tasks' = (tasks \ {t}) \cup new
        /\ \A u \in tasks : u \in Task /\ u.order \in Order
    BY SideFacts DEF Replace
  <1>2. ASSUME NEW q \in Order PROVE OneSide(q)'
    <2>1. OneSide(q)
      BY DEF SidesInvariant
    <2>2. CASE q = o
      <3>1. (PaidSide(o)' => PaidSide(o)) /\ (UnpaidSide(o)' => UnpaidSide(o))
        BY <1>1 DEF PaidSide, UnpaidSide, OfOrder
      <3>2. Asked(o) => Asked(o)'
        BY DEF Asked
      <3> QED BY <2>1, <2>2, <3>1, <3>2 DEF OneSide
    <2>3. CASE q # o
      <3>1. (PaidRow(q)' <=> PaidRow(q)) /\ (UnpaidRow(q)' <=> UnpaidRow(q))
        BY <2>3 DEF PaidRow, UnpaidRow, HasPaid
      <3>2. (PaidSide(q)' => PaidSide(q)) /\ (UnpaidSide(q)' => UnpaidSide(q))
        BY <1>1, <2>3, <3>1 DEF PaidSide, UnpaidSide, OfOrder
      <3>3. Asked(q) => Asked(q)'
        BY DEF Asked
      <3> QED BY <2>1, <2>3, <3>2, <3>3 DEF OneSide
    <2> QED BY <2>2, <2>3
  <1>3. ASSUME NEW u \in tasks', u.cmd = "PayForOrder" PROVE u.arg \in DOMAIN payments'[u.order]
    <2>1. \A v \in tasks : v.cmd = "PayForOrder" => v.arg \in DOMAIN payments[v.order]
      BY DEF SidesInvariant
    <2>2. CASE u \in tasks
      <3>1. DOMAIN payments[u.order] \subseteq DOMAIN payments'[u.order]
        BY <1>1, <2>2
      <3> QED BY <1>3, <2>1, <2>2, <3>1
    <2>3. CASE u \in new
      BY <1>3, <2>1, <2>3
    <2> QED BY <1>1, <2>2, <2>3
  <1>4. ASSUME TransactionsCommit PROVE CompletionFollowsPayment'
    <2>1. CompletionFollowsPayment
      BY <1>4 DEF SidesInvariant
    <2>2. ASSUME NEW q \in Order PROVE HasPaid(q) => HasPaid(q)'
      BY <1>4, <2>2 DEF HasPaid
    <2>3. ASSUME NEW q \in Order, Paying(q) PROVE HasPaid(q)' \/ Paying(q)'
      <3>1. PICK w \in tasks : /\ w.order = q /\ w.cmd = "PayForOrder" /\ w.pc = "published"
                               /\ w.outcome = "PAID"
        BY <2>3 DEF Paying, OfOrder
      <3>2. CASE w = t
        BY <1>4, <3>1, <3>2
      <3>3. CASE w # t
        BY <1>1, <3>1, <3>3 DEF Paying, OfOrder
      <3> QED BY <3>2, <3>3
    <2>4. ASSUME NEW q \in Order, PaidRow(q)' PROVE HasPaid(q)'
      <3>1. CASE q # o
        <4>1. PaidRow(q)
          BY <2>4, <3>1 DEF PaidRow, HasPaid
        <4> QED BY <2>1, <2>2, <4>1 DEF CompletionFollowsPayment
      <3>2. CASE q = o
        <4>1. CASE PaidRow(o)
          BY <2>1, <2>2, <3>2, <4>1 DEF CompletionFollowsPayment
        <4>2. CASE t.cmd = "MarkOrderAsComplete" /\ SagaRowFree(o)
          <5>1. ~Paying(o)
            BY <4>2 DEF Paying, OfOrder, SagaRowFree
          <5>2. HasPaid(o)
            BY <2>1, <4>2, <5>1 DEF CompletionFollowsPayment
          <5> QED BY <2>2, <3>2, <5>2
        <4> QED BY <1>4, <2>4, <3>2, <4>1, <4>2
      <3> QED BY <3>1, <3>2
    <2>5. ASSUME NEW u \in tasks', u.cmd = "MarkOrderAsComplete"
          PROVE  HasPaid(u.order)' \/ Paying(u.order)'
      <3>1. ASSUME NEW v \in tasks, v.cmd = "MarkOrderAsComplete"
            PROVE  HasPaid(v.order)' \/ Paying(v.order)'
        BY <1>1, <2>1, <2>2, <2>3, <3>1 DEF CompletionFollowsPayment
      <3> QED BY <1>1, <1>4, <2>5, <3>1
    <2> QED BY <2>4, <2>5 DEF CompletionFollowsPayment
  <1> QED BY <1>2, <1>3, <1>4 DEF SidesInvariant, TransactionsCommit

\* A step that changes no row.
LEMMA SideQuiet ==
  ASSUME SidesInvariant, SagaInvariant', NEW t \in tasks, NEW new, Replace(t, new),
         UNCHANGED used, UNCHANGED tableVars,
         \A u \in new :
           /\ u.order = t.order
           /\ PaidTask(u) => PaidTask(t)
           /\ UnpaidTask(u) => UnpaidTask(t)
           /\ u.cmd = "PayForOrder" => t.cmd = "PayForOrder" /\ u.arg = t.arg
           /\ u.cmd = "MarkOrderAsComplete" => t.cmd = "MarkOrderAsComplete" \/ Paying(t.order)',
         ~(t.cmd = "PayForOrder" /\ t.pc = "published")
  PROVE  SidesInvariant'
  <1>1. /\ PaidRow(t.order)' <=> PaidRow(t.order)
        /\ UnpaidRow(t.order)' <=> UnpaidRow(t.order)
        /\ HasPaid(t.order)' <=> HasPaid(t.order)
    BY DEF PaidRow, UnpaidRow, HasPaid, tableVars
  <1> QED BY <1>1, SideEffect DEF tableVars

\* Tasks end, and change no row: a transaction that has published its event
\* ends this way only in a rollback or with all the others.
LEMMA SideFewer ==
  ASSUME SidesInvariant, SagaInvariant', UNCHANGED used, UNCHANGED tableVars,
         tasks' \subseteq tasks,
         TransactionsCommit /\ tasks' # {} =>
           \A t \in tasks : t.cmd = "PayForOrder" /\ t.pc = "published" => t \in tasks'
  PROVE  SidesInvariant'
  <1>1. ASSUME NEW q \in Order
        PROVE  /\ PaidRow(q)' <=> PaidRow(q)
               /\ UnpaidRow(q)' <=> UnpaidRow(q)
               /\ HasPaid(q)' <=> HasPaid(q)
    BY DEF PaidRow, UnpaidRow, HasPaid, tableVars
  <1>2. ASSUME NEW q \in Order PROVE OneSide(q)'
    <2>1. (PaidSide(q)' => PaidSide(q)) /\ (UnpaidSide(q)' => UnpaidSide(q))
      BY <1>1 DEF PaidSide, UnpaidSide, OfOrder
    <2>2. OneSide(q) /\ (Asked(q) => Asked(q)')
      BY DEF SidesInvariant, Asked
    <2> QED BY <2>1, <2>2 DEF OneSide, tableVars
  <1>3. \A t \in tasks' : t.cmd = "PayForOrder" => t.arg \in DOMAIN payments'[t.order]
    BY DEF SidesInvariant, tableVars
  <1>4. ASSUME TransactionsCommit PROVE CompletionFollowsPayment'
    <2>1. CompletionFollowsPayment
      BY <1>4 DEF SidesInvariant
    <2>2. \A q \in Order : PaidRow(q)' => HasPaid(q)'
      BY <1>1, <2>1 DEF CompletionFollowsPayment
    <2>3. ASSUME NEW u \in tasks', u.cmd = "MarkOrderAsComplete"
          PROVE  HasPaid(u.order)' \/ Paying(u.order)'
      <3>1. u.order \in Order
        BY SideFacts
      <3>2. Paying(u.order) => Paying(u.order)'
        BY <1>4 DEF Paying, OfOrder
      <3> QED BY <1>1, <2>1, <2>3, <3>1, <3>2 DEF CompletionFollowsPayment
    <2> QED BY <2>2, <2>3 DEF CompletionFollowsPayment
  <1> QED BY <1>2, <1>3, <1>4 DEF SidesInvariant, TransactionsCommit

\* A task starts on the side its order is on.
LEMMA SideMore ==
  ASSUME SidesInvariant, SagaInvariant', NEW u, tasks' = tasks \cup {u}, u.order \in Order,
         UNCHANGED used, UNCHANGED tableVars,
         PaidTask(u) => PaidRow(u.order),
         UnpaidTask(u) => UnpaidRow(u.order),
         u.cmd # "PayForOrder"
  PROVE  SidesInvariant'
  <1>1. ASSUME NEW q \in Order
        PROVE  /\ PaidRow(q)' <=> PaidRow(q)
               /\ UnpaidRow(q)' <=> UnpaidRow(q)
               /\ HasPaid(q)' <=> HasPaid(q)
    BY DEF PaidRow, UnpaidRow, HasPaid, tableVars
  <1>2. ASSUME NEW q \in Order PROVE OneSide(q)'
    <2>1. (PaidSide(q)' => PaidSide(q)) /\ (UnpaidSide(q)' => UnpaidSide(q))
      BY <1>1 DEF PaidSide, UnpaidSide, OfOrder
    <2>2. OneSide(q) /\ (Asked(q) => Asked(q)')
      BY DEF SidesInvariant, Asked
    <2> QED BY <2>1, <2>2 DEF OneSide, tableVars
  <1>3. \A t \in tasks' : t.cmd = "PayForOrder" => t.arg \in DOMAIN payments'[t.order]
    BY DEF SidesInvariant, tableVars
  <1>4. ASSUME TransactionsCommit PROVE CompletionFollowsPayment'
    <2>1. CompletionFollowsPayment
      BY <1>4 DEF SidesInvariant
    <2>2. \A q \in Order : PaidRow(q)' => HasPaid(q)'
      BY <1>1, <2>1 DEF CompletionFollowsPayment
    <2>3. ASSUME NEW v \in tasks', v.cmd = "MarkOrderAsComplete"
          PROVE  HasPaid(v.order)' \/ Paying(v.order)'
      <3>1. v.order \in Order
        BY SideFacts
      <3>2. Paying(v.order) => Paying(v.order)'
        BY DEF Paying, OfOrder
      <3>3. CASE v = u
        BY <1>1, <2>1, <2>3, <3>1, <3>3 DEF CompletionFollowsPayment, PaidTask
      <3> QED BY <1>1, <2>1, <2>3, <3>1, <3>2, <3>3 DEF CompletionFollowsPayment
    <2> QED BY <2>2, <2>3 DEF CompletionFollowsPayment
  <1> QED BY <1>2, <1>3, <1>4 DEF SidesInvariant, TransactionsCommit

\* A command goes on, and changes no row.
LEMMA SideGoesOn ==
  ASSUME SidesInvariant, SagaInvariant', NEW t \in tasks,
         UNCHANGED used, UNCHANGED tableVars,
         NEW pc, NEW arg, NEW seen, NEW todo, GoesOn(t, pc, arg, seen, todo),
         arg = t.arg \/ t.cmd # "PayForOrder",
         t.pc # "published"
  PROVE  SidesInvariant'
  <1>1. PICK u : /\ Replace(t, {u})
                 /\ u.cmd = t.cmd /\ u.order = t.order /\ u.outcome = t.outcome /\ u.arg = arg
    BY DEF GoesOn
  <1>2. /\ PaidTask(u) <=> PaidTask(t)
        /\ UnpaidTask(u) <=> UnpaidTask(t)
    BY <1>1 DEF PaidTask, UnpaidTask
  <1> QED BY <1>1, <1>2, SideQuiet

\* A command ends, and the one that follows it is on its side.
LEMMA SideLeadsTo ==
  ASSUME SidesInvariant, SagaInvariant', NEW t \in tasks,
         UNCHANGED used, UNCHANGED tableVars,
         NEW c, NEW i, LeadsTo(t, c, i),
         \/ c \in ChainCommand
         \/ c = "CancelPayment" /\ t.cmd = "CompensateOrderInventory",
         t.pc # "published"
  PROVE  SidesInvariant'
  <1>1. PICK u : Replace(t, {u}) /\ u.cmd = c /\ u.order = t.order
    BY DEF LeadsTo
  <1>2. /\ ~PaidTask(u)
        /\ UnpaidTask(u) => UnpaidTask(t)
        /\ u.cmd \notin {"PayForOrder", "MarkOrderAsComplete"}
    <2>1. CASE c \in ChainCommand
      <3>1. c \notin {"MarkOrderAsComplete", "PayForOrder", "CancelOrder",
                      "CompensateOrderInventory", "CancelPayment"}
        BY <2>1 DEF ChainCommand
      <3> QED BY <1>1, <3>1 DEF PaidTask, UnpaidTask
    <2>2. CASE c = "CancelPayment" /\ t.cmd = "CompensateOrderInventory"
      BY <1>1, <2>2 DEF PaidTask, UnpaidTask
    <2> QED BY <2>1, <2>2
  <1>3. \A v \in {u} :
          /\ v.order = t.order
          /\ PaidTask(v) => PaidTask(t)
          /\ UnpaidTask(v) => UnpaidTask(t)
          /\ v.cmd = "PayForOrder" => t.cmd = "PayForOrder" /\ v.arg = t.arg
          /\ v.cmd = "MarkOrderAsComplete" => t.cmd = "MarkOrderAsComplete" \/ Paying(t.order)'
    BY <1>1, <1>2
  <1> QED BY <1>1, <1>3, SideQuiet

\* A command ends, and changes no row.
LEMMA SideEnds ==
  ASSUME SidesInvariant, SagaInvariant', NEW t \in tasks,
         UNCHANGED used, UNCHANGED tableVars,
         tasks' = {} \/ tasks' = tasks \ {t},
         t.pc # "published" \/ ~TransactionsCommit
  PROVE  SidesInvariant'
  BY SideFewer

\* The steps of a command that change no row.
LEMMA SideOfReservations ==
  ASSUME SidesInvariant, SagaInvariant', NEW t \in tasks,
         \/ ReserveInCache(t) \/ ReserveReadsSaga(t) \/ ReserveEnqueues(t) \/ ReserveCatches(t)
         \/ ReleaseReadsSaga(t) \/ ReturnLine(t) \/ CompensateReadsSaga(t)
         \/ ReturnEnqueues(t) \/ ReturnPublishes(t)
  PROVE  SidesInvariant'
  <1> USE DEF ProductReserved, InventoryReserved, ReservationFailed, ReservationReleased,
              InventoryCompensated
  <1>1. t \in Task
    BY SideFacts
  <1>2. "ReleaseReservation" \in ChainCommand /\ "InitiatePayment" \in ChainCommand
        /\ "ReserveInventory" \in ChainCommand /\ "MarkOrderFail" \in ChainCommand
    BY DEF ChainCommand
  <1>3. UNCHANGED used /\ UNCHANGED tableVars
    BY DEF ReserveInCache, ReserveReadsSaga, ReserveEnqueues, ReserveCatches, ReleaseReadsSaga,
           ReturnLine, CompensateReadsSaga, ReturnEnqueues, ReturnPublishes, Frame
  <1>4. t.pc # "published"
    <2>1. ~ReserveCatches(t) => t.pc # "published"
      BY DEF ReserveInCache, ReserveReadsSaga, ReserveEnqueues, ReleaseReadsSaga,
             ReturnLine, CompensateReadsSaga, ReturnEnqueues, ReturnPublishes
    <2> QED BY <2>1 DEF ReserveCatches
  <1>5. ASSUME NEW c \in ChainCommand, Replace(t, {NewTask(t.flow, c, t.order)})
        PROVE  SidesInvariant'
    BY <1>1, <1>3, <1>4, <1>5, StepShapes, SideLeadsTo
  <1>a. CASE ReserveInCache(t)
    <2>1. CASE Continue(t, "granted")
      BY <1>1, <1>3, <1>4, <2>1, StepShapes, SideGoesOn
    <2> QED BY <1>2, <1>5, <1>a, <2>1 DEF ReserveInCache
  <1>b. CASE ReserveReadsSaga(t)
    <2>1. ReadSaga(t, "read")
      BY <1>b DEF ReserveReadsSaga
    <2> QED BY <1>1, <1>3, <1>4, <2>1, StepShapes, SideGoesOn
  <1>c. CASE ReserveEnqueues(t)
    <2>1. ASSUME NEW i, Replace(t, {ReserveLine(t.flow, t.order, i)}) PROVE SidesInvariant'
      BY <1>1, <1>2, <1>3, <1>4, <2>1, StepShapes, SideLeadsTo
    <2> QED BY <1>2, <1>5, <1>c, <2>1 DEF ReserveEnqueues
  <1>d. CASE ReserveCatches(t)
    <2>1. CASE Replace(t, {})
      BY <1>3, <1>4, <2>1, SideEnds DEF Replace
    <2> QED BY <1>2, <1>5, <1>d, <2>1 DEF ReserveCatches
  <1>e. CASE ReleaseReadsSaga(t)
    BY <1>1, <1>3, <1>4, <1>e, StepShapes, SideGoesOn
  <1>f. CASE ReturnLine(t)
    BY <1>1, <1>3, <1>4, <1>f, StepShapes, SideGoesOn
  <1>g. CASE CompensateReadsSaga(t)
    <2>1. ReadSaga(t, "read")
      BY <1>g DEF CompensateReadsSaga
    <2> QED BY <1>1, <1>3, <1>4, <2>1, StepShapes, SideGoesOn
  <1>h. CASE ReturnEnqueues(t)
    BY <1>1, <1>3, <1>4, <1>h, StepShapes, SideGoesOn
  <1>i. CASE ReturnPublishes(t)
    <2>1. ASSUME t.cmd = "CompensateOrderInventory",
                 Replace(t, {NewTask(t.flow, "CancelPayment", t.order)})
          PROVE  SidesInvariant'
      BY <1>1, <1>3, <1>4, <2>1, StepShapes, SideLeadsTo
    <2> QED BY <1>2, <1>5, <1>i, <2>1 DEF ReturnPublishes
  <1> QED BY <1>a, <1>b, <1>c, <1>d, <1>e, <1>f, <1>g, <1>h, <1>i

\* The transactions up to their commit.
LEMMA SideOfReads ==
  ASSUME SidesInvariant, SagaInvariant', NEW t \in tasks,
         \/ InitiatePaymentReads(t) \/ TransactionReadsSaga(t) \/ OrderCommandLoads(t)
         \/ PayForOrderLoads(t) \/ CancelPaymentLoads(t) \/ DependencyFails(t)
  PROVE  SidesInvariant'
  <1>1. t \in Task
    BY SideFacts
  <1>2. ASSUME Throws(t), t.pc # "published" \/ ~TransactionsCommit PROVE SidesInvariant'
    <2>1. tasks' = {} \/ tasks' = tasks \ {t}
      BY <1>2 DEF Throws
    <2> QED BY <1>2, <2>1, SideEnds DEF Throws
  <1>3. ASSUME UNCHANGED tableVars, Frame, t.pc # "published",
               NEW pc, Continue(t, pc) \/ ReadSaga(t, pc)
        PROVE  SidesInvariant'
    BY <1>1, <1>3, StepShapes, SideGoesOn DEF Frame
  <1>a. CASE InitiatePaymentReads(t)
    BY <1>3, <1>a DEF InitiatePaymentReads
  <1>b. CASE TransactionReadsSaga(t)
    BY <1>3, <1>b DEF TransactionReadsSaga
  <1>c. CASE OrderCommandLoads(t)
    BY <1>2, <1>3, <1>c DEF OrderCommandLoads
  <1>d. CASE PayForOrderLoads(t)
    BY <1>2, <1>3, <1>d DEF PayForOrderLoads
  <1>e. CASE CancelPaymentLoads(t)
    <2>1. t.pc = "start" /\ t.cmd = "CancelPayment"
      BY <1>e DEF CancelPaymentLoads
    <2>2. ASSUME NEW i, Replace(t, {[t EXCEPT !.pc = "loaded", !.arg = i]}),
                 UNCHANGED tableVars, Frame
          PROVE  SidesInvariant'
      BY <1>1, <2>1, <2>2, StepShapes, SideGoesOn DEF Frame
    <2>3. ASSUME Replace(t, {}), UNCHANGED tableVars, Frame PROVE SidesInvariant'
      BY <2>1, <2>3, SideEnds DEF Replace, Frame
    <2> QED BY <1>2, <1>e, <2>1, <2>2, <2>3 DEF CancelPaymentLoads
  <1>f. CASE DependencyFails(t)
    <2>1. t.pc # "published" \/ ~TransactionsCommit
      BY <1>f DEF DependencyFails, Dependency, TransactionsCommit
    <2> QED BY <1>2, <1>f, <2>1 DEF DependencyFails
  <1> QED BY <1>a, <1>b, <1>c, <1>d, <1>e, <1>f

\* The transactions that publish their event before they commit.
LEMMA SideOfPublishes ==
  ASSUME SidesInvariant, SagaInvariant', NEW t \in tasks,
         CancelOrderPublishes(t) \/ PayForOrderPublishes(t)
  PROVE  SidesInvariant'
  <1> USE DEF PaymentFailed, PaymentPaid
  <1> DEFINE o == t.order
             w == [t EXCEPT !.pc = "published"]
  <1>1. /\ t \in Task /\ t.pc = "read" /\ UNCHANGED tableVars /\ UNCHANGED used
    BY SideFacts DEF CancelOrderPublishes, PayForOrderPublishes, Frame
  <1>2. /\ w.order = o /\ w.cmd = t.cmd /\ w.pc = "published" /\ w.arg = t.arg
        /\ w.outcome = t.outcome
    BY <1>1 DEF Task
  <1> HIDE DEF w
  <1>3. (PaidTask(w) <=> PaidTask(t)) /\ (UnpaidTask(w) <=> UnpaidTask(t))
    BY <1>2 DEF PaidTask, UnpaidTask
  <1>4. ASSUME NEW u, Replace(t, {w, u}), u.order = o, u.cmd # "PayForOrder",
               PaidTask(u) => PaidTask(t), UnpaidTask(u) => UnpaidTask(t),
               u.cmd = "MarkOrderAsComplete" => Paying(o)'
        PROVE  SidesInvariant'
    BY <1>1, <1>2, <1>3, <1>4, SideQuiet
  <1>a. CASE CancelOrderPublishes(t)
    <2> DEFINE u == OrderCanceled(ChildFlow(t), o)
    <2>1. u.order = o /\ u.cmd = "CompensateOrderInventory"
      BY DEF OrderCanceled, TaskWith
    <2>2. Replace(t, {w, u}) /\ t.cmd = "CancelOrder"
      BY <1>a DEF CancelOrderPublishes, w
    <2> HIDE DEF u
    <2>3. ~PaidTask(u) /\ UnpaidTask(t)
      BY <2>1, <2>2 DEF PaidTask, UnpaidTask
    <2> QED BY <1>4, <2>1, <2>2, <2>3
  <1>b. CASE PayForOrderPublishes(t)
    <2> DEFINE u == IF t.outcome = "PAID" THEN NewTask(t.flow, "MarkOrderAsComplete", o)
                                          ELSE NewTask(t.flow, "CancelOrder", o)
    <2>1. /\ u.order = o
          /\ u.cmd = IF t.outcome = "PAID" THEN "MarkOrderAsComplete" ELSE "CancelOrder"
      BY DEF NewTask, TaskWith
    <2>2. Replace(t, {w, u}) /\ t.cmd = "PayForOrder"
      BY <1>b DEF PayForOrderPublishes, w
    <2> HIDE DEF u
    <2>3. t.outcome = "PAID" => Paying(o)'
      BY <1>2, <2>2 DEF Paying, OfOrder, Replace
    <2>4. t.outcome \in {"PAID", "FAILED"}
      BY <1>1 DEF Task
    <2>5. (PaidTask(u) => PaidTask(t)) /\ (UnpaidTask(u) => UnpaidTask(t))
      BY <2>1, <2>2, <2>4 DEF PaidTask, UnpaidTask
    <2> QED BY <1>4, <2>1, <2>2, <2>3, <2>5
  <1> QED BY <1>a, <1>b

\* The rows of an order after a commit.
LEMMA RowsWritten ==
  ASSUME TypeOK, NEW o \in Order, NEW step, NEW reserved, WriteSaga(o, step, reserved)
  PROVE  saga'[o].step = step /\ \A q \in Order \ {o} : saga'[q] = saga[q]
  BY DEF TypeOK, WriteSaga

\* Settling a payment.
LEMMA PaymentSettled ==
  ASSUME TypeOK, NEW o \in Order, NEW i, NEW s, PaymentBecomes(o, i, s)
  PROVE  /\ DOMAIN payments'[o] = DOMAIN payments[o]
         /\ \A q \in Order \ {o} : payments'[q] = payments[q]
         /\ \A k \in DOMAIN payments[o] :
              payments'[o][k] = IF k = i THEN s ELSE payments[o][k]
         /\ payments[o] # <<>> <=> payments'[o] # <<>>
  <1>1. payments'[o] = [payments[o] EXCEPT ![i] = s]
    BY DEF TypeOK, PaymentBecomes
  <1>2. /\ DOMAIN payments'[o] = DOMAIN payments[o]
        /\ \A k \in DOMAIN payments[o] :
             payments'[o][k] = IF k = i THEN s ELSE payments[o][k]
    BY <1>1
  <1>3. payments[o] \in Seq(PaymentState) /\ payments'[o] \in Seq(PaymentState \cup {s})
    <2>1. payments[o] \in Seq(PaymentState)
      BY DEF TypeOK
    <2>2. PICK n \in Nat : payments[o] \in [1..n -> PaymentState]
      BY <2>1
    <2>3. payments'[o] \in [1..n -> PaymentState \cup {s}]
      BY <1>1, <2>2
    <2> QED BY <2>1, <2>3
  <1>4. payments[o] # <<>> <=> payments'[o] # <<>>
    <2>1. Len(payments[o]) = Len(payments'[o])
      BY <1>2, <1>3, LenProperties
    <2> QED BY <1>3, <2>1, EmptySeq
  <1> QED BY <1>2, <1>4 DEF TypeOK, PaymentBecomes

\* The commits, and the saga rows that are written outside of a transaction.
LEMMA SideOfCommits ==
  ASSUME SidesInvariant, SagaInvariant', NEW t \in tasks,
         \/ ReservePersistsSaga(t) \/ ReturnPersistsSaga(t)
         \/ InitiatePaymentCommits(t) \/ MarkOrderCommits(t) \/ CancelOrderCommits(t)
         \/ PayForOrderCommits(t) \/ CancelPaymentCommits(t)
  PROVE  SidesInvariant'
  <1> USE DEF PaymentInitiated
  <1> DEFINE o == t.order
  <1>1. /\ t \in Task /\ o \in Order /\ OneSide(o) /\ SagaInvariant /\ TypeOK
        /\ HasPaid(o) => ~UnpaidTask(t)
    BY SideFacts DEF SidesInvariant, SagaInvariant
  <1>2. orderState \in [Order -> OrderState \cup {None}] /\ payments \in [Order -> Seq(PaymentState)]
    BY <1>1 DEF TypeOK
  <1>3. "ReserveInventory" \in ChainCommand /\ "ReleaseReservation" \in ChainCommand
        /\ "InitiatePayment" \in ChainCommand
    BY DEF ChainCommand
  <1>a. CASE ReservePersistsSaga(t)
    <2> DEFINE step == IF Unreserved(o, Append(t.seen, t.arg)) = {}
                       THEN "INVENTORY_RESERVED" ELSE "INVENTORY_RESERVING"
               u == [t EXCEPT !.pc = "saved", !.seen = Append(t.seen, t.arg)]
    <2>1. u.order = o /\ u.cmd = "ReserveInventory" /\ t.cmd = "ReserveInventory"
      BY <1>1, <1>a DEF ReservePersistsSaga, Task
    <2>2. /\ Replace(t, {u}) /\ UNCHANGED <<orderState, payments, used>>
          /\ WriteSaga(o, step, Append(t.seen, t.arg))
      BY <1>a DEF ReservePersistsSaga, Frame
    <2>3. step \in {"INVENTORY_RESERVED", "INVENTORY_RESERVING"}
      OBVIOUS
    <2> HIDE DEF u, step
    <2>4. saga'[o].step = step /\ \A q \in Order \ {o} : saga'[q] = saga[q]
      BY <1>1, <2>2, RowsWritten
    <2>5. (PaidRow(o)' => PaidRow(o)) /\ (UnpaidRow(o)' => UnpaidRow(o))
          /\ (HasPaid(o)' <=> HasPaid(o))
      BY <2>2, <2>3, <2>4 DEF PaidRow, UnpaidRow, HasPaid
    <2>6. ~PaidTask(u) /\ ~UnpaidTask(u)
      BY <2>1 DEF PaidTask, UnpaidTask
    <2> QED BY <2>1, <2>2, <2>4, <2>5, <2>6, SideEffect
  <1>b. CASE ReturnPersistsSaga(t)
    <2> DEFINE u == [t EXCEPT !.pc = "saved",
                             !.todo = IF t.cmd = "ReleaseReservation"
                                      THEN t.seen ELSE AllLines(t.order)]
    <2>1. /\ u.order = o /\ u.cmd = t.cmd
          /\ t.cmd \in {"ReleaseReservation", "CompensateOrderInventory"}
      BY <1>1, <1>b DEF ReturnPersistsSaga, Task
    <2>2. /\ Replace(t, {u}) /\ UNCHANGED <<orderState, payments, used>>
          /\ WriteSaga(o, "INVENTORY_COMPENSATED", t.seen)
      BY <1>b DEF ReturnPersistsSaga, Frame
    <2> HIDE DEF u
    <2>3. saga'[o].step = "INVENTORY_COMPENSATED" /\ \A q \in Order \ {o} : saga'[q] = saga[q]
      BY <1>1, <2>2, RowsWritten
    <2>4. t.cmd = "ReleaseReservation" => payments[o] = <<>>
      BY <1>1, <1>3 DEF SagaInvariant, PaymentEndsReservation
    <2>5. t.cmd = "CompensateOrderInventory" => UnpaidTask(t)
      BY DEF UnpaidTask
    <2>6. (PaidRow(o)' => PaidRow(o)) /\ (UnpaidRow(o)' => UnpaidRow(o) \/ UnpaidTask(t))
          /\ (HasPaid(o)' <=> HasPaid(o))
      BY <2>1, <2>2, <2>3, <2>4, <2>5 DEF PaidRow, UnpaidRow, HasPaid
    <2>7. ~PaidTask(u) /\ (UnpaidTask(u) => UnpaidTask(t))
      BY <2>1 DEF PaidTask, UnpaidTask
    <2> QED BY <2>1, <2>2, <2>3, <2>6, <2>7, SideEffect
  <1>c. CASE InitiatePaymentCommits(t)
    <2> DEFINE u == NewTask(t.flow, "MarkOrderAwaitingPayment", o)
    <2>1. u.order = o /\ u.cmd = "MarkOrderAwaitingPayment"
      BY DEF NewTask, TaskWith
    <2>2. /\ Replace(t, {u}) /\ UNCHANGED <<orderState, used>> /\ t.cmd = "InitiatePayment"
          /\ payments' = [payments EXCEPT ![o] = Append(@, "OPEN")]
          /\ WriteSaga(o, "PAYMENT_CREATED", t.seen)
      BY <1>c DEF InitiatePaymentCommits, Frame
    <2> HIDE DEF u
    <2>3. saga'[o].step = "PAYMENT_CREATED" /\ \A q \in Order \ {o} : saga'[q] = saga[q]
      BY <1>1, <2>2, RowsWritten
    <2>4. payments[o] = <<>>
      BY <1>1, <1>3, <2>2 DEF SagaInvariant, PaymentEndsReservation
    <2>5. payments'[o] = <<"OPEN">> /\ \A q \in Order \ {o} : payments'[q] = payments[q]
      BY <1>1, <1>2, <2>2, <2>4
    <2>6. DOMAIN payments[o] = {} /\ DOMAIN payments'[o] = {1} /\ payments'[o][1] = "OPEN"
          /\ payments'[o] # <<>>
      BY <2>4, <2>5
    <2>7. (PaidRow(o)' => PaidRow(o)) /\ (UnpaidRow(o)' => UnpaidRow(o)) /\ ~HasPaid(o)
      BY <2>2, <2>3, <2>6 DEF PaidRow, UnpaidRow, HasPaid
    <2>8. ~PaidTask(u) /\ ~UnpaidTask(u)
      BY <2>1 DEF PaidTask, UnpaidTask
    <2> QED BY <2>1, <2>2, <2>3, <2>5, <2>6, <2>7, <2>8, SideEffect
  <1>d. CASE MarkOrderCommits(t) \/ CancelOrderCommits(t)
    <2>1. /\ Replace(t, {}) /\ UNCHANGED <<payments, used>>
          /\ t.cmd \in MarkingCommand \cup {"CancelOrder"}
          /\ orderState' = [orderState EXCEPT ![o] = NewOrderState(t.cmd)]
          /\ WriteSaga(o, NewStep(t.cmd), t.seen)
          /\ t.cmd # "CancelOrder" => SagaRowFree(o)
      BY <1>d DEF MarkOrderCommits, CancelOrderCommits, WriteOrder, Frame, MarkingCommand
    <2>2. /\ saga'[o].step = NewStep(t.cmd) /\ \A q \in Order \ {o} : saga'[q] = saga[q]
          /\ orderState'[o] = NewOrderState(t.cmd)
          /\ \A q \in Order \ {o} : orderState'[q] = orderState[q]
      BY <1>1, <1>2, <2>1, RowsWritten
    <2>3. HasPaid(o)' <=> HasPaid(o)
      BY <2>1 DEF HasPaid
    <2>4. CASE t.cmd = "MarkOrderAsComplete"
      <3>1. NewStep(t.cmd) = "ORDER_COMPLETED" /\ NewOrderState(t.cmd) = "COMPLETED"
            /\ PaidTask(t)
        BY <2>4 DEF NewStep, NewOrderState, PaidTask
      <3>2. UnpaidRow(o)' => UnpaidRow(o)
        BY <2>1, <2>2, <3>1 DEF UnpaidRow
      <3> QED BY <2>1, <2>2, <2>3, <2>4, <3>1, <3>2, SideEffect
    <2>5. CASE t.cmd = "CancelOrder"
      <3>1. NewStep(t.cmd) = "ORDER_CANCELED" /\ NewOrderState(t.cmd) = "CANCELED"
            /\ UnpaidTask(t) /\ ~(t.cmd = "PayForOrder")
        BY <2>5 DEF NewStep, NewOrderState, UnpaidTask
      <3>2. PaidRow(o)' => PaidRow(o)
        BY <2>2, <2>3, <3>1 DEF PaidRow
      <3> QED BY <2>1, <2>2, <2>3, <3>1, <3>2, SideEffect
    <2>6. CASE t.cmd \in {"MarkOrderAwaitingPayment", "MarkOrderFail"}
      <3>1. /\ NewStep(t.cmd) \in {"PAYMENT_PROCESSING", "ORDER_FAILED"}
            /\ NewOrderState(t.cmd) \in {"AWAITING_PAYMENT", "FAILED"}
        BY <2>6 DEF NewStep, NewOrderState
      <3>2. (PaidRow(o)' => PaidRow(o)) /\ (UnpaidRow(o)' => UnpaidRow(o))
        BY <2>1, <2>2, <2>3, <3>1 DEF PaidRow, UnpaidRow
      <3> QED BY <2>1, <2>2, <2>3, <2>6, <3>2, SideEffect
    <2> QED BY <2>1, <2>4, <2>5, <2>6 DEF MarkingCommand
  <1>e. CASE PayForOrderCommits(t)
    <2> DEFINE step == IF t.outcome = "PAID" THEN "PAYMENT_SUCCEEDED" ELSE "PAYMENT_FAILED"
    <2>1. /\ Replace(t, {}) /\ UNCHANGED <<orderState, used>> /\ t.cmd = "PayForOrder"
          /\ PaymentBecomes(o, t.arg, t.outcome) /\ WriteSaga(o, step, t.seen)
          /\ t.outcome \in {"PAID", "FAILED"} /\ t.arg \in DOMAIN payments[o]
      BY <1>1, <1>e DEF PayForOrderCommits, Frame, Task, SidesInvariant
    <2>2. step = IF t.outcome = "PAID" THEN "PAYMENT_SUCCEEDED" ELSE "PAYMENT_FAILED"
      OBVIOUS
    <2> HIDE DEF step
    <2>3. saga'[o].step = step /\ \A q \in Order \ {o} : saga'[q] = saga[q]
      BY <1>1, <2>1, RowsWritten
    <2>4. /\ DOMAIN payments'[o] = DOMAIN payments[o]
          /\ \A q \in Order \ {o} : payments'[q] = payments[q]
          /\ \A k \in DOMAIN payments[o] :
               payments'[o][k] = IF k = t.arg THEN t.outcome ELSE payments[o][k]
          /\ payments[o] # <<>> => payments'[o] # <<>>
      BY <1>1, <2>1, PaymentSettled
    <2>5. CASE t.outcome = "PAID"
      <3>1. PaidTask(t) /\ HasPaid(o)'
        BY <2>1, <2>4, <2>5 DEF PaidTask, HasPaid
      <3>2. UnpaidRow(o)' => UnpaidRow(o)
        BY <2>1, <2>2, <2>3, <2>4, <2>5 DEF UnpaidRow
      <3> QED BY <2>1, <2>3, <2>4, <3>1, <3>2, SideEffect
    <2>6. CASE t.outcome = "FAILED"
      <3>1. UnpaidTask(t) /\ ~HasPaid(o)
        BY <1>1, <2>1, <2>6 DEF UnpaidTask
      <3>2. PaidRow(o)' => PaidRow(o)
        BY <2>1, <2>2, <2>3, <2>4, <2>6 DEF PaidRow, HasPaid
      <3> QED BY <2>1, <2>3, <2>4, <2>6, <3>1, <3>2, SideEffect
    <2> QED BY <2>1, <2>5, <2>6
  <1>f. CASE CancelPaymentCommits(t)
    <2>1. /\ Replace(t, {}) /\ UNCHANGED <<orderState, used>> /\ t.cmd = "CancelPayment"
          /\ PaymentBecomes(o, t.arg, "CANCELED") /\ WriteSaga(o, "PAYMENT_CANCELED", t.seen)
      BY <1>f DEF CancelPaymentCommits, Frame
    <2>2. saga'[o].step = "PAYMENT_CANCELED" /\ \A q \in Order \ {o} : saga'[q] = saga[q]
      BY <1>1, <2>1, RowsWritten
    <2>3. /\ DOMAIN payments'[o] = DOMAIN payments[o]
          /\ \A q \in Order \ {o} : payments'[q] = payments[q]
          /\ \A k \in DOMAIN payments[o] :
               payments'[o][k] = IF k = t.arg THEN "CANCELED" ELSE payments[o][k]
          /\ payments[o] # <<>> => payments'[o] # <<>>
      BY <1>1, <2>1, PaymentSettled
    <2>4. UnpaidTask(t) /\ ~HasPaid(o)
      BY <1>1, <2>1 DEF UnpaidTask
    <2>5. PaidRow(o)' => PaidRow(o)
      BY <2>1, <2>2, <2>3 DEF PaidRow, HasPaid
    <2> QED BY <2>1, <2>2, <2>3, <2>4, <2>5, SideEffect
  <1> QED BY <1>a, <1>b, <1>c, <1>d, <1>e, <1>f

\* The recovery starts a command on the side its order is on.
LEMMA SideOfRecovery ==
  ASSUME SidesInvariant, SagaInvariant', NEW o \in Order, RecoverSaga(o)
  PROVE  SidesInvariant'
  <1> USE DEF OrderCreated, InventoryReserved, PaymentInitiated
  <1>1. UNCHANGED used /\ UNCHANGED tableVars /\ tasks' = tasks \cup Recovered(o)
    BY DEF RecoverSaga
  <1>2. ASSUME NEW u, Recovered(o) = {u}, u.order = o, u.cmd # "PayForOrder",
               PaidTask(u) => PaidRow(o), UnpaidTask(u) => UnpaidRow(o)
        PROVE  SidesInvariant'
    BY <1>1, <1>2, SideMore
  <1>3. CASE Recovered(o) = {}
    BY <1>1, <1>3, SideFewer
  <1>4. ASSUME NEW f, NEW c, Recovered(o) = {NewTask(f, c, o)}, c # "PayForOrder",
               c = "MarkOrderAsComplete" => PaidRow(o),
               c \in {"CancelOrder", "CompensateOrderInventory", "CancelPayment"} => UnpaidRow(o)
        PROVE  SidesInvariant'
    <2> DEFINE u == NewTask(f, c, o)
    <2>1. u.order = o /\ u.cmd = c
      BY DEF NewTask, TaskWith
    <2> HIDE DEF u
    <2>2. Recovered(o) = {u}
      BY <1>4 DEF u
    <2>3. (PaidTask(u) => PaidRow(o)) /\ (UnpaidTask(u) => UnpaidRow(o))
      BY <1>4, <2>1 DEF PaidTask, UnpaidTask
    <2> QED BY <1>2, <1>4, <2>1, <2>2, <2>3
  <1>5. CASE saga[o].step = "INITIATED"
    <2> DEFINE u == ReserveLine("saga", o, 1)
    <2>1. Recovered(o) = {u} /\ u.order = o /\ u.cmd = "ReserveInventory"
      BY <1>5 DEF Recovered, ReserveLine, TaskWith
    <2> HIDE DEF u
    <2>2. ~PaidTask(u) /\ ~UnpaidTask(u)
      BY <2>1 DEF PaidTask, UnpaidTask
    <2> QED BY <1>2, <2>1, <2>2
  <1>6. CASE saga[o].step = "INVENTORY_RESERVED"
    BY <1>4, <1>6 DEF Recovered
  <1>7. CASE saga[o].step = "PAYMENT_CREATED"
    BY <1>4, <1>7 DEF Recovered
  <1>8. CASE saga[o].step = "ORDER_CANCELED"
    <2> DEFINE u == OrderCanceled("saga", o)
    <2>1. Recovered(o) = {u} /\ u.order = o /\ u.cmd = "CompensateOrderInventory"
      BY <1>8 DEF Recovered, OrderCanceled, TaskWith
    <2> HIDE DEF u
    <2>2. ~PaidTask(u) /\ UnpaidRow(o)
      BY <1>8, <2>1 DEF PaidTask, UnpaidRow
    <2> QED BY <1>2, <2>1, <2>2
  <1>9. CASE saga[o].step = "INVENTORY_COMPENSATED" /\ payments[o] # <<>>
    <2>1. UnpaidRow(o)
      BY <1>9 DEF UnpaidRow
    <2> QED BY <1>4, <1>9, <2>1 DEF Recovered
  <1>10. CASE saga[o].step = "PAYMENT_FAILED"
    <2>1. UnpaidRow(o)
      BY <1>10 DEF UnpaidRow
    <2> QED BY <1>4, <1>10, <2>1 DEF Recovered
  <1>11. CASE saga[o].step = "PAYMENT_SUCCEEDED"
    <2>1. PaidRow(o)
      BY <1>11 DEF PaidRow
    <2> QED BY <1>4, <1>11, <2>1 DEF Recovered
  <1>12. saga[o].step # "INVENTORY_RESERVE_FAILED"
    BY StepIsKnown DEF SidesInvariant, SagaInvariant
  <1> QED BY <1>3, <1>5, <1>6, <1>7, <1>8, <1>9, <1>10, <1>11, <1>12 DEF Recovered

\* A request puts an order on one side that was on none.
LEMMA SideOfCustomers ==
  ASSUME SidesInvariant, SagaInvariant', OneRequest,
         \/ \E o \in Order : PlaceOrder(o)
         \/ \E r \in Request : RequestCancel(r) \/ RequestPayment(r)
  PROVE  SidesInvariant'
  <1> USE DEF OrderCreated
  <1>1. SagaInvariant /\ TypeOK
    BY DEF SidesInvariant, SagaInvariant
  <1>2. \A v \in tasks : v.order \in Order
    BY SideFacts
  <1>3. ASSUME NEW o \in Order, PlaceOrder(o) PROVE SidesInvariant'
    <2> DEFINE u == ReserveLine("saga", o, 1)
    <2>1. u.order = o /\ u.cmd = "ReserveInventory"
      BY DEF ReserveLine, TaskWith
    <2>2. /\ tasks' = tasks \cup {u} /\ UNCHANGED <<payments, used>> /\ orderState[o] = None
          /\ orderState' = [orderState EXCEPT ![o] = "PENDING"]
          /\ WriteSaga(o, "INITIATED", <<>>)
      BY <1>3 DEF PlaceOrder, Frame
    <2> HIDE DEF u
    <2>3. /\ orderState'[o] = "PENDING" /\ saga'[o].step = "INITIATED"
          /\ \A q \in Order \ {o} : orderState'[q] = orderState[q] /\ saga'[q] = saga[q]
      BY <1>1, <2>2, RowsWritten DEF TypeOK
    <2>4. payments[o] = <<>> /\ \A v \in tasks : v.order # o
      BY <1>1, <2>2 DEF SagaInvariant, NotPlaced
    <2>5. ~PaidTask(u) /\ ~UnpaidTask(u)
      BY <2>1 DEF PaidTask, UnpaidTask
    <2>6. ASSUME NEW q \in Order
          PROVE  /\ PaidRow(q)' => PaidRow(q)
                 /\ UnpaidRow(q)' => UnpaidRow(q)
                 /\ HasPaid(q)' <=> HasPaid(q)
      <3>1. CASE q = o
        BY <2>2, <2>3, <2>4, <3>1 DEF PaidRow, UnpaidRow, HasPaid
      <3>2. CASE q # o
        BY <2>2, <2>3, <3>2 DEF PaidRow, UnpaidRow, HasPaid
      <3> QED BY <3>1, <3>2
    <2>7. ASSUME NEW q \in Order PROVE OneSide(q)'
      <3>1. (PaidSide(q)' => PaidSide(q)) /\ (UnpaidSide(q)' => UnpaidSide(q))
        BY <2>2, <2>5, <2>6 DEF PaidSide, UnpaidSide, OfOrder
      <3>2. OneSide(q) /\ (Asked(q) <=> Asked(q)')
        BY <2>2 DEF SidesInvariant, Asked
      <3> QED BY <2>2, <3>1, <3>2 DEF OneSide
    <2>8. \A v \in tasks' : v.cmd = "PayForOrder" => v.arg \in DOMAIN payments'[v.order]
      BY <2>1, <2>2 DEF SidesInvariant
    <2>9. ASSUME TransactionsCommit PROVE CompletionFollowsPayment'
      <3>1. CompletionFollowsPayment
        BY <2>9 DEF SidesInvariant
      <3>2. \A q \in Order : Paying(q) => Paying(q)'
        BY <2>2 DEF Paying, OfOrder
      <3> QED BY <1>2, <2>1, <2>2, <2>6, <3>1, <3>2 DEF CompletionFollowsPayment
    <2> QED BY <2>7, <2>8, <2>9 DEF SidesInvariant, TransactionsCommit
  <1>4. ASSUME NEW r \in Request, RequestCancel(r) \/ RequestPayment(r) PROVE SidesInvariant'
    <2> DEFINE o == About[r]
    <2>1. /\ o \in Order /\ r \notin used /\ used' = used \cup {r} /\ UNCHANGED tableVars
      BY <1>4, AboutAssumption DEF RequestCancel, RequestPayment, Arrives
    <2>2. ~Asked(o) /\ Asked(o)'
      BY <1>1, <2>1 DEF Asked, OneRequest, TypeOK
    <2>3. OneSide(o)
      BY <2>1 DEF SidesInvariant
    <2>4. ~PaidSide(o) /\ ~UnpaidSide(o)
      BY <2>2, <2>3 DEF OneSide
    <2>5. PICK u : /\ tasks' = tasks \cup {u} /\ u.order = o
                   /\ u.cmd = "CancelOrder" \/ (u.cmd = "PayForOrder" /\ u.arg \in DOMAIN payments[o])
      <3>1. CASE RequestCancel(r)
        <4> DEFINE u == NewTask(r, "CancelOrder", o)
        <4>1. u.order = o /\ u.cmd = "CancelOrder"
          BY DEF NewTask, TaskWith
        <4>2. tasks' = tasks \cup {u}
          BY <3>1 DEF RequestCancel
        <4> HIDE DEF u
        <4> QED BY <4>1, <4>2
      <3>2. CASE RequestPayment(r)
        <4>1. PICK i \in DOMAIN payments[o], result \in {"PAID", "FAILED"} :
                tasks' = tasks \cup {Payment(r, o, i, result)}
          BY <3>2 DEF RequestPayment
        <4> DEFINE u == Payment(r, o, i, result)
        <4>2. u.order = o /\ u.cmd = "PayForOrder" /\ u.arg = i
          BY DEF Payment, TaskWith
        <4> HIDE DEF u
        <4> QED BY <4>1, <4>2 DEF u
      <3> QED BY <1>4, <3>1, <3>2
    <2>6. u.cmd = "PayForOrder" => payments[o] # <<>>
      BY <2>5
    <2>7. ~(PaidTask(u) /\ UnpaidTask(u)) /\ (PaidTask(u) => u.cmd = "PayForOrder")
      BY <2>5 DEF PaidTask, UnpaidTask
    <2>8. ASSUME NEW q \in Order
          PROVE  /\ PaidRow(q)' <=> PaidRow(q)
                 /\ UnpaidRow(q)' <=> UnpaidRow(q)
                 /\ HasPaid(q)' <=> HasPaid(q)
      BY <2>1 DEF PaidRow, UnpaidRow, HasPaid, tableVars
    <2>9. ASSUME NEW q \in Order PROVE OneSide(q)'
      <3>1. CASE q = o
        <4>1. (PaidSide(o)' => PaidTask(u)) /\ (UnpaidSide(o)' => UnpaidTask(u))
          BY <2>4, <2>5, <2>8, <2>1 DEF PaidSide, UnpaidSide, OfOrder
        <4> QED BY <2>1, <2>2, <2>6, <2>7, <3>1, <4>1 DEF OneSide, tableVars
      <3>2. CASE q # o
        <4>1. (PaidSide(q)' => PaidSide(q)) /\ (UnpaidSide(q)' => UnpaidSide(q))
          BY <2>5, <2>8, <3>2 DEF PaidSide, UnpaidSide, OfOrder
        <4>2. OneSide(q) /\ (Asked(q) => Asked(q)')
          BY <2>1 DEF SidesInvariant, Asked
        <4> QED BY <2>1, <4>1, <4>2 DEF OneSide, tableVars
      <3> QED BY <3>1, <3>2
    <2>10. \A v \in tasks' : v.cmd = "PayForOrder" => v.arg \in DOMAIN payments'[v.order]
      BY <2>1, <2>5 DEF SidesInvariant, tableVars
    <2>11. ASSUME TransactionsCommit PROVE CompletionFollowsPayment'
      <3>1. CompletionFollowsPayment
        BY <2>11 DEF SidesInvariant
      <3>2. \A q \in Order : Paying(q) => Paying(q)'
        BY <2>5 DEF Paying, OfOrder
      <3> QED BY <1>2, <2>5, <2>8, <3>1, <3>2 DEF CompletionFollowsPayment
    <2> QED BY <2>9, <2>10, <2>11 DEF SidesInvariant, TransactionsCommit
  <1> QED BY <1>3, <1>4

\* Every step preserves the sides.
LEMMA SideNext ==
  ASSUME OneRequest, SidesInvariant, [Next]_vars
  PROVE  SidesInvariant'
  <1>1. SagaInvariant'
    BY NextInvariant DEF SidesInvariant
  <1>2. ASSUME NEW t \in tasks, TaskStep(t) \/ TaskFails(t) PROVE SidesInvariant'
    BY <1>1, <1>2, SideOfReservations, SideOfReads, SideOfPublishes, SideOfCommits
      DEF TaskStep, TaskFails
  <1>3. CASE WorkerStep \/ RecoveryEnds \/ Restart \/ LoaderRuns
    BY <1>1, <1>3, SideFewer
      DEF WorkerStep, RecoveryEnds, Restart, LoaderRuns, LoaderReads, LoaderSets, LoaderEnds
  <1>4. CASE Crash
    BY <1>1, <1>4, SideFewer DEF Crash
  <1>5. CASE UNCHANGED vars
    BY <1>1, <1>5, SideFewer DEF vars
  <1> QED BY <1>1, <1>2, <1>3, <1>4, <1>5, SideOfRecovery, SideOfCustomers DEF Next, Progress

LEMMA SideInit == Init => SidesInvariant
  <1> SUFFICES ASSUME Init PROVE SidesInvariant
    OBVIOUS
  <1>1. SagaInvariant
    BY InitInvariant
  <1>2. \A o \in Order : ~PaidRow(o) /\ ~UnpaidRow(o)
    BY DEF Init, PaidRow, UnpaidRow, HasPaid, None
  <1>3. tasks = {}
    BY DEF Init
  <1>4. \A o \in Order : OneSide(o)
    BY <1>2, <1>3 DEF OneSide, PaidSide, UnpaidSide, OfOrder
  <1> QED BY <1>1, <1>2, <1>3, <1>4 DEF SidesInvariant, CompletionFollowsPayment

\* When an order is the subject of one request, whenever it is sent, what paying
\* starts and what canceling starts never meet, although transactions are rolled
\* back, Redis and the queue fail and the server restarts.
THEOREM SidesHold ==
  ASSUME OneRequest
  PROVE  Spec => []SidesInvariant
  <1>1. SidesInvariant /\ [Next]_vars => SidesInvariant'
    BY SideNext
  <1> QED BY <1>1, SideInit, PTL DEF Spec

\* A completed order has a payment that was paid; or, where PostgreSQL may roll
\* back the paying transaction after its event was published, one that is still
\* open.  It never has one that failed or was canceled.
THEOREM CompletionIsPaid ==
  ASSUME OneRequest
  PROVE  Spec => []CompletedIsPaid
  <1>1. SidesInvariant => CompletedIsPaid
    <2> SUFFICES ASSUME SidesInvariant, NEW o \in Order, orderState[o] = "COMPLETED"
                 PROVE  \E i \in DOMAIN payments[o] :
                          payments[o][i] = "PAID" \/ ("database" \in Faults /\ payments[o][i] = "OPEN")
      BY DEF CompletedIsPaid
    <2>1. OneSide(o) /\ PaidRow(o) /\ SagaInvariant
      BY DEF SidesInvariant, PaidRow
    <2>2. payments[o] # <<>> /\ ~UnpaidRow(o)
      BY <2>1 DEF OneSide, PaidSide, UnpaidSide
    <2>3. DOMAIN payments[o] = {1} /\ payments[o][1] \in PaymentState
      BY <2>1, <2>2, PaymentFacts DEF PaymentOf
    <2>4. payments[o][1] \in {"PAID", "OPEN"}
      BY <2>2, <2>3 DEF UnpaidRow, PaymentState
    <2>5. CASE TransactionsCommit
      <3>1. HasPaid(o)
        BY <2>1, <2>5 DEF SidesInvariant, CompletionFollowsPayment
      <3> QED BY <3>1 DEF HasPaid
    <2>6. CASE ~TransactionsCommit
      BY <2>3, <2>4, <2>6 DEF TransactionsCommit
    <2> QED BY <2>5, <2>6
  <1> QED BY <1>1, SidesHold, PTL

------------------------------------------------------------------------------
(* The saga implements the life cycle of an order. *)

\* The steps of the life cycle, as they show in the tables.
LEMMA OrderMoves ==
  ASSUME LifecycleInvariant, NEW o \in Order, UNCHANGED payments, NEW s,
         orderState' = [orderState EXCEPT ![o] = s],
         \/ orderState[o] = None /\ PaymentOf(o) = None /\ s = "PENDING"
         \/ orderState[o] = "PENDING" /\ PaymentOf(o) = None /\ s = "FAILED"
         \/ orderState[o] = "PENDING" /\ PaymentOf(o) = "OPEN" /\ s = "AWAITING_PAYMENT"
         \/ orderState[o] = "AWAITING_PAYMENT" /\ PaymentOf(o) = "PAID" /\ s = "COMPLETED"
         \/ /\ orderState[o] = "AWAITING_PAYMENT" /\ PaymentOf(o) \in {"OPEN", "FAILED"}
            /\ s = "CANCELED"
  PROVE  Lifecycle!Next
  <1>1. [q \in Order |-> PaymentOf(q)]' = [q \in Order |-> PaymentOf(q)]
    BY DEF PaymentOf
  <1>2. \/ Lifecycle!Place(o) \/ Lifecycle!Fail(o) \/ Lifecycle!AwaitPayment(o)
        \/ Lifecycle!Complete(o) \/ Lifecycle!Cancel(o)
    BY <1>1 DEF Lifecycle!Place, Lifecycle!Fail, Lifecycle!AwaitPayment, Lifecycle!Complete,
                Lifecycle!Cancel, Lifecycle!At, Lifecycle!OrderBecomes, None
  <1> QED BY <1>2 DEF Lifecycle!Next

LEMMA PaymentMoves ==
  ASSUME LifecycleInvariant, NEW o \in Order, UNCHANGED orderState, NEW s, PaymentOf(o)' = s,
         \A q \in Order \ {o} : payments'[q] = payments[q],
         \/ orderState[o] = "PENDING" /\ PaymentOf(o) = None /\ s = "OPEN"
         \/ orderState[o] = "AWAITING_PAYMENT" /\ PaymentOf(o) = "OPEN" /\ s \in {"PAID", "FAILED"}
         \/ orderState[o] = "CANCELED" /\ PaymentOf(o) = "OPEN" /\ s = "CANCELED"
  PROVE  Lifecycle!Next
  <1> DEFINE pay == [q \in Order |-> PaymentOf(q)]
  <1>1. pay' = [pay EXCEPT ![o] = s]
    <2>1. \A q \in Order \ {o} : PaymentOf(q)' = PaymentOf(q)
      BY DEF PaymentOf
    <2> QED BY <2>1
  <1>2. \/ Lifecycle!OpenPayment(o) \/ Lifecycle!Pay(o) \/ Lifecycle!Decline(o)
        \/ Lifecycle!CancelPayment(o)
    BY <1>1 DEF Lifecycle!OpenPayment, Lifecycle!Pay, Lifecycle!Decline, Lifecycle!CancelPayment,
                Lifecycle!At, Lifecycle!PaymentBecomes, None
  <1> QED BY <1>2 DEF Lifecycle!Next

\* Every commit is a step of the life cycle.
LEMMA CommitsMove ==
  ASSUME LifecycleInvariant, LifecycleInvariant', NEW t \in tasks,
         \/ InitiatePaymentCommits(t) \/ MarkOrderCommits(t) \/ CancelOrderCommits(t)
         \/ PayForOrderCommits(t) \/ CancelPaymentCommits(t)
  PROVE  Lifecycle!Next
  <1> DEFINE o == t.order
  <1>1. /\ t \in Task /\ o \in Order /\ TaskReserves(t) /\ TaskInPhase(t) /\ InPhase(o)
        /\ SagaInvariant /\ payments \in [Order -> Seq(PaymentState)]
    BY PhaseFacts DEF SagaInvariant, TypeOK, RowInPhase
  <1>2. InPhase(o)'
    BY <1>1 DEF LifecycleInvariant, RowInPhase
  <1>3. \A step, reserved : WriteSaga(o, step, reserved) => saga'[o].step = step
    BY <1>1 DEF WriteSaga, SagaInvariant, TypeOK
  <1>4. UNCHANGED payments => PaymentOf(o)' = PaymentOf(o)
    BY DEF PaymentOf
  <1>a. CASE InitiatePaymentCommits(t)
    <2>1. /\ t.cmd \in ChainCommand /\ t.cmd = "InitiatePayment" /\ UNCHANGED orderState
          /\ payments' = [payments EXCEPT ![o] = Append(@, "OPEN")]
          /\ WriteSaga(o, "PAYMENT_CREATED", t.seen)
      BY <1>a DEF InitiatePaymentCommits, ChainCommand
    <2>2. orderState[o] = "PENDING" /\ PaymentOf(o) = None
      BY <1>1, <2>1, TaskFacts, PhaseFacts, PaymentFacts DEF TaskReserves
    <2>3. PaymentOf(o)' = "OPEN"
      BY <1>2, <1>3, <2>1 DEF InPhase, At, ReservationStep, None
    <2>4. \A q \in Order \ {o} : payments'[q] = payments[q]
      BY <1>1, <2>1
    <2> QED BY <1>1, <2>1, <2>2, <2>3, <2>4, PaymentMoves
  <1>b. CASE MarkOrderCommits(t)
    <2>1. /\ t.cmd \in MarkingCommand /\ UNCHANGED payments
          /\ orderState' = [orderState EXCEPT ![o] = NewOrderState(t.cmd)]
          /\ WriteSaga(o, NewStep(t.cmd), t.seen)
      BY <1>b DEF MarkOrderCommits, WriteOrder
    <2>2. CASE t.cmd = "MarkOrderAwaitingPayment"
      <3>1. NewOrderState(t.cmd) = "AWAITING_PAYMENT" /\ saga'[o].step = "PAYMENT_PROCESSING"
        BY <1>3, <2>1, <2>2 DEF NewOrderState, NewStep
      <3>2. orderState[o] = "PENDING" /\ PaymentOf(o) = "OPEN"
        BY <1>1, <1>2, <1>4, <2>1, <2>2, <3>1
          DEF TaskReserves, ChainCommand, InPhase, At, ReservationStep, None
      <3> QED BY <1>1, <2>1, <3>1, <3>2, OrderMoves
    <2>3. CASE t.cmd = "MarkOrderFail"
      <3>1. NewOrderState(t.cmd) = "FAILED" /\ saga'[o].step = "ORDER_FAILED"
        BY <1>3, <2>1, <2>3 DEF NewOrderState, NewStep
      <3>2. orderState[o] = "PENDING" /\ PaymentOf(o) = None
        BY <1>1, <1>2, <1>4, <2>1, <2>3, <3>1
          DEF TaskReserves, ChainCommand, InPhase, At, ReservationStep, None
      <3> QED BY <1>1, <2>1, <3>1, <3>2, OrderMoves
    <2>4. CASE t.cmd = "MarkOrderAsComplete"
      <3>1. NewOrderState(t.cmd) = "COMPLETED" /\ saga'[o].step = "ORDER_COMPLETED"
        BY <1>3, <2>1, <2>4 DEF NewOrderState, NewStep
      <3>2. orderState[o] = "AWAITING_PAYMENT" /\ PaymentOf(o) = "PAID"
        BY <1>1, <1>2, <1>4, <2>1, <2>4, <3>1 DEF TaskInPhase, InPhase, At, ReservationStep, None
      <3> QED BY <1>1, <2>1, <3>1, <3>2, OrderMoves
    <2> QED BY <2>1, <2>2, <2>3, <2>4 DEF MarkingCommand
  <1>c. CASE CancelOrderCommits(t)
    <2>1. /\ t.cmd = "CancelOrder" /\ t.pc = "published" /\ UNCHANGED payments
          /\ orderState' = [orderState EXCEPT ![o] = "CANCELED"]
      BY <1>c DEF CancelOrderCommits, WriteOrder, NewOrderState
    <2>2. orderState[o] = "AWAITING_PAYMENT" /\ PaymentOf(o) \in {"OPEN", "FAILED"}
      BY <1>1, <2>1 DEF TaskInPhase
    <2> QED BY <1>1, <2>1, <2>2, OrderMoves
  <1>d. CASE PayForOrderCommits(t)
    <2> DEFINE step == IF t.outcome = "PAID" THEN "PAYMENT_SUCCEEDED" ELSE "PAYMENT_FAILED"
    <2>1. /\ t.cmd = "PayForOrder" /\ UNCHANGED orderState /\ WriteSaga(o, step, t.seen)
          /\ PaymentBecomes(o, t.arg, t.outcome)
      BY <1>d DEF PayForOrderCommits
    <2>2. orderState[o] = "AWAITING_PAYMENT" /\ PaymentOf(o) = "OPEN"
      BY <1>1, <2>1 DEF TaskInPhase
    <2>3. saga'[o].step = step
      BY <1>3, <2>1
    <2>4. PaymentOf(o)' \in {"PAID", "FAILED"}
      BY <1>2, <2>3 DEF InPhase, At, ReservationStep, None
    <2>5. \A q \in Order \ {o} : payments'[q] = payments[q]
      BY <1>1, <2>1 DEF PaymentBecomes
    <2> QED BY <1>1, <2>1, <2>2, <2>4, <2>5, PaymentMoves
  <1>e. CASE CancelPaymentCommits(t)
    <2>1. /\ t.cmd = "CancelPayment" /\ t.pc = "read" /\ UNCHANGED orderState
          /\ WriteSaga(o, "PAYMENT_CANCELED", t.seen) /\ PaymentBecomes(o, t.arg, "CANCELED")
      BY <1>e DEF CancelPaymentCommits
    <2>2. orderState[o] = "CANCELED" /\ PaymentOf(o) = "OPEN"
      BY <1>1, <2>1 DEF TaskInPhase
    <2>3. saga'[o].step = "PAYMENT_CANCELED"
      BY <1>3, <2>1
    <2>4. PaymentOf(o)' = "CANCELED"
      BY <1>2, <2>3 DEF InPhase, At, ReservationStep, None
    <2>5. \A q \in Order \ {o} : payments'[q] = payments[q]
      BY <1>1, <2>1 DEF PaymentBecomes
    <2> QED BY <1>1, <2>1, <2>2, <2>4, <2>5, PaymentMoves
  <1> QED BY <1>a, <1>b, <1>c, <1>d, <1>e

\* The life cycle begins with no order placed.
LEMMA LifecycleInit == Init => Lifecycle!Init
  BY DEF Init, Lifecycle!Init, PaymentOf, None

\* Every step of the saga is a step of the life cycle, or leaves the states of
\* orders and payments alone.
LEMMA LifecycleNext ==
  ASSUME CustomersArePatient, TransactionsCommit, LifecycleInvariant, [Next]_vars
  PROVE  Lifecycle!Next \/ UNCHANGED Lifecycle!vars
  <1>1. LifecycleInvariant'
    BY PhaseNext
  <1>2. CASE UNCHANGED <<orderState, payments>>
    <2>1. [q \in Order |-> PaymentOf(q)]' = [q \in Order |-> PaymentOf(q)]
      BY <1>2 DEF PaymentOf
    <2> QED BY <1>2, <2>1 DEF Lifecycle!vars
  <1>3. ASSUME NEW o \in Order, PlaceOrder(o) PROVE Lifecycle!Next
    <2>1. /\ orderState[o] = None /\ UNCHANGED payments
          /\ orderState' = [orderState EXCEPT ![o] = "PENDING"]
      BY <1>3 DEF PlaceOrder
    <2>2. PaymentOf(o) = None
      BY <2>1 DEF LifecycleInvariant, LinesInvariant, SagaInvariant, NotPlaced, PaymentOf
    <2> QED BY <2>1, <2>2, OrderMoves
  <1>4. ASSUME NEW t \in tasks, TaskStep(t) PROVE Lifecycle!Next \/ UNCHANGED <<orderState, payments>>
    <2>1. CASE \/ InitiatePaymentCommits(t) \/ MarkOrderCommits(t) \/ CancelOrderCommits(t)
               \/ PayForOrderCommits(t) \/ CancelPaymentCommits(t)
      BY <1>1, <2>1, CommitsMove
    <2>2. CASE ~(\/ InitiatePaymentCommits(t) \/ MarkOrderCommits(t) \/ CancelOrderCommits(t)
                 \/ PayForOrderCommits(t) \/ CancelPaymentCommits(t))
      BY <1>4, <2>2
        DEF TaskStep, ReserveInCache, ReserveReadsSaga, ReservePersistsSaga, ReserveEnqueues,
            ReleaseReadsSaga, ReturnLine, CompensateReadsSaga, ReturnPersistsSaga,
            ReturnEnqueues, ReturnPublishes, InitiatePaymentReads, TransactionReadsSaga,
            OrderCommandLoads, CancelOrderPublishes, PayForOrderLoads, PayForOrderPublishes,
            CancelPaymentLoads, Throws, tableVars
    <2> QED BY <2>1, <2>2
  <1>5. CASE Next
    <2>1. CASE (\E t \in tasks : TaskStep(t)) \/ (\E o \in Order : PlaceOrder(o))
      BY <1>2, <1>3, <1>4, <2>1
    <2>2. CASE ~(\E t \in tasks : TaskStep(t)) /\ ~(\E o \in Order : PlaceOrder(o))
      <3>1. UNCHANGED <<orderState, payments>>
        BY <1>5, <2>2
          DEF Next, Progress, TaskFails, ReserveCatches, DependencyFails, Throws, WorkerStep,
              RecoverSaga, RecoveryEnds, Restart, LoaderRuns, LoaderReads, LoaderSets, LoaderEnds,
              RequestCancel, RequestPayment,
              Arrives, Crash, tableVars
      <3> QED BY <1>2, <3>1
    <2> QED BY <2>1, <2>2
  <1>6. CASE UNCHANGED vars
    BY <1>2, <1>6 DEF vars, tableVars
  <1> QED BY <1>5, <1>6

\* The saga implements the life cycle: orders and payments move together, one
\* promised step at a time, across failures of Redis and of the queue, crashes
\* and restarts.
THEOREM SagaImplementsLifecycle ==
  ASSUME CustomersArePatient, TransactionsCommit
  PROVE  Spec => ImplementsLifecycle
  <1>1. LifecycleInvariant /\ [Next]_vars => [Lifecycle!Next]_(Lifecycle!vars)
    BY LifecycleNext
  <1> QED BY <1>1, LifecycleInit, PhasesHold, PTL DEF Spec, ImplementsLifecycle, Lifecycle!Spec

------------------------------------------------------------------------------
(* Third layer. *)

\* Lines of an order and what they amount to.
LEMMA LineFacts ==
  ASSUME NEW o \in Order
  PROVE  /\ IsFiniteSet(LineIndex(o)) /\ LineIndex(o) \subseteq Nat \ {0}
         /\ LineIndex(o) = 1..Len(Lines[o])
         /\ \A i \in LineIndex(o) : Lines[o][i].product \in Product /\ Lines[o][i].quantity \in Nat
         /\ \A p, lines : /\ lines \subseteq LineIndex(o)
                          => /\ IsFiniteSet(lines)
                             /\ \A i \in lines : Demand(o, p)[i] \in Nat
                             /\ Quantity(o, lines, p) \in Nat
  <1>1. Lines[o] \in Seq(Line)
    BY LinesAssumption
  <1>2. Len(Lines[o]) \in Nat /\ LineIndex(o) = 1..Len(Lines[o])
    BY <1>1 DEF LineIndex
  <1>3. IsFiniteSet(LineIndex(o))
    BY <1>2, FS_Interval
  <1>4. \A i \in LineIndex(o) : Lines[o][i] \in Line
    BY <1>1, <1>2
  <1>5. \A i \in LineIndex(o) : Lines[o][i].product \in Product /\ Lines[o][i].quantity \in Nat
    BY <1>4 DEF Line
  <1>6. ASSUME NEW p, NEW lines, lines \subseteq LineIndex(o)
        PROVE  /\ IsFiniteSet(lines)
               /\ \A i \in lines : Demand(o, p)[i] \in Nat
               /\ Quantity(o, lines, p) \in Nat
    <2>1. IsFiniteSet(lines)
      BY <1>3, <1>6, FS_Subset
    <2>2. \A i \in lines : Demand(o, p)[i] \in Nat
      BY <1>5, <1>6 DEF Demand
    <2> QED BY <2>1, <2>2, SumOfNaturals DEF Quantity
  <1>7. LineIndex(o) \subseteq Nat \ {0}
    BY <1>2
  <1> QED BY <1>2, <1>3, <1>5, <1>6, <1>7

\* What the orders hold of a product.
Missing(held, p) == SumFunctionOnSet([q \in Order |-> Quantity(q, held[q], p)], Order)

\* It grows by one line when an order gets one.
LEMMA LineMoves ==
  ASSUME IsFiniteSet(Order), NEW o \in Order, NEW i \in LineIndex(o), NEW p,
         NEW less, NEW more, \A q \in Order : less[q] \subseteq LineIndex(q),
         \A q \in Order \ {o} : more[q] = less[q],
         i \notin less[o], more[o] = less[o] \cup {i}
  PROVE  /\ Missing(less, p) \in Nat /\ Missing(more, p) \in Nat
         /\ Missing(more, p) = Missing(less, p) + Demand(o, p)[i]
  <1> DEFINE f == [q \in Order |-> Quantity(q, less[q], p)]
             g == [q \in Order |-> Quantity(q, more[q], p)]
  <1>1. \A q \in Order : more[q] \subseteq LineIndex(q)
    OBVIOUS
  <1>2. \A q \in Order : f[q] \in Nat /\ g[q] \in Nat
    BY <1>1, LineFacts
  <1>3. \A q \in Order \ {o} : g[q] = f[q]
    OBVIOUS
  <1>4. g[o] = f[o] + Demand(o, p)[i]
    <2>1. /\ IsFiniteSet(less[o])
          /\ \A j \in less[o] \cup {i} : Demand(o, p)[j] \in Int
      <3>1. more[o] \subseteq LineIndex(o) /\ less[o] \subseteq more[o]
        BY <1>1
      <3>2. \A j \in more[o] : Demand(o, p)[j] \in Nat
        BY <3>1, LineFacts
      <3>3. IsFiniteSet(less[o])
        BY LineFacts
      <3> QED BY <3>2, <3>3
    <2> DEFINE S == less[o]
               d == Demand(o, p)
    <2>2. IsFiniteSet(S) /\ i \notin S /\ \A j \in S \cup {i} : d[j] \in Int
      BY <2>1
    <2> HIDE DEF S, d
    <2>3. SumFunctionOnSet(d, S \cup {i}) = SumFunctionOnSet(d, S) + d[i]
      BY <2>2, SumOfOneMore
    <2> QED BY <2>3 DEF Quantity, S, d
  <1> HIDE DEF f, g
  <1>5. /\ SumFunctionOnSet(f, Order) \in Nat /\ SumFunctionOnSet(g, Order) \in Nat
    BY <1>2, SumOfNaturals
  <1>6. /\ SumFunctionOnSet(f, Order) = f[o] + SumFunctionOnSet(f, Order \ {o})
        /\ SumFunctionOnSet(g, Order) = g[o] + SumFunctionOnSet(g, Order \ {o})
    BY <1>2, SumOfElement
  <1>7. IsFiniteSet(Order \ {o})
    BY FS_Subset
  <1>8. SumFunctionOnSet(f, Order \ {o}) = SumFunctionOnSet(g, Order \ {o})
    BY <1>2, <1>3, <1>7, SumOfEqualTerms
  <1>9. SumFunctionOnSet(f, Order \ {o}) \in Nat
    BY <1>2, <1>7, SumOfNaturals
  <1>10. Demand(o, p)[i] \in Nat
    BY <1>1, LineFacts
  <1>11. SumFunctionOnSet(g, Order) = SumFunctionOnSet(f, Order) + Demand(o, p)[i]
    BY <1>2, <1>4, <1>6, <1>8, <1>9, <1>10
  <1> QED BY <1>5, <1>11 DEF Missing, f, g

\* Commands that neither take lines nor return them.
Moving == {"ReserveInventory", "ReleaseReservation", "CompensateOrderInventory"}
Quiet(u) == u.cmd \notin Moving /\ u.pc # "returning"

GivenBack == {"INVENTORY_COMPENSATED", "PAYMENT_CANCELED", "ORDER_FAILED"}

\* What an order holds when u is the only command that may move its lines.
Holds(u, row, held) ==
  /\ u.pc = "returning" => held = Range(u.todo)
  /\ /\ u.pc # "returning"
     /\ \/ row.step \in GivenBack
        \/ /\ u.cmd \in {"ReleaseReservation", "CompensateOrderInventory"}
           /\ u.pc \in {"returned", "read"}
     => held = {}
  /\ /\ row.step \notin GivenBack
     /\ u.cmd = "ReserveInventory" /\ u.pc \in {"granted", "read"}
     => held = Range(row.reserved) \cup {u.arg}
  /\ /\ row.step \notin GivenBack
     /\ \/ Quiet(u)
        \/ u.cmd = "ReserveInventory" /\ u.pc \in {"start", "saved"}
        \/ u.cmd = "ReleaseReservation" /\ u.pc = "start"
     => held = Range(row.reserved)

LEMMA HeldByOne ==
  ASSUME NEW ts, NEW row, NEW u \in ts, \A w \in ts \ {u} : Quiet(w)
  PROVE  Holds(u, row, HeldBy(ts, row))
  <1>1. u.pc = "returning" => Returning(ts) = {u}
    BY DEF Returning, Quiet
  <1>2. u.pc # "returning" => Returning(ts) = {}
    BY DEF Returning, Quiet
  <1>3. Returned(ts, row.step) <=>
          \/ row.step \in GivenBack
          \/ /\ u.cmd \in {"ReleaseReservation", "CompensateOrderInventory"}
             /\ u.pc \in {"returned", "read"}
    BY DEF Returned, Quiet, Moving, GivenBack
  <1>4. u.cmd = "ReserveInventory" /\ u.pc \in {"granted", "read"} => Unsaved(ts) = {u.arg}
    BY DEF Unsaved, Quiet, Moving
  <1>5. ~(u.cmd = "ReserveInventory" /\ u.pc \in {"granted", "read"}) => Unsaved(ts) = {}
    BY DEF Unsaved, Quiet, Moving
  <1>6. u.pc = "returning" => HeldBy(ts, row) = Range(u.todo)
    BY <1>1 DEF HeldBy
  <1>7. u.pc # "returning" /\ Returned(ts, row.step) => HeldBy(ts, row) = {}
    BY <1>2 DEF HeldBy
  <1>8. u.pc # "returning" /\ ~Returned(ts, row.step) =>
          HeldBy(ts, row) = Range(row.reserved) \cup Unsaved(ts)
    BY <1>2 DEF HeldBy
  <1> DEFINE held == HeldBy(ts, row)
  <1>9. u.pc = "returning" => held = Range(u.todo)
    BY <1>6
  <1>10. u.pc # "returning" /\ (row.step \in GivenBack
             \/ (u.cmd \in {"ReleaseReservation", "CompensateOrderInventory"} /\ u.pc \in {"returned", "read"}))
           => held = {}
    BY <1>3, <1>7
  <1>11. row.step \notin GivenBack /\ u.cmd = "ReserveInventory" /\ u.pc \in {"granted", "read"}
           => held = Range(row.reserved) \cup {u.arg}
    BY <1>3, <1>4, <1>8
  <1>12. row.step \notin GivenBack
         /\ (Quiet(u) \/ (u.cmd = "ReserveInventory" /\ u.pc \in {"start", "saved"})
               \/ (u.cmd = "ReleaseReservation" /\ u.pc = "start"))
           => held = Range(row.reserved)
    BY <1>3, <1>5, <1>8 DEF Quiet, Moving
  <1> HIDE DEF held
  <1> QED BY <1>9, <1>10, <1>11, <1>12 DEF Holds, held

\* Nobody moves lines of an order that has no command.
LEMMA HeldByNone ==
  ASSUME NEW row
  PROVE  HeldBy({}, row) = IF row.step \in GivenBack THEN {} ELSE Range(row.reserved)
  <1>1. Returning({}) = {} /\ Unsaved({}) = {}
    BY DEF Returning, Unsaved
  <1>2. Returned({}, row.step) <=> row.step \in GivenBack
    BY DEF Returned, GivenBack
  <1> QED BY <1>1, <1>2 DEF HeldBy

\* Quiet commands come and go unnoticed.
LEMMA HeldByOthers ==
  ASSUME NEW ts, NEW others, NEW row, NEW next,
         \A w \in (ts \ others) \cup (others \ ts) : Quiet(w),
         next.reserved = row.reserved, next.step \in GivenBack <=> row.step \in GivenBack
  PROVE  HeldBy(ts, row) = HeldBy(others, next)
  <1>1. Returning(ts) = Returning(others)
    BY DEF Returning, Quiet
  <1>2. Unsaved(ts) = Unsaved(others)
    BY DEF Unsaved, Quiet, Moving
  <1>3. Returned(ts, row.step) <=> Returned(others, next.step)
    BY DEF Returned, Quiet, Moving, GivenBack
  <1> QED BY <1>1, <1>2, <1>3 DEF HeldBy

\* An order holds some of its lines.
LEMMA HeldAreLines ==
  ASSUME TypeOK, NEW o \in Order
  PROVE  HeldLines(o) \subseteq LineIndex(o)
  <1>1. \A s \in Seq(LineIndex(o)) : Range(s) \subseteq LineIndex(o)
    BY DEF Range
  <1>2. saga[o].reserved \in Seq(LineIndex(o))
    BY DEF TypeOK
  <1>3. \A u \in OfOrder(o) : /\ u.todo \in Seq(LineIndex(o))
                              /\ u.cmd = "ReserveInventory" => u.arg \in LineIndex(o)
    BY DEF TypeOK, TaskTyped, OfOrder
  <1>4. UNION {Range(u.todo) : u \in Returning(OfOrder(o))} \subseteq LineIndex(o)
    BY <1>1, <1>3 DEF Returning
  <1>5. Unsaved(OfOrder(o)) \subseteq LineIndex(o)
    BY <1>3 DEF Unsaved
  <1> QED BY <1>1, <1>2, <1>4, <1>5 DEF HeldLines, HeldBy

\* Nothing moves.
LEMMA StockKept ==
  ASSUME StockIsConserved, \A q \in Order : HeldLines(q)' = HeldLines(q), UNCHANGED cache
  PROVE  StockIsConserved'
  <1>1. ASSUME NEW p \in Product
        PROVE  [q \in Order |-> Quantity(q, HeldLines(q)', p)]
                 = [q \in Order |-> Quantity(q, HeldLines(q), p)]
    OBVIOUS
  <1> QED BY <1>1 DEF StockIsConserved

\* What the counters and the orders say, as one sum per product.
LEMMA StockIsMissing ==
  /\ StockIsConserved <=>
       \A p \in Product : cache[p] + Missing([q \in Order |-> HeldLines(q)], p) = InitialStock[p]
  /\ StockIsConserved' <=>
       \A p \in Product : cache'[p] + Missing([q \in Order |-> HeldLines(q)'], p) = InitialStock[p]
  <1>1. ASSUME NEW p
        PROVE  [q \in Order |-> Quantity(q, [x \in Order |-> HeldLines(x)][q], p)]
                 = [q \in Order |-> Quantity(q, HeldLines(q), p)]
    OBVIOUS
  <1>2. ASSUME NEW p
        PROVE  [q \in Order |-> Quantity(q, [x \in Order |-> HeldLines(x)'][q], p)]
                 = [q \in Order |-> Quantity(q, HeldLines(q)', p)]
    OBVIOUS
  <1> QED BY <1>1, <1>2 DEF StockIsConserved, Missing

\* The quantity of a line is taken from the counter of its product.
LEMMA StockTaken ==
  ASSUME IsFiniteSet(Order), TypeOK, StockIsConserved, NEW o \in Order, NEW i \in LineIndex(o),
         \A q \in Order \ {o} : HeldLines(q)' = HeldLines(q),
         i \notin HeldLines(o), HeldLines(o)' = HeldLines(o) \cup {i},
         ReserveInventory(Lines[o][i].product, Lines[o][i].quantity)
  PROVE  StockIsConserved'
  <1> DEFINE less == [q \in Order |-> HeldLines(q)]
             more == [q \in Order |-> HeldLines(q)']
             n == Lines[o][i].quantity
  <1>1. /\ \A q \in Order : less[q] \subseteq LineIndex(q)
        /\ \A q \in Order \ {o} : more[q] = less[q]
        /\ i \notin less[o] /\ more[o] = less[o] \cup {i}
    BY HeldAreLines
  <1>2. cache \in [Product -> Nat] /\ n \in Nat
    BY LineFacts DEF TypeOK, InventoryTypeOK
  <1>3. ASSUME NEW p \in Product PROVE cache'[p] + Missing(more, p) = cache[p] + Missing(less, p)
    <2>1. /\ Missing(less, p) \in Nat /\ Missing(more, p) \in Nat
          /\ Missing(more, p) = Missing(less, p) + Demand(o, p)[i]
      <3> HIDE DEF less, more
      <3> QED BY <1>1, LineMoves
    <2>2. Demand(o, p)[i] = IF Lines[o][i].product = p THEN n ELSE 0
      BY DEF Demand
    <2>3. cache'[p] = IF Lines[o][i].product = p THEN cache[p] - n ELSE cache[p]
      BY <1>2 DEF ReserveInventory
    <2> HIDE DEF less, more, n
    <2> QED BY <1>2, <2>1, <2>2, <2>3
  <1>4. \A p \in Product : cache[p] + Missing(less, p) = InitialStock[p]
    BY StockIsMissing
  <1> HIDE DEF less, more
  <1>5. \A p \in Product : cache'[p] + Missing(more, p) = InitialStock[p]
    BY <1>3, <1>4
  <1> QED BY <1>5, StockIsMissing DEF more

\* The quantity of a line goes back to the counter of its product.
LEMMA StockReturned ==
  ASSUME IsFiniteSet(Order), TypeOK, StockIsConserved, NEW o \in Order, NEW i \in LineIndex(o),
         \A q \in Order \ {o} : HeldLines(q)' = HeldLines(q),
         i \in HeldLines(o), HeldLines(o)' = HeldLines(o) \ {i},
         CompensateInventory(Lines[o][i].product, Lines[o][i].quantity)
  PROVE  StockIsConserved'
  <1> DEFINE more == [q \in Order |-> HeldLines(q)]
             less == [q \in Order |-> HeldLines(q)']
             n == Lines[o][i].quantity
  <1>1. /\ \A q \in Order : less[q] \subseteq LineIndex(q)
        /\ \A q \in Order \ {o} : more[q] = less[q]
        /\ i \notin less[o] /\ more[o] = less[o] \cup {i}
    BY HeldAreLines
  <1>2. cache \in [Product -> Nat] /\ n \in Nat
    BY LineFacts DEF TypeOK, InventoryTypeOK
  <1>3. ASSUME NEW p \in Product PROVE cache'[p] + Missing(less, p) = cache[p] + Missing(more, p)
    <2>1. /\ Missing(less, p) \in Nat /\ Missing(more, p) \in Nat
          /\ Missing(more, p) = Missing(less, p) + Demand(o, p)[i]
      <3> HIDE DEF less, more
      <3> QED BY <1>1, LineMoves
    <2>2. Demand(o, p)[i] = IF Lines[o][i].product = p THEN n ELSE 0
      BY DEF Demand
    <2>3. cache'[p] = IF Lines[o][i].product = p THEN cache[p] + n ELSE cache[p]
      BY <1>2 DEF CompensateInventory
    <2> HIDE DEF less, more, n
    <2> QED BY <1>2, <2>1, <2>2, <2>3
  <1>4. \A p \in Product : cache[p] + Missing(more, p) = InitialStock[p]
    BY StockIsMissing
  <1> HIDE DEF less, more
  <1>5. \A p \in Product : cache'[p] + Missing(less, p) = InitialStock[p]
    BY <1>3, <1>4
  <1> QED BY <1>5, StockIsMissing DEF less

\* A step of a task leaves what other orders hold alone.
LEMMA OthersHold ==
  ASSUME NEW t \in tasks, NEW new, Replace(t, new), \A u \in new : u.order = t.order,
         \A q \in Order \ {t.order} : saga'[q] = saga[q]
  PROVE  /\ \A q \in Order \ {t.order} : HeldLines(q)' = HeldLines(q)
         /\ OfOrder(t.order) = (OfOrder(t.order) \ {t}) \cup {t}
         /\ OfOrder(t.order)' = (OfOrder(t.order) \ {t}) \cup new
  <1>1. \A q \in Order \ {t.order} : OfOrder(q)' = OfOrder(q)
    BY DEF OfOrder, Replace
  <1>2. OfOrder(t.order) = (OfOrder(t.order) \ {t}) \cup {t}
    BY DEF OfOrder
  <1>3. OfOrder(t.order)' = (OfOrder(t.order) \ {t}) \cup new
    BY DEF OfOrder, Replace
  <1> QED BY <1>1, <1>2, <1>3 DEF HeldLines

\* A step of a command that does not move lines.
LEMMA StockQuiet ==
  ASSUME StockIsConserved, UNCHANGED cache, NEW t \in tasks, NEW new, Replace(t, new),
         t.order \in Order, Quiet(t), \A u \in new : u.order = t.order /\ Quiet(u),
         \A q \in Order \ {t.order} : saga'[q] = saga[q],
         saga'[t.order].reserved = saga[t.order].reserved,
         saga'[t.order].step \in GivenBack <=> saga[t.order].step \in GivenBack
  PROVE  StockIsConserved'
  <1> DEFINE ts == OfOrder(t.order)
             others == OfOrder(t.order)'
             row == saga[t.order]
             next == saga'[t.order]
  <1>1. \A w \in (ts \ others) \cup (others \ ts) : Quiet(w)
    BY OthersHold
  <1>2. /\ next.reserved = row.reserved
        /\ next.step \in GivenBack <=> row.step \in GivenBack
    OBVIOUS
  <1>3. HeldBy(ts, row) = HeldBy(others, next)
    <2> HIDE DEF ts, others, row, next
    <2> QED BY <1>1, <1>2, HeldByOthers
  <1>4. HeldLines(t.order)' = HeldLines(t.order)
    BY <1>3 DEF HeldLines
  <1>5. \A q \in Order \ {t.order} : HeldLines(q)' = HeldLines(q)
    BY OthersHold
  <1> QED BY <1>4, <1>5, StockKept

\* A step of a command that moves lines: nobody else does in its order.
LEMMA MoverHolds ==
  ASSUME LifecycleInvariant, NEW t \in tasks, t.cmd \in Moving,
         NEW u, Replace(t, {u}), u.order = t.order,
         \A q \in Order \ {t.order} : saga'[q] = saga[q]
  PROVE  /\ \A q \in Order \ {t.order} : HeldLines(q)' = HeldLines(q)
         /\ Holds(t, saga[t.order], HeldLines(t.order))
         /\ Holds(u, saga'[t.order], HeldLines(t.order)')
  <1> DEFINE o == t.order
             ts == OfOrder(o) \ {t}
  <1>1. \A w \in ts : w.order = o /\ (Follows(t, w) \/ Follows(w, t))
    BY DEF OfOrder, LifecycleInvariant, OneCommand
  <1>2. \A w \in ts : Quiet(w)
    BY <1>1 DEF Follows, Quiet, Moving
  <1>3. /\ \A q \in Order \ {o} : HeldLines(q)' = HeldLines(q)
        /\ OfOrder(o) = ts \cup {t} /\ OfOrder(o)' = ts \cup {u}
    BY OthersHold
  <1>4. Holds(t, saga[o], HeldBy(OfOrder(o), saga[o]))
    <2> DEFINE all == OfOrder(o)
               row == saga[o]
    <2>1. t \in all /\ \A w \in all \ {t} : Quiet(w)
      BY <1>2, <1>3
    <2> HIDE DEF all, row
    <2>2. Holds(t, row, HeldBy(all, row))
      BY <2>1, HeldByOne
    <2> QED BY <2>2 DEF all, row
  <1>5. Holds(u, saga'[o], HeldBy(OfOrder(o)', saga'[o]))
    <2> DEFINE all == ts \cup {u}
               row == saga'[o]
    <2>1. u \in all /\ \A w \in all \ {u} : Quiet(w)
      BY <1>2
    <2> HIDE DEF all, row
    <2>2. Holds(u, row, HeldBy(all, row))
      BY <2>1, HeldByOne
    <2> QED BY <1>3, <2>2 DEF all, row
  <1> QED BY <1>3, <1>4, <1>5 DEF HeldLines

\* Reserving a line takes its quantity from the counter.
LEMMA StockOfReserve ==
  ASSUME IsFiniteSet(Order), LifecycleInvariant, StockIsConserved, NEW t \in tasks,
         \/ ReserveInCache(t) \/ ReserveReadsSaga(t) \/ ReservePersistsSaga(t) \/ ReserveEnqueues(t)
  PROVE  StockIsConserved'
  <1> DEFINE o == t.order
             r == saga[o].reserved
  <1>1. /\ t \in Task /\ TaskTyped(t) /\ TaskReserves(t) /\ o \in Order /\ RowReserves(o)
        /\ t.cmd = "ReserveInventory" /\ t.cmd \in Moving /\ TypeOK
        /\ t.arg \in LineIndex(o) /\ r \in Seq(LineIndex(o)) /\ saga[o].step \in ReservationStep
    <2>1. t.cmd = "ReserveInventory"
      BY DEF ReserveInCache, ReserveReadsSaga, ReservePersistsSaga, ReserveEnqueues
    <2>2. SagaInvariant
      BY DEF LifecycleInvariant, LinesInvariant
    <2> QED BY <2>1, <2>2, PhaseFacts DEF Moving, TaskTyped, TaskReserves, SagaInvariant, TypeOK
  <1>2. ReservationStep \cap GivenBack = {}
    BY DEF ReservationStep, GivenBack
  <1>3. t.pc # "saved" => t.arg \in Unreserved(o, r)
    BY <1>1 DEF TaskReserves
  <1>4. HasRead(t.cmd, t.pc) => t.seen = r
    BY <1>1 DEF TaskReserves
  \* A step after which the order holds the same lines.
  <1>5. ASSUME NEW u, Replace(t, {u}), u.order = o, UNCHANGED cache,
               \A q \in Order \ {o} : saga'[q] = saga[q], saga'[o].step \notin GivenBack,
               NEW lines, \A held : Holds(t, saga[o], held) => held = lines,
               \A held : Holds(u, saga'[o], held) => held = lines
        PROVE  StockIsConserved'
    <2>1. \A q \in Order \ {o} : HeldLines(q)' = HeldLines(q)
      BY <1>1, <1>5, MoverHolds
    <2>2. HeldLines(o)' = HeldLines(o)
      <3>1. Holds(t, saga[o], HeldLines(o)) /\ Holds(u, saga'[o], HeldLines(o)')
        BY <1>1, <1>5, MoverHolds
      <3>2. HeldLines(o) = lines
        BY <1>5, <3>1
      <3>3. HeldLines(o)' = lines
        BY <1>5, <3>1
      <3> QED BY <3>2, <3>3
    <2>3. \A q \in Order : HeldLines(q)' = HeldLines(q)
      BY <2>1, <2>2
    <2> QED BY <1>5, <2>3, StockKept
  <1>a. CASE ReserveInCache(t)
    <2>1. t.pc = "start" /\ UNCHANGED saga
      BY <1>a DEF ReserveInCache, tableVars
    <2>2. CASE ReserveInventory(LineOf(t).product, LineOf(t).quantity) /\ Continue(t, "granted")
      <3>1. GoesOn(t, "granted", t.arg, t.seen, t.todo)
        BY <1>1, <2>2, StepShapes
      <3>2. PICK u : Replace(t, {u}) /\ u.cmd = t.cmd /\ u.order = o /\ u.pc = "granted" /\ u.arg = t.arg
        BY <3>1 DEF GoesOn
      <3>3. /\ \A q \in Order \ {o} : HeldLines(q)' = HeldLines(q)
            /\ Holds(t, saga[o], HeldLines(o)) /\ Holds(u, saga[o], HeldLines(o)')
        BY <1>1, <2>1, <3>2, MoverHolds
      <3>4. HeldLines(o) = Range(r) /\ HeldLines(o)' = Range(r) \cup {t.arg}
        BY <1>1, <1>2, <2>1, <3>2, <3>3 DEF Holds
      <3>5. t.arg \notin Range(r)
        BY <1>1, <1>3, <2>1, AppendStaysInjective DEF RowReserves
      <3> QED BY <1>1, <2>2, <3>3, <3>4, <3>5, StockTaken DEF LineOf
    <2>3. CASE Replace(t, {ReservationFailed(t.flow, o)}) /\ UNCHANGED cache
      <3>1. LeadsTo(t, "ReleaseReservation", 1)
        BY <1>1, <2>3, StepShapes DEF ReservationFailed
      <3>2. PICK u : Replace(t, {u}) /\ u.cmd = "ReleaseReservation" /\ u.order = o /\ u.pc = "start"
        BY <3>1 DEF LeadsTo
      <3> QED BY <1>1, <1>2, <1>5, <2>1, <2>3, <3>2 DEF Holds
    <2> QED BY <1>a, <2>2, <2>3 DEF ReserveInCache
  <1>b. CASE ReserveReadsSaga(t)
    <2>1. t.pc = "granted" /\ UNCHANGED saga /\ ReadSaga(t, "read") /\ UNCHANGED cache
      BY <1>b DEF ReserveReadsSaga, tableVars, inventoryVars
    <2>2. GoesOn(t, "read", t.arg, r, t.todo)
      BY <1>1, <2>1, StepShapes
    <2>3. PICK u : Replace(t, {u}) /\ u.cmd = t.cmd /\ u.order = o /\ u.pc = "read" /\ u.arg = t.arg
      BY <2>2 DEF GoesOn
    <2> QED BY <1>1, <1>2, <1>5, <2>1, <2>3 DEF Holds
  <1>c. CASE ReservePersistsSaga(t)
    <2> DEFINE step == IF Unreserved(o, Append(r, t.arg)) = {}
                       THEN "INVENTORY_RESERVED" ELSE "INVENTORY_RESERVING"
    <2>1. t.pc = "read" /\ UNCHANGED cache
      BY <1>c DEF ReservePersistsSaga, inventoryVars
    <2>2. t.seen = r
      BY <1>4, <2>1 DEF HasRead
    <2>3. WriteSaga(o, step, Append(r, t.arg))
      BY <1>c, <2>2 DEF ReservePersistsSaga
    <2>4. step \notin GivenBack
      BY DEF GivenBack
    <2> HIDE DEF step
    <2>5. /\ saga'[o].step = step /\ saga'[o].reserved = Append(r, t.arg)
          /\ \A q \in Order \ {o} : saga'[q] = saga[q]
      BY <1>1, <2>3 DEF WriteSaga, TypeOK
    <2>6. Range(Append(r, t.arg)) = Range(r) \cup {t.arg}
      BY <1>1, <1>3, <2>1, AppendStaysInjective DEF RowReserves
    <2>7. GoesOn(t, "saved", t.arg, Append(t.seen, t.arg), t.todo)
      BY <1>1, <1>c, StepShapes
    <2>8. PICK u : Replace(t, {u}) /\ u.cmd = t.cmd /\ u.order = o /\ u.pc = "saved"
      BY <2>7 DEF GoesOn
    <2> QED BY <1>1, <1>2, <1>5, <2>1, <2>4, <2>5, <2>6, <2>8, ZenonT(30) DEF Holds
  <1>d. CASE ReserveEnqueues(t)
    <2>1. t.pc = "saved" /\ UNCHANGED saga /\ UNCHANGED cache
      BY <1>d DEF ReserveEnqueues, tableVars
    <2>2. LeadsTo(t, "InitiatePayment", 1) \/ \E i : LeadsTo(t, "ReserveInventory", i)
      BY <1>1, <1>d, StepShapes DEF ReserveEnqueues, InventoryReserved, ProductReserved
    <2>3. PICK u : /\ Replace(t, {u}) /\ u.cmd \in {"InitiatePayment", "ReserveInventory"}
                   /\ u.order = o /\ u.pc = "start"
      BY <2>2 DEF LeadsTo
    <2> QED BY <1>1, <1>2, <1>5, <2>1, <2>3 DEF Holds, Quiet, Moving
  <1> QED BY <1>a, <1>b, <1>c, <1>d

\* Returning lines gives their quantities back, one after the other.
LEMMA StockOfReturn ==
  ASSUME IsFiniteSet(Order), LifecycleInvariant, StockIsConserved, NEW t \in tasks,
         \/ ReleaseReadsSaga(t) \/ ReturnLine(t) \/ CompensateReadsSaga(t)
         \/ ReturnPersistsSaga(t) \/ ReturnEnqueues(t) \/ ReturnPublishes(t)
  PROVE  StockIsConserved'
  <1> DEFINE o == t.order
             r == saga[o].reserved
  <1>1. /\ t \in Task /\ TaskTyped(t) /\ TaskReserves(t) /\ TaskInPhase(t) /\ o \in Order
        /\ RowReserves(o) /\ TypeOK /\ r \in Seq(LineIndex(o)) /\ t.todo \in Seq(LineIndex(o))
    <2>1. SagaInvariant
      BY DEF LifecycleInvariant, LinesInvariant
    <2> QED BY <2>1, PhaseFacts DEF TaskTyped, SagaInvariant, TypeOK
  <1>2. /\ t.cmd \in {"ReleaseReservation", "CompensateOrderInventory"} /\ t.cmd \in Moving
        /\ t.pc \in PcOf(t.cmd)
    <2>1. t.pc \in PcOf(t.cmd) /\ t.cmd \in Command
      BY <1>1 DEF TaskReserves, Task
    <2>2. t.pc = "returning" => t.cmd \in {"ReleaseReservation", "CompensateOrderInventory"}
      BY <2>1 DEF PcOf, Command, MarkingCommand
    <2> QED BY <2>1, <2>2
          DEF Moving, ReleaseReadsSaga, ReturnLine, CompensateReadsSaga, ReturnPersistsSaga,
              ReturnEnqueues, ReturnPublishes
  \* A step after which the order holds the same lines.
  <1>3. ASSUME NEW u, Replace(t, {u}), u.order = o, UNCHANGED cache,
               \A q \in Order \ {o} : saga'[q] = saga[q],
               NEW lines, \A held : Holds(t, saga[o], held) => held = lines,
               \A held : Holds(u, saga'[o], held) => held = lines
        PROVE  StockIsConserved'
    <2>1. /\ \A q \in Order \ {o} : HeldLines(q)' = HeldLines(q)
          /\ Holds(t, saga[o], HeldLines(o)) /\ Holds(u, saga'[o], HeldLines(o)')
      BY <1>2, <1>3, MoverHolds
    <2>2. HeldLines(o) = lines
      BY <1>3, <2>1
    <2>3. HeldLines(o)' = lines
      BY <1>3, <2>1
    <2>4. \A q \in Order : HeldLines(q)' = HeldLines(q)
      BY <2>1, <2>2, <2>3
    <2> QED BY <1>3, <2>4, StockKept
  <1>a. CASE ReleaseReadsSaga(t)
    <2>1. t.cmd = "ReleaseReservation" /\ t.pc = "start" /\ UNCHANGED saga /\ UNCHANGED cache
      BY <1>a DEF ReleaseReadsSaga, tableVars, inventoryVars
    <2>2. saga[o].step \notin GivenBack
      BY <1>1, <2>1 DEF TaskReserves, ReservationStep, GivenBack
    <2>3. GoesOn(t, IF r = <<>> THEN "returned" ELSE "returning", t.arg, r, r)
      BY <1>1, <1>a, StepShapes
    <2>4. PICK u : /\ Replace(t, {u}) /\ u.cmd = t.cmd /\ u.order = o /\ u.todo = r
                   /\ u.pc = IF r = <<>> THEN "returned" ELSE "returning"
      BY <2>3 DEF GoesOn
    <2>5. r = <<>> => Range(r) = {}
      BY DEF Range
    <2>6. \A held : Holds(t, saga[o], held) => held = Range(r)
      BY <2>1, <2>2 DEF Holds
    <2>7. \A held : Holds(u, saga[o], held) => held = Range(r)
      BY <2>1, <2>4, <2>5 DEF Holds
    <2> QED BY <1>3, <2>1, <2>4, <2>6, <2>7
  <1>b. CASE ReturnLine(t)
    <2> DEFINE i == Head(t.todo)
    <2>1. /\ t.pc = "returning" /\ t.todo # <<>> /\ UNCHANGED saga
          /\ CompensateInventory(Lines[o][i].product, Lines[o][i].quantity)
      BY <1>b DEF ReturnLine, tableVars
    <2>2. Range(Tail(t.todo)) = Range(t.todo) \ {i} /\ i \in Range(t.todo)
      BY <1>1, <2>1, ListsStayInjective DEF TaskReserves
    <2>3. i \in LineIndex(o)
      BY <1>1, <2>1, HeadTailProperties
    <2> HIDE DEF i
    <2>4. GoesOn(t, IF Tail(t.todo) = <<>> THEN "returned" ELSE "returning",
                 t.arg, t.seen, Tail(t.todo))
      BY <1>1, <1>b, StepShapes
    <2>5. PICK u : /\ Replace(t, {u}) /\ u.cmd = t.cmd /\ u.order = o /\ u.todo = Tail(t.todo)
                   /\ u.pc = IF Tail(t.todo) = <<>> THEN "returned" ELSE "returning"
      BY <2>4 DEF GoesOn
    <2>6. Tail(t.todo) = <<>> => Range(Tail(t.todo)) = {}
      BY DEF Range
    <2>7. /\ \A q \in Order \ {o} : HeldLines(q)' = HeldLines(q)
          /\ Holds(t, saga[o], HeldLines(o)) /\ Holds(u, saga[o], HeldLines(o)')
      BY <1>2, <2>1, <2>5, MoverHolds
    <2>8. HeldLines(o) = Range(t.todo)
      BY <2>1, <2>7 DEF Holds
    <2>9. HeldLines(o)' = Range(Tail(t.todo))
      BY <1>2, <2>5, <2>6, <2>7 DEF Holds
    <2> QED BY <1>1, <2>1, <2>2, <2>3, <2>7, <2>8, <2>9, StockReturned
  <1>c. CASE CompensateReadsSaga(t)
    <2>1. /\ t.cmd = "CompensateOrderInventory" /\ t.pc = "returned"
          /\ UNCHANGED saga /\ UNCHANGED cache /\ ReadSaga(t, "read")
      BY <1>c DEF CompensateReadsSaga, tableVars, inventoryVars
    <2>2. GoesOn(t, "read", t.arg, r, t.todo)
      BY <1>1, <2>1, StepShapes
    <2>3. PICK u : Replace(t, {u}) /\ u.cmd = t.cmd /\ u.order = o /\ u.pc = "read"
      BY <2>2 DEF GoesOn
    <2>4. \A held : Holds(t, saga[o], held) => held = {}
      BY <2>1 DEF Holds
    <2>5. \A held : Holds(u, saga[o], held) => held = {}
      BY <2>1, <2>3 DEF Holds
    <2> QED BY <1>3, <2>1, <2>3, <2>4, <2>5
  <1>d. CASE ReturnPersistsSaga(t)
    <2>1. /\ UNCHANGED cache /\ WriteSaga(o, "INVENTORY_COMPENSATED", t.seen)
          /\ t.pc \in {"returned", "read"}
      BY <1>d DEF ReturnPersistsSaga, inventoryVars
    <2>2. /\ saga'[o].step = "INVENTORY_COMPENSATED"
          /\ \A q \in Order \ {o} : saga'[q] = saga[q]
      BY <1>1, <2>1 DEF WriteSaga, TypeOK
    <2>3. GoesOn(t, "saved", t.arg, t.seen,
                 IF t.cmd = "ReleaseReservation" THEN t.seen ELSE AllLines(o))
      BY <1>1, <1>d, StepShapes
    <2>4. PICK u : Replace(t, {u}) /\ u.cmd = t.cmd /\ u.order = o /\ u.pc = "saved"
      BY <2>3 DEF GoesOn
    <2>5. \A held : Holds(t, saga[o], held) => held = {}
      BY <1>2, <2>1 DEF Holds
    <2>6. \A held : Holds(u, saga'[o], held) => held = {}
      BY <2>2, <2>4 DEF Holds, GivenBack
    <2> QED BY <1>3, <2>1, <2>2, <2>4, <2>5, <2>6
  \* The last two steps come after the row says that the lines are back.
  <1>4. ASSUME NEW u, Replace(t, {u}), u.order = o, u.pc # "returning", t.pc = "saved",
               UNCHANGED cache, UNCHANGED saga
        PROVE  StockIsConserved'
    <2>1. saga[o].step \in GivenBack
      BY <1>1, <1>2, <1>4 DEF TaskReserves, TaskInPhase, GivenBack
    <2>2. \A held : Holds(t, saga[o], held) => held = {}
      BY <1>4, <2>1 DEF Holds
    <2>3. \A held : Holds(u, saga[o], held) => held = {}
      BY <1>4, <2>1 DEF Holds
    <2> QED BY <1>3, <1>4, <2>2, <2>3
  <1>e. CASE ReturnEnqueues(t)
    <2>1. t.pc = "saved" /\ UNCHANGED cache /\ UNCHANGED saga
      BY <1>e DEF ReturnEnqueues, tableVars
    <2>2. GoesOn(t, "saved", t.arg, t.seen, Tail(t.todo))
      BY <1>1, <1>e, StepShapes
    <2>3. PICK u : Replace(t, {u}) /\ u.order = o /\ u.pc = "saved"
      BY <2>2 DEF GoesOn
    <2> QED BY <1>4, <2>1, <2>3
  <1>f. CASE ReturnPublishes(t)
    <2>1. t.pc = "saved" /\ UNCHANGED cache /\ UNCHANGED saga
      BY <1>f DEF ReturnPublishes, tableVars, inventoryVars
    <2>2. LeadsTo(t, "MarkOrderFail", 1) \/ LeadsTo(t, "CancelPayment", 1)
      BY <1>1, <1>f, StepShapes DEF ReturnPublishes, ReservationReleased, InventoryCompensated
    <2>3. PICK u : Replace(t, {u}) /\ u.order = o /\ u.pc = "start"
      BY <2>2 DEF LeadsTo
    <2> QED BY <1>4, <2>1, <2>3
  <1> QED BY <1>a, <1>b, <1>c, <1>d, <1>e, <1>f

\* The transactions up to their commit move nothing.
LEMMA StockOfReads ==
  ASSUME LifecycleInvariant, StockIsConserved, NEW t \in tasks, t.flow # "boot",
         \/ InitiatePaymentReads(t) \/ TransactionReadsSaga(t) \/ OrderCommandLoads(t)
         \/ PayForOrderLoads(t) \/ CancelPaymentLoads(t)
  PROVE  StockIsConserved'
  <1>1. /\ t \in Task /\ t.order \in Order /\ t.pc \in PcOf(t.cmd)
    BY PhaseFacts DEF TaskReserves
  <1>2. t.cmd \notin Moving
    <2>1. t.pc = "loaded" => t.cmd \notin Moving
      BY <1>1 DEF PcOf, Moving, Command, MarkingCommand
    <2> QED BY <2>1
          DEF Moving, MarkingCommand, InitiatePaymentReads, TransactionReadsSaga, OrderCommandLoads,
              PayForOrderLoads, CancelPaymentLoads
  <1>3. Quiet(t)
    BY <1>2 DEF Quiet, InitiatePaymentReads, TransactionReadsSaga, OrderCommandLoads,
                PayForOrderLoads, CancelPaymentLoads
  <1>4. UNCHANGED cache /\ UNCHANGED saga
    BY DEF InitiatePaymentReads, TransactionReadsSaga, OrderCommandLoads, PayForOrderLoads,
           CancelPaymentLoads, Throws, tableVars, inventoryVars
  <1>5. \/ Replace(t, {})
        \/ \E arg, seen : \/ GoesOn(t, "loaded", arg, seen, t.todo)
                          \/ GoesOn(t, "read", arg, seen, t.todo)
    <2>1. Throws(t) => Replace(t, {})
      BY DEF Throws, Replace
    <2>2. \/ ReadSaga(t, "read") \/ Continue(t, "loaded") \/ Throws(t) \/ Replace(t, {})
          \/ \E i : Replace(t, {[t EXCEPT !.pc = "loaded", !.arg = i]})
      BY DEF InitiatePaymentReads, TransactionReadsSaga, OrderCommandLoads, PayForOrderLoads,
             CancelPaymentLoads
    <2> QED BY <1>1, <2>1, <2>2, StepShapes
  <1>6. CASE Replace(t, {})
    BY <1>1, <1>3, <1>4, <1>6, StockQuiet
  <1>7. ASSUME NEW arg, NEW seen,
               \/ GoesOn(t, "loaded", arg, seen, t.todo)
               \/ GoesOn(t, "read", arg, seen, t.todo)
        PROVE  StockIsConserved'
    <2>1. PICK u : /\ Replace(t, {u}) /\ u.cmd = t.cmd /\ u.order = t.order
                   /\ u.pc \in {"loaded", "read"}
      BY <1>7 DEF GoesOn
    <2>2. Quiet(u)
      BY <1>2, <2>1 DEF Quiet
    <2> QED BY <1>1, <1>3, <1>4, <2>1, <2>2, StockQuiet
  <1> QED BY <1>5, <1>6, <1>7

\* A canceled order starts to return what it had reserved: every line.
LEMMA StockOfPublishes ==
  ASSUME ProductsDiffer, LifecycleInvariant, StockIsConserved, NEW t \in tasks, t.flow # "boot",
         CancelOrderPublishes(t) \/ PayForOrderPublishes(t)
  PROVE  StockIsConserved'
  <1> DEFINE o == t.order
             published == [t EXCEPT !.pc = "published"]
  <1>1. /\ t \in Task /\ o \in Order /\ TaskInPhase(t) /\ RowInPhase(o) /\ SagaInvariant
        /\ LinesInvariant
    BY PhaseFacts
  <1>2. /\ t.cmd \in {"CancelOrder", "PayForOrder"} /\ t.pc = "read" /\ SagaRowFree(o)
        /\ UNCHANGED saga /\ UNCHANGED cache
    BY DEF CancelOrderPublishes, PayForOrderPublishes, tableVars, inventoryVars
  <1>3. Quiet(t)
    BY <1>2 DEF Quiet, Moving
  <1>4. published.cmd = t.cmd /\ published.order = o /\ published.pc = "published"
    BY <1>1 DEF Task
  <1>5. Quiet(published)
    BY <1>2, <1>4 DEF Quiet, Moving
  <1> HIDE DEF published
  <1>a. CASE PayForOrderPublishes(t)
    <2>1. PICK event \in {PaymentPaid(t.flow, o), PaymentFailed(t.flow, o)} :
            Replace(t, {published, event})
      BY <1>a DEF PayForOrderPublishes, published
    <2>2. event.order = o /\ Quiet(event)
      BY DEF PaymentPaid, PaymentFailed, NewTask, TaskWith, Quiet, Moving
    <2> QED BY <1>1, <1>2, <1>3, <1>4, <1>5, <2>1, <2>2, StockQuiet
  <1>b. CASE CancelOrderPublishes(t)
    <2> DEFINE c == OrderCanceled(ChildFlow(t), o)
               row == saga[o]
               all == OfOrder(o)
               all2 == OfOrder(o)'
    <2>1. c.order = o /\ c.pc = "returning" /\ c.todo = AllLines(o)
      BY DEF OrderCanceled, TaskWith
    <2>2. Replace(t, {published, c})
      BY <1>b DEF CancelOrderPublishes, published
    <2>3. \A w \in tasks \ {t} : w.order # o
      BY <1>2, PhaseFacts
    <2> HIDE DEF c
    <2>4. all = {t} /\ all2 = {published, c}
      BY <1>4, <2>1, <2>2, <2>3 DEF OfOrder, Replace
    <2>5. \A q \in Order \ {o} : HeldLines(q)' = HeldLines(q)
      BY <1>2, <1>4, <2>1, <2>2, OthersHold
    <2>6. orderState[o] = "AWAITING_PAYMENT" /\ PaymentOf(o) \in {"OPEN", "FAILED"}
      BY <1>1, <1>2, <1>b DEF TaskInPhase, CancelOrderPublishes
    <2>7. row.step \notin GivenBack
      BY <1>1, <2>6 DEF RowInPhase, InPhase, At, GivenBack, None
    <2>8. payments[o] # <<>>
      BY <1>1, <2>6, PaymentFacts DEF None
    <2>9. Range(row.reserved) = LineIndex(o)
      BY <1>1, <2>8, NoLineIsSkipped DEF ReservesEveryLine
    <2>10. Range(AllLines(o)) = LineIndex(o)
      BY DEF Range, AllLines
    <2>11. t \in all /\ \A w \in all \ {t} : Quiet(w)
      BY <2>4
    <2>12. c \in all2 /\ \A w \in all2 \ {c} : Quiet(w)
      BY <1>5, <2>4
    <2> HIDE DEF row, all, all2
    <2>13. Holds(t, row, HeldBy(all, row))
      BY <2>11, HeldByOne
    <2>14. Holds(c, row, HeldBy(all2, row))
      BY <2>12, HeldByOne
    <2>15. HeldBy(all, row) = LineIndex(o)
      BY <1>2, <1>3, <2>7, <2>9, <2>13 DEF Holds, Quiet
    <2>16. HeldBy(all2, row) = LineIndex(o)
      BY <2>1, <2>10, <2>14 DEF Holds
    <2>17. HeldLines(o)' = HeldLines(o)
      BY <1>2, <2>15, <2>16 DEF HeldLines, all, all2, row
    <2>18. \A q \in Order : HeldLines(q)' = HeldLines(q)
      BY <2>5, <2>17
    <2> QED BY <1>2, <2>18, StockKept
  <1> QED BY <1>a, <1>b

\* The commits move nothing: the row says afterwards what it said before of
\* lines that are back.
LEMMA StockOfCommits ==
  ASSUME LifecycleInvariant, StockIsConserved, NEW t \in tasks, t.flow # "boot",
         \/ InitiatePaymentCommits(t) \/ MarkOrderCommits(t) \/ CancelOrderCommits(t)
         \/ PayForOrderCommits(t) \/ CancelPaymentCommits(t)
  PROVE  StockIsConserved'
  <1> DEFINE o == t.order
  <1>1. /\ t \in Task /\ o \in Order /\ TaskReserves(t) /\ TaskInPhase(t) /\ RowInPhase(o)
        /\ RowReserves(o) /\ SagaInvariant /\ LinesInvariant
    BY PhaseFacts
  <1>2. t.pc \in {"read", "published"} /\ t.cmd \notin Moving
    BY DEF InitiatePaymentCommits, MarkOrderCommits, CancelOrderCommits, PayForOrderCommits,
           CancelPaymentCommits, Moving, MarkingCommand
  <1>3. Quiet(t) /\ t.seen = saga[o].reserved
    BY <1>1, <1>2 DEF Quiet, TaskReserves, HasRead
  <1>4. ASSUME NEW step, NEW new, Replace(t, new), \A u \in new : u.order = o /\ Quiet(u),
               WriteSaga(o, step, t.seen), UNCHANGED cache,
               step \in GivenBack <=> saga[o].step \in GivenBack
        PROVE  StockIsConserved'
    <2>1. /\ saga'[o].step = step /\ saga'[o].reserved = saga[o].reserved
          /\ \A q \in Order \ {o} : saga'[q] = saga[q]
      BY <1>1, <1>3, <1>4 DEF WriteSaga, SagaInvariant, TypeOK
    <2> QED BY <1>1, <1>3, <1>4, <2>1, StockQuiet
  <1>5. orderState[o] = "AWAITING_PAYMENT" => saga[o].step \notin GivenBack
    BY <1>1 DEF RowInPhase, InPhase, At, GivenBack, None
  <1>a. CASE InitiatePaymentCommits(t)
    <2> DEFINE u == PaymentInitiated(t.flow, o)
    <2>1. u.order = o /\ Quiet(u)
      BY DEF PaymentInitiated, NewTask, TaskWith, Quiet, Moving
    <2> HIDE DEF u
    <2>2. /\ WriteSaga(o, "PAYMENT_CREATED", t.seen) /\ Replace(t, {u}) /\ UNCHANGED cache
      BY <1>a DEF InitiatePaymentCommits, inventoryVars, u
    <2>3. saga[o].step \notin GivenBack /\ "PAYMENT_CREATED" \notin GivenBack
      BY <1>1, <1>a DEF InitiatePaymentCommits, TaskReserves, GivenBack
    <2> QED BY <1>4, <2>1, <2>2, <2>3
  <1>b. CASE MarkOrderCommits(t)
    <2>1. /\ WriteSaga(o, NewStep(t.cmd), t.seen) /\ Replace(t, {}) /\ UNCHANGED cache
      BY <1>b DEF MarkOrderCommits, WriteOrder, inventoryVars
    <2>2. NewStep(t.cmd) \in GivenBack <=> saga[o].step \in GivenBack
      <3>1. CASE t.cmd = "MarkOrderAwaitingPayment"
        <4>1. orderState[o] = "PENDING" /\ payments[o] # <<>>
          BY <1>1, <3>1, TaskFacts DEF TaskReserves, ChainCommand
        <4>2. saga[o].step = "PAYMENT_CREATED"
          BY <1>1, <4>1 DEF RowReserves
        <4> QED BY <3>1, <4>2 DEF NewStep, GivenBack
      <3>2. CASE t.cmd = "MarkOrderFail"
        <4>1. saga[o].step = "INVENTORY_COMPENSATED"
          BY <1>1, <3>2 DEF TaskReserves
        <4> QED BY <3>2, <4>1 DEF NewStep, GivenBack
      <3>3. CASE t.cmd = "MarkOrderAsComplete"
        <4>1. saga[o].step \notin GivenBack
          BY <1>1, <1>5, <3>3 DEF TaskInPhase
        <4> QED BY <3>3, <4>1 DEF NewStep, GivenBack
      <3> QED BY <1>b, <3>1, <3>2, <3>3 DEF MarkOrderCommits, MarkingCommand
    <2> QED BY <1>4, <2>1, <2>2
  <1>c. CASE CancelOrderCommits(t)
    <2>1. /\ WriteSaga(o, "ORDER_CANCELED", t.seen) /\ Replace(t, {}) /\ UNCHANGED cache
          /\ t.cmd = "CancelOrder" /\ t.pc = "published"
      BY <1>c DEF CancelOrderCommits, WriteOrder, NewStep, inventoryVars
    <2>2. saga[o].step \notin GivenBack /\ "ORDER_CANCELED" \notin GivenBack
      BY <1>1, <1>5, <2>1 DEF TaskInPhase, GivenBack
    <2> QED BY <1>4, <2>1, <2>2
  <1>d. CASE PayForOrderCommits(t)
    <2> DEFINE step == IF t.outcome = "PAID" THEN "PAYMENT_SUCCEEDED" ELSE "PAYMENT_FAILED"
    <2>1. /\ WriteSaga(o, step, t.seen) /\ Replace(t, {}) /\ UNCHANGED cache
          /\ t.cmd = "PayForOrder"
      BY <1>d DEF PayForOrderCommits, inventoryVars
    <2>2. saga[o].step \notin GivenBack /\ step \notin GivenBack
      BY <1>1, <1>5, <2>1 DEF TaskInPhase, GivenBack
    <2> HIDE DEF step
    <2> QED BY <1>4, <2>1, <2>2
  <1>e. CASE CancelPaymentCommits(t)
    <2>1. /\ WriteSaga(o, "PAYMENT_CANCELED", t.seen) /\ Replace(t, {}) /\ UNCHANGED cache
          /\ t.cmd = "CancelPayment"
      BY <1>e DEF CancelPaymentCommits, inventoryVars
    <2>2. saga[o].step \in GivenBack /\ "PAYMENT_CANCELED" \in GivenBack
      BY <1>1, <2>1 DEF TaskInPhase, GivenBack
    <2> QED BY <1>4, <2>1, <2>2
  <1> QED BY <1>a, <1>b, <1>c, <1>d, <1>e

\* An order that is placed holds nothing yet; requests move nothing.
LEMMA StockOfCustomers ==
  ASSUME LifecycleInvariant, StockIsConserved,
         \/ \E o \in Order : PlaceOrder(o)
         \/ \E r \in Request : RequestCancel(r) \/ RequestPayment(r)
  PROVE  StockIsConserved'
  <1>0. SagaInvariant /\ LinesInvariant
    BY DEF LifecycleInvariant, LinesInvariant
  <1>1. ASSUME NEW o \in Order, PlaceOrder(o) PROVE StockIsConserved'
    <2> DEFINE u == OrderCreated("saga", o)
               row == saga[o]
               next == saga'[o]
    <2>1. /\ orderState[o] = None /\ WriteSaga(o, "INITIATED", <<>>) /\ UNCHANGED cache
          /\ tasks' = tasks \cup {u}
      BY <1>1 DEF PlaceOrder, inventoryVars
    <2>2. u.order = o /\ u.cmd = "ReserveInventory" /\ u.pc = "start"
      BY DEF OrderCreated, ReserveLine, TaskWith
    <2>3. /\ next.step = "INITIATED" /\ next.reserved = <<>>
          /\ \A q \in Order \ {o} : saga'[q] = saga[q]
      BY <1>0, <2>1 DEF WriteSaga, SagaInvariant, TypeOK
    <2>4. row.step = None /\ \A w \in tasks : w.order # o
      BY <1>0, <2>1 DEF SagaInvariant, NotPlaced
    <2>5. row.reserved = <<>>
      BY <1>0, <2>4 DEF LinesInvariant, RowReserves
    <2> HIDE DEF u
    <2>6. OfOrder(o) = {} /\ OfOrder(o)' = {u}
      BY <2>1, <2>2, <2>4 DEF OfOrder
    <2>7. \A q \in Order \ {o} : OfOrder(q)' = OfOrder(q)
      BY <2>1, <2>2 DEF OfOrder
    <2>8. \A q \in Order \ {o} : HeldLines(q)' = HeldLines(q)
      BY <2>3, <2>7 DEF HeldLines
    <2> HIDE DEF row, next
    <2>9. Range(<<>>) = {}
      BY DEF Range
    <2>10. HeldBy({}, row) = {}
      BY <2>5, <2>9, HeldByNone
    <2>11. HeldBy({u}, next) = {}
      <3>1. Holds(u, next, HeldBy({u}, next))
        BY HeldByOne
      <3> QED BY <2>2, <2>3, <2>9, <3>1 DEF Holds, GivenBack
    <2>12. HeldLines(o)' = HeldLines(o)
      BY <2>6, <2>10, <2>11 DEF HeldLines, row, next
    <2>13. \A q \in Order : HeldLines(q)' = HeldLines(q)
      BY <2>8, <2>12
    <2> QED BY <2>1, <2>13, StockKept
  <1>2. ASSUME NEW u, Quiet(u), tasks' = tasks \cup {u}, UNCHANGED saga, UNCHANGED cache
        PROVE  StockIsConserved'
    <2>1. ASSUME NEW q \in Order PROVE HeldLines(q)' = HeldLines(q)
      <3> DEFINE ts == OfOrder(q)
                 others == OfOrder(q)'
                 row == saga[q]
      <3>1. \A w \in (ts \ others) \cup (others \ ts) : Quiet(w)
        BY <1>2 DEF OfOrder
      <3>2. HeldBy(ts, row) = HeldBy(others, row)
        <4> HIDE DEF ts, others, row
        <4> QED BY <3>1, HeldByOthers
      <3> QED BY <1>2, <3>2 DEF HeldLines
    <2> QED BY <1>2, <2>1, StockKept
  <1>3. ASSUME NEW r \in Request, RequestCancel(r) \/ RequestPayment(r) PROVE StockIsConserved'
    <2>1. UNCHANGED saga /\ UNCHANGED cache
      BY <1>3 DEF RequestCancel, RequestPayment, Arrives, tableVars, inventoryVars
    <2>2. CASE RequestCancel(r)
      <3> DEFINE u == NewTask(r, "CancelOrder", About[r])
      <3>1. tasks' = tasks \cup {u}
        BY <2>2 DEF RequestCancel
      <3>2. Quiet(u)
        BY DEF NewTask, TaskWith, Quiet, Moving
      <3> HIDE DEF u
      <3> QED BY <1>2, <2>1, <3>1, <3>2
    <2>3. CASE RequestPayment(r)
      <3>1. PICK i \in DOMAIN payments[About[r]], result \in {"PAID", "FAILED"} :
              tasks' = tasks \cup {Payment(r, About[r], i, result)}
        BY <2>3 DEF RequestPayment
      <3> DEFINE u == Payment(r, About[r], i, result)
      <3>2. Quiet(u)
        BY DEF Payment, TaskWith, Quiet, Moving
      <3> HIDE DEF u
      <3> QED BY <1>2, <2>1, <3>1, <3>2 DEF u
    <2> QED BY <1>3, <2>2, <2>3
  <1> QED BY <1>1, <1>3

\* Without failures and restarts the server stays up and recovers nothing.
LEMMA ServerStays ==
  ASSUME NothingFails, TypeOK, server = "up", boot = {}, \A t \in tasks : t.flow # "boot",
         [Next]_vars
  PROVE  server' = "up" /\ boot' = {} /\ \A t \in tasks' : t.flow # "boot"
  <1>1. ASSUME NEW t \in tasks, TaskStep(t)
        PROVE  server' = "up" /\ boot' = {} /\ \A u \in tasks' : u.flow # "boot"
    <2>1. t \in Task /\ t.flow # "boot"
      BY <1>1 DEF TypeOK, TaskTyped
    <2>2. ChildFlow(t) = t.flow
      BY <2>1 DEF ChildFlow
    <2>3. UNCHANGED <<server, boot>>
      BY <1>1, <2>1
        DEF TaskStep, ReserveInCache, ReserveReadsSaga, ReservePersistsSaga, ReserveEnqueues,
            ReleaseReadsSaga, ReturnLine, CompensateReadsSaga, ReturnPersistsSaga, ReturnEnqueues,
            ReturnPublishes, InitiatePaymentReads, InitiatePaymentCommits, TransactionReadsSaga,
            OrderCommandLoads, MarkOrderCommits, CancelOrderPublishes, CancelOrderCommits,
            PayForOrderLoads, PayForOrderPublishes, PayForOrderCommits, CancelPaymentLoads,
            CancelPaymentCommits, WriteOrder, Frame, Throws, serverVars
    <2>4. ASSUME NEW new, Replace(t, new), \A u \in new : u.flow = t.flow
          PROVE  \A u \in tasks' : u.flow # "boot"
      BY <2>1, <2>4 DEF Replace
    <2>5. CASE CancelOrderPublishes(t) \/ PayForOrderPublishes(t)
      <3> DEFINE published == [t EXCEPT !.pc = "published"]
      <3>1. published.flow = t.flow
        BY <2>1 DEF Task
      <3> HIDE DEF published
      <3>2. PICK v \in {OrderCanceled(ChildFlow(t), t.order), PaymentPaid(t.flow, t.order),
                        PaymentFailed(t.flow, t.order)} :
              Replace(t, {published, v})
        BY <2>5 DEF CancelOrderPublishes, PayForOrderPublishes, published
      <3>3. v.flow = t.flow
        BY <2>2 DEF OrderCanceled, PaymentPaid, PaymentFailed, NewTask, TaskWith
      <3>4. \A u \in {published, v} : u.flow = t.flow
        BY <3>1, <3>3
      <3> QED BY <2>3, <2>4, <3>2, <3>4
    <2>6. CASE Throws(t)
      BY <2>1, <2>6 DEF Throws
    <2>7. CASE \/ Replace(t, {})
               \/ \E pc, arg, seen, todo : GoesOn(t, pc, arg, seen, todo)
               \/ \E c, arg : LeadsTo(t, c, arg)
      <3>1. CASE Replace(t, {})
        BY <2>3, <2>4, <3>1
      <3>2. ASSUME NEW u, Replace(t, {u}), u.flow = t.flow PROVE \A v \in tasks' : v.flow # "boot"
        BY <2>4, <3>2
      <3> QED BY <2>3, <2>7, <3>1, <3>2 DEF GoesOn, LeadsTo
    <2> USE DEF OrderCreated, ProductReserved, InventoryReserved, PaymentInitiated,
                ReservationFailed, ReservationReleased, InventoryCompensated
    <2>8. CASE \/ ReserveInCache(t) \/ ReserveReadsSaga(t) \/ ReservePersistsSaga(t)
               \/ ReserveEnqueues(t)
      BY <2>1, <2>7, <2>8, StepShapes
        DEF ReserveInCache, ReserveReadsSaga, ReserveEnqueues
    <2>9. CASE \/ ReleaseReadsSaga(t) \/ ReturnLine(t) \/ CompensateReadsSaga(t)
               \/ ReturnPersistsSaga(t) \/ ReturnEnqueues(t) \/ ReturnPublishes(t)
      BY <2>1, <2>7, <2>9, StepShapes DEF CompensateReadsSaga, ReturnPublishes
    <2>10. CASE \/ InitiatePaymentReads(t) \/ InitiatePaymentCommits(t) \/ TransactionReadsSaga(t)
                \/ OrderCommandLoads(t) \/ PayForOrderLoads(t) \/ CancelPaymentLoads(t)
      BY <2>1, <2>6, <2>7, <2>10, StepShapes
        DEF InitiatePaymentReads, InitiatePaymentCommits, TransactionReadsSaga, OrderCommandLoads,
            PayForOrderLoads, CancelPaymentLoads
    <2>11. CASE \/ MarkOrderCommits(t) \/ CancelOrderCommits(t) \/ PayForOrderCommits(t)
                \/ CancelPaymentCommits(t)
      BY <2>7, <2>11 DEF MarkOrderCommits, CancelOrderCommits, PayForOrderCommits, CancelPaymentCommits
    <2> QED BY <1>1, <2>1, <2>3, <2>5, <2>8, <2>9, <2>10, <2>11 DEF TaskStep
  <1>2. ASSUME NEW t \in tasks PROVE ~TaskFails(t)
    BY DEF TaskFails, ReserveCatches, DependencyFails, NothingFails
  <1>3. ~Crash
    BY DEF Crash, NothingFails, TypeOK
  <1>4. ASSUME NEW o \in Order, PlaceOrder(o)
        PROVE  server' = "up" /\ boot' = {} /\ \A t \in tasks' : t.flow # "boot"
    BY <1>4 DEF PlaceOrder, Frame, serverVars, OrderCreated, ReserveLine, TaskWith
  <1>5. ASSUME NEW r \in Request, RequestCancel(r) \/ RequestPayment(r)
        PROVE  server' = "up" /\ boot' = {} /\ \A t \in tasks' : t.flow # "boot"
    <2>1. \A w \in tasks' \ tasks : w.flow = r
      <3>1. CASE RequestCancel(r)
        BY <3>1 DEF RequestCancel, NewTask, TaskWith
      <3>2. CASE RequestPayment(r)
        BY <3>2 DEF RequestPayment, Payment, TaskWith
      <3> QED BY <1>5, <3>1, <3>2
    <2>2. r # "boot"
      BY FlowAssumption
    <2>3. UNCHANGED <<server, boot>>
      BY <1>5 DEF RequestCancel, RequestPayment, Arrives, serverVars
    <2> QED BY <2>1, <2>2, <2>3
  <1>6. CASE UNCHANGED vars \/ WorkerStep
    BY <1>6 DEF vars, serverVars, WorkerStep
  <1>7. /\ ~ \E o \in Order : RecoverSaga(o)
        /\ ~RecoveryEnds /\ ~Restart /\ ~LoaderRuns
    BY DEF RecoverSaga, RecoveryEnds, Restart, LoaderRuns, LoaderReads, LoaderSets, LoaderEnds
  <1> QED BY <1>1, <1>2, <1>3, <1>4, <1>5, <1>6, <1>7 DEF Next, Progress

LEMMA StockNext ==
  ASSUME IsFiniteSet(Order), CustomersArePatient, ProductsDiffer, NothingFails,
         StockInvariant, [Next]_vars
  PROVE  StockInvariant'
  <1>1. /\ LifecycleInvariant /\ StockIsConserved /\ server = "up" /\ boot = {}
        /\ \A t \in tasks : t.flow # "boot"
    BY DEF StockInvariant
  <1>2. TypeOK
    BY <1>1 DEF LifecycleInvariant, LinesInvariant, SagaInvariant
  <1>3. LifecycleInvariant'
    BY <1>1, PhaseNext DEF NothingFails, TransactionsCommit
  <1>4. server' = "up" /\ boot' = {} /\ \A t \in tasks' : t.flow # "boot"
    BY <1>1, <1>2, ServerStays
  <1>5. StockIsConserved'
    <2>1. CASE UNCHANGED vars \/ WorkerStep
      <3>1. UNCHANGED <<cache, saga, tasks>>
        BY <2>1 DEF vars, inventoryVars, tableVars, WorkerStep, Worker, ProcessJob, AcknowledgeJob,
           HandleReserveInventory, HandleCompensateInventory, RejectReserveInventory, PersistQuantity
      <3>2. \A q \in Order : HeldLines(q)' = HeldLines(q)
        BY <3>1 DEF HeldLines, OfOrder
      <3> QED BY <1>1, <3>1, <3>2, StockKept
    <2>2. ASSUME NEW t \in tasks, TaskStep(t) PROVE StockIsConserved'
      BY <1>1, <2>2, StockOfReserve, StockOfReturn, StockOfReads, StockOfPublishes, StockOfCommits
        DEF TaskStep
    <2>3. ASSUME NEW t \in tasks PROVE ~TaskFails(t)
      BY DEF TaskFails, ReserveCatches, DependencyFails, NothingFails
    <2>4. ~Crash
      BY <1>2 DEF Crash, NothingFails, TypeOK
    <2>5. /\ ~ \E o \in Order : RecoverSaga(o)
          /\ ~RecoveryEnds /\ ~Restart /\ ~LoaderRuns
      BY <1>1 DEF RecoverSaga, RecoveryEnds, Restart, LoaderRuns, LoaderReads, LoaderSets, LoaderEnds
    <2> QED BY <1>1, <2>1, <2>2, <2>3, <2>4, <2>5, StockOfCustomers DEF Next, Progress
  <1> QED BY <1>3, <1>4, <1>5 DEF StockInvariant

\* Nothing is held before the first order.
LEMMA StockInit ==
  ASSUME IsFiniteSet(Order), Init
  PROVE  StockInvariant
  <1>1. LifecycleInvariant
    BY PhaseInit
  <1>2. server = "up" /\ boot = {} /\ tasks = {} /\ cache = InitialStock
    BY DEF Init, InventoryInit
  <1>3. ASSUME NEW o \in Order PROVE HeldLines(o) = {}
    <2> DEFINE row == saga[o]
    <2>1. OfOrder(o) = {} /\ Range(row.reserved) = {}
      BY DEF Init, OfOrder, Range
    <2> HIDE DEF row
    <2>2. HeldBy({}, row) = {}
      BY <2>1, HeldByNone
    <2> QED BY <2>1, <2>2 DEF HeldLines, row
  <1>4. ASSUME NEW p \in Product
        PROVE  SumFunctionOnSet([o \in Order |-> Quantity(o, HeldLines(o), p)], Order) = 0
    <2> DEFINE f == [o \in Order |-> Quantity(o, HeldLines(o), p)]
    <2>1. \A o \in Order : f[o] = 0
      BY <1>3, SumOfNothing DEF Quantity
    <2> HIDE DEF f
    <2>2. SumFunctionOnSet(f, Order) = 0
      BY <2>1, SumOfZeros
    <2> QED BY <2>2 DEF f
  <1>5. ASSUME NEW p \in Product
        PROVE  cache[p] + SumFunctionOnSet([o \in Order |-> Quantity(o, HeldLines(o), p)], Order)
                 = InitialStock[p]
    <2> DEFINE sum == SumFunctionOnSet([o \in Order |-> Quantity(o, HeldLines(o), p)], Order)
    <2>1. sum = 0
      BY <1>4
    <2> HIDE DEF sum
    <2>2. cache[p] + sum = InitialStock[p]
      BY <1>2, <2>1, InitialStockAssumption
    <2> QED BY <2>2 DEF sum
  <1> QED BY <1>1, <1>2, <1>5 DEF StockInvariant, StockIsConserved

\* An order that is offered for payment or paid holds all of its lines until its
\* cancelation is published.
LEMMA OffersHoldTheirLines ==
  ASSUME ProductsDiffer, LifecycleInvariant, NEW o \in Order,
         orderState[o] \in {"AWAITING_PAYMENT", "COMPLETED"}, ~Canceling(o)
  PROVE  HeldLines(o) = LineIndex(o)
  <1> DEFINE row == saga[o]
             ts == OfOrder(o)
  <1>1. LinesInvariant /\ InPhase(o)
    BY DEF LifecycleInvariant, RowInPhase
  <1>2. payments[o] # <<>> /\ row.step \notin GivenBack
    BY <1>1 DEF InPhase, At, PaymentOf, GivenBack, None, ReservationStep
  <1>3. LineIndex(o) = Range(row.reserved)
    BY <1>1, <1>2, NoLineIsSkipped DEF ReservesEveryLine
  <1>4. ASSUME NEW t \in ts PROVE Quiet(t)
    <2>1. t \in tasks /\ t.order = o
      BY DEF OfOrder
    <2>2. TaskReserves(t) /\ TaskInPhase(t)
      BY <1>1, <2>1 DEF LinesInvariant, LifecycleInvariant
    <2>3. t.cmd \notin ChainCommand
      BY <2>1, <2>2 DEF TaskReserves
    <2>4. t.cmd # "CompensateOrderInventory"
      BY <2>1, <2>2 DEF TaskInPhase
    <2>5. t.cmd \notin Moving
      BY <2>3, <2>4 DEF Moving, ChainCommand
    <2>6. t.pc # "returning"
      <3>1. t.pc \in PcOf(t.cmd) /\ t \in Task
        BY <1>1, <2>1, <2>2, TaskFacts DEF TaskReserves
      <3> QED BY <2>3, <2>4, <3>1 DEF PcOf, Task, Command, ChainCommand, MarkingCommand
    <2> QED BY <2>5, <2>6 DEF Quiet
  <1> HIDE DEF row, ts
  <1>5. HeldBy(ts, row) = HeldBy({}, row)
    BY <1>4, HeldByOthers
  <1>6. HeldBy(ts, row) = LineIndex(o)
    BY <1>2, <1>3, <1>5, HeldByNone
  <1> QED BY <1>6 DEF HeldLines, row, ts

\* What these orders demand is part of what the counters are missing.
LEMMA OffersShareStock ==
  ASSUME IsFiniteSet(Order), ProductsDiffer, LifecycleInvariant, StockIsConserved
  PROVE  NoOversell
  <1> SUFFICES ASSUME NEW p \in Product
               PROVE  SumFunctionOnSet(
                        [o \in Order |-> IF /\ orderState[o] \in {"AWAITING_PAYMENT", "COMPLETED"}
                                            /\ ~Canceling(o)
                                         THEN Quantity(o, LineIndex(o), p) ELSE 0], Order)
                        <= InitialStock[p]
    BY DEF NoOversell
  <1> DEFINE f == [o \in Order |-> IF /\ orderState[o] \in {"AWAITING_PAYMENT", "COMPLETED"}
                                      /\ ~Canceling(o)
                                   THEN Quantity(o, LineIndex(o), p) ELSE 0]
             g == [o \in Order |-> Quantity(o, HeldLines(o), p)]
  <1>1. TypeOK
    BY DEF LifecycleInvariant, LinesInvariant, SagaInvariant
  <1>2. ASSUME NEW o \in Order PROVE g[o] \in Nat /\ f[o] \in Nat /\ f[o] <= g[o]
    <2>1. g[o] = Quantity(o, HeldLines(o), p) /\ g[o] \in Nat
      BY <1>1, HeldAreLines, LineFacts
    <2>2. CASE orderState[o] \in {"AWAITING_PAYMENT", "COMPLETED"} /\ ~Canceling(o)
      <3>1. f[o] = g[o]
        BY <2>1, <2>2, OffersHoldTheirLines
      <3> HIDE DEF f, g
      <3> QED BY <2>1, <3>1
    <2>3. CASE ~(orderState[o] \in {"AWAITING_PAYMENT", "COMPLETED"} /\ ~Canceling(o))
      <3>1. f[o] = 0
        BY <2>3
      <3> HIDE DEF f, g
      <3> QED BY <2>1, <3>1
    <2> QED BY <2>2, <2>3
  <1>3. cache[p] + SumFunctionOnSet(g, Order) = InitialStock[p]
    BY DEF StockIsConserved
  <1>4. cache[p] \in Nat
    BY <1>1 DEF TypeOK, InventoryTypeOK
  <1> HIDE DEF f, g
  <1>5. SumFunctionOnSet(f, Order) <= SumFunctionOnSet(g, Order)
    BY <1>2, SumIsMonotone
  <1>6. SumFunctionOnSet(f, Order) \in Nat /\ SumFunctionOnSet(g, Order) \in Nat
    BY <1>2, SumOfNaturals
  <1>7. SumFunctionOnSet(f, Order) <= InitialStock[p]
    BY <1>3, <1>4, <1>5, <1>6
  <1> QED BY <1>7 DEF f

\* For patient customers and runs without failures the third layer is invariant.
LEMMA StockHolds ==
  ASSUME IsFiniteSet(Order), CustomersArePatient, ProductsDiffer, NothingFails
  PROVE  Spec => []StockInvariant
  <1>1. StockInvariant /\ [Next]_vars => StockInvariant'
    BY StockNext
  <1>2. Init => StockInvariant
    BY StockInit
  <1> QED BY <1>1, <1>2, PTL DEF Spec

\* What the patient run checks of two orders, for any number of them.  These are
\* results under that run's assumptions and no more: the code accepts early
\* cancelations, repeated products, failures and restarts, and each of them
\* loses units or sells them twice.

\* No unit of stock is lost and none is sold twice, however the sagas, the worker
\* and the requests interleave.
PROPOSITION NoStockIsLost ==
  ASSUME IsFiniteSet(Order), CustomersArePatient, ProductsDiffer, NothingFails
  PROVE  Spec => []StockIsConserved
  <1>1. StockInvariant => StockIsConserved
    BY DEF StockInvariant
  <1> QED BY <1>1, StockHolds, PTL

\* The orders that are offered or paid, and that nobody is canceling, never
\* demand more of a product than there is, although Redis decides on each line
\* alone and the table is not asked.
PROPOSITION NoUnitIsSoldTwice ==
  ASSUME IsFiniteSet(Order), CustomersArePatient, ProductsDiffer, NothingFails
  PROVE  Spec => []NoOversell
  <1>1. StockInvariant => NoOversell
    BY OffersShareStock DEF StockInvariant
  <1> QED BY <1>1, StockHolds, PTL

==============================================================================
