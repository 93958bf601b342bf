-------------------------- MODULE TaskQueueProofs --------------------------
(***************************************************************************)
(* Proofs about TaskQueue, for any set of clients, threads and tasks and   *)
(* any limits of the pool.  The queue is built from the steps of its pool, *)
(* so what IocpThreadPoolProofs shows of the pool holds here.              *)
(* QueueInv then says which caller has which task in its hands; the count  *)
(* of the pending tasks (PendingExact) and NothingDropped follow from it.  *)
(***************************************************************************)
EXTENDS TaskQueue, IocpThreadPoolProofs

\* A caller has announced its task but Post has not taken it yet.
Offering == {"entered", "counted", "undo"}
Holding  == Offering \union {"leave", "sleep"}
Ending   == {"sleep", "release"}

QueueType ==
  /\ at \in [Caller -> CallerPCs]
  /\ lpTask \in [Caller -> Task \union {None}]
  /\ task \in [Task -> TaskStates]
  /\ item = [t \in Thread |-> item[t]]
  /\ nQueuedTasksCount \in Int
  /\ holders \subseteq Caller

\* Those who hold the rundown protection are inside QueueTask or throttled.
Holders == \A a \in Caller : at[a] \in Holding <=> a \in holders

\* Each offered task is in the hands of exactly one caller.
Offers ==
  /\ \A a \in Caller : at[a] \in Offering => lpTask[a] \in Task /\ task[lpTask[a]] = "offered"
  /\ \A a, b \in Caller :
       at[a] \in Offering /\ at[b] \in Offering /\ lpTask[a] = lpTask[b] => a = b
  /\ \A k \in Task : task[k] = "offered" => \E a \in Caller : at[a] \in Offering /\ lpTask[a] = k

\* A task that has run and is not yet released belongs to one thread.
Endings ==
  /\ \A t \in Thread : at[t] \in Ending =>
       pc[t] = "run" /\ item[t] \in Task /\ task[item[t]] = "run"
  /\ \A t, u \in Thread :
       at[t] \in Ending /\ at[u] \in Ending /\ item[t] = item[u] => t = u

HandsInv == QueueType /\ Holders /\ Offers /\ Endings

\* The tasks that the count counts, by who has them.
CallersCounted == {a \in Caller : at[a] \in {"counted", "undo"}}
TasksCounted   == {k \in Task : task[k] = "accepted"}
ThreadsCounted == {t \in Thread : at[t] \in Ending}

PendingInv ==
  /\ IsFiniteSet(CallersCounted) /\ IsFiniteSet(TasksCounted)
  /\ nQueuedTasksCount = Cardinality(CallersCounted) + Cardinality(TasksCounted)
                           + Cardinality(ThreadsCounted)

\* Finalize goes on only behind the closed protection, and then without tasks.
CallInv ==
  /\ phase = "down" => holders = {}
  /\ call \in {"pending", "finalize"} => phase = "down"
  /\ call = "finalize" => nQueuedTasksCount = 0

-----------------------------------------------------------------------------
(* The steps of the queue, by what they do to the pool.                    *)

PoolOnly ==
  (OwnerStep \/ \E t \in Thread : ThreadStep(t) \/ GetTimeout(t)) /\ UNCHANGED queueVars

LEMMA PoolSteps ==
  ASSUME HandsInv, Next
  PROVE  [PoolNext]_poolVars
<1>1. CASE \E a \in Caller, k \in Task : EnterQueueTask(a, k)
  BY <1>1 DEF EnterQueueTask
<1>2. CASE \E a \in Caller : CallerStep(a)
  <2>1. PICK a \in Caller : CallerStep(a)
    BY <1>2
  <2>2. CASE PostTask(a)
    <3>1. lpTask[a] \in Packet /\ Post(lpTask[a])
      BY <2>2 DEF PostTask, Move, HandsInv, Offers, Offering, Task
    <3>2. QED
      BY <3>1 DEF PoolNext
  <2>3. CASE CountTask(a) \/ PostTaskFails(a) \/ UndoCount(a) \/ LeaveQueueTask(a)
    BY <2>3 DEF CountTask, PostTaskFails, UndoCount, LeaveQueueTask
  <2>4. QED
    BY <2>1, <2>2, <2>3 DEF CallerStep
<1>3. CASE \E t \in Thread : TaskStep(t)
  <2>1. PICK t \in Thread : TaskStep(t)
    BY <1>3
  <2>2. CASE ReleaseTask(t)
    BY <2>2 DEF ReleaseTask, PoolNext
  <2>3. CASE RunTask(t) \/ SleepEnds(t)
    BY <2>3 DEF RunTask, SleepEnds
  <2>4. QED
    BY <2>1, <2>2, <2>3 DEF TaskStep
<1>4. CASE Initialize
  BY <1>4 DEF Initialize, PoolNext
<1>5. CASE Finalize
  BY <1>5 DEF Finalize
<1>6. CASE CallStep
  BY <1>6 DEF CallStep, WaitForRelease, SeeNoPending, Return, PoolNext
<1>7. CASE PoolOnly
  BY <1>7 DEF PoolOnly, PoolNext
<1>8. QED
  BY <1>1, <1>2, <1>3, <1>4, <1>5, <1>6, <1>7 DEF Next, PoolOnly

-----------------------------------------------------------------------------
(* A step of the pool leaves a thread inside its task's callback alone.    *)

PoolStep == OwnerStep \/ \E t \in Thread : ThreadStep(t) \/ GetTimeout(t)

Untouched == 
  /\ item' = [t \in Thread |-> item'[t]]
  /\ \A u \in Thread : pc[u] = "run" /\ item[u] \in Task => pc'[u] = "run" /\ item'[u] = item[u]

LEMMA RunningStays ==
  ASSUME StructInv, item = [t \in Thread |-> item[t]], PoolStep
  PROVE  Untouched
<1>1. pc \in [Thread -> ThreadPCs]
  BY DEF StructInv, Shape
<1>2. CASE \E t \in Thread : ThreadStep(t) \/ GetTimeout(t)
  <2>1. PICK t \in Thread : ThreadStep(t) \/ GetTimeout(t)
    BY <1>2
  <2>2. CASE \/ ReadActive(t) \/ ChooseTimeout(t) \/ GetTimeout(t)
             \/ IdleReadActive(t) \/ IdleDecide(t)
    BY <1>1, <2>2 DEF Untouched, ReadActive, ChooseTimeout, GetTimeout, IdleReadActive, IdleDecide, Goto
  <2>3. CASE Get(t) \/ DecBusy(t)
    BY <1>1, <2>3 DEF Untouched, Get, DecBusy, Goto
  <2>4. CASE IncBusy(t) \/ CheckShuttingDown(t) \/ CheckAllBusy(t) \/ StartReadBusy(t) \/ StartReadActive(t)
    BY <1>1, <2>4 DEF Untouched, IncBusy, CheckShuttingDown, CheckAllBusy, StartReadBusy, StartReadActive, Goto
  <2>5. CASE \E new \in Thread : PushThread(t, new)
    BY <1>1, <2>5 DEF Untouched, PushThread
  <2>6. CASE ActivateThread(t)
    <3>1. pc[child[t]] = "suspended" /\ child[t] \in Thread
      BY <2>6 DEF ActivateThread, StructInv, Children
    <3>2. QED
      BY <1>1, <2>6, <3>1 DEF Untouched, ActivateThread
  <2>7. CASE PushFails(t) \/ RemoveSelf(t)
    BY <1>1, <2>7 DEF Untouched, PushFails, RemoveSelf, Goto, locals
  <2>8. CASE SeePoison(t)
    BY <1>1, <2>8, PoolAssumption DEF Untouched, SeePoison, Goto, locals, Task
  <2>9. QED
    BY <2>1, <2>2, <2>3, <2>4, <2>5, <2>6, <2>7, <2>8 DEF ThreadStep
<1>3. CASE OwnerStep
  <2>1. CASE \/ MarkShuttingDown \/ PostPoisons \/ SeeNoThreads \/ CloseIocp \/ ZeroCounters
             \/ OpenIocp \/ InitializeFails \/ InitializeDone
    BY <2>1 DEF Untouched, MarkShuttingDown, PostPoisons, SeeNoThreads, CloseIocp, ZeroCounters,
                OpenIocp, InitializeFails, InitializeDone, locals
  <2>2. CASE SpawnActivate
    <3>1. owner.child \in Thread /\ pc[owner.child] = "suspended"
      BY <2>2 DEF SpawnActivate, StructInv, Children
    <3>2. QED
      BY <1>1, <2>2, <3>1 DEF Untouched, SpawnActivate, locals
  <2>3. CASE \E new \in Thread : SpawnPush(new)
    BY <1>1, <2>3 DEF Untouched, SpawnPush
  <2>4. QED
    BY <1>3, <2>1, <2>2, <2>3 DEF OwnerStep
<1>4. QED
  BY <1>2, <1>3 DEF PoolStep

-----------------------------------------------------------------------------
(* Who has which task.                                                     *)

LEMMA HandsInit == Init => HandsInv
<1>1. SUFFICES ASSUME Init PROVE HandsInv
  OBVIOUS
<1>2. QueueType
  BY <1>1 DEF Init, QueueType, PoolInit, nRundownLock!Init, CallerPCs, TaskStates
<1>3. Holders /\ Offers /\ Endings
  BY <1>1 DEF Init, nRundownLock!Init, Holders, Offers, Endings, Holding, Offering, Ending, Caller
<1>4. QED
  BY <1>2, <1>3 DEF HandsInv

LEMMA EnterKeeps ==
  ASSUME HandsInv, NEW a \in Caller, NEW k \in Task, EnterQueueTask(a, k)
  PROVE  HandsInv'
<1>1. /\ at[a] = "idle" /\ task[k] = "free"
      /\ at' \in [Caller -> CallerPCs] /\ \A b \in Caller : at'[b] = IF b = a THEN "entered" ELSE at[b]
      /\ lpTask' \in [Caller -> Task \union {None}]
      /\ \A b \in Caller : lpTask'[b] = IF b = a THEN k ELSE lpTask[b]
      /\ task' \in [Task -> TaskStates]
      /\ \A l \in Task : task'[l] = IF l = k THEN "offered" ELSE task[l]
      /\ holders' = holders \union {a}
      /\ UNCHANGED <<pc, item, nQueuedTasksCount>>
  BY DEF EnterQueueTask, Move, nRundownLock!Enter, HandsInv, QueueType, CallerPCs, TaskStates, poolVars, locals
<1>2. QueueType'
  BY <1>1 DEF HandsInv, QueueType
<1>3. Holders'
  BY <1>1 DEF HandsInv, Holders, Holding, Offering
<1>4. Offers'
  BY <1>1 DEF HandsInv, Offers, Offering
<1>5. Endings'
  BY <1>1 DEF HandsInv, Endings, Ending, Caller
<1>6. QED
  BY <1>2, <1>3, <1>4, <1>5 DEF HandsInv

\* The steps inside QueueTask, by the places of the caller and its task.
LEMMA CallerKeeps ==
  ASSUME HandsInv, NEW a \in Caller, CallerStep(a)
  PROVE  HandsInv'
<1>1. at \in [Caller -> CallerPCs] /\ task \in [Task -> TaskStates]
  BY DEF HandsInv, QueueType
<1>2. CASE CountTask(a) \/ PostTaskFails(a)
  <2>1. PICK s \in {"counted", "undo"} :
          /\ at[a] \in Offering
          /\ at' \in [Caller -> CallerPCs] /\ \A b \in Caller : at'[b] = IF b = a THEN s ELSE at[b]
          /\ nQueuedTasksCount' \in Int
          /\ UNCHANGED <<pc, item, lpTask, task, holders>>
    BY <1>1, <1>2 DEF CountTask, PostTaskFails, Move, Offering, CallerPCs, poolVars, locals, HandsInv, QueueType
  <2>2. QueueType' /\ Holders'
    BY <2>1 DEF HandsInv, QueueType, Holders, Holding, Offering
  <2>3. Offers' /\ Endings'
    BY <2>1 DEF HandsInv, Offers, Offering, Endings, Ending, Caller
  <2>4. QED
    BY <2>2, <2>3 DEF HandsInv
<1>3. CASE PostTask(a) \/ UndoCount(a)
  <2>1. lpTask[a] \in Task /\ task[lpTask[a]] = "offered" /\ at[a] \in Offering
    BY <1>3 DEF PostTask, UndoCount, Move, HandsInv, Offers, Offering
  <2>2. PICK s \in {"accepted", "free"} :
          /\ task' \in [Task -> TaskStates]
          /\ \A l \in Task : task'[l] = IF l = lpTask[a] THEN s ELSE task[l]
          /\ at' \in [Caller -> CallerPCs] /\ \A b \in Caller : at'[b] = IF b = a THEN "leave" ELSE at[b]
          /\ nQueuedTasksCount' \in Int
          /\ UNCHANGED <<pc, item, lpTask, holders>>
    BY <1>1, <1>3, <2>1
       DEF PostTask, UndoCount, Move, Post, CallerPCs, TaskStates, poolVars, locals, HandsInv, QueueType
  <2>3. QueueType' /\ Holders'
    BY <2>1, <2>2 DEF HandsInv, QueueType, Holders, Holding, Offering
  <2>4. Offers'
    BY <2>1, <2>2 DEF HandsInv, Offers, Offering
  <2>5. Endings'
    BY <2>1, <2>2 DEF HandsInv, Endings, Ending, Offering, Caller
  <2>6. QED
    BY <2>3, <2>4, <2>5 DEF HandsInv
<1>4. CASE LeaveQueueTask(a)
  <2>1. /\ at[a] = "leave"
        /\ at' \in [Caller -> CallerPCs] /\ \A b \in Caller : at'[b] = IF b = a THEN "idle" ELSE at[b]
        /\ lpTask' \in [Caller -> Task \union {None}]
        /\ \A b \in Caller : b # a => lpTask'[b] = lpTask[b]
        /\ holders' = holders \ {a}
        /\ UNCHANGED <<pc, item, task, nQueuedTasksCount>>
    BY <1>1, <1>4 DEF LeaveQueueTask, Move, nRundownLock!Leave, CallerPCs, poolVars, locals, HandsInv, QueueType
  <2>2. QueueType' /\ Holders'
    BY <2>1 DEF HandsInv, QueueType, Holders, Holding, Offering
  <2>3. Offers' /\ Endings'
    BY <2>1 DEF HandsInv, Offers, Offering, Endings, Ending, Caller
  <2>4. QED
    BY <2>2, <2>3 DEF HandsInv
<1>5. QED
  BY <1>2, <1>3, <1>4 DEF CallerStep

LEMMA TaskKeeps ==
  ASSUME HandsInv, pc \in [Thread -> ThreadPCs], NEW t \in Thread, TaskStep(t)
  PROVE  HandsInv'
<1>1. at \in [Caller -> CallerPCs] /\ task \in [Task -> TaskStates] /\ t \in Caller
  BY DEF HandsInv, QueueType, Caller
<1>2. CASE RunTask(t)
  <2>1. /\ at[t] = "idle" /\ pc[t] = "run" /\ item[t] \in Task /\ task[item[t]] = "accepted"
        /\ task' \in [Task -> TaskStates]
        /\ \A l \in Task : task'[l] = IF l = item[t] THEN "run" ELSE task[l]
        /\ UNCHANGED <<pc, item, lpTask, nQueuedTasksCount>>
    BY <1>1, <1>2 DEF RunTask, InTask, Move, TaskStates, poolVars, locals
  <2>2. PICK s \in Ending :
          /\ at' \in [Caller -> CallerPCs] /\ \A b \in Caller : at'[b] = IF b = t THEN s ELSE at[b]
          /\ holders' = IF s = "sleep" THEN holders \union {t} ELSE holders
    BY <1>1, <1>2 DEF RunTask, Move, nRundownLock!Enter, Ending, CallerPCs
  <2>3. QueueType' /\ Holders'
    BY <1>1, <2>1, <2>2 DEF HandsInv, QueueType, Holders, Holding, Offering, Ending
  <2>4. Offers'
    BY <2>1, <2>2 DEF HandsInv, Offers, Offering, Ending
  <2>5. Endings'
    BY <2>1, <2>2 DEF HandsInv, Endings, Ending, Caller
  <2>6. QED
    BY <2>3, <2>4, <2>5 DEF HandsInv
<1>3. CASE SleepEnds(t)
  <2>1. /\ at[t] = "sleep"
        /\ at' \in [Caller -> CallerPCs] /\ \A b \in Caller : at'[b] = IF b = t THEN "release" ELSE at[b]
        /\ holders' = holders \ {t}
        /\ UNCHANGED <<pc, item, lpTask, task, nQueuedTasksCount>>
    BY <1>1, <1>3 DEF SleepEnds, Move, nRundownLock!Leave, CallerPCs, poolVars, locals
  <2>2. QueueType' /\ Holders'
    BY <1>1, <2>1 DEF HandsInv, QueueType, Holders, Holding, Offering
  <2>3. Offers' /\ Endings'
    BY <2>1 DEF HandsInv, Offers, Offering, Endings, Ending, Caller
  <2>4. QED
    BY <2>2, <2>3 DEF HandsInv
<1>4. CASE ReleaseTask(t)
  <2>1. at[t] = "release" /\ item[t] \in Task /\ task[item[t]] = "run"
    BY <1>4 DEF ReleaseTask, Move, HandsInv, Endings, Ending
  <2>2. /\ at' \in [Caller -> CallerPCs] /\ \A b \in Caller : at'[b] = IF b = t THEN "idle" ELSE at[b]
        /\ task' \in [Task -> TaskStates]
        /\ \A l \in Task : task'[l] = IF l = item[t] THEN "free" ELSE task[l]
        /\ \A u \in Thread : u # t => pc'[u] = pc[u]
        /\ nQueuedTasksCount' \in Int
        /\ UNCHANGED <<item, lpTask, holders>>
    BY <1>1, <1>4, <2>1
       DEF ReleaseTask, Move, FinishPacket, Goto, CallerPCs, TaskStates, locals, HandsInv, QueueType
  <2>3. QueueType' /\ Holders'
    BY <1>1, <2>1, <2>2 DEF HandsInv, QueueType, Holders, Holding, Offering
  <2>4. Offers'
    BY <2>1, <2>2 DEF HandsInv, Offers, Offering
  <2>5. Endings'
    BY <2>1, <2>2 DEF HandsInv, Endings, Ending, Caller
  <2>6. QED
    BY <2>3, <2>4, <2>5 DEF HandsInv
<1>5. QED
  BY <1>2, <1>3, <1>4 DEF TaskStep

\* Neither the owner's calls nor the pool touch what the callers have.
LEMMA OtherKeeps ==
  ASSUME HandsInv, StructInv, Initialize \/ Finalize \/ CallStep \/ PoolOnly \/ UNCHANGED vars
  PROVE  HandsInv'
<1>1. CASE Initialize \/ Finalize \/ CallStep \/ UNCHANGED vars
  <2>1. UNCHANGED <<at, lpTask, task, item, pc, nQueuedTasksCount, holders>>
    BY <1>1 DEF Initialize, Finalize, CallStep, WaitForRelease, SeeNoPending, Return, nRundownLock!Close,
                nRundownLock!Drained, PoolInitialize, PoolFinalize, BeginInternalFinalize, vars, queueVars,
                poolVars, locals
  <2>2. QED
    BY <2>1 DEF HandsInv, QueueType, Holders, Offers, Endings
<1>2. CASE PoolOnly
  <2>1. Untouched /\ UNCHANGED queueVars
    BY <1>2, RunningStays DEF PoolOnly, PoolStep, HandsInv, QueueType
  <2>2. QueueType' /\ Holders' /\ Offers'
    BY <2>1 DEF queueVars, Untouched, HandsInv, QueueType, Holders, Offers
  <2>3. Endings'
    BY <2>1 DEF queueVars, Untouched, HandsInv, Endings
  <2>4. QED
    BY <2>2, <2>3 DEF HandsInv
<1>3. QED
  BY <1>1, <1>2

LEMMA HandsStep ==
  ASSUME HandsInv, StructInv, [Next]_vars
  PROVE  HandsInv'
<1>1. pc \in [Thread -> ThreadPCs]
  BY DEF StructInv, Shape
<1>2. QED
  BY <1>1, EnterKeeps, CallerKeeps, TaskKeeps, OtherKeeps DEF Next, PoolOnly

LEMMA PoolStruct ==
  ASSUME HandsInv, StructInv, [Next]_vars
  PROVE  StructInv' /\ [PoolNext]_poolVars
BY PoolSteps, StructStep DEF vars

THEOREM HandsHold == Spec => [](HandsInv /\ StructInv)
<1>1. Init => HandsInv /\ StructInv
  BY HandsInit, StructInit DEF Init
<1>2. HandsInv /\ StructInv /\ [Next]_vars => (HandsInv /\ StructInv)'
  BY HandsStep, PoolStruct
<1>3. QED
  BY <1>1, <1>2, PTL DEF Spec

\* The steps of the queue are built from those of its pool, so that it drives
\* the pool as IocpThreadPool allows.
LEMMA QueueDrivesPool == Spec => PoolSpec
<1>1. Init => PoolInit
  BY DEF Init
<1>2. HandsInv /\ StructInv /\ [Next]_vars => [PoolNext]_poolVars
  BY PoolStruct
<1>3. QED
  BY <1>1, <1>2, HandsHold, PTL DEF Spec, PoolSpec

\* So the counters of the queue's pool are exact, whatever the queue does.
THEOREM QueuePoolExact == Spec => []CountersExact
BY QueueDrivesPool, CountersAreExact

-----------------------------------------------------------------------------
(* The count of the pending tasks.                                         *)

LEMMA AddOne ==
  ASSUME NEW S, NEW x, IsFiniteSet(S), x \notin S
  PROVE  IsFiniteSet(S \union {x}) /\ Cardinality(S \union {x}) = Cardinality(S) + 1
BY FS_AddElement

LEMMA RemoveOne ==
  ASSUME NEW S, NEW x, IsFiniteSet(S), x \in S
  PROVE  IsFiniteSet(S \ {x}) /\ Cardinality(S \ {x}) = Cardinality(S) - 1
BY FS_RemoveElement

LEMMA CountedTypes ==
  ASSUME PendingInv
  PROVE  /\ IsFiniteSet(ThreadsCounted)
         /\ Cardinality(CallersCounted) \in Nat /\ Cardinality(TasksCounted) \in Nat
         /\ Cardinality(ThreadsCounted) \in Nat /\ nQueuedTasksCount \in Nat
<1>1. IsFiniteSet(ThreadsCounted)
  BY PoolAssumption, FS_Subset DEF ThreadsCounted
<1>2. QED
  BY <1>1, FS_CardinalityType DEF PendingInv

\* A step that moves no caller in or out of the counted places, and no task
\* in or out of "accepted".
LEMMA PendingSame ==
  ASSUME PendingInv, CallersCounted' = CallersCounted, TasksCounted' = TasksCounted,
         ThreadsCounted' = ThreadsCounted, UNCHANGED nQueuedTasksCount
  PROVE  PendingInv'
BY DEF PendingInv

LEMMA PendingCaller ==
  ASSUME HandsInv, PendingInv, NEW a \in Caller, CallerStep(a)
  PROVE  PendingInv'
<1>1. at \in [Caller -> CallerPCs] /\ task \in [Task -> TaskStates]
  BY DEF HandsInv, QueueType
<1>2. ASSUME NEW s, at' = [at EXCEPT ![a] = s], at[a] \notin Ending, s \notin Ending
      PROVE  ThreadsCounted' = ThreadsCounted
  BY <1>1, <1>2 DEF ThreadsCounted, Caller
<1>3. CASE CountTask(a)
  <2>1. CallersCounted' = CallersCounted \union {a} /\ a \notin CallersCounted
    BY <1>1, <1>3 DEF CountTask, Move, CallersCounted
  <2>2. TasksCounted' = TasksCounted /\ ThreadsCounted' = ThreadsCounted
    <3>1. at' = [at EXCEPT ![a] = "counted"] /\ at[a] \notin Ending /\ "counted" \notin Ending
      BY <1>3 DEF CountTask, Move, Ending
    <3>2. QED
      BY <1>2, <1>3, <3>1 DEF CountTask, TasksCounted
  <2>3. nQueuedTasksCount' = nQueuedTasksCount + 1
    BY <1>3 DEF CountTask
  <2>4. QED
    BY <2>1, <2>2, <2>3, AddOne, CountedTypes DEF PendingInv
<1>4. CASE PostTask(a) \/ UndoCount(a)
  <2>1. lpTask[a] \in Task /\ task[lpTask[a]] = "offered"
    BY <1>4 DEF PostTask, UndoCount, Move, HandsInv, Offers, Offering
  <2>2. a \in CallersCounted /\ CallersCounted' = CallersCounted \ {a}
    BY <1>1, <1>4 DEF PostTask, UndoCount, Move, CallersCounted
  <2>3. ThreadsCounted' = ThreadsCounted
    BY <1>2, <1>4 DEF PostTask, UndoCount, Move, Ending
  <2> DEFINE C == CallersCounted
  <2>4. IsFiniteSet(C \ {a}) /\ Cardinality(C \ {a}) = Cardinality(C) - 1
    BY <2>2, RemoveOne DEF PendingInv
  <2>5. CASE PostTask(a)
    <3>1. lpTask[a] \notin TasksCounted /\ TasksCounted' = TasksCounted \union {lpTask[a]}
      BY <1>1, <2>1, <2>5 DEF PostTask, TasksCounted
    <3>2. nQueuedTasksCount' = nQueuedTasksCount
      BY <2>5 DEF PostTask
    <3>3. IsFiniteSet(TasksCounted') /\ Cardinality(TasksCounted') = Cardinality(TasksCounted) + 1
      BY <3>1, AddOne DEF PendingInv
    <3>4. QED
      BY <2>2, <2>3, <2>4, <3>1, <3>2, <3>3, CountedTypes DEF PendingInv
  <2>6. CASE UndoCount(a)
    <3>1. TasksCounted' = TasksCounted
      BY <1>1, <2>1, <2>6 DEF UndoCount, TasksCounted
    <3>2. nQueuedTasksCount' = nQueuedTasksCount - 1
      BY <2>6 DEF UndoCount
    <3>3. QED
      BY <2>2, <2>3, <2>4, <3>1, <3>2, CountedTypes DEF PendingInv
  <2>7. QED
    BY <1>4, <2>5, <2>6
<1>5. CASE PostTaskFails(a) \/ LeaveQueueTask(a)
  <2>1. CallersCounted' = CallersCounted
    BY <1>1, <1>5 DEF PostTaskFails, LeaveQueueTask, Move, CallersCounted
  <2>2. ThreadsCounted' = ThreadsCounted
    BY <1>2, <1>5 DEF PostTaskFails, LeaveQueueTask, Move, Ending
  <2>3. TasksCounted' = TasksCounted /\ UNCHANGED nQueuedTasksCount
    BY <1>5 DEF PostTaskFails, LeaveQueueTask, TasksCounted
  <2>4. QED
    BY <2>1, <2>2, <2>3, PendingSame
<1>6. QED
  BY <1>3, <1>4, <1>5 DEF CallerStep

LEMMA PendingTask ==
  ASSUME HandsInv, PendingInv, NEW t \in Thread, TaskStep(t)
  PROVE  PendingInv'
<1>1. at \in [Caller -> CallerPCs] /\ task \in [Task -> TaskStates] /\ t \in Caller
  BY DEF HandsInv, QueueType, Caller
<1>2. ASSUME NEW s \in {"idle"} \union Ending, at' = [at EXCEPT ![t] = s], at[t] \in {"idle"} \union Ending
      PROVE  CallersCounted' = CallersCounted
  BY <1>1, <1>2 DEF CallersCounted, Ending
<1>3. CASE RunTask(t)
  <2>1. PICK s \in Ending : at[t] = "idle" /\ at' = [at EXCEPT ![t] = s]
    BY <1>3 DEF RunTask, Move, Ending
  <2>2. CallersCounted' = CallersCounted
    BY <1>2, <2>1
  <2>3. t \notin ThreadsCounted /\ ThreadsCounted' = ThreadsCounted \union {t}
    BY <1>1, <2>1 DEF ThreadsCounted, Ending, Caller
  <2>4. item[t] \in TasksCounted /\ TasksCounted' = TasksCounted \ {item[t]} /\ UNCHANGED nQueuedTasksCount
    BY <1>1, <1>3 DEF RunTask, InTask, TasksCounted
  <2> DEFINE K == TasksCounted
  <2>5. IsFiniteSet(K \ {item[t]}) /\ Cardinality(K \ {item[t]}) = Cardinality(K) - 1
    BY <2>4, RemoveOne DEF PendingInv
  <2>6. Cardinality(ThreadsCounted') = Cardinality(ThreadsCounted) + 1
    BY <2>3, AddOne, CountedTypes
  <2>7. QED
    BY <2>2, <2>4, <2>5, <2>6, CountedTypes DEF PendingInv
<1>4. CASE SleepEnds(t)
  <2>1. CallersCounted' = CallersCounted
    BY <1>2, <1>4 DEF SleepEnds, Move, Ending
  <2>2. ThreadsCounted' = ThreadsCounted
    BY <1>1, <1>4 DEF SleepEnds, Move, ThreadsCounted, Ending
  <2>3. TasksCounted' = TasksCounted /\ UNCHANGED nQueuedTasksCount
    BY <1>4 DEF SleepEnds, TasksCounted
  <2>4. QED
    BY <2>1, <2>2, <2>3, PendingSame
<1>5. CASE ReleaseTask(t)
  <2>1. at[t] = "release" /\ item[t] \in Task /\ task[item[t]] = "run"
    BY <1>5 DEF ReleaseTask, Move, HandsInv, Endings, Ending
  <2>2. CallersCounted' = CallersCounted
    BY <1>2, <1>5 DEF ReleaseTask, Move, Ending
  <2>3. t \in ThreadsCounted /\ ThreadsCounted' = ThreadsCounted \ {t}
    BY <1>1, <1>5, <2>1 DEF ReleaseTask, Move, ThreadsCounted, Ending, Caller
  <2>4. TasksCounted' = TasksCounted /\ nQueuedTasksCount' = nQueuedTasksCount - 1
    BY <1>1, <1>5, <2>1 DEF ReleaseTask, TasksCounted
  <2> DEFINE T == ThreadsCounted
  <2>5. IsFiniteSet(T \ {t}) /\ Cardinality(T \ {t}) = Cardinality(T) - 1
    BY <2>3, RemoveOne, CountedTypes
  <2>6. QED
    BY <2>2, <2>3, <2>4, <2>5, CountedTypes DEF PendingInv
<1>6. QED
  BY <1>3, <1>4, <1>5 DEF TaskStep

LEMMA PendingStep ==
  ASSUME HandsInv, PendingInv, [Next]_vars
  PROVE  PendingInv'
<1>1. ASSUME NEW a \in Caller, NEW k \in Task, EnterQueueTask(a, k) PROVE PendingInv'
  <2>1. CallersCounted' = CallersCounted /\ ThreadsCounted' = ThreadsCounted
    BY <1>1 DEF EnterQueueTask, Move, HandsInv, QueueType, CallersCounted, ThreadsCounted, Ending, Caller
  <2>2. TasksCounted' = TasksCounted /\ UNCHANGED nQueuedTasksCount
    BY <1>1 DEF EnterQueueTask, HandsInv, QueueType, TasksCounted
  <2>3. QED
    BY <2>1, <2>2, PendingSame
<1>2. CASE Initialize \/ Finalize \/ CallStep \/ PoolOnly \/ UNCHANGED vars
  <2>1. UNCHANGED <<at, task, nQueuedTasksCount>>
    BY <1>2 DEF Initialize, Finalize, CallStep, WaitForRelease, SeeNoPending, Return, PoolOnly, queueVars, vars
  <2>2. QED
    BY <2>1, PendingSame DEF CallersCounted, TasksCounted, ThreadsCounted
<1>3. QED
  BY <1>1, <1>2, PendingCaller, PendingTask DEF Next, PoolOnly

LEMMA PendingInit == Init => PendingInv
<1>1. SUFFICES ASSUME Init PROVE PendingInv
  OBVIOUS
<1>2. CallersCounted = {} /\ TasksCounted = {} /\ ThreadsCounted = {} /\ nQueuedTasksCount = 0
  BY <1>1 DEF Init, CallersCounted, TasksCounted, ThreadsCounted, Ending, Caller
<1>3. QED
  BY <1>2, FS_EmptySet DEF PendingInv

\* HasPending tells Finalize the truth: whatever callers and threads do side
\* by side, the count is the number of tasks between the increment in QueueTask
\* and the decrement that undoes it.
THEOREM PendingIsExact == Spec => []PendingExact
<1>1. HandsInv /\ StructInv /\ PendingInv /\ [Next]_vars => PendingInv'
  BY PendingStep
<1>2. PendingInv => PendingExact
  BY DEF PendingInv, PendingExact, CallersCounted, TasksCounted, ThreadsCounted, Ending
<1>3. QED
  BY <1>1, <1>2, PendingInit, HandsHold, PTL DEF Spec

-----------------------------------------------------------------------------
(* Finalize.                                                               *)

LEMMA CallInit == Init => CallInv
BY DEF Init, nRundownLock!Init, CallInv

\* Behind the closed protection nobody is inside QueueTask, and a count of
\* zero leaves no thread at the end of a task.
LEMMA NobodyInside ==
  ASSUME HandsInv, CallInv, phase = "down"
  PROVE  \A a \in Caller : at[a] \notin Holding
BY DEF HandsInv, Holders, CallInv

LEMMA NothingCounted ==
  ASSUME PendingInv, nQueuedTasksCount = 0
  PROVE  CallersCounted = {} /\ TasksCounted = {} /\ ThreadsCounted = {}
<1>1. /\ Cardinality(CallersCounted) = 0 /\ Cardinality(TasksCounted) = 0
      /\ Cardinality(ThreadsCounted) = 0
  BY CountedTypes DEF PendingInv
<1>2. QED
  BY <1>1, CountedTypes, FS_EmptySet DEF PendingInv

LEMMA CallStepKeeps ==
  ASSUME HandsInv, PendingInv, CallInv, [Next]_vars
  PROVE  CallInv'
<1>1. ASSUME NEW a \in Caller, NEW k \in Task, EnterQueueTask(a, k) PROVE CallInv'
  BY <1>1 DEF EnterQueueTask, nRundownLock!Enter, CallInv
<1>2. ASSUME NEW a \in Caller, CallerStep(a) PROVE CallInv'
  <2>1. at[a] \in Holding
    BY <1>2 DEF CallerStep, CountTask, PostTask, PostTaskFails, UndoCount, LeaveQueueTask, Move,
                Holding, Offering
  <2>2. phase # "down"
    BY <2>1, NobodyInside
  <2>3. phase' = phase /\ call' = call
    BY <1>2 DEF CallerStep, CountTask, PostTask, PostTaskFails, UndoCount, LeaveQueueTask,
                nRundownLock!Leave
  <2>4. QED
    BY <2>2, <2>3 DEF CallInv
<1>3. ASSUME NEW t \in Thread, TaskStep(t) PROVE CallInv'
  <2>1. CASE RunTask(t)
    <3>1. phase' = phase /\ call' = call /\ UNCHANGED nQueuedTasksCount
      BY <2>1 DEF RunTask, nRundownLock!Enter
    <3>2. phase = "down" => holders' = holders
      BY <2>1 DEF RunTask, nRundownLock!Enter
    <3>3. QED
      BY <3>1, <3>2 DEF CallInv
  <2>2. CASE SleepEnds(t)
    BY <2>2 DEF SleepEnds, nRundownLock!Leave, CallInv
  <2>3. CASE ReleaseTask(t)
    <3>1. t \in ThreadsCounted
      BY <2>3 DEF ReleaseTask, Move, ThreadsCounted, Ending
    <3>2. nQueuedTasksCount # 0
      BY <3>1, NothingCounted
    <3>3. QED
      BY <2>3, <3>2 DEF ReleaseTask, CallInv
  <2>4. QED
    BY <1>3, <2>1, <2>2, <2>3 DEF TaskStep
<1>4. CASE Initialize
  BY <1>4 DEF Initialize, CallInv
<1>5. CASE Finalize
  BY <1>5 DEF Finalize, nRundownLock!Close, CallInv
<1>6. CASE CallStep
  BY <1>6 DEF CallStep, WaitForRelease, SeeNoPending, Return, nRundownLock!Drained, CallInv
<1>7. CASE PoolOnly \/ UNCHANGED vars
  BY <1>7 DEF PoolOnly, queueVars, vars, CallInv
<1>8. QED
  BY <1>1, <1>2, <1>3, <1>4, <1>5, <1>6, <1>7 DEF Next, PoolOnly

\* Finalize drops no task: the protection is closed before it looks at the
\* count, so the zero that it sees is final.
THEOREM NothingIsDropped == Spec => []NothingDropped
<1>1. HandsInv /\ PendingInv /\ CallInv => NothingDropped
  <2>1. SUFFICES ASSUME HandsInv, PendingInv, CallInv, call = "finalize"
                 PROVE  (\A k \in Task : task[k] \in {"free", "run"}) /\ holders = {}
    BY DEF NothingDropped
  <2>2. phase = "down" /\ holders = {} /\ nQueuedTasksCount = 0
    BY <2>1 DEF CallInv
  <2>3. \A k \in Task : task[k] # "offered"
    BY <2>1, <2>2, NobodyInside DEF HandsInv, Offers, Holding
  <2>4. \A k \in Task : task[k] # "accepted"
    BY <2>1, <2>2, NothingCounted DEF TasksCounted
  <2>5. QED
    BY <2>1, <2>2, <2>3, <2>4 DEF HandsInv, QueueType, TaskStates
<1>2. HandsInv /\ StructInv /\ PendingInv /\ CallInv /\ [Next]_vars => (PendingInv /\ CallInv)'
  BY PendingStep, CallStepKeeps
<1>3. Init => PendingInv /\ CallInv
  BY PendingInit, CallInit
<1>4. QED
  BY <1>1, <1>2, <1>3, HandsHold, PTL DEF Spec
=============================================================================
