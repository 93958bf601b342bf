----------------------------- MODULE TaskQueue -----------------------------
(***************************************************************************)
(* CTaskQueue (TaskQueue.cpp): tasks posted as packets to a pool of its    *)
(* own.  QueueTask runs under the queue's rundown protection and counts    *)
(* the task before it posts it; Finalize closes the protection, waits for  *)
(* the count to fall to zero and only then finalizes the pool.             *)
(*                                                                         *)
(* The pool is the one of IocpThreadPool, action for action; the rundown   *)
(* protection is the abstract Rundown, which RundownProt implements.       *)
(* Assumed of the application: it does not call QueueTask while Initialize *)
(* runs, nor Initialize or Finalize while the other runs or from a task.   *)
(***************************************************************************)
EXTENDS IocpThreadPool

CONSTANTS
  Client,     \* application threads that call QueueTask
  Throttling  \* dwMaxCpuUsage < 100

ASSUME TaskQueueAssumption ==
  /\ Client \cap Thread = {} /\ None \notin Client
  /\ Throttling \in BOOLEAN

\* Tasks are the pool's packets; a task callback may itself call QueueTask.
Task   == Packet
Caller == Client \union Thread

VARIABLES
  phase, holders,     \* nRundownLock, as its users see it
  nQueuedTasksCount,
  at,                 \* where each caller is in QueueTask or OnQueuedTask
  lpTask,             \* the task of the caller's QueueTask call
  task,               \* what has become of each task
  call                \* the owner's call: Initialize, Finalize, or none

queueVars == <<phase, holders, nQueuedTasksCount, at, lpTask, task, call>>
vars == <<poolVars, queueVars>>

nRundownLock == INSTANCE Rundown WITH Threads <- Caller

CallerPCs == {"idle", "entered", "counted", "undo", "leave", "sleep", "release"}
TaskStates == {"free", "offered", "accepted", "run"}
CallPCs == {"none", "initialize", "waitrelease", "pending", "finalize"}

TypeOK ==
  /\ PoolTypeOK
  /\ phase \in {"open", "waiting", "down"} /\ holders \subseteq Caller
  /\ nQueuedTasksCount \in Nat
  /\ at \in [Caller -> CallerPCs]
  /\ lpTask \in [Caller -> Task \union {None}]
  /\ task \in [Task -> TaskStates]
  /\ call \in CallPCs

Init ==
  /\ PoolInit /\ nRundownLock!Init
  /\ nQueuedTasksCount = 0
  /\ at = [a \in Caller |-> "idle"]
  /\ lpTask = [a \in Caller |-> None]
  /\ task = [k \in Task |-> "free"]
  /\ call = "none"

Move(a, from, to) == at[a] = from /\ at' = [at EXCEPT ![a] = to]

\* A pool thread that is inside a task's callback.
InTask(t) == pc[t] = "run" /\ item[t] \in Task

-----------------------------------------------------------------------------
(* Faulty variants of the steps below; each breaks one of the properties.   *)

\* The failed call keeps its count.
MutUndoCount(a) ==
  /\ Move(a, "undo", "leave")
  /\ task' = [task EXCEPT ![lpTask[a]] = "free"]
  /\ UNCHANGED <<poolVars, phase, holders, nQueuedTasksCount, lpTask, call>>

\* Finalize does not wait for the calls that are inside QueueTask.
MutWaitForRelease ==
  /\ call = "waitrelease"
  /\ call' = "pending"
  /\ UNCHANGED <<poolVars, phase, holders, nQueuedTasksCount, at, lpTask, task>>

-----------------------------------------------------------------------------
(* QueueTask.                                                              *)

\* A caller that is not let in returns MX_E_Cancelled and changes nothing.
EnterQueueTask(a, k) ==
  /\ a \in Client => call # "initialize"
  /\ a \in Thread => InTask(a)
  /\ task[k] = "free"
  /\ nRundownLock!Enter(a)
  /\ Move(a, "idle", "entered")
  /\ lpTask' = [lpTask EXCEPT ![a] = k]
  /\ task' = [task EXCEPT ![k] = "offered"]
  /\ UNCHANGED <<poolVars, nQueuedTasksCount, call>>

CountTask(a) ==
  /\ Move(a, "entered", "counted")
  /\ nQueuedTasksCount' = nQueuedTasksCount + 1
  /\ UNCHANGED <<poolVars, phase, holders, lpTask, task, call>>

PostTask(a) ==
  /\ Move(a, "counted", "leave")
  /\ Post(lpTask[a])
  /\ task' = [task EXCEPT ![lpTask[a]] = "accepted"]
  /\ UNCHANGED <<phase, holders, nQueuedTasksCount, lpTask, call>>

\* Post fails when the pool has no port, and the system may refuse the packet.
PostTaskFails(a) ==
  /\ Move(a, "counted", "undo")
  /\ UNCHANGED <<poolVars, phase, holders, nQueuedTasksCount, lpTask, task, call>>

UndoCount(a) ==
  /\ Move(a, "undo", "leave")
  /\ nQueuedTasksCount' = nQueuedTasksCount - 1
  /\ task' = [task EXCEPT ![lpTask[a]] = "free"]
  /\ UNCHANGED <<poolVars, phase, holders, lpTask, call>>

\* The protection is released when QueueTask returns.
LeaveQueueTask(a) ==
  /\ Move(a, "leave", "idle")
  /\ nRundownLock!Leave(a)
  /\ lpTask' = [lpTask EXCEPT ![a] = None]
  /\ UNCHANGED <<poolVars, nQueuedTasksCount, task, call>>

-----------------------------------------------------------------------------
(* OnQueuedTask, the callback of every packet of this pool.                *)

\* The task's own callback returns; a throttled queue then sleeps under the
\* protection, unless the queue is being finalized.
RunTask(t) ==
  /\ InTask(t) /\ task[item[t]] = "accepted"
  /\ task' = [task EXCEPT ![item[t]] = "run"]
  /\ \/ /\ Throttling /\ nRundownLock!Enter(t)
        /\ Move(t, "idle", "sleep")
     \/ /\ ~Throttling \/ phase # "open"
        /\ Move(t, "idle", "release")
        /\ UNCHANGED <<phase, holders>>
  /\ UNCHANGED <<poolVars, nQueuedTasksCount, lpTask, call>>

SleepEnds(t) ==
  /\ Move(t, "sleep", "release")
  /\ nRundownLock!Leave(t)
  /\ UNCHANGED <<poolVars, nQueuedTasksCount, lpTask, task, call>>

\* The task may be queued again from here on.
ReleaseTask(t) ==
  /\ Move(t, "release", "idle")
  /\ nQueuedTasksCount' = nQueuedTasksCount - 1
  /\ task' = [task EXCEPT ![item[t]] = "free"]
  /\ FinishPacket(t)
  /\ UNCHANGED <<phase, holders, lpTask, call>>

-----------------------------------------------------------------------------
(* The owner.                                                              *)

\* RundownProt_Initialize, then the pool's Initialize.
Initialize ==
  /\ call = "none" /\ owner.pc = "down" /\ holders = {}
  /\ phase' = "open" /\ UNCHANGED holders
  /\ call' = "initialize"
  /\ PoolInitialize
  /\ UNCHANGED <<nQueuedTasksCount, at, lpTask, task>>

\* RundownProt_WaitForRelease; a second Finalize finds the top bit set.
Finalize ==
  /\ call = "none"
  /\ \/ nRundownLock!Close /\ call' = "waitrelease"
     \/ phase = "down" /\ call' = "pending" /\ UNCHANGED <<phase, holders>>
  /\ UNCHANGED <<poolVars, nQueuedTasksCount, at, lpTask, task>>

WaitForRelease ==
  /\ call = "waitrelease"
  /\ nRundownLock!Drained
  /\ call' = "pending"
  /\ UNCHANGED <<poolVars, nQueuedTasksCount, at, lpTask, task>>

\* HasPending is polled until it is false.
SeeNoPending ==
  /\ call = "pending" /\ nQueuedTasksCount = 0
  /\ call' = "finalize"
  /\ PoolFinalize
  /\ UNCHANGED <<phase, holders, nQueuedTasksCount, at, lpTask, task>>

Return ==
  /\ call \in {"initialize", "finalize"} /\ owner.pc \in {"up", "down"}
  /\ call' = "none"
  /\ UNCHANGED <<poolVars, phase, holders, nQueuedTasksCount, at, lpTask, task>>

-----------------------------------------------------------------------------
\* What a caller does once it has entered QueueTask or OnQueuedTask.
CallerStep(a) ==
  \/ CountTask(a) \/ PostTask(a) \/ PostTaskFails(a) \/ UndoCount(a) \/ LeaveQueueTask(a)

TaskStep(t) == RunTask(t) \/ SleepEnds(t) \/ ReleaseTask(t)

CallStep == WaitForRelease \/ SeeNoPending \/ Return

Next ==
  \/ \E a \in Caller, k \in Task : EnterQueueTask(a, k)
  \/ \E a \in Caller : CallerStep(a)
  \/ \E t \in Thread : TaskStep(t)
  \/ Initialize \/ Finalize \/ CallStep
  \/ (OwnerStep \/ \E t \in Thread : ThreadStep(t) \/ GetTimeout(t)) /\ UNCHANGED queueVars

Spec == Init /\ [][Next]_vars

\* Every thread that can run does run.  A task's callback returns, however
\* many tasks it queues first (hence strong fairness: RunTask is disabled
\* inside those calls).  Nobody has to queue a task or to finalize.
Fairness ==
  /\ \A a \in Caller : WF_vars(CallerStep(a))
  /\ \A t \in Thread :
       /\ SF_vars(RunTask(t)) /\ WF_vars(SleepEnds(t) \/ ReleaseTask(t))
       /\ WF_vars(ThreadStep(t) /\ UNCHANGED queueVars)
  /\ WF_vars(CallStep)
  /\ WF_vars(OwnerStep /\ UNCHANGED queueVars)

FairSpec == Spec /\ Fairness
-----------------------------------------------------------------------------
(* Properties.                                                             *)

\* HasPending tells Finalize the truth: the count is the tasks between the
\* increment in QueueTask and the decrement that undoes it, on the error path
\* of QueueTask or at the end of OnQueuedTask on another thread.
PendingExact ==
  nQueuedTasksCount =
    Cardinality({a \in Caller : at[a] \in {"counted", "undo"}})
    + Cardinality({k \in Task : task[k] = "accepted"})
    + Cardinality({t \in Thread : at[t] \in {"sleep", "release"}})

\* Finalize drops no task: when it closes the port, every task for which
\* QueueTask returned S_OK has run, and no QueueTask call is inside.
NothingDropped ==
  (call = "finalize" /\ owner.pc \in {"close", "zero", "down"}) =>
    /\ \A k \in Task : task[k] \in {"free", "run"}
    /\ holders = {}

\* A task that QueueTask accepted runs, whenever Finalize is called.
AcceptedTaskRuns == \A k \in Task : task[k] = "accepted" ~> task[k] = "run"

\* Finalize returns: the protection drains, the count falls to zero and the
\* key-0 packets reach every thread.
FinalizeReturns == call = "waitrelease" ~> call = "none"
=============================================================================
