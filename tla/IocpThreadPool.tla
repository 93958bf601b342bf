--------------------------- MODULE IocpThreadPool ---------------------------
(***************************************************************************)
(* CIoCompletionPortThreadPool (IOCompletionPort.cpp): threads that wait   *)
(* on one I/O completion port and run a callback for each packet.  The     *)
(* pool grows when every thread is busy and shrinks when threads idle; the *)
(* owner ends it by posting packets with key 0 until no thread is left.    *)
(*                                                                         *)
(* One action is one access to what the threads share: a counter, the      *)
(* port, or the thread list under nMutex, whose critical sections do not   *)
(* block and are one action each.  Two interlocked reads in one condition  *)
(* are two actions.                                                        *)
(***************************************************************************)
EXTENDS Naturals, Sequences, FiniteSets

CONSTANTS
  Thread,         \* the CThread objects the pool can allocate
  Packet,         \* the packets clients post
  Poison,         \* the packet with completion key 0
  None,           \* no packet, no thread
  MinThreads,     \* dwMinThreadsCount
  MaxThreads,     \* dwMaxThreadsCount
  Threshold,      \* dwShutdownThreadThreshold
  IdleTimeout,    \* dwWorkerThreadIdleTimeoutMs is not INFINITE
  StartMayFail,   \* CreateIoCompletionPort and CreateThread may fail
  MaxPoisons,     \* bound: key-0 packets in the port at a time
  MaxQueued       \* bound: other packets in the port at a time

ASSUME PoolAssumption ==
  /\ IsFiniteSet(Thread)
  /\ Poison \notin Packet /\ None \notin Packet /\ None # Poison
  /\ None \notin Thread
  /\ MinThreads \in Nat \ {0} /\ MaxThreads \in Nat /\ MinThreads <= MaxThreads
  /\ Threshold \in 0..MaxThreads
  /\ IdleTimeout \in BOOLEAN /\ StartMayFail \in BOOLEAN
  /\ MaxPoisons \in Nat /\ MaxQueued \in Nat

VARIABLES
  nActive, nBusy,   \* sThreads.nActiveCount, nBusyCount
  nShuttingDown,    \* sThreads.nShuttingDown
  cList,            \* sThreads.cList: the threads in the list
  iocp,             \* cIOCP is open
  queue,            \* the packets in the port
  pc,               \* where each thread is in ThreadProc and StartThread
  canExit,          \* THREAD_FLAGS_CanExit
  timed,            \* dwTimeout of the thread's Get is not INFINITE
  item,             \* the packet the thread has dequeued
  seen,             \* the counter the thread read before comparing it
  child,            \* the thread a StartThread call is creating
  owner             \* the thread in Initialize or Finalize

counters == <<nActive, nBusy, nShuttingDown>>
port == <<iocp, queue>>
locals == <<canExit, timed, item, seen, child>>
poolVars == <<counters, cList, port, pc, locals, owner>>

\* A thread that has taken a packet is busy until it decrements nBusyCount.
BusyAt == {"shut", "count", "busy", "active", "create", "activate", "run", "dec"}
ThreadPCs ==
  BusyAt \union {"none", "suspended", "top", "compare", "get", "idle", "decide", "inc", "exit"}
OwnerPCs == {"down", "up", "mark", "drain", "close", "zero", "open", "spawn", "spawned"}

PoolTypeOK ==
  /\ nActive \in Nat /\ nBusy \in Nat /\ nShuttingDown \in {0, 1}
  /\ cList \subseteq Thread
  /\ iocp \in BOOLEAN /\ queue \in Seq(Packet \union {Poison})
  /\ pc \in [Thread -> ThreadPCs]
  /\ canExit \in [Thread -> BOOLEAN] /\ timed \in [Thread -> BOOLEAN]
  /\ item \in [Thread -> Packet \union {Poison, None}]
  /\ seen \in [Thread -> Nat]
  /\ child \in [Thread -> Thread \union {None}]
  /\ owner \in [pc : OwnerPCs, goal : {"init", "down"}, left : Nat, child : Thread \union {None}]

PoolInit ==
  /\ nActive = 0 /\ nBusy = 0 /\ nShuttingDown = 0
  /\ cList = {} /\ iocp = FALSE /\ queue = <<>>
  /\ pc = [t \in Thread |-> "none"]
  /\ canExit = [t \in Thread |-> FALSE] /\ timed = [t \in Thread |-> FALSE]
  /\ item = [t \in Thread |-> None]
  /\ seen = [t \in Thread |-> 0]
  /\ child = [t \in Thread |-> None]
  /\ owner = [pc |-> "down", goal |-> "down", left |-> 0, child |-> None]

Goto(t, s) == pc' = [pc EXCEPT ![t] = s]

Poisons(q) == Cardinality({i \in 1..Len(q) : q[i] = Poison})

-----------------------------------------------------------------------------
(* Faulty variants of the steps below; each breaks one of the properties.  *)

\* The maximum is not tested.
MutCheckAllBusy(t) ==
  /\ pc[t] = "count"
  /\ Goto(t, IF seen[t] >= nActive THEN "busy" ELSE "run")
  /\ seen' = [seen EXCEPT ![t] = 0]
  /\ UNCHANGED <<counters, cList, port, canExit, timed, item, child, owner>>

\* The key-0 packet returns past the decrement.
MutDecBusy(t) ==
  /\ pc[t] = "dec"
  /\ nBusy' = IF item[t] = Poison THEN nBusy ELSE nBusy - 1
  /\ Goto(t, IF item[t] = Poison THEN "exit" ELSE "top")
  /\ item' = [item EXCEPT ![t] = None]
  /\ UNCHANGED <<nActive, nShuttingDown, cList, port, canExit, timed, seen, child, owner>>

\* The thread enters the list only after it has been created and resumed.
MutPushThread(t, new) ==
  /\ pc[t] = "create" /\ pc[new] = "none"
  /\ pc' = [pc EXCEPT ![t] = "activate", ![new] = "suspended"]
  /\ canExit' = [canExit EXCEPT ![new] = IdleTimeout]
  /\ child' = [child EXCEPT ![t] = new]
  /\ UNCHANGED <<counters, cList, port, timed, item, seen, owner>>

\* One key-0 packet too few.
MutPostPoisons ==
  /\ owner.pc = "drain" /\ cList # {}
  /\ Poisons(queue) + Cardinality(cList) <= MaxPoisons
  /\ queue' = queue \o [i \in 1..(Cardinality(cList) - 1) |-> Poison]
  /\ UNCHANGED <<counters, cList, iocp, pc, locals, owner>>

\* The last packet posted is the first to be taken.
MutPost(p) ==
  /\ iocp /\ Len(queue) - Poisons(queue) < MaxQueued
  /\ queue' = <<p>> \o queue
  /\ UNCHANGED <<counters, cList, iocp, pc, locals, owner>>

\* The port is kept for the next Initialize, with what is left in it.
MutCloseIocp ==
  /\ owner.pc = "close"
  /\ iocp' = FALSE /\ UNCHANGED queue
  /\ owner' = [owner EXCEPT !.pc = "zero"]
  /\ UNCHANGED <<counters, cList, pc, locals>>

-----------------------------------------------------------------------------
(* ThreadProc: choosing the timeout and waiting for a packet.              *)

\* Only threads started to cope with load compute a timeout.
ReadActive(t) ==
  /\ pc[t] = "top"
  /\ IF canExit[t]
     THEN seen' = [seen EXCEPT ![t] = nActive] /\ Goto(t, "compare")
     ELSE UNCHANGED seen /\ Goto(t, "get")
  /\ UNCHANGED <<counters, cList, port, canExit, timed, item, child, owner>>

ChooseTimeout(t) ==
  /\ pc[t] = "compare"
  /\ timed' = [timed EXCEPT ![t] = nBusy + Threshold < seen[t]]
  /\ seen' = [seen EXCEPT ![t] = 0]
  /\ Goto(t, "get")
  /\ UNCHANGED <<counters, cList, port, canExit, item, child, owner>>

Get(t) ==
  /\ pc[t] = "get" /\ queue # <<>>
  /\ item' = [item EXCEPT ![t] = Head(queue)]
  /\ queue' = Tail(queue)
  /\ timed' = [timed EXCEPT ![t] = FALSE]
  /\ Goto(t, "inc")
  /\ UNCHANGED <<counters, cList, iocp, canExit, seen, child, owner>>

GetTimeout(t) ==
  /\ pc[t] = "get" /\ timed[t] /\ queue = <<>>
  /\ timed' = [timed EXCEPT ![t] = FALSE]
  /\ Goto(t, "idle")
  /\ UNCHANGED <<counters, cList, port, canExit, item, seen, child, owner>>

IdleReadActive(t) ==
  /\ pc[t] = "idle"
  /\ seen' = [seen EXCEPT ![t] = nActive]
  /\ Goto(t, "decide")
  /\ UNCHANGED <<counters, cList, port, canExit, timed, item, child, owner>>

\* An idle thread leaves when, by now, enough others are free.
IdleDecide(t) ==
  /\ pc[t] = "decide"
  /\ Goto(t, IF nBusy + Threshold < seen[t] THEN "exit" ELSE "top")
  /\ seen' = [seen EXCEPT ![t] = 0]
  /\ UNCHANGED <<counters, cList, port, canExit, timed, item, child, owner>>

-----------------------------------------------------------------------------
(* ThreadProc: a packet has been dequeued; StartThread(FALSE).             *)

IncBusy(t) ==
  /\ pc[t] = "inc"
  /\ nBusy' = nBusy + 1
  /\ seen' = [seen EXCEPT ![t] = nBusy + 1]
  /\ Goto(t, "shut")
  /\ UNCHANGED <<nActive, nShuttingDown, cList, port, canExit, timed, item, child, owner>>

CheckShuttingDown(t) ==
  /\ pc[t] = "shut"
  /\ Goto(t, IF nShuttingDown = 0 THEN "count" ELSE "run")
  /\ seen' = IF nShuttingDown = 0 THEN seen ELSE [seen EXCEPT ![t] = 0]
  /\ UNCHANGED <<counters, cList, port, canExit, timed, item, child, owner>>

CheckAllBusy(t) ==
  /\ pc[t] = "count"
  /\ Goto(t, IF seen[t] >= nActive /\ nActive < MaxThreads THEN "busy" ELSE "run")
  /\ seen' = [seen EXCEPT ![t] = 0]
  /\ UNCHANGED <<counters, cList, port, canExit, timed, item, child, owner>>

\* StartThread reads both counters again.
StartReadBusy(t) ==
  /\ pc[t] = "busy"
  /\ seen' = [seen EXCEPT ![t] = nBusy]
  /\ Goto(t, "active")
  /\ UNCHANGED <<counters, cList, port, canExit, timed, item, child, owner>>

StartReadActive(t) ==
  /\ pc[t] = "active"
  /\ Goto(t, IF seen[t] < nActive THEN "run" ELSE "create")
  /\ seen' = [seen EXCEPT ![t] = 0]
  /\ UNCHANGED <<counters, cList, port, canExit, timed, item, child, owner>>

\* A new suspended thread enters the list before it is counted.
PushThread(t, new) ==
  /\ pc[t] = "create" /\ pc[new] = "none"
  /\ cList' = cList \union {new}
  /\ pc' = [pc EXCEPT ![t] = "activate", ![new] = "suspended"]
  /\ canExit' = [canExit EXCEPT ![new] = IdleTimeout]
  /\ child' = [child EXCEPT ![t] = new]
  /\ UNCHANGED <<counters, port, timed, item, seen, owner>>

PushFails(t) ==
  /\ pc[t] = "create" /\ StartMayFail
  /\ Goto(t, "run")
  /\ UNCHANGED <<counters, cList, port, locals, owner>>

\* nActiveCount is incremented, then the thread is resumed.
ActivateThread(t) ==
  /\ pc[t] = "activate"
  /\ nActive' = nActive + 1
  /\ pc' = [pc EXCEPT ![t] = "run", ![child[t]] = "top"]
  /\ child' = [child EXCEPT ![t] = None]
  /\ UNCHANGED <<nBusy, nShuttingDown, cList, port, canExit, timed, item, seen, owner>>

-----------------------------------------------------------------------------
(* ThreadProc: the callback, and leaving the loop.                         *)

\* The packet's callback returns.
FinishPacket(t) ==
  /\ pc[t] = "run" /\ item[t] # Poison
  /\ Goto(t, "dec")
  /\ UNCHANGED <<counters, cList, port, locals, owner>>

SeePoison(t) ==
  /\ pc[t] = "run" /\ item[t] = Poison
  /\ Goto(t, "dec")
  /\ UNCHANGED <<counters, cList, port, locals, owner>>

\* The decrement follows the inner loop, so a thread that broke out of it
\* at a key-0 packet also passes here.
DecBusy(t) ==
  /\ pc[t] = "dec"
  /\ nBusy' = nBusy - 1
  /\ Goto(t, IF item[t] = Poison THEN "exit" ELSE "top")
  /\ item' = [item EXCEPT ![t] = None]
  /\ UNCHANGED <<nActive, nShuttingDown, cList, port, canExit, timed, seen, child, owner>>

\* Under nMutex; after it the thread touches only its own CThread.
RemoveSelf(t) ==
  /\ pc[t] = "exit"
  /\ cList' = cList \ {t}
  /\ nActive' = nActive - 1
  /\ Goto(t, "none")
  /\ canExit' = [canExit EXCEPT ![t] = FALSE]
  /\ UNCHANGED <<nBusy, nShuttingDown, port, timed, item, seen, child, owner>>

-----------------------------------------------------------------------------
(* The owner: Initialize and InternalFinalize.                             *)

\* Both begin with InternalFinalize, whatever the pool's state.
BeginInternalFinalize(from, goal) ==
  /\ owner.pc \in from
  /\ owner' = [owner EXCEPT !.pc = "mark", !.goal = goal]
  /\ UNCHANGED <<counters, cList, port, pc, locals>>

PoolInitialize == BeginInternalFinalize({"down", "up"}, "init")
PoolFinalize   == BeginInternalFinalize({"down", "up"}, "down")

MarkShuttingDown ==
  /\ owner.pc = "mark"
  /\ nShuttingDown' = 1
  /\ owner' = [owner EXCEPT !.pc = "drain"]
  /\ UNCHANGED <<nActive, nBusy, cList, port, pc, locals>>

\* One key-0 packet per listed thread, under nMutex; then a sleep, and again.
PostPoisons ==
  /\ owner.pc = "drain" /\ cList # {}
  /\ Poisons(queue) + Cardinality(cList) <= MaxPoisons
  /\ queue' = queue \o [i \in 1..Cardinality(cList) |-> Poison]
  /\ UNCHANGED <<counters, cList, iocp, pc, locals, owner>>

SeeNoThreads ==
  /\ owner.pc = "drain" /\ cList = {}
  /\ owner' = [owner EXCEPT !.pc = "close"]
  /\ UNCHANGED <<counters, cList, port, pc, locals>>

\* cIOCP.Finalize: closing the port discards what is still in it.
CloseIocp ==
  /\ owner.pc = "close"
  /\ iocp' = FALSE /\ queue' = <<>>
  /\ owner' = [owner EXCEPT !.pc = "zero"]
  /\ UNCHANGED <<counters, cList, pc, locals>>

ZeroCounters ==
  /\ owner.pc = "zero"
  /\ nActive' = 0 /\ nBusy' = 0 /\ nShuttingDown' = 0
  /\ owner' = [owner EXCEPT !.pc = IF owner.goal = "init" THEN "open" ELSE "down",
                            !.goal = "down"]
  /\ UNCHANGED <<cList, port, pc, locals>>

OpenIocp ==
  /\ owner.pc = "open"
  /\ iocp' = TRUE
  /\ owner' = [owner EXCEPT !.pc = "spawn", !.left = MinThreads]
  /\ UNCHANGED <<counters, cList, queue, pc, locals>>

\* StartThread(TRUE): initial threads never leave on their own.
SpawnPush(new) ==
  /\ owner.pc = "spawn" /\ owner.left > 0 /\ pc[new] = "none"
  /\ cList' = cList \union {new}
  /\ pc' = [pc EXCEPT ![new] = "suspended"]
  /\ canExit' = [canExit EXCEPT ![new] = FALSE]
  /\ owner' = [owner EXCEPT !.pc = "spawned", !.child = new]
  /\ UNCHANGED <<counters, port, timed, item, seen, child>>

SpawnActivate ==
  /\ owner.pc = "spawned"
  /\ nActive' = nActive + 1
  /\ pc' = [pc EXCEPT ![owner.child] = "top"]
  /\ owner' = [owner EXCEPT !.pc = "spawn", !.left = owner.left - 1, !.child = None]
  /\ UNCHANGED <<nBusy, nShuttingDown, cList, port, locals>>

\* The port cannot be created, or an initial thread cannot be started.
InitializeFails ==
  /\ owner.pc = "open" \/ (owner.pc = "spawn" /\ owner.left > 0)
  /\ StartMayFail
  /\ owner' = [owner EXCEPT !.pc = "mark", !.goal = "down", !.left = 0]
  /\ UNCHANGED <<counters, cList, port, pc, locals>>

InitializeDone ==
  /\ owner.pc = "spawn" /\ owner.left = 0
  /\ owner' = [owner EXCEPT !.pc = "up"]
  /\ UNCHANGED <<counters, cList, port, pc, locals>>

-----------------------------------------------------------------------------
(* Clients.                                                                *)

\* Post, and a completed I/O of an attached handle; the port must be open.
Post(p) ==
  /\ iocp /\ Len(queue) - Poisons(queue) < MaxQueued
  /\ queue' = Append(queue, p)
  /\ UNCHANGED <<counters, cList, iocp, pc, locals, owner>>

-----------------------------------------------------------------------------
\* What a pool thread does of itself; the callback's return is FinishPacket.
ThreadStep(t) ==
  \/ ReadActive(t) \/ ChooseTimeout(t) \/ Get(t)
  \/ IdleReadActive(t) \/ IdleDecide(t)
  \/ IncBusy(t) \/ CheckShuttingDown(t) \/ CheckAllBusy(t)
  \/ StartReadBusy(t) \/ StartReadActive(t)
  \/ \E new \in Thread : PushThread(t, new)
  \/ PushFails(t) \/ ActivateThread(t)
  \/ SeePoison(t) \/ DecBusy(t) \/ RemoveSelf(t)

\* What the owner does once Initialize or Finalize has been called.
OwnerStep ==
  \/ MarkShuttingDown \/ PostPoisons \/ SeeNoThreads \/ CloseIocp \/ ZeroCounters
  \/ OpenIocp \/ SpawnActivate \/ InitializeFails \/ InitializeDone
  \/ \E new \in Thread : SpawnPush(new)

PoolNext ==
  \/ \E t \in Thread : ThreadStep(t) \/ GetTimeout(t) \/ FinishPacket(t)
  \/ PoolInitialize \/ PoolFinalize \/ OwnerStep
  \/ \E p \in Packet : Post(p)

PoolSpec == PoolInit /\ [][PoolNext]_poolVars
-----------------------------------------------------------------------------
(* Properties.                                                             *)

\* The counters the growing and shrinking decisions rest on are exact,
\* except between a thread entering the list and being counted: every path
\* of ThreadProc decrements what it incremented, the key-0 path included, and
\* the zeroing in InternalFinalize only ever stores what is already there.
CountersExact ==
  /\ nActive + Cardinality({t \in Thread : pc[t] = "activate"})
             + (IF owner.pc = "spawned" THEN 1 ELSE 0) = Cardinality(cList)
  /\ nBusy = Cardinality({t \in Thread : pc[t] \in BusyAt})

\* dwMaxThreadsCount is tested before StartThread and not again inside it, so
\* several threads may pass the test together, and Initialize does not test
\* it at all: a packet dequeued while it runs starts a thread of its own.  The
\* pool may exceed its maximum, but the threads it has and those that have
\* been decided on never exceed this bound.
ActiveLimit == IF MaxThreads = 1 THEN 1 ELSE 2 * MaxThreads + MinThreads - 3
Starting == {t \in Thread : pc[t] \in {"busy", "active", "create", "activate"}}
ActiveBounded == nActive + Cardinality(Starting) + owner.left <= ActiveLimit

\* When InternalFinalize has seen the list empty, no thread is inside the
\* pool's code any more, nor will be until Initialize starts one: the pool's
\* memory and the stack OVERLAPPED of the key-0 packets may go away.
NobodyLeft ==
  owner.pc \in {"close", "zero", "down", "open"} =>
    cList = {} /\ \A t \in Thread : pc[t] = "none"

\* Between Initialize and Finalize the pool keeps its minimum of threads that
\* do not time out: no key-0 packet of an earlier shutdown reaches them.
MinThreadsKept ==
  owner.pc = "up" => Cardinality({t \in cList : ~canExit[t]}) >= MinThreads

\* The comment before the growing step: "start a new worker thread if all of
\* them are busy".  While a packet waits and every thread is inside a
\* callback, the pool has reached its maximum.
GrownWhenAllBusy ==
  (owner.pc = "up" /\ queue # <<>> /\ \A t \in cList : pc[t] = "run")
    => nActive >= MaxThreads
=============================================================================
