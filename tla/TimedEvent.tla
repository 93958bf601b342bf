----------------------------- MODULE TimedEvent -----------------------------
(***************************************************************************)
(* The timed events (TimedEvent.cpp): one CTimerHandler, its thread, and   *)
(* the callers of SetTimeout, SetInterval and Clear, which may be          *)
(* application threads or a timer's callback.                              *)
(*                                                                         *)
(* A timer is an object that is in two indexes, a list sorted by id and a  *)
(* tree sorted by due time, both under sQueue.nMutex; each of its critical *)
(* sections is one action.  Freed objects go to a list and are used again. *)
(* Clear takes the id out of the caller's variable, so the variables are   *)
(* state too.                                                              *)
(*                                                                         *)
(* Time is the order of the tree and the number of its timers whose time   *)
(* has come.  Get and Shutdown of the singleton are not modelled: the      *)
(* handler lives.                                                          *)
(***************************************************************************)
EXTENDS Naturals, Sequences, FiniteSets

CONSTANTS
  Timer,      \* the CTimer objects
  Var,        \* the callers' timer id variables
  Client,     \* application threads
  Handler,    \* the handler's thread
  None,       \* no timer
  AddMayFail, \* memory may be exhausted
  MaxTimersInFreeList,
  MaxId       \* bound: the ids that are given

ASSUME TimedEventAssumption ==
  /\ IsFiniteSet(Timer) /\ None \notin Timer
  /\ Handler \notin Client
  /\ AddMayFail \in BOOLEAN
  /\ MaxTimersInFreeList \in Nat /\ MaxId \in Nat

VARIABLES
  nNextTimerId,
  cSortedByIdList,  \* the timers in the list, as a set: its order is that of nId
  cTree,            \* the timers in the tree, first to last
  nDue,             \* how many of them have a due time that has passed
  allocated,        \* the CTimer objects there are
  lpFirst,          \* sFreeTimers: the freed ones that are kept, last freed first
  nId, nFlags,      \* of each timer
  cChangedEvent,    \* the event is set
  idOf,             \* the callers' variables
  pc, arg, lpTimer, \* each caller: place, variable or id, timer at hand
  tpc, current,     \* the handler's thread: place, and the timer it fires
  dueAtPick,        \* the timers that were due when it was picked
  wakeFor           \* the timer whose due time bounds the thread's wait

queue   == <<cSortedByIdList, cTree, nDue>>
heap    == <<allocated, lpFirst>>
objects == <<heap, nId, nFlags>>
callers == <<pc, arg, lpTimer>>
thread  == <<tpc, current, dueAtPick, wakeFor>>
vars == <<nNextTimerId, queue, objects, cChangedEvent, idOf, callers, thread>>

Caller == Client \union {Handler}
Flags == {"Running", "Canceled", "OneShot", "CanceledInCallback"}
CallerPCs == {"idle", "add_id", "add_insert", "add_set", "find", "set", "set_wait", "set_leave",
              "wait", "free"}
ThreadPCs == {"wait", "reset", "pick", "callback", "after"}

Elements(s) == {s[i] : i \in DOMAIN s}

TypeOK ==
  /\ nNextTimerId \in 0..MaxId
  /\ cSortedByIdList \subseteq Timer
  /\ cTree \in Seq(Timer) /\ nDue \in 0..Len(cTree)
  /\ allocated \subseteq Timer /\ lpFirst \in Seq(Timer) /\ Len(lpFirst) <= MaxTimersInFreeList
  /\ nId \in [Timer -> 0..MaxId] /\ nFlags \in [Timer -> SUBSET Flags]
  /\ cChangedEvent \in BOOLEAN
  /\ idOf \in [Var -> 0..MaxId]
  /\ pc \in [Caller -> CallerPCs]
  /\ arg \in [Caller -> Var \union 0..MaxId]
  /\ lpTimer \in [Caller -> Timer \union {None}]
  /\ tpc \in ThreadPCs /\ current \in Timer \union {None}
  /\ dueAtPick \subseteq Timer /\ wakeFor \in Timer \union {None}

Init ==
  /\ nNextTimerId = 0
  /\ cSortedByIdList = {} /\ cTree = <<>> /\ nDue = 0
  /\ allocated = {} /\ lpFirst = <<>>
  /\ nId = [t \in Timer |-> 0] /\ nFlags = [t \in Timer |-> {}]
  /\ cChangedEvent = FALSE
  /\ idOf = [v \in Var |-> 0]
  /\ pc = [c \in Caller |-> "idle"]
  /\ arg = [c \in Caller |-> 0]
  /\ lpTimer = [c \in Caller |-> None]
  /\ tpc = "reset" /\ current = None /\ dueAtPick = {} /\ wakeFor = None

Due(t) == \E i \in 1..nDue : cTree[i] = t

\* The handler's thread calls only from inside a callback.
MayCall(c) == pc[c] = "idle" /\ (c = Handler => tpc = "callback")

Move(c, from, to) == pc[c] = from /\ pc' = [pc EXCEPT ![c] = to]

\* The tree without t, and with t inserted behind the first p timers.
Without(tree, t) ==
  LET i == CHOOSE i \in DOMAIN tree : tree[i] = t
  IN SubSeq(tree, 1, i - 1) \o SubSeq(tree, i + 1, Len(tree))

RemoveFromTree(t) ==
  /\ cTree' = Without(cTree, t)
  /\ nDue' = IF Due(t) THEN nDue - 1 ELSE nDue

InsertInto(tree, due, t, p) ==
  /\ cTree' = SubSeq(tree, 1, p) \o <<t>> \o SubSeq(tree, p + 1, Len(tree))
  /\ nDue' = IF p < due THEN due + 1 ELSE due

FreeTimer(t) ==
  IF Len(lpFirst) < MaxTimersInFreeList
  THEN lpFirst' = <<t>> \o lpFirst /\ UNCHANGED allocated
  ELSE allocated' = allocated \ {t} /\ UNCHANGED lpFirst

\* The thread looks for the next timer.
BackToPick == tpc' = "pick" /\ current' = None /\ dueAtPick' = {}

-----------------------------------------------------------------------------
(* Mutants: what a plausible bug would make of an action below.             *)

\* The event is not set, as if the thread looked at the queue anyway.
MutSetChangedAfterAdd(c) ==
  /\ Move(c, "add_set", "idle")
  /\ arg' = [arg EXCEPT ![c] = 0]
  /\ UNCHANGED <<nNextTimerId, queue, objects, cChangedEvent, idOf, lpTimer, thread>>

\* Clear returns while the callback runs.
MutWaitWhileRunning(c) ==
  /\ Move(c, "wait", "free")
  /\ UNCHANGED <<nNextTimerId, queue, objects, cChangedEvent, idOf, arg, lpTimer, thread>>

\* The thread frees a canceled timer whoever canceled it.
MutAfterCanceled ==
  /\ tpc = "after" /\ "Canceled" \in nFlags[current]
  /\ nFlags' = [nFlags EXCEPT ![current] = @ \ {"Running"}]
  /\ FreeTimer(current)
  /\ BackToPick
  /\ UNCHANGED <<nNextTimerId, queue, nId, cChangedEvent, idOf, callers, wakeFor>>

\* The thread leaves a canceled timer to the call that canceled it.
MutAfterCanceledRunning ==
  /\ tpc = "after" /\ "Canceled" \in nFlags[current]
  /\ IF "CanceledInCallback" \in nFlags[current] THEN FreeTimer(current) ELSE UNCHANGED heap
  /\ BackToPick
  /\ UNCHANGED <<nNextTimerId, queue, nId, nFlags, cChangedEvent, idOf, callers, wakeFor>>

\* A timer that is over is still found by its id.
MutAfterLast ==
  /\ tpc = "after" /\ "Canceled" \notin nFlags[current]
  /\ RemoveFromTree(current)
  /\ FreeTimer(current)
  /\ BackToPick
  /\ UNCHANGED <<nNextTimerId, cSortedByIdList, nId, nFlags, cChangedEvent, idOf, callers, wakeFor>>

-----------------------------------------------------------------------------
(* AddTimer, for SetTimeout and SetInterval.                                *)

\* AllocTimer takes the timer freed last or a new one, and sets it up.
AllocTimer(c, v, t) ==
  /\ MayCall(c) /\ nNextTimerId + Cardinality({d \in Caller : pc[d] = "add_id"}) < MaxId
  /\ \/ lpFirst # <<>> /\ t = Head(lpFirst) /\ lpFirst' = Tail(lpFirst) /\ UNCHANGED allocated
     \/ lpFirst = <<>> /\ t \notin allocated /\ allocated' = allocated \union {t} /\ UNCHANGED lpFirst
  /\ \E once \in BOOLEAN : nFlags' = [nFlags EXCEPT ![t] = IF once THEN {"OneShot"} ELSE {}]
  /\ nId' = [nId EXCEPT ![t] = 0]
  /\ lpTimer' = [lpTimer EXCEPT ![c] = t]
  /\ arg' = [arg EXCEPT ![c] = v]
  /\ Move(c, "idle", "add_id")
  /\ UNCHANGED <<nNextTimerId, queue, cChangedEvent, idOf, thread>>

AllocFails(c, v) ==
  /\ MayCall(c) /\ AddMayFail /\ lpFirst = <<>>
  /\ idOf' = [idOf EXCEPT ![v] = 0]
  /\ UNCHANGED <<nNextTimerId, queue, objects, cChangedEvent, callers, thread>>

AssignId(c) ==
  /\ Move(c, "add_id", "add_insert")
  /\ nNextTimerId' = nNextTimerId + 1
  /\ nId' = [nId EXCEPT ![lpTimer[c]] = nNextTimerId + 1]
  /\ UNCHANGED <<queue, heap, nFlags, cChangedEvent, idOf, arg, lpTimer, thread>>

\* Under the queue's lock.  The due time is in the past when the caller was
\* slow, so the timer may come before others that are due.
InsertTimer(c) ==
  LET t == lpTimer[c] IN
  /\ Move(c, "add_insert", "add_set")
  /\ cSortedByIdList' = cSortedByIdList \union {t}
  /\ idOf' = [idOf EXCEPT ![arg[c]] = nId[t]]
  /\ \E p \in 0..Len(cTree) : InsertInto(cTree, nDue, t, p)
  /\ lpTimer' = [lpTimer EXCEPT ![c] = None]
  /\ UNCHANGED <<nNextTimerId, objects, cChangedEvent, arg, thread>>

\* The list cannot grow: the timer is deleted.
InsertFails(c) ==
  /\ AddMayFail
  /\ Move(c, "add_insert", "idle")
  /\ allocated' = allocated \ {lpTimer[c]}
  /\ idOf' = [idOf EXCEPT ![arg[c]] = 0]
  /\ lpTimer' = [lpTimer EXCEPT ![c] = None]
  /\ arg' = [arg EXCEPT ![c] = 0]
  /\ UNCHANGED <<nNextTimerId, queue, lpFirst, nId, nFlags, cChangedEvent, thread>>

SetChangedAfterAdd(c) ==
  /\ Move(c, "add_set", "idle")
  /\ cChangedEvent' = TRUE
  /\ arg' = [arg EXCEPT ![c] = 0]
  /\ UNCHANGED <<nNextTimerId, queue, objects, idOf, lpTimer, thread>>

-----------------------------------------------------------------------------
(* RemoveTimer, for Clear.                                                  *)

\* The id is taken out of the variable; without one Clear does nothing.
TakeId(c, v) ==
  /\ MayCall(c) /\ idOf[v] # 0
  /\ arg' = [arg EXCEPT ![c] = idOf[v]]
  /\ idOf' = [idOf EXCEPT ![v] = 0]
  /\ Move(c, "idle", "find")
  /\ UNCHANGED <<nNextTimerId, queue, objects, cChangedEvent, lpTimer, thread>>

FindNothing(c) ==
  /\ \A t \in cSortedByIdList : nId[t] # arg[c]
  /\ Move(c, "find", "idle")
  /\ arg' = [arg EXCEPT ![c] = 0]
  /\ UNCHANGED <<nNextTimerId, queue, objects, cChangedEvent, idOf, lpTimer, thread>>

\* Under the queue's lock: cancel the timer and take it out of both indexes.
CancelTimer(c, t) ==
  /\ t \in cSortedByIdList /\ nId[t] = arg[c]
  /\ nFlags' = [nFlags EXCEPT ![t] = @ \union
       (IF c = Handler THEN {"Canceled", "CanceledInCallback"} ELSE {"Canceled"})]
  /\ cSortedByIdList' = cSortedByIdList \ {t}
  /\ RemoveFromTree(t)
  /\ lpTimer' = [lpTimer EXCEPT ![c] = t]
  /\ Move(c, "find", IF "Running" \notin nFlags[t] THEN "set"
                     ELSE IF c = Handler THEN "set_leave" ELSE "set_wait")
  /\ UNCHANGED <<nNextTimerId, heap, nId, cChangedEvent, idOf, arg, thread>>

\* A timer that is running in the calling callback is freed after the callback.
SetChangedAfterCancel(c) ==
  /\ \/ Move(c, "set", "free") /\ UNCHANGED <<arg, lpTimer>>
     \/ Move(c, "set_wait", "wait") /\ UNCHANGED <<arg, lpTimer>>
     \/ /\ Move(c, "set_leave", "idle")
        /\ lpTimer' = [lpTimer EXCEPT ![c] = None] /\ arg' = [arg EXCEPT ![c] = 0]
  /\ cChangedEvent' = TRUE
  /\ UNCHANGED <<nNextTimerId, queue, objects, idOf, thread>>

WaitWhileRunning(c) ==
  /\ Move(c, "wait", "free")
  /\ "Running" \notin nFlags[lpTimer[c]]
  /\ UNCHANGED <<nNextTimerId, queue, objects, cChangedEvent, idOf, arg, lpTimer, thread>>

FreeCanceled(c) ==
  /\ Move(c, "free", "idle")
  /\ FreeTimer(lpTimer[c])
  /\ lpTimer' = [lpTimer EXCEPT ![c] = None]
  /\ arg' = [arg EXCEPT ![c] = 0]
  /\ UNCHANGED <<nNextTimerId, queue, nId, nFlags, cChangedEvent, idOf, thread>>

-----------------------------------------------------------------------------
(* The handler's thread: ThreadProc and ProcessQueue.                       *)

\* The wait ends when the event is set or the time it was given has passed.
Wake ==
  /\ tpc = "wait"
  /\ cChangedEvent \/ (wakeFor # None /\ (Due(wakeFor) \/ wakeFor \notin Elements(cTree)))
  /\ tpc' = "reset" /\ wakeFor' = None
  /\ UNCHANGED <<nNextTimerId, queue, objects, cChangedEvent, idOf, callers, current, dueAtPick>>

ResetEvent ==
  /\ tpc = "reset"
  /\ cChangedEvent' = FALSE
  /\ tpc' = "pick"
  /\ UNCHANGED <<nNextTimerId, queue, objects, idOf, callers, current, dueAtPick, wakeFor>>

\* Under the queue's lock: the first timer that is due and not canceled.
PickTimer(t) ==
  /\ tpc = "pick"
  /\ Due(t) /\ "Canceled" \notin nFlags[t]
  /\ \E i \in 1..nDue : cTree[i] = t /\ \A j \in 1..(i - 1) : "Canceled" \in nFlags[cTree[j]]
  /\ nFlags' = [nFlags EXCEPT ![t] = @ \union {"Running"}]
  /\ current' = t
  /\ dueAtPick' = {cTree[i] : i \in 1..nDue} \ {t}
  /\ tpc' = "callback"
  /\ UNCHANGED <<nNextTimerId, queue, heap, nId, cChangedEvent, idOf, callers, wakeFor>>

\* None is due: wait until the first of the others is, or for the event.
PickNone ==
  /\ tpc = "pick"
  /\ \A i \in 1..nDue : "Canceled" \in nFlags[cTree[i]]
  /\ wakeFor' = IF nDue < Len(cTree) THEN cTree[nDue + 1] ELSE None
  /\ tpc' = "wait"
  /\ UNCHANGED <<nNextTimerId, queue, objects, cChangedEvent, idOf, callers, current, dueAtPick>>

CallbackReturns ==
  /\ tpc = "callback" /\ pc[Handler] = "idle"
  /\ tpc' = "after"
  /\ UNCHANGED <<nNextTimerId, queue, objects, cChangedEvent, idOf, callers, current, dueAtPick,
                 wakeFor>>

\* Under the queue's lock, the three ends of a callback: the timer was canceled
\* meanwhile; it is over; or it is due again.
AfterCanceled ==
  /\ tpc = "after" /\ "Canceled" \in nFlags[current]
  /\ nFlags' = [nFlags EXCEPT ![current] = @ \ {"Running"}]
  /\ IF "CanceledInCallback" \in nFlags[current] THEN FreeTimer(current) ELSE UNCHANGED heap
  /\ BackToPick
  /\ UNCHANGED <<nNextTimerId, queue, nId, cChangedEvent, idOf, callers, wakeFor>>

\* A one-shot timer, or an interval whose callback set *lpbCancel.
AfterLast ==
  /\ tpc = "after" /\ "Canceled" \notin nFlags[current]
  /\ RemoveFromTree(current)
  /\ cSortedByIdList' = cSortedByIdList \ {current}
  /\ FreeTimer(current)
  /\ BackToPick
  /\ UNCHANGED <<nNextTimerId, nId, nFlags, cChangedEvent, idOf, callers, wakeFor>>

\* The next due time counts from before the callback, so it follows that of
\* every timer that was due then, though perhaps not that of later ones.
AfterInterval ==
  /\ tpc = "after" /\ nFlags[current] \intersect {"Canceled", "OneShot"} = {}
  /\ LET others == Without(cTree, current)
         due    == nDue - 1
     IN \E p \in 0..Len(others) :
          /\ \A i \in (p + 1)..Len(others) : others[i] \notin dueAtPick
          /\ InsertInto(others, due, current, p)
  /\ nFlags' = [nFlags EXCEPT ![current] = @ \ {"Running"}]
  /\ BackToPick
  /\ UNCHANGED <<nNextTimerId, cSortedByIdList, heap, nId, cChangedEvent, idOf, callers, wakeFor>>

\* The due time of the next timer in the tree comes.
TimePasses ==
  /\ nDue < Len(cTree)
  /\ nDue' = nDue + 1
  /\ UNCHANGED <<nNextTimerId, cSortedByIdList, cTree, objects, cChangedEvent, idOf, callers, thread>>

-----------------------------------------------------------------------------
\* What a caller does once it is inside SetTimeout, SetInterval or Clear.
CallerStep(c) ==
  \/ AssignId(c) \/ InsertTimer(c) \/ InsertFails(c) \/ SetChangedAfterAdd(c)
  \/ FindNothing(c) \/ \E t \in Timer : CancelTimer(c, t)
  \/ SetChangedAfterCancel(c) \/ WaitWhileRunning(c) \/ FreeCanceled(c)

ThreadStep ==
  \/ Wake \/ ResetEvent \/ PickNone \/ \E t \in Timer : PickTimer(t)
  \/ AfterCanceled \/ AfterLast \/ AfterInterval

Next ==
  \/ \E c \in Caller, v \in Var :
       AllocFails(c, v) \/ TakeId(c, v) \/ \E t \in Timer : AllocTimer(c, v, t)
  \/ \E c \in Caller : CallerStep(c)
  \/ ThreadStep \/ CallbackReturns \/ TimePasses

Spec == Init /\ [][Next]_vars

\* Threads that are inside the handler run on and callbacks return, however
\* many calls they make first; time need not pass and nobody has to call.
Fairness ==
  /\ \A c \in Caller : WF_vars(CallerStep(c))
  /\ WF_vars(ThreadStep) /\ SF_vars(CallbackReturns)

FairSpec == Spec /\ Fairness

-----------------------------------------------------------------------------
(* Properties.                                                              *)

\* Each timer object has one owner at most: the queue, the thread that fires
\* it, a call that sets it up or frees it, or the list of freed timers.  The
\* thread shares a firing timer with the queue, and with the one call that
\* waits for its callback: whoever frees it is the last to touch it.
OneOwner ==
  LET free    == Elements(lpFirst)
      holding == {c \in Caller : lpTimer[c] # None}
      queued  == Elements(cTree)
  IN /\ Cardinality(free) = Len(lpFirst) /\ Cardinality(queued) = Len(cTree)
     /\ free \intersect (queued \union {current} \union {lpTimer[c] : c \in holding}) = {}
     /\ queued \subseteq allocated /\ free \subseteq allocated
     /\ current \in allocated \union {None}
     /\ \A c \in holding :
          /\ lpTimer[c] \in allocated \ queued
          /\ \A d \in holding \ {c} : lpTimer[c] # lpTimer[d]
          /\ lpTimer[c] = current => pc[c] \in {"set_wait", "set_leave", "wait"}

\* Outside the lock the list by id and the tree by time hold the same timers,
\* so a due timer is found by its id too (the MX_ASSERT of ProcessQueue), and
\* a timer that was cleared is in neither.
IndexesAgree ==
  /\ cSortedByIdList = Elements(cTree)
  /\ \A t \in cSortedByIdList : nId[t] # 0 /\ "Canceled" \notin nFlags[t]
  /\ \A t, u \in cSortedByIdList : nId[t] = nId[u] => t = u

\* The two indexes, the flags, the free list and the reuse of objects together
\* do what TimerService promises: one-shot timers fire once, a cleared timer
\* fires no more, and Clear does not return to another thread while the
\* callback of its timer runs.
Phase(t) == IF t # current THEN "armed" ELSE IF t \in Elements(cTree) THEN "firing" ELSE "cleared"

Alive   == Elements(cTree) \union ({current} \ {None})
Waiters == {c \in Client : pc[c] \in {"set_wait", "wait"}}
Adding  == {c \in Caller : pc[c] = "add_insert"}

UsedIds     == (1..nNextTimerId) \ {nId[lpTimer[c]] : c \in Adding}
AliveTimers == {[id |-> nId[t], oneShot |-> "OneShot" \in nFlags[t], phase |-> Phase(t)] : t \in Alive}
AwaitedIds  == {nId[lpTimer[c]] : c \in Waiters}

Service == INSTANCE TimerService WITH
  Id <- 1..MaxId, used <- UsedIds, timers <- AliveTimers, awaited <- AwaitedIds

ProvidesService == Service!Spec

\* A timer whose time has come fires, unless it is cleared first: the event is
\* reset before the queue is read, so a timer that is added, or comes first,
\* meanwhile is not slept over.
DueTimersFire == \A t \in Timer : Due(t) ~> (t = current \/ ~Due(t))

\* SetTimeout, SetInterval and Clear return, Clear from inside the callback of
\* the very timer too.
CallsReturn == \A c \in Caller : pc[c] # "idle" ~> pc[c] = "idle"
=============================================================================
