------------------------ MODULE IocpThreadPoolProofs ------------------------
(***************************************************************************)
(* Proofs about IocpThreadPool, for any number of threads, packets and     *)
(* configured limits.  StructInv says who is in the list and who creates   *)
(* whom; it gives NobodyLeft.  CountInv adds what the counters count and   *)
(* gives CountersExact and ActiveBounded.                                  *)
(***************************************************************************)
EXTENDS IocpThreadPool, FiniteSetTheorems, TLAPS

Shape ==
  /\ cList \subseteq Thread
  /\ pc \in [Thread -> ThreadPCs]
  /\ child \in [Thread -> Thread \union {None}]
  /\ owner \in [pc : OwnerPCs, goal : {"init", "down"}, left : Nat, child : Thread \union {None}]

Listed == cList = {t \in Thread : pc[t] # "none"}

\* A creating thread has one suspended child, and no two creators share one.
Children ==
  /\ \A t \in Thread : pc[t] = "activate" => child[t] \in Thread /\ pc[child[t]] = "suspended"
  /\ \A t, u \in Thread :
       pc[t] = "activate" /\ pc[u] = "activate" /\ child[t] = child[u] => t = u
  /\ owner.pc = "spawned" =>
       /\ owner.child \in Thread /\ pc[owner.child] = "suspended"
       /\ \A t \in Thread : pc[t] = "activate" => child[t] # owner.child

\* Nobody is listed while the owner has no pool.
Emptied == owner.pc \in {"close", "zero", "down", "open"} => cList = {}

\* Until Initialize has activated its first thread nobody else runs.
Spawning ==
  /\ owner.left <= MinThreads
  /\ owner.left > 0 => owner.pc \in {"spawn", "spawned"}
  /\ owner.pc = "spawned" => owner.left > 0
  /\ owner.left = MinThreads =>
       (owner.pc = "spawn" /\ cList = {}) \/ (owner.pc = "spawned" /\ cList = {owner.child})

StructInv == Shape /\ Listed /\ Children /\ Emptied /\ Spawning

-----------------------------------------------------------------------------
(* The structure: most steps only move one running thread.                 *)

Still == {"none", "suspended", "activate"}

LEMMA QuietMove ==
  ASSUME StructInv, NEW t \in Thread, NEW s \in ThreadPCs \ Still,
         pc[t] \notin Still, Goto(t, s), UNCHANGED <<cList, child, owner>>
  PROVE  StructInv'
<1>1. pc' \in [Thread -> ThreadPCs] /\ \A u \in Thread : pc'[u] = IF u = t THEN s ELSE pc[u]
  BY DEF StructInv, Shape, Goto
<1>2. Shape'
  BY <1>1 DEF StructInv, Shape
<1>3. Listed'
  BY <1>1 DEF StructInv, Listed, Still
<1>4. Children'
  BY <1>1 DEF StructInv, Children, Still
<1>5. Emptied' /\ Spawning'
  BY DEF StructInv, Emptied, Spawning
<1>6. QED
  BY <1>2, <1>3, <1>4, <1>5 DEF StructInv

\* Steps that move one thread inside ThreadProc.
Inner(t) ==
  \/ ReadActive(t) \/ ChooseTimeout(t) \/ Get(t) \/ GetTimeout(t)
  \/ IdleReadActive(t) \/ IdleDecide(t)
  \/ IncBusy(t) \/ CheckShuttingDown(t) \/ CheckAllBusy(t)
  \/ StartReadBusy(t) \/ StartReadActive(t) \/ PushFails(t)
  \/ FinishPacket(t) \/ SeePoison(t) \/ DecBusy(t)

\* The places between the test of dwMaxThreadsCount and the new thread's count.
StartingAt == {"busy", "active", "create", "activate"}

\* What they have in common: nBusyCount follows the thread in and out of the
\* busy places, and only the test of dwMaxThreadsCount leads to StartThread.
InnerMove(t, s) ==
  /\ pc[t] \notin Still /\ s \notin Still /\ Goto(t, s)
  /\ nActive' = nActive
  /\ \/ (pc[t] \in BusyAt <=> s \in BusyAt) /\ nBusy' = nBusy
     \/ pc[t] \notin BusyAt /\ s \in BusyAt /\ nBusy' = nBusy + 1
     \/ pc[t] \in BusyAt /\ s \notin BusyAt /\ nBusy' = nBusy - 1
  /\ s \in StartingAt => pc[t] \in StartingAt \/ (pc[t] = "count" /\ nActive < MaxThreads)
  /\ UNCHANGED <<cList, child, owner>>

LEMMA InnerMoves ==
  ASSUME NEW t \in Thread, Inner(t)
  PROVE  \E s \in ThreadPCs : InnerMove(t, s)
<1>1. CASE ReadActive(t)
  <2>1. InnerMove(t, IF canExit[t] THEN "compare" ELSE "get")
    BY <1>1 DEF ReadActive, InnerMove, Goto, Still, BusyAt, StartingAt, counters, locals
  <2>2. QED
    BY <2>1 DEF ThreadPCs, BusyAt
<1>2. CASE ChooseTimeout(t)
  <2>1. InnerMove(t, "get")
    BY <1>2 DEF ChooseTimeout, InnerMove, Goto, Still, BusyAt, StartingAt, counters, locals
  <2>2. QED
    BY <2>1 DEF ThreadPCs, BusyAt
<1>3. CASE Get(t)
  <2>1. InnerMove(t, "inc")
    BY <1>3 DEF Get, InnerMove, Goto, Still, BusyAt, StartingAt, counters, locals
  <2>2. QED
    BY <2>1 DEF ThreadPCs, BusyAt
<1>4. CASE GetTimeout(t)
  <2>1. InnerMove(t, "idle")
    BY <1>4 DEF GetTimeout, InnerMove, Goto, Still, BusyAt, StartingAt, counters, locals
  <2>2. QED
    BY <2>1 DEF ThreadPCs, BusyAt
<1>5. CASE IdleReadActive(t)
  <2>1. InnerMove(t, "decide")
    BY <1>5 DEF IdleReadActive, InnerMove, Goto, Still, BusyAt, StartingAt, counters, locals
  <2>2. QED
    BY <2>1 DEF ThreadPCs, BusyAt
<1>6. CASE IdleDecide(t)
  <2>1. InnerMove(t, IF nBusy + Threshold < seen[t] THEN "exit" ELSE "top")
    BY <1>6 DEF IdleDecide, InnerMove, Goto, Still, BusyAt, StartingAt, counters, locals
  <2>2. QED
    BY <2>1 DEF ThreadPCs, BusyAt
<1>7. CASE IncBusy(t)
  <2>1. InnerMove(t, "shut")
    BY <1>7 DEF IncBusy, InnerMove, Goto, Still, BusyAt, StartingAt, counters, locals
  <2>2. QED
    BY <2>1 DEF ThreadPCs, BusyAt
<1>8. CASE CheckShuttingDown(t)
  <2>1. InnerMove(t, IF nShuttingDown = 0 THEN "count" ELSE "run")
    BY <1>8 DEF CheckShuttingDown, InnerMove, Goto, Still, BusyAt, StartingAt, counters, locals
  <2>2. QED
    BY <2>1 DEF ThreadPCs, BusyAt
<1>9. CASE CheckAllBusy(t)
  <2>1. InnerMove(t, IF seen[t] >= nActive /\ nActive < MaxThreads THEN "busy" ELSE "run")
    BY <1>9 DEF CheckAllBusy, InnerMove, Goto, Still, BusyAt, StartingAt, counters, locals
  <2>2. QED
    BY <2>1 DEF ThreadPCs, BusyAt
<1>10. CASE StartReadBusy(t)
  <2>1. InnerMove(t, "active")
    BY <1>10 DEF StartReadBusy, InnerMove, Goto, Still, BusyAt, StartingAt, counters, locals
  <2>2. QED
    BY <2>1 DEF ThreadPCs, BusyAt
<1>11. CASE StartReadActive(t)
  <2>1. InnerMove(t, IF seen[t] < nActive THEN "run" ELSE "create")
    BY <1>11 DEF StartReadActive, InnerMove, Goto, Still, BusyAt, StartingAt, counters, locals
  <2>2. QED
    BY <2>1 DEF ThreadPCs, BusyAt
<1>12. CASE PushFails(t)
  <2>1. InnerMove(t, "run")
    BY <1>12 DEF PushFails, InnerMove, Goto, Still, BusyAt, StartingAt, counters, locals
  <2>2. QED
    BY <2>1 DEF ThreadPCs, BusyAt
<1>13. CASE FinishPacket(t)
  <2>1. InnerMove(t, "dec")
    BY <1>13 DEF FinishPacket, InnerMove, Goto, Still, BusyAt, StartingAt, counters, locals
  <2>2. QED
    BY <2>1 DEF ThreadPCs, BusyAt
<1>14. CASE SeePoison(t)
  <2>1. InnerMove(t, "dec")
    BY <1>14 DEF SeePoison, InnerMove, Goto, Still, BusyAt, StartingAt, counters, locals
  <2>2. QED
    BY <2>1 DEF ThreadPCs, BusyAt
<1>15. CASE DecBusy(t)
  <2>1. InnerMove(t, IF item[t] = Poison THEN "exit" ELSE "top")
    BY <1>15 DEF DecBusy, InnerMove, Goto, Still, BusyAt, StartingAt, counters, locals
  <2>2. QED
    BY <2>1 DEF ThreadPCs, BusyAt
<1>16. QED
  BY <1>1, <1>2, <1>3, <1>4, <1>5, <1>6, <1>7, <1>8, <1>9, <1>10, <1>11, <1>12, <1>13, <1>14, <1>15
     DEF Inner

\* The steps that create, resume or end a thread.
LEMMA PushKeeps ==
  ASSUME StructInv, NEW t \in Thread, NEW new \in Thread, PushThread(t, new)
  PROVE  StructInv'
<1>1. /\ pc[t] = "create" /\ pc[new] = "none" /\ t # new
      /\ pc' \in [Thread -> ThreadPCs]
      /\ \A u \in Thread :
           pc'[u] = IF u = new THEN "suspended" ELSE IF u = t THEN "activate" ELSE pc[u]
      /\ child' \in [Thread -> Thread \union {None}]
      /\ \A u \in Thread : child'[u] = IF u = t THEN new ELSE child[u]
      /\ cList' = cList \union {new} /\ owner' = owner
  BY DEF PushThread, StructInv, Shape, ThreadPCs, BusyAt
<1>2. Shape' /\ Listed'
  BY <1>1 DEF StructInv, Shape, Listed
<1>3. Children'
  BY <1>1 DEF StructInv, Children
<1>4. t \in cList /\ (owner.pc = "spawned" => pc[owner.child] = "suspended")
  BY <1>1 DEF StructInv, Listed, Children
<1>5. Emptied'
  BY <1>1, <1>4 DEF StructInv, Emptied
<1>6. Spawning'
  BY <1>1, <1>4 DEF StructInv, Spawning
<1>7. QED
  BY <1>2, <1>3, <1>5, <1>6 DEF StructInv

LEMMA ActivateKeeps ==
  ASSUME StructInv, NEW t \in Thread, ActivateThread(t)
  PROVE  StructInv'
<1>1. /\ pc[t] = "activate" /\ child[t] \in Thread /\ pc[child[t]] = "suspended"
      /\ pc' \in [Thread -> ThreadPCs]
      /\ \A u \in Thread :
           pc'[u] = IF u = child[t] THEN "top" ELSE IF u = t THEN "run" ELSE pc[u]
      /\ child' \in [Thread -> Thread \union {None}]
      /\ \A u \in Thread : u # t => child'[u] = child[u]
      /\ cList' = cList /\ owner' = owner
  BY DEF ActivateThread, StructInv, Shape, Children, ThreadPCs, BusyAt
<1>2. Shape' /\ Listed'
  BY <1>1 DEF StructInv, Shape, Listed
<1>3. \A u \in Thread : pc'[u] = "activate" => u # t /\ pc[u] = "activate"
  BY <1>1
<1>4. Children'
  BY <1>1, <1>3 DEF StructInv, Children
<1>5. Emptied' /\ Spawning'
  BY <1>1 DEF StructInv, Emptied, Spawning
<1>6. QED
  BY <1>2, <1>4, <1>5 DEF StructInv

LEMMA RemoveKeeps ==
  ASSUME StructInv, NEW t \in Thread, RemoveSelf(t)
  PROVE  StructInv'
<1>1. /\ pc[t] = "exit"
      /\ pc' \in [Thread -> ThreadPCs]
      /\ \A u \in Thread : pc'[u] = IF u = t THEN "none" ELSE pc[u]
      /\ cList' = cList \ {t} /\ UNCHANGED <<child, owner>>
  BY DEF RemoveSelf, Goto, StructInv, Shape, ThreadPCs
<1>2. Shape' /\ Listed'
  BY <1>1 DEF StructInv, Shape, Listed
<1>3. Children'
  BY <1>1 DEF StructInv, Children
<1>4. t \in cList /\ (owner.pc = "spawned" => owner.child # t)
  BY <1>1 DEF StructInv, Listed, Children
<1>5. Emptied' /\ Spawning'
  BY <1>1, <1>4 DEF StructInv, Emptied, Spawning
<1>6. QED
  BY <1>2, <1>3, <1>5 DEF StructInv

\* The owner's steps that leave the threads alone.
OwnerOnly ==
  \/ PoolInitialize \/ PoolFinalize
  \/ MarkShuttingDown \/ PostPoisons \/ SeeNoThreads \/ CloseIocp \/ ZeroCounters
  \/ OpenIocp \/ InitializeFails \/ InitializeDone

\* What they do to the owner: it never enters "spawned", and it gets past
\* the loop of InternalFinalize only with an empty list.
OwnerMove(p, g, l) ==
  /\ owner' = [owner EXCEPT !.pc = p, !.goal = g, !.left = l]
  /\ p \in {"close", "zero", "down", "open"} =>
       cList = {} \/ owner.pc \in {"close", "zero", "down", "open"}
  /\ \/ l = owner.left /\ owner.pc # "spawned" /\ (owner.pc = "spawn" => l = 0)
     \/ l = 0
     \/ l = MinThreads /\ owner.pc = "open" /\ p = "spawn"

LEMMA OwnerMoves ==
  ASSUME Shape, OwnerOnly
  PROVE  /\ UNCHANGED <<pc, child, cList>>
         /\ \E p \in OwnerPCs \ {"spawned"}, g \in {"init", "down"}, l \in Nat : OwnerMove(p, g, l)
<1>1. owner = [pc |-> owner.pc, goal |-> owner.goal, left |-> owner.left, child |-> owner.child]
      /\ owner.goal \in {"init", "down"} /\ owner.left \in Nat
  BY DEF Shape
<1>2. CASE PoolInitialize
  <2>1. OwnerMove("mark", "init", owner.left)
    BY <1>1, <1>2 DEF PoolInitialize, BeginInternalFinalize, OwnerMove
  <2>2. QED
    BY <1>1, <1>2, <2>1 DEF PoolInitialize, BeginInternalFinalize, OwnerPCs, locals
<1>3. CASE PoolFinalize
  <2>1. OwnerMove("mark", "down", owner.left)
    BY <1>1, <1>3 DEF PoolFinalize, BeginInternalFinalize, OwnerMove
  <2>2. QED
    BY <1>1, <1>3, <2>1 DEF PoolFinalize, BeginInternalFinalize, OwnerPCs, locals
<1>4. CASE MarkShuttingDown
  <2>1. OwnerMove("drain", owner.goal, owner.left)
    BY <1>1, <1>4 DEF MarkShuttingDown, OwnerMove
  <2>2. QED
    BY <1>1, <1>4, <2>1 DEF MarkShuttingDown, OwnerPCs, locals
<1>5. CASE PostPoisons
  <2>1. OwnerMove("drain", owner.goal, owner.left)
    BY <1>1, <1>5 DEF PostPoisons, OwnerMove
  <2>2. QED
    BY <1>1, <1>5, <2>1 DEF PostPoisons, OwnerPCs, locals
<1>6. CASE SeeNoThreads
  <2>1. OwnerMove("close", owner.goal, owner.left)
    BY <1>1, <1>6 DEF SeeNoThreads, OwnerMove
  <2>2. QED
    BY <1>1, <1>6, <2>1 DEF SeeNoThreads, OwnerPCs, locals
<1>7. CASE CloseIocp
  <2>1. OwnerMove("zero", owner.goal, owner.left)
    BY <1>1, <1>7 DEF CloseIocp, OwnerMove
  <2>2. QED
    BY <1>1, <1>7, <2>1 DEF CloseIocp, OwnerPCs, locals
<1>8. CASE ZeroCounters
  <2>1. OwnerMove(IF owner.goal = "init" THEN "open" ELSE "down", "down", owner.left)
    BY <1>1, <1>8 DEF ZeroCounters, OwnerMove
  <2>2. QED
    BY <1>1, <1>8, <2>1 DEF ZeroCounters, OwnerPCs, locals
<1>9. CASE OpenIocp
  <2>1. OwnerMove("spawn", owner.goal, MinThreads)
    BY <1>1, <1>9 DEF OpenIocp, OwnerMove
  <2>2. QED
    BY <1>1, <1>9, <2>1, PoolAssumption DEF OpenIocp, OwnerPCs, locals
<1>10. CASE InitializeFails
  <2>1. OwnerMove("mark", "down", 0)
    BY <1>1, <1>10 DEF InitializeFails, OwnerMove
  <2>2. QED
    BY <1>1, <1>10, <2>1 DEF InitializeFails, OwnerPCs, locals
<1>11. CASE InitializeDone
  <2>1. OwnerMove("up", owner.goal, owner.left)
    BY <1>1, <1>11 DEF InitializeDone, OwnerMove
  <2>2. QED
    BY <1>1, <1>11, <2>1 DEF InitializeDone, OwnerPCs, locals
<1>12. QED
  BY <1>2, <1>3, <1>4, <1>5, <1>6, <1>7, <1>8, <1>9, <1>10, <1>11 DEF OwnerOnly

LEMMA OwnerKeeps ==
  ASSUME StructInv, OwnerOnly
  PROVE  StructInv'
<1>1. UNCHANGED <<pc, child, cList>>
  BY OwnerMoves DEF StructInv
<1>2. PICK p \in OwnerPCs \ {"spawned"}, g \in {"init", "down"}, l \in Nat : OwnerMove(p, g, l)
  BY OwnerMoves DEF StructInv
<1>3. owner'.pc = p /\ owner'.left = l /\ owner'.child = owner.child
  BY <1>2 DEF StructInv, Shape, OwnerMove
<1>4. Shape' /\ Listed'
  BY <1>1, <1>2 DEF StructInv, Shape, Listed, OwnerMove
<1>5. Children'
  BY <1>1, <1>3 DEF StructInv, Children
<1>6. Emptied'
  BY <1>1, <1>2, <1>3 DEF StructInv, Emptied, OwnerMove
<1>7. Spawning'
  BY <1>1, <1>2, <1>3, PoolAssumption DEF StructInv, Emptied, Spawning, OwnerMove
<1>8. QED
  BY <1>4, <1>5, <1>6, <1>7 DEF StructInv

LEMMA SpawnPushKeeps ==
  ASSUME StructInv, NEW new \in Thread, SpawnPush(new)
  PROVE  StructInv'
<1>1. /\ pc[new] = "none" /\ owner.pc = "spawn" /\ owner.left > 0
      /\ pc' \in [Thread -> ThreadPCs]
      /\ \A u \in Thread : pc'[u] = IF u = new THEN "suspended" ELSE pc[u]
      /\ cList' = cList \union {new} /\ child' = child
      /\ owner' = [owner EXCEPT !.pc = "spawned", !.child = new]
  BY DEF SpawnPush, StructInv, Shape, ThreadPCs
<1>2. Shape' /\ Listed'
  BY <1>1 DEF StructInv, Shape, Listed, OwnerPCs
<1>3. Children'
  BY <1>1 DEF StructInv, Children, Shape
<1>4. Emptied' /\ Spawning'
  BY <1>1 DEF StructInv, Emptied, Spawning, Shape
<1>5. QED
  BY <1>2, <1>3, <1>4 DEF StructInv

LEMMA SpawnActivateKeeps ==
  ASSUME StructInv, SpawnActivate
  PROVE  StructInv'
<1>1. /\ owner.pc = "spawned" /\ owner.child \in Thread /\ pc[owner.child] = "suspended"
      /\ owner.left > 0 /\ owner.left \in Nat /\ owner.left <= MinThreads
      /\ pc' \in [Thread -> ThreadPCs]
      /\ \A u \in Thread : pc'[u] = IF u = owner.child THEN "top" ELSE pc[u]
      /\ UNCHANGED <<cList, child>>
      /\ owner' = [owner EXCEPT !.pc = "spawn", !.left = owner.left - 1, !.child = None]
  BY DEF SpawnActivate, StructInv, Shape, Children, Spawning, ThreadPCs, locals
<1>2. Shape' /\ Listed'
  <2>1. owner.left - 1 \in Nat
    BY <1>1
  <2>2. owner' = [pc |-> "spawn", goal |-> owner.goal, left |-> owner.left - 1, child |-> None]
    BY <1>1 DEF StructInv, Shape
  <2>3. owner' \in [pc : OwnerPCs, goal : {"init", "down"}, left : Nat, child : Thread \union {None}]
    BY <2>1, <2>2 DEF StructInv, Shape, OwnerPCs
  <2>4. QED
    BY <1>1, <2>3 DEF StructInv, Shape, Listed
<1>3. owner'.pc = "spawn" /\ owner'.left = owner.left - 1
  BY <1>1 DEF StructInv, Shape
<1>4. Children'
  <2>1. \A u \in Thread : pc'[u] = "activate" => pc[u] = "activate" /\ child[u] # owner.child
    BY <1>1 DEF StructInv, Children
  <2>2. QED
    BY <1>1, <1>3, <2>1 DEF StructInv, Children
<1>5. Emptied' /\ Spawning'
  BY <1>1, <1>3, PoolAssumption DEF StructInv, Emptied, Spawning, Shape
<1>6. QED
  BY <1>2, <1>4, <1>5 DEF StructInv

\* Every step is one of these, or a packet being posted.
LEMMA StepKinds ==
  ASSUME PoolNext
  PROVE  \/ \E t \in Thread : Inner(t) \/ ActivateThread(t) \/ RemoveSelf(t)
         \/ \E t, new \in Thread : PushThread(t, new)
         \/ OwnerOnly \/ SpawnActivate \/ \E new \in Thread : SpawnPush(new)
         \/ \E p \in Packet : Post(p)
BY Zenon DEF PoolNext, ThreadStep, OwnerStep, Inner, OwnerOnly

LEMMA StructStep ==
  ASSUME StructInv, [PoolNext]_poolVars
  PROVE  StructInv'
<1>1. CASE UNCHANGED poolVars
  BY <1>1 DEF poolVars, locals, StructInv, Shape, Listed, Children, Emptied, Spawning
<1>2. ASSUME NEW p \in Packet, Post(p) PROVE StructInv'
  BY <1>2 DEF Post, locals, StructInv, Shape, Listed, Children, Emptied, Spawning
<1>3. ASSUME NEW t \in Thread, Inner(t) PROVE StructInv'
  BY <1>3, InnerMoves, QuietMove DEF InnerMove
<1>4. QED
  BY <1>1, <1>2, <1>3, StepKinds, PushKeeps, ActivateKeeps, RemoveKeeps, OwnerKeeps,
     SpawnPushKeeps, SpawnActivateKeeps

LEMMA StructInit == PoolInit => StructInv
BY PoolAssumption
DEF PoolInit, StructInv, Shape, Listed, Children, Emptied, Spawning, ThreadPCs, OwnerPCs

THEOREM StructHolds == PoolSpec => []StructInv
BY StructInit, StructStep, PTL DEF PoolSpec

\* When InternalFinalize has seen the list empty, no thread is inside the
\* pool's code: a thread enters the list before it runs and leaves it last,
\* and only a listed thread or the owner's Initialize creates another.
THEOREM NobodyIsLeft == PoolSpec => []NobodyLeft
<1>1. StructInv => NobodyLeft
  BY DEF StructInv, Listed, Emptied, NobodyLeft
<1>2. QED
  BY <1>1, StructHolds, PTL

-----------------------------------------------------------------------------
(* The counters.                                                           *)

Count(f, S) == Cardinality({t \in Thread : f[t] \in S})

\* Resumed threads that have not left the list: nActiveCount counts them.
RunningAt == ThreadPCs \ {"none", "suspended"}

CountInv ==
  /\ nActive = Count(pc, RunningAt)
  /\ nBusy = Count(pc, BusyAt)
  /\ Count(pc, {"suspended"})
       = Count(pc, {"activate"}) + (IF owner.pc = "spawned" THEN 1 ELSE 0)
  /\ nActive + Count(pc, StartingAt) + owner.left <= ActiveLimit

\* Moving one thread changes a count by what the thread's places say.
LEMMA CountMove ==
  ASSUME NEW f \in [Thread -> ThreadPCs], NEW t \in Thread, NEW s \in ThreadPCs, NEW S
  PROVE  LET g == [f EXCEPT ![t] = s] IN
         /\ Count(f, S) \in Nat /\ Count(g, S) \in Nat
         /\ (f[t] \in S <=> s \in S) => Count(g, S) = Count(f, S)
         /\ f[t] \notin S /\ s \in S => Count(g, S) = Count(f, S) + 1
         /\ f[t] \in S /\ s \notin S => Count(g, S) = Count(f, S) - 1
<1> DEFINE g == [f EXCEPT ![t] = s]
           A == {u \in Thread : f[u] \in S}
           B == {u \in Thread : g[u] \in S}
<1>1. IsFiniteSet(A) /\ IsFiniteSet(B) /\ Count(f, S) = Cardinality(A) /\ Count(g, S) = Cardinality(B)
  BY FS_Subset, PoolAssumption DEF Count
<1>2. Cardinality(A) \in Nat /\ Cardinality(B) \in Nat
  BY <1>1, FS_CardinalityType
<1>3. ASSUME f[t] \in S <=> s \in S PROVE A = B
  BY <1>3
<1>4. ASSUME f[t] \notin S, s \in S PROVE Cardinality(B) = Cardinality(A) + 1
  <2>1. B = A \union {t} /\ t \notin A
    BY <1>4
  <2>2. QED
    BY <1>1, <2>1, FS_AddElement
<1>5. ASSUME f[t] \in S, s \notin S PROVE Cardinality(B) = Cardinality(A) - 1
  <2>1. B = A \ {t} /\ t \in A
    BY <1>5
  <2>2. QED
    BY <1>1, <2>1, FS_RemoveElement
<1>6. QED
  BY <1>1, <1>2, <1>3, <1>4, <1>5

\* The same for every set of places at once, for a step that moves t to s.
Moved(f, g, x, y) ==
  \A S : /\ Count(f, S) \in Nat /\ Count(g, S) \in Nat
         /\ (x \in S <=> y \in S) => Count(g, S) = Count(f, S)
         /\ x \notin S /\ y \in S => Count(g, S) = Count(f, S) + 1
         /\ x \in S /\ y \notin S => Count(g, S) = Count(f, S) - 1

LEMMA CountsMove ==
  ASSUME NEW f \in [Thread -> ThreadPCs], NEW t \in Thread, NEW s \in ThreadPCs
  PROVE  Moved(f, [f EXCEPT ![t] = s], f[t], s)
BY CountMove DEF Moved

\* One set of places inside another.
LEMMA CountSubset ==
  ASSUME NEW f \in [Thread -> ThreadPCs], NEW S, NEW T,
         \A u \in Thread : f[u] \in S => f[u] \in T
  PROVE  Count(f, S) <= Count(f, T)
<1>1. {u \in Thread : f[u] \in S} \subseteq {u \in Thread : f[u] \in T}
  OBVIOUS
<1>2. QED
  BY <1>1, FS_Subset, PoolAssumption DEF Count

LEMMA LimitType == ActiveLimit \in Nat /\ MinThreads <= ActiveLimit
BY PoolAssumption DEF ActiveLimit

LEMMA CountTypes ==
  ASSUME Shape
  PROVE  \A S : Count(pc, S) \in Nat
<1>1. ASSUME NEW S PROVE Count(pc, S) \in Nat
  BY FS_Subset, FS_CardinalityType, PoolAssumption DEF Count
<1>2. QED
  BY <1>1

LEMMA InnerCounts ==
  ASSUME StructInv, CountInv, NEW t \in Thread, Inner(t)
  PROVE  CountInv'
<1>1. PICK s \in ThreadPCs : InnerMove(t, s)
  BY InnerMoves
<1>2. pc \in [Thread -> ThreadPCs] /\ pc' = [pc EXCEPT ![t] = s] /\ owner' = owner
      /\ owner.left \in Nat /\ owner.left <= MinThreads
  BY <1>1 DEF StructInv, Shape, Spawning, InnerMove, Goto
<1>3. Moved(pc, pc', pc[t], s)
  BY <1>2, CountsMove
<1>4. nActive' = Count(pc', RunningAt)
  <2>1. pc[t] \in RunningAt /\ s \in RunningAt
    BY <1>1, <1>2 DEF InnerMove, RunningAt, Still
  <2>2. QED
    BY <1>1, <1>3, <2>1 DEF CountInv, InnerMove, Moved
<1>5. nBusy' = Count(pc', BusyAt)
  BY <1>1, <1>3 DEF CountInv, InnerMove, Moved
<1>6. /\ Count(pc', {"suspended"}) = Count(pc, {"suspended"})
      /\ Count(pc', {"activate"}) = Count(pc, {"activate"})
  <2>1. /\ pc[t] \notin {"suspended"} /\ s \notin {"suspended"}
        /\ pc[t] \notin {"activate"} /\ s \notin {"activate"}
    BY <1>1 DEF InnerMove, Still
  <2>2. QED
    BY <1>3, <2>1 DEF Moved
<1>7. nActive' + Count(pc', StartingAt) + owner.left <= ActiveLimit
  <2>1. nActive \in Nat /\ Count(pc, StartingAt) \in Nat
    BY CountTypes DEF StructInv, CountInv
  <2>2. CASE s \in StartingAt /\ pc[t] \notin StartingAt
    <3>1. pc[t] = "count" /\ nActive < MaxThreads /\ nActive' = nActive
      BY <1>1, <2>2 DEF InnerMove
    <3>2. pc'[t] \in RunningAt /\ Count(pc', StartingAt) <= Count(pc', RunningAt)
      <4>1. pc' \in [Thread -> ThreadPCs] /\ pc'[t] = s
        BY <1>2
      <4>2. StartingAt \subseteq RunningAt
        BY DEF StartingAt, RunningAt, ThreadPCs, BusyAt
      <4>3. QED
        BY <2>2, <4>1, <4>2, CountSubset
    <3>3. nActive > 0
      <4>1. {u \in Thread : pc'[u] \in RunningAt} # {}
        BY <3>2
      <4>2. IsFiniteSet({u \in Thread : pc'[u] \in RunningAt})
        BY FS_Subset, PoolAssumption
      <4>3. Count(pc', RunningAt) # 0
        BY <4>1, <4>2, FS_EmptySet DEF Count
      <4>4. QED
        BY <1>4, <2>1, <3>1, <4>3
    <3>4. owner.left # MinThreads
      <4>1. t \in cList /\ (owner.pc = "spawned" => pc[owner.child] = "suspended")
        BY <3>1 DEF StructInv, Listed, Children
      <4>2. QED
        BY <3>1, <4>1 DEF StructInv, Spawning
    <3>5. Count(pc', StartingAt) \in Nat
      BY <1>3 DEF Moved
    <3>6. QED
      BY <1>2, <1>4, <2>1, <3>1, <3>2, <3>3, <3>4, <3>5, PoolAssumption DEF ActiveLimit
  <2>3. CASE ~(s \in StartingAt /\ pc[t] \notin StartingAt)
    <3>1. Count(pc', StartingAt) \in Nat /\ Count(pc', StartingAt) <= Count(pc, StartingAt)
      BY <1>3, <2>1, <2>3 DEF Moved
    <3>2. QED
      BY <1>1, <1>2, <2>1, <3>1, LimitType DEF CountInv, InnerMove
  <2>4. QED
    BY <2>2, <2>3
<1>8. QED
  BY <1>2, <1>4, <1>5, <1>6, <1>7 DEF CountInv

\* What a place counts for, so that the steps below can cite it.
LEMMA Places ==
  /\ \A x \in {"create", "activate", "run", "exit", "top"} : x \in RunningAt
  /\ "none" \notin RunningAt /\ "suspended" \notin RunningAt
  /\ \A x \in {"create", "activate", "run"} : x \in BusyAt
  /\ \A x \in {"none", "suspended", "exit", "top"} : x \notin BusyAt
  /\ "create" \in StartingAt /\ "activate" \in StartingAt
  /\ \A x \in {"none", "suspended", "run", "exit", "top"} : x \notin StartingAt
  /\ \A x \in {"none", "suspended", "create", "activate", "run", "exit", "top"} : x \in ThreadPCs
BY DEF RunningAt, BusyAt, StartingAt, ThreadPCs

LEMMA PushCounts ==
  ASSUME StructInv, CountInv, NEW t \in Thread, NEW new \in Thread, PushThread(t, new)
  PROVE  CountInv'
<1> DEFINE g == [pc EXCEPT ![t] = "activate"]
<1>1. /\ pc[t] = "create" /\ pc[new] = "none" /\ pc \in [Thread -> ThreadPCs]
      /\ g \in [Thread -> ThreadPCs] /\ g[new] = "none"
      /\ pc' = [g EXCEPT ![new] = "suspended"]
      /\ UNCHANGED <<nActive, nBusy, owner>>
  BY Places DEF PushThread, StructInv, Shape, counters
<1>2. Moved(pc, g, "create", "activate")
  BY <1>1, CountsMove, Places
<1>3. Moved(g, pc', "none", "suspended")
  BY <1>1, CountsMove, Places
<1> HIDE DEF g
<1>4. /\ Count(pc', RunningAt) = Count(pc, RunningAt)
      /\ Count(pc', BusyAt) = Count(pc, BusyAt)
      /\ Count(pc', StartingAt) = Count(pc, StartingAt)
  BY <1>2, <1>3, Places DEF Moved
<1>5. /\ Count(pc', {"suspended"}) = Count(pc, {"suspended"}) + 1
      /\ Count(pc', {"activate"}) = Count(pc, {"activate"}) + 1
      /\ Count(pc, {"activate"}) \in Nat
  BY <1>2, <1>3 DEF Moved
<1>6. QED
  BY <1>1, <1>4, <1>5 DEF CountInv

LEMMA ActivateCounts ==
  ASSUME StructInv, CountInv, NEW t \in Thread, ActivateThread(t)
  PROVE  CountInv'
<1> DEFINE g == [pc EXCEPT ![t] = "run"]
<1>1. /\ pc[t] = "activate" /\ pc \in [Thread -> ThreadPCs]
      /\ child[t] \in Thread /\ pc[child[t]] = "suspended"
      /\ g \in [Thread -> ThreadPCs] /\ g[child[t]] = "suspended"
      /\ pc' = [g EXCEPT ![child[t]] = "top"]
      /\ nActive' = nActive + 1 /\ UNCHANGED <<nBusy, owner>>
  BY Places DEF ActivateThread, StructInv, Shape, Children
<1>2. Moved(pc, g, "activate", "run")
  BY <1>1, CountsMove, Places
<1>3. Moved(g, pc', "suspended", "top")
  BY <1>1, CountsMove, Places
<1> HIDE DEF g
<1>4. /\ Count(pc', RunningAt) = Count(pc, RunningAt) + 1
      /\ Count(pc', BusyAt) = Count(pc, BusyAt)
      /\ Count(pc', StartingAt) = Count(pc, StartingAt) - 1
      /\ Count(pc, RunningAt) \in Nat /\ Count(pc, StartingAt) \in Nat
  BY <1>2, <1>3, Places DEF Moved
<1>5. /\ Count(pc', {"suspended"}) = Count(pc, {"suspended"}) - 1
      /\ Count(pc', {"activate"}) = Count(pc, {"activate"}) - 1
      /\ Count(pc, {"activate"}) \in Nat
  BY <1>2, <1>3 DEF Moved
<1>6. owner.left \in Nat /\ ActiveLimit \in Nat
  BY LimitType DEF StructInv, Shape
<1>7. QED
  BY <1>1, <1>4, <1>5, <1>6 DEF CountInv

LEMMA RemoveCounts ==
  ASSUME StructInv, CountInv, NEW t \in Thread, RemoveSelf(t)
  PROVE  CountInv'
<1>1. /\ pc[t] = "exit" /\ pc \in [Thread -> ThreadPCs]
      /\ pc' = [pc EXCEPT ![t] = "none"]
      /\ nActive' = nActive - 1 /\ UNCHANGED <<nBusy, owner>>
  BY DEF RemoveSelf, Goto, StructInv, Shape
<1>2. Moved(pc, pc', "exit", "none")
  BY <1>1, CountsMove, Places
<1>3. /\ Count(pc', RunningAt) = Count(pc, RunningAt) - 1
      /\ Count(pc', BusyAt) = Count(pc, BusyAt)
      /\ Count(pc', StartingAt) = Count(pc, StartingAt)
      /\ Count(pc, RunningAt) \in Nat /\ Count(pc, StartingAt) \in Nat
  BY <1>2, Places DEF Moved
<1>4. /\ Count(pc', {"suspended"}) = Count(pc, {"suspended"})
      /\ Count(pc', {"activate"}) = Count(pc, {"activate"})
  BY <1>2 DEF Moved
<1>5. owner.left \in Nat /\ ActiveLimit \in Nat
  BY LimitType DEF StructInv, Shape
<1>6. QED
  BY <1>1, <1>3, <1>4, <1>5 DEF CountInv

\* With an empty list every count is zero already: ZeroCounters changes
\* nothing, and Initialize starts from nothing.
LEMMA NoneCounted ==
  ASSUME StructInv, CountInv, cList = {}
  PROVE  nActive = 0 /\ nBusy = 0 /\ Count(pc, StartingAt) = 0
<1>1. \A t \in Thread : pc[t] = "none"
  BY DEF StructInv, Listed
<1>2. ASSUME NEW S, "none" \notin S PROVE Count(pc, S) = 0
  <2>1. {t \in Thread : pc[t] \in S} = {}
    BY <1>1, <1>2
  <2>2. QED
    BY <2>1, FS_EmptySet DEF Count
<1>3. QED
  BY <1>2, Places DEF CountInv

LEMMA OwnerCounts ==
  ASSUME StructInv, CountInv, OwnerOnly
  PROVE  CountInv'
<1>1. UNCHANGED <<pc, child, cList>>
  BY OwnerMoves DEF StructInv
<1>2. PICK p \in OwnerPCs \ {"spawned"}, g \in {"init", "down"}, l \in Nat : OwnerMove(p, g, l)
  BY OwnerMoves DEF StructInv
<1>3. owner'.pc = p /\ owner'.left = l /\ owner.left \in Nat
  BY <1>2 DEF StructInv, Shape, OwnerMove
<1>4. owner.pc # "spawned"
  BY DEF OwnerOnly, PoolInitialize, PoolFinalize, BeginInternalFinalize, MarkShuttingDown,
     PostPoisons, SeeNoThreads, CloseIocp, ZeroCounters, OpenIocp, InitializeFails, InitializeDone
<1>5. UNCHANGED <<nActive, nBusy>>
  <2>1. CASE ZeroCounters
    BY <2>1, NoneCounted DEF ZeroCounters, StructInv, Emptied
  <2>2. CASE ~ZeroCounters
    BY <2>2
    DEF OwnerOnly, PoolInitialize, PoolFinalize, BeginInternalFinalize, MarkShuttingDown,
       PostPoisons, SeeNoThreads, CloseIocp, OpenIocp, InitializeFails, InitializeDone, counters
  <2>3. QED
    BY <2>1, <2>2
<1>6. nActive + Count(pc, StartingAt) + l <= ActiveLimit
  <2>1. nActive \in Nat /\ Count(pc, StartingAt) \in Nat
    BY CountTypes DEF StructInv, CountInv
  <2>2. CASE l <= owner.left
    BY <1>3, <2>1, <2>2, LimitType DEF CountInv
  <2>3. CASE l = MinThreads /\ owner.pc = "open"
    BY <2>3, NoneCounted, LimitType, PoolAssumption DEF StructInv, Emptied
  <2>4. QED
    BY <1>2, <1>3, <2>2, <2>3 DEF OwnerMove
<1>7. QED
  BY <1>1, <1>2, <1>3, <1>4, <1>5, <1>6 DEF CountInv

LEMMA SpawnPushCounts ==
  ASSUME StructInv, CountInv, NEW new \in Thread, SpawnPush(new)
  PROVE  CountInv'
<1>1. /\ pc[new] = "none" /\ owner.pc = "spawn" /\ pc \in [Thread -> ThreadPCs]
      /\ pc' = [pc EXCEPT ![new] = "suspended"]
      /\ owner'.pc = "spawned" /\ owner'.left = owner.left
      /\ UNCHANGED <<nActive, nBusy>>
  BY DEF SpawnPush, StructInv, Shape, counters
<1>2. Moved(pc, pc', "none", "suspended")
  BY <1>1, CountsMove, Places
<1>3. /\ Count(pc', RunningAt) = Count(pc, RunningAt)
      /\ Count(pc', BusyAt) = Count(pc, BusyAt)
      /\ Count(pc', StartingAt) = Count(pc, StartingAt)
  BY <1>2, Places DEF Moved
<1>4. /\ Count(pc', {"suspended"}) = Count(pc, {"suspended"}) + 1
      /\ Count(pc', {"activate"}) = Count(pc, {"activate"})
      /\ Count(pc, {"activate"}) \in Nat
  BY <1>2 DEF Moved
<1>5. QED
  BY <1>1, <1>3, <1>4 DEF CountInv

LEMMA SpawnActivateCounts ==
  ASSUME StructInv, CountInv, SpawnActivate
  PROVE  CountInv'
<1>1. /\ owner.pc = "spawned" /\ owner.child \in Thread /\ pc[owner.child] = "suspended"
      /\ pc \in [Thread -> ThreadPCs]
      /\ pc' = [pc EXCEPT ![owner.child] = "top"]
      /\ owner'.pc = "spawn" /\ owner'.left = owner.left - 1 /\ owner.left \in Nat
      /\ nActive' = nActive + 1 /\ nBusy' = nBusy
  BY DEF SpawnActivate, StructInv, Shape, Children
<1>2. Moved(pc, pc', "suspended", "top")
  BY <1>1, CountsMove, Places
<1>3. /\ Count(pc', RunningAt) = Count(pc, RunningAt) + 1
      /\ Count(pc', BusyAt) = Count(pc, BusyAt)
      /\ Count(pc', StartingAt) = Count(pc, StartingAt)
      /\ Count(pc, RunningAt) \in Nat /\ Count(pc, StartingAt) \in Nat
  BY <1>2, Places DEF Moved
<1>4. /\ Count(pc', {"suspended"}) = Count(pc, {"suspended"}) - 1
      /\ Count(pc', {"activate"}) = Count(pc, {"activate"})
      /\ Count(pc, {"activate"}) \in Nat
  BY <1>2 DEF Moved
<1>5. QED
  BY <1>1, <1>3, <1>4, LimitType DEF CountInv

LEMMA CountStep ==
  ASSUME StructInv, CountInv, [PoolNext]_poolVars
  PROVE  CountInv'
<1>1. CASE UNCHANGED poolVars
  BY <1>1 DEF poolVars, counters, CountInv
<1>2. ASSUME NEW p \in Packet, Post(p) PROVE CountInv'
  BY <1>2 DEF Post, counters, CountInv
<1>3. QED
  BY <1>1, <1>2, StepKinds, InnerCounts, PushCounts, ActivateCounts, RemoveCounts, OwnerCounts,
     SpawnPushCounts, SpawnActivateCounts

LEMMA CountInit == PoolInit => CountInv
<1> SUFFICES ASSUME PoolInit PROVE CountInv
  OBVIOUS
<1>1. \A t \in Thread : pc[t] = "none"
  BY DEF PoolInit
<1>2. ASSUME NEW S, "none" \notin S PROVE Count(pc, S) = 0
  <2>1. {t \in Thread : pc[t] \in S} = {}
    BY <1>1, <1>2
  <2>2. QED
    BY <2>1, FS_EmptySet DEF Count
<1>3. Count(pc, {"suspended"}) = 0 /\ Count(pc, {"activate"}) = 0
  BY <1>2
<1>4. QED
  BY <1>2, <1>3, Places, LimitType DEF PoolInit, CountInv

THEOREM CountsHold == PoolSpec => []CountInv
BY StructHolds, CountInit, CountStep, PTL DEF PoolSpec

\* However many threads pass the test of dwMaxThreadsCount together, the pool
\* stays within ActiveLimit.
THEOREM ActiveIsBounded == PoolSpec => []ActiveBounded
<1>1. StructInv /\ CountInv => ActiveBounded
  BY DEF CountInv, ActiveBounded, Starting, StartingAt, Count
<1>2. QED
  BY <1>1, StructHolds, CountsHold, PTL

\* nActiveCount and nBusyCount are what their names say, at every step.
THEOREM CountersAreExact == PoolSpec => []CountersExact
<1>1. ASSUME StructInv, CountInv PROVE CountersExact
  <2> DEFINE R == {t \in Thread : pc[t] \in RunningAt}
             S == {t \in Thread : pc[t] \in {"suspended"}}
  <2>1. cList = R \union S /\ R \cap S = {}
    BY <1>1 DEF StructInv, Shape, Listed, RunningAt
  <2>2. IsFiniteSet(R) /\ IsFiniteSet(S)
    <3>1. R \in SUBSET Thread /\ S \in SUBSET Thread
      OBVIOUS
    <3>2. QED
      BY <3>1, FS_Subset, PoolAssumption
  <2>3. Cardinality(cList) = Cardinality(R) + Cardinality(S)
    <3> HIDE DEF R, S
    <3>1. Cardinality(R) \in Nat /\ Cardinality(S) \in Nat /\ Cardinality({}) = 0
      BY <2>2, FS_CardinalityType, FS_EmptySet
    <3>2. Cardinality(R \union S) = Cardinality(R) + Cardinality(S) - Cardinality(R \cap S)
      BY <2>2, FS_Union
    <3>3. Cardinality(R \cap S) = 0 /\ Cardinality(cList) = Cardinality(R \union S)
      BY <2>1, <3>1, Zenon
    <3>4. QED
      BY <3>1, <3>2, <3>3
  <2>4. {t \in Thread : pc[t] = "activate"} = {t \in Thread : pc[t] \in {"activate"}}
    OBVIOUS
  <2>5. Count(pc, {"activate"}) \in Nat /\ Count(pc, RunningAt) \in Nat
    BY <1>1, CountTypes DEF StructInv
  <2>6. QED
    BY <1>1, <2>3, <2>4, <2>5 DEF CountInv, CountersExact, Count
<1>2. QED
  BY <1>1, StructHolds, CountsHold, PTL

-----------------------------------------------------------------------------
(* The minimum of threads.  While the pool is open no key-0 packet is      *)
(* about, so the only threads that leave are those that time out, and only *)
(* a thread that was started under load does.                              *)

Serving == owner.pc \in {"open", "spawn", "spawned", "up"}

LocalTypes ==
  /\ queue \in Seq(Packet \union {Poison})
  /\ canExit \in [Thread -> BOOLEAN] /\ timed \in [Thread -> BOOLEAN]
  /\ item = [t \in Thread |-> item[t]]

\* A thread that has a time-out, or has used it up, may leave.
TimeOuts ==
  /\ \A t \in Thread : timed[t] => pc[t] = "get" /\ canExit[t]
  /\ \A t \in Thread : pc[t] \in {"compare", "idle", "decide"} => canExit[t]

\* Closing the port discards the key-0 packets that no thread has taken.
NoPoison ==
  /\ \A t \in Thread : item[t] = Poison => pc[t] \in BusyAt \union {"inc"}
  /\ owner.pc \in {"zero", "open"} => queue = <<>> /\ ~iocp
  /\ Serving => /\ \A i \in 1..Len(queue) : queue[i] # Poison
                /\ \A t \in Thread : item[t] # Poison
                /\ \A t \in Thread : pc[t] = "exit" => canExit[t]

LeaveInv == LocalTypes /\ TimeOuts /\ NoPoison

LEMMA LeaveInit == PoolInit => LeaveInv
<1>1. SUFFICES ASSUME PoolInit PROVE LeaveInv
  OBVIOUS
<1>2. LocalTypes
  BY <1>1 DEF PoolInit, LocalTypes
<1>3. TimeOuts /\ NoPoison
  BY <1>1, PoolAssumption DEF PoolInit, TimeOuts, NoPoison, Serving
<1>4. QED
  BY <1>2, <1>3 DEF LeaveInv

\* Steps of one thread that touch neither its time-out nor its packet.
LEMMA PlainLeave ==
  ASSUME StructInv, LeaveInv, NEW t \in Thread,
         \/ ReadActive(t) \/ IdleReadActive(t) \/ IdleDecide(t)
         \/ IncBusy(t) \/ CheckShuttingDown(t) \/ CheckAllBusy(t)
         \/ StartReadBusy(t) \/ StartReadActive(t) \/ PushFails(t)
         \/ FinishPacket(t) \/ SeePoison(t) \/ GetTimeout(t) \/ ChooseTimeout(t)
  PROVE  LeaveInv'
<1>1. pc \in [Thread -> ThreadPCs]
  BY DEF StructInv, Shape
<1>2. UNCHANGED <<queue, iocp, item, canExit, owner>>
  BY DEF ReadActive, IdleReadActive, IdleDecide, IncBusy, CheckShuttingDown, CheckAllBusy, StartReadBusy,
         StartReadActive, PushFails, FinishPacket, SeePoison, GetTimeout, ChooseTimeout, port, locals
<1>3. LocalTypes' /\ TimeOuts'
  <2>1. CASE ReadActive(t) \/ IdleReadActive(t) \/ IdleDecide(t)
    BY <1>1, <1>2, <2>1 DEF ReadActive, IdleReadActive, IdleDecide, Goto, LeaveInv, LocalTypes, TimeOuts
  <2>2. CASE IncBusy(t) \/ CheckShuttingDown(t) \/ CheckAllBusy(t)
    BY <1>1, <1>2, <2>2 DEF IncBusy, CheckShuttingDown, CheckAllBusy, Goto, LeaveInv, LocalTypes, TimeOuts
  <2>3. CASE \/ StartReadBusy(t) \/ StartReadActive(t) \/ PushFails(t) \/ FinishPacket(t) \/ SeePoison(t)
    BY <1>1, <1>2, <2>3
       DEF StartReadBusy, StartReadActive, PushFails, FinishPacket, SeePoison, Goto, locals, LeaveInv,
           LocalTypes, TimeOuts
  <2>4. CASE GetTimeout(t)
    BY <1>1, <1>2, <2>4 DEF GetTimeout, Goto, LeaveInv, LocalTypes, TimeOuts
  <2>5. CASE ChooseTimeout(t)
    BY <1>1, <1>2, <2>5 DEF ChooseTimeout, Goto, LeaveInv, LocalTypes, TimeOuts
  <2>6. QED
    BY <2>1, <2>2, <2>3, <2>4, <2>5
<1>4. \A u \in Thread : pc[u] \in BusyAt \union {"inc"} /\ item[u] = Poison => pc'[u] \in BusyAt \union {"inc"}
  BY <1>1 DEF ReadActive, IdleReadActive, IdleDecide, IncBusy, CheckShuttingDown, CheckAllBusy, StartReadBusy,
         StartReadActive, PushFails, FinishPacket, SeePoison, GetTimeout, ChooseTimeout, Goto, BusyAt
<1>5. \A u \in Thread : pc'[u] = "exit" => pc[u] \in {"exit", "decide"}
  BY <1>1 DEF ReadActive, IdleReadActive, IdleDecide, IncBusy, CheckShuttingDown, CheckAllBusy, StartReadBusy,
         StartReadActive, PushFails, FinishPacket, SeePoison, GetTimeout, ChooseTimeout, Goto
<1>6. NoPoison'
  BY <1>2, <1>4, <1>5 DEF LeaveInv, TimeOuts, NoPoison, Serving
<1>7. QED
  BY <1>3, <1>6 DEF LeaveInv

LEMMA GetLeave ==
  ASSUME StructInv, LeaveInv, NEW t \in Thread, Get(t)
  PROVE  LeaveInv'
<1>1. /\ pc[t] = "get" /\ queue # <<>> /\ queue \in Seq(Packet \union {Poison})
      /\ item' = [item EXCEPT ![t] = Head(queue)] /\ queue' = Tail(queue)
      /\ timed' = [timed EXCEPT ![t] = FALSE]
      /\ pc' = [pc EXCEPT ![t] = "inc"] /\ UNCHANGED <<iocp, canExit, owner>>
      /\ pc \in [Thread -> ThreadPCs]
  BY DEF Get, Goto, StructInv, Shape, LeaveInv, LocalTypes
<1>2. LocalTypes' /\ TimeOuts'
  <2>1. Tail(queue) \in Seq(Packet \union {Poison})
    BY <1>1
  <2>2. LocalTypes'
    BY <1>1, <2>1 DEF LeaveInv, LocalTypes
  <2>3. TimeOuts'
    BY <1>1 DEF LeaveInv, LocalTypes, TimeOuts
  <2>4. QED
    BY <2>2, <2>3
<1>3. /\ Len(queue) > 0 /\ Head(queue) = queue[1]
      /\ \A i \in 1..Len(Tail(queue)) : Tail(queue)[i] = queue[i + 1] /\ i + 1 \in 1..Len(queue)
  BY <1>1
<1>4. owner.pc \in {"zero", "open"} => FALSE
  BY <1>1 DEF LeaveInv, NoPoison
<1>5. \A u \in Thread : item'[u] = Poison => pc'[u] \in BusyAt \union {"inc"}
  BY <1>1 DEF LeaveInv, LocalTypes, NoPoison
<1>6. Serving => /\ \A i \in 1..Len(queue') : queue'[i] # Poison
                 /\ \A u \in Thread : item'[u] # Poison
  BY <1>1, <1>3 DEF LeaveInv, LocalTypes, NoPoison
<1>7. NoPoison'
  BY <1>1, <1>4, <1>5, <1>6 DEF LeaveInv, NoPoison, Serving
<1>8. QED
  BY <1>2, <1>7 DEF LeaveInv

LEMMA DecLeave ==
  ASSUME StructInv, LeaveInv, NEW t \in Thread, DecBusy(t)
  PROVE  LeaveInv'
<1>1. /\ pc[t] = "dec" /\ item' = [item EXCEPT ![t] = None]
      /\ pc' = [pc EXCEPT ![t] = IF item[t] = Poison THEN "exit" ELSE "top"]
      /\ UNCHANGED <<queue, iocp, timed, canExit, owner>> /\ pc \in [Thread -> ThreadPCs]
  BY DEF DecBusy, Goto, StructInv, Shape, port
<1>2. LocalTypes' /\ TimeOuts'
  BY <1>1 DEF LeaveInv, LocalTypes, TimeOuts
<1>3. NoPoison'
  BY <1>1, PoolAssumption DEF LeaveInv, LocalTypes, NoPoison, Serving
<1>4. QED
  BY <1>2, <1>3 DEF LeaveInv

\* The steps that create, resume or end a thread.
LEMMA ThreadsLeave ==
  ASSUME StructInv, LeaveInv, NEW t \in Thread, NEW new \in Thread,
         \/ PushThread(t, new) \/ ActivateThread(t) \/ RemoveSelf(t)
         \/ SpawnPush(new) \/ SpawnActivate
  PROVE  LeaveInv'
<1>1. pc \in [Thread -> ThreadPCs] /\ canExit \in [Thread -> BOOLEAN] /\ IdleTimeout \in BOOLEAN
  BY PoolAssumption DEF StructInv, Shape, LeaveInv, LocalTypes
<1>2. UNCHANGED <<queue, iocp, item, timed>>
  BY DEF PushThread, ActivateThread, RemoveSelf, SpawnPush, SpawnActivate, port, locals
<1>3. Serving' => Serving
  BY DEF PushThread, ActivateThread, RemoveSelf, SpawnPush, SpawnActivate, Serving
<1>4. owner'.pc \in {"zero", "open"} => owner.pc \in {"zero", "open"}
  BY DEF PushThread, ActivateThread, RemoveSelf, SpawnPush, SpawnActivate, StructInv, Shape
<1>5. canExit' \in [Thread -> BOOLEAN]
  BY <1>1 DEF PushThread, ActivateThread, RemoveSelf, SpawnPush, SpawnActivate, locals
<1>6. CASE PushThread(t, new) \/ SpawnPush(new)
  <2>1. /\ pc[new] = "none" /\ \A u \in Thread : u # new => canExit'[u] = canExit[u]
        /\ pc'[new] \in Still
        /\ \A u \in Thread : u # new =>
             pc'[u] = pc[u] \/ (pc[u] = "create" /\ pc'[u] = "activate")
    BY <1>1, <1>6 DEF PushThread, SpawnPush, Still
  <2>2. QED
    BY <1>2, <1>3, <1>4, <1>5, <2>1 DEF LeaveInv, LocalTypes, TimeOuts, NoPoison, Still, BusyAt
<1>7. CASE ActivateThread(t) \/ SpawnActivate
  <2>1. PICK c \in Thread :
          /\ pc[c] = "suspended" /\ pc'[c] = "top"
          /\ \A u \in Thread : u # c => pc'[u] = pc[u] \/ (pc[u] = "activate" /\ pc'[u] = "run")
    BY <1>1, <1>7 DEF ActivateThread, SpawnActivate, StructInv, Children
  <2>2. UNCHANGED canExit
    BY <1>7 DEF ActivateThread, SpawnActivate, locals
  <2>3. QED
    BY <1>2, <1>3, <1>4, <2>1, <2>2 DEF LeaveInv, LocalTypes, TimeOuts, NoPoison, BusyAt
<1>8. CASE RemoveSelf(t)
  <2>1. /\ pc[t] = "exit" /\ \A u \in Thread : u # t => canExit'[u] = canExit[u] /\ pc'[u] = pc[u]
        /\ pc'[t] = "none"
    BY <1>1, <1>8 DEF RemoveSelf, Goto
  <2>2. QED
    BY <1>2, <1>3, <1>4, <1>5, <2>1 DEF LeaveInv, LocalTypes, TimeOuts, NoPoison, BusyAt
<1>9. QED
  BY <1>6, <1>7, <1>8

LEMMA OwnerLeave ==
  ASSUME StructInv, LeaveInv, OwnerOnly
  PROVE  LeaveInv'
<1>1. UNCHANGED <<pc, item, timed, canExit>>
  BY DEF OwnerOnly, PoolInitialize, PoolFinalize, BeginInternalFinalize, MarkShuttingDown, PostPoisons,
         SeeNoThreads, CloseIocp, ZeroCounters, OpenIocp, InitializeFails, InitializeDone, locals
<1>2. TimeOuts' /\ (\A t \in Thread : item[t] = Poison => pc[t] \in BusyAt \union {"inc"})'
  BY <1>1 DEF LeaveInv, TimeOuts, NoPoison
<1>3. CASE PostPoisons
  <2>1. queue' = queue \o [i \in 1..Cardinality(cList) |-> Poison] /\ owner' = owner /\ owner.pc = "drain"
    BY <1>3 DEF PostPoisons
  <2>2. Cardinality(cList) \in Nat
    BY FS_Subset, FS_CardinalityType, PoolAssumption DEF StructInv, Shape
  <2>3. [i \in 1..Cardinality(cList) |-> Poison] \in Seq(Packet \union {Poison})
    BY <2>2
  <2>4. queue' \in Seq(Packet \union {Poison})
    BY <2>1, <2>3 DEF LeaveInv, LocalTypes
  <2>5. QED
    BY <1>1, <1>2, <2>1, <2>4 DEF LeaveInv, LocalTypes, NoPoison, Serving
<1>4. CASE CloseIocp
  BY <1>1, <1>2, <1>4 DEF CloseIocp, LeaveInv, LocalTypes, NoPoison, Serving, StructInv, Shape
<1>5. CASE ZeroCounters
  <2>1. owner.pc = "zero" /\ UNCHANGED <<queue, iocp>> /\ owner'.pc \in {"open", "down"}
    BY <1>5 DEF ZeroCounters, port, StructInv, Shape
  <2>2. \A t \in Thread : pc[t] = "none"
    BY <2>1 DEF StructInv, Listed, Emptied
  <2>3. queue = <<>> /\ ~iocp
    BY <2>1 DEF LeaveInv, NoPoison
  <2>4. QED
    BY <1>1, <1>2, <2>1, <2>2, <2>3 DEF LeaveInv, LocalTypes, NoPoison, Serving, BusyAt
<1>6. CASE OpenIocp
  BY <1>1, <1>2, <1>6 DEF OpenIocp, LeaveInv, LocalTypes, NoPoison, Serving, StructInv, Shape
<1>7. CASE \/ PoolInitialize \/ PoolFinalize \/ MarkShuttingDown \/ SeeNoThreads
           \/ InitializeFails \/ InitializeDone
  <2>1. /\ UNCHANGED <<queue, iocp>>
        /\ owner'.pc \in {"mark", "drain", "close"} \/ (owner.pc = "spawn" /\ owner'.pc = "up")
    BY <1>7 DEF PoolInitialize, PoolFinalize, BeginInternalFinalize, MarkShuttingDown, SeeNoThreads,
                InitializeFails, InitializeDone, port, StructInv, Shape
  <2>2. QED
    BY <1>1, <1>2, <2>1 DEF LeaveInv, LocalTypes, NoPoison, Serving
<1>8. QED
  BY <1>3, <1>4, <1>5, <1>6, <1>7 DEF OwnerOnly

LEMMA LeaveStep ==
  ASSUME StructInv, LeaveInv, [PoolNext]_poolVars
  PROVE  LeaveInv'
<1>1. CASE UNCHANGED poolVars
  BY <1>1 DEF poolVars, port, locals, LeaveInv, LocalTypes, TimeOuts, NoPoison, Serving
<1>2. ASSUME NEW p \in Packet, Post(p) PROVE LeaveInv'
  <2>1. /\ iocp /\ queue \in Seq(Packet \union {Poison}) /\ queue' = Append(queue, p) /\ p # Poison
        /\ UNCHANGED <<iocp, pc, owner, canExit, timed, item>>
    BY <1>2, PoolAssumption DEF Post, locals, LeaveInv, LocalTypes
  <2>2. /\ queue' \in Seq(Packet \union {Poison}) /\ Len(queue') = Len(queue) + 1
        /\ \A i \in 1..Len(queue') : queue'[i] = IF i = Len(queue) + 1 THEN p ELSE queue[i]
    BY <2>1
  <2>3. owner.pc \notin {"zero", "open"}
    BY <2>1 DEF LeaveInv, NoPoison
  <2>4. LocalTypes' /\ TimeOuts'
    BY <2>1, <2>2 DEF LeaveInv, LocalTypes, TimeOuts
  <2>5. Serving => \A i \in 1..Len(queue') : queue'[i] # Poison
    BY <2>1, <2>2 DEF LeaveInv, LocalTypes, NoPoison
  <2>6. NoPoison'
    BY <2>1, <2>3, <2>5 DEF LeaveInv, NoPoison, Serving
  <2>7. QED
    BY <2>4, <2>6 DEF LeaveInv
<1>3. ASSUME NEW t \in Thread, Inner(t) PROVE LeaveInv'
  BY <1>3, PlainLeave, GetLeave, DecLeave DEF Inner
<1>4. ASSUME NEW t \in Thread, ActivateThread(t) \/ RemoveSelf(t) PROVE LeaveInv'
  BY <1>4, ThreadsLeave
<1>5. ASSUME NEW t \in Thread, NEW new \in Thread, PushThread(t, new) PROVE LeaveInv'
  BY <1>5, ThreadsLeave
<1>6. ASSUME NEW new \in Thread, SpawnPush(new) PROVE LeaveInv'
  BY <1>6, ThreadsLeave
<1>7. CASE SpawnActivate
  <2>1. owner.child \in Thread
    BY <1>7 DEF SpawnActivate, StructInv, Children
  <2>2. QED
    BY <1>7, <2>1, ThreadsLeave
<1>8. QED
  BY <1>1, <1>2, <1>3, <1>4, <1>5, <1>6, <1>7, StepKinds, OwnerLeave

\* The listed threads that stay, and those Initialize has yet to start.
Stays == {t \in cList : ~canExit[t]}

StayInv ==
  owner.pc \in {"spawn", "spawned", "up"} =>
    Cardinality(Stays) + owner.left >= MinThreads + (IF owner.pc = "spawned" THEN 1 ELSE 0)

LEMMA StaysGrow ==
  ASSUME NEW S, NEW T, IsFiniteSet(T), S \subseteq T
  PROVE  Cardinality(S) <= Cardinality(T) /\ Cardinality(S) \in Nat /\ Cardinality(T) \in Nat
BY FS_Subset, FS_CardinalityType

LEMMA StayStep ==
  ASSUME StructInv, LeaveInv, StayInv, [PoolNext]_poolVars
  PROVE  StayInv'
<1>1. IsFiniteSet(Stays) /\ Cardinality(Stays) \in Nat /\ owner.left \in Nat /\ MinThreads \in Nat
  BY FS_Subset, FS_CardinalityType, PoolAssumption DEF Stays, StructInv, Shape
<1>2. ASSUME NEW t \in Thread, RemoveSelf(t) PROVE StayInv'
  <2>1. owner' = owner /\ cList' = cList \ {t}
    BY <1>2 DEF RemoveSelf
  <2>2. Serving => Stays' = Stays
    <3>1. Serving => canExit[t]
      BY <1>2 DEF RemoveSelf, LeaveInv, NoPoison
    <3>2. \A u \in Thread : u # t => canExit'[u] = canExit[u]
      BY <1>2 DEF RemoveSelf, LeaveInv, LocalTypes
    <3>3. QED
      BY <2>1, <3>1, <3>2 DEF Stays, StructInv, Shape
  <2>3. QED
    BY <2>1, <2>2 DEF StayInv, Serving
<1>3. ASSUME NEW t \in Thread, NEW new \in Thread, PushThread(t, new) PROVE StayInv'
  <2>1. owner' = owner /\ cList' = cList \union {new} /\ new \notin cList
    BY <1>3 DEF PushThread, StructInv, Listed
  <2>2. \A u \in Thread : u # new => canExit'[u] = canExit[u]
    BY <1>3 DEF PushThread, LeaveInv, LocalTypes
  <2>3. Stays \subseteq Stays'
    BY <2>1, <2>2 DEF Stays, StructInv, Shape
  <2>4. IsFiniteSet(Stays')
    BY <2>1, FS_Subset, PoolAssumption DEF Stays, StructInv, Shape
  <2>5. Cardinality(Stays) <= Cardinality(Stays') /\ Cardinality(Stays') \in Nat
    BY <2>3, <2>4, StaysGrow
  <2>6. QED
    BY <1>1, <2>1, <2>5 DEF StayInv
<1>4. ASSUME NEW new \in Thread, SpawnPush(new) PROVE StayInv'
  <2>1. /\ cList' = cList \union {new} /\ new \notin cList /\ owner.pc = "spawn"
        /\ owner'.pc = "spawned" /\ owner'.left = owner.left
    BY <1>4 DEF SpawnPush, StructInv, Listed, Shape
  <2>2. canExit'[new] = FALSE /\ \A u \in Thread : u # new => canExit'[u] = canExit[u]
    BY <1>4 DEF SpawnPush, LeaveInv, LocalTypes
  <2>3. Stays' = Stays \union {new} /\ new \notin Stays
    BY <2>1, <2>2 DEF Stays, StructInv, Shape
  <2>4. Cardinality(Stays') = Cardinality(Stays) + 1
    BY <1>1, <2>3, FS_AddElement
  <2>5. QED
    BY <1>1, <2>1, <2>4 DEF StayInv
<1>5. CASE SpawnActivate
  <2>1. /\ UNCHANGED <<cList, canExit>> /\ owner.pc = "spawned" /\ owner.left > 0
        /\ owner'.pc = "spawn" /\ owner'.left = owner.left - 1
    BY <1>5 DEF SpawnActivate, locals, StructInv, Shape, Spawning
  <2>2. QED
    BY <1>1, <2>1 DEF StayInv, Stays
<1>6. CASE OwnerOnly
  <2>1. UNCHANGED <<cList, canExit>>
    BY <1>6 DEF OwnerOnly, PoolInitialize, PoolFinalize, BeginInternalFinalize, MarkShuttingDown, PostPoisons,
           SeeNoThreads, CloseIocp, ZeroCounters, OpenIocp, InitializeFails, InitializeDone, locals
  <2>2. CASE OpenIocp
    <3>1. owner'.pc = "spawn" /\ owner'.left = MinThreads
      BY <2>2 DEF OpenIocp, StructInv, Shape
    <3>2. QED
      BY <1>1, <2>1, <3>1 DEF StayInv, Stays
  <2>3. CASE InitializeDone
    <3>1. owner.pc = "spawn" /\ owner'.pc = "up" /\ owner'.left = owner.left
      BY <2>3 DEF InitializeDone, StructInv, Shape
    <3>2. QED
      BY <2>1, <3>1 DEF StayInv, Stays
  <2>4. CASE \/ PoolInitialize \/ PoolFinalize \/ MarkShuttingDown \/ SeeNoThreads
             \/ CloseIocp \/ ZeroCounters \/ InitializeFails
    <3>1. owner'.pc \notin {"spawn", "spawned", "up"}
      BY <2>4 DEF PoolInitialize, PoolFinalize, BeginInternalFinalize, MarkShuttingDown, SeeNoThreads,
                  CloseIocp, ZeroCounters, InitializeFails, StructInv, Shape
    <3>2. QED
      BY <3>1 DEF StayInv
  <2>5. CASE PostPoisons
    BY <2>1, <2>5 DEF PostPoisons, StayInv, Stays
  <2>6. QED
    BY <1>6, <2>2, <2>3, <2>4, <2>5 DEF OwnerOnly
<1>7. ASSUME UNCHANGED <<cList, canExit, owner>> PROVE StayInv'
  BY <1>7 DEF StayInv, Stays
<1>8. ASSUME NEW t \in Thread, Inner(t) \/ ActivateThread(t) PROVE StayInv'
  <2>1. UNCHANGED <<cList, canExit, owner>>
    BY <1>8 DEF Inner, ReadActive, ChooseTimeout, Get, GetTimeout, IdleReadActive, IdleDecide, IncBusy,
                CheckShuttingDown, CheckAllBusy, StartReadBusy, StartReadActive, PushFails, FinishPacket,
                SeePoison, DecBusy, ActivateThread, locals
  <2>2. QED
    BY <1>7, <2>1
<1>9. CASE UNCHANGED poolVars \/ \E p \in Packet : Post(p)
  BY <1>7, <1>9 DEF poolVars, locals, Post
<1>10. QED
  BY <1>2, <1>3, <1>4, <1>5, <1>6, <1>8, <1>9, StepKinds

\* Between Initialize and Finalize the pool keeps its minimum of threads that
\* do not time out: the key-0 packets of an earlier shutdown are gone with the
\* port, and only a thread started under load computes a time-out.
THEOREM MinThreadsAreKept == PoolSpec => []MinThreadsKept
<1>1. StructInv /\ StayInv => MinThreadsKept
  <2>1. SUFFICES ASSUME StructInv, StayInv, owner.pc = "up" PROVE Cardinality(Stays) >= MinThreads
    BY DEF MinThreadsKept, Stays
  <2>2. owner.left = 0
    BY <2>1 DEF StructInv, Shape, Spawning
  <2>3. Cardinality(Stays) \in Nat
    BY <2>1, FS_Subset, FS_CardinalityType, PoolAssumption DEF Stays, StructInv, Shape
  <2>4. QED
    BY <2>1, <2>2, <2>3, PoolAssumption DEF StayInv
<1>2. PoolInit => StayInv
  BY DEF PoolInit, StayInv
<1>3. StructInv /\ LeaveInv /\ [PoolNext]_poolVars => LeaveInv'
  BY LeaveStep
<1>4. StructInv /\ LeaveInv /\ StayInv /\ [PoolNext]_poolVars => StayInv'
  BY StayStep
<1>5. QED
  BY <1>1, <1>2, <1>3, <1>4, LeaveInit, StructHolds, PTL DEF PoolSpec
=============================================================================
