------------------------- MODULE HttpRequestProofs -------------------------
(***************************************************************************)
(* Proofs about HttpRequest.  Each step of a thread goes to a place      *)
(* (ControlStep); from there follow, one after the other, that the       *)
(* connection is paused while the application has the request, that one  *)
(* thread or message has the request at a time, that data which arrived  *)
(* meanwhile is looked at, and that no timer outlives the connection.    *)
(* Last, every variable keeps its type.                                  *)
(***************************************************************************)
EXTENDS HttpRequest, TLAPS, FiniteSetTheorems, SequenceTheorems

(***************************************************************************)
(* Control: the places of a thread, and where a call of Timers takes it. *)
(***************************************************************************)
Workers   == {"reader", "writer"}
Enders    == {"destroyer", "app", "timer"}
TimerWork == {"stop", "clear", "set", "closing"}
Places    == {"idle", "connect", "connected", "loop", "next", "headers_call", "headers",
              "upgrade_call", "upgraded", "completed", "cancelled", "sent", "nested", "signal",
              "fired", "expired", "end", "unlist", "gone"}
Fires     == {"headers", "completed", "upgrade"}
Records   == [stop : SUBSET Kinds, start : SUBSET Kinds, fire : SUBSET Fires,
              failed : BOOLEAN, next : Places \ {"connect"}, inside : BOOLEAN]

ControlOK ==
  /\ pc \in [Threads -> Places \union TimerWork]
  /\ local \in [Threads -> Records]

\* Where p is, or goes once it is done with the timers.
At(p) == IF pc[p] \in TimerWork THEN local[p].next ELSE pc[p]

\* p runs the timers S and T, will call F and goes on at n; nobody else moves.
Moves(p, S, T, F, n) ==
  /\ local' \in [Threads -> Records] /\ pc' \in [Threads -> Places \union TimerWork]
  /\ local'[p].stop = S /\ local'[p].start = T /\ local'[p].fire = F /\ local'[p].next = n
  /\ pc'[p] = (IF S # {} THEN "stop" ELSE IF T # {} THEN "clear" ELSE n)
  /\ \A q \in Threads \ {p} : local'[q] = local[q] /\ pc'[q] = pc[q]

LEMMA TimersMoves ==
  ASSUME ControlOK, NEW p \in Threads, NEW l \in Records, Timers(p, l)
  PROVE  Moves(p, l.stop, l.start, l.fire, l.next)
BY DEF ControlOK, Timers, Goto, AfterStop, Records, Moves, TimerWork

LEMMA MovesAt ==
  ASSUME ControlOK, NEW p \in Threads, NEW S, NEW T, NEW F, NEW n \in Places, Moves(p, S, T, F, n)
  PROVE  /\ At(p)' = n
         /\ \A q \in Threads \ {p} : At(q)' = At(q)
         /\ ControlOK'
BY DEF Moves, At, TimerWork, ControlOK, Places

LEMMA ErrorMoves ==
  ASSUME ControlOK, NEW p \in Workers, OnRequestError(p)
  PROVE  \E T \in SUBSET {"GracefulTermination"} : Moves(p, Kinds, T, {}, "loop")
<1>0. PICK T \in SUBSET {"GracefulTermination"} :
        Timers(p, [local[p] EXCEPT !.stop = Kinds, !.start = T, !.fire = {}, !.next = "loop"])
  BY DEF OnRequestError
<1>a. T \in SUBSET Kinds
  BY DEF Kinds
<1>b. local[p] \in Records
  BY DEF ControlOK, Threads, Workers
<1> DEFINE l == [local[p] EXCEPT !.stop = Kinds, !.start = T, !.fire = {}, !.next = "loop"]
<1>1. l \in Records /\ l.stop = Kinds /\ l.start = T /\ l.fire = {} /\ l.next = "loop"
  BY <1>a, <1>b DEF Records, Places
<1>2. Timers(p, l)
  BY <1>0
<1> HIDE DEF l
<1> QED
  BY <1>1, <1>2, TimersMoves DEF Threads, Workers, Enders

AfterLeave(f) == IF f = {} THEN "idle"
            ELSE IF "headers" \in f THEN "headers_call"
            ELSE IF "upgrade" \in f THEN "upgrade_call" ELSE "completed"

LEMMA LeaveMoves ==
  ASSUME ControlOK, NEW p \in Workers, NEW r \in Records, Leave(p, r)
  PROVE  Moves(p, r.stop, r.start, r.fire, AfterLeave(r.fire))
<1> DEFINE l == [r EXCEPT !.next = AfterLeave(r.fire)]
<1>1. l \in Records /\ l.stop = r.stop /\ l.start = r.start /\ l.fire = r.fire
      /\ l.next = AfterLeave(r.fire)
  BY DEF Records, Kinds, Places, Fires, AfterLeave
<1>2. Timers(p, l)
  BY DEF Leave, AfterLeave
<1> HIDE DEF l
<1> QED
  BY <1>1, <1>2, TimersMoves DEF Threads, Workers, Enders

LEMMA LeaveLoopMoves ==
  ASSUME ControlOK, NEW p \in Workers, LeaveLoop(p)
  PROVE  Moves(p, local[p].stop, local[p].start, local[p].fire, AfterLeave(local[p].fire))
<1> DEFINE r == local[p]
<1>1. r \in Records /\ r = local[p]
  BY DEF Records, Kinds, Fires, ControlOK, Threads, Workers
<1>2. Leave(p, r)
  BY DEF LeaveLoop
<1> HIDE DEF r
<1> QED
  BY <1>1, <1>2, LeaveMoves DEF AfterLeave

LEMMA ParseHeadMoves ==
  ASSUME ControlOK, NEW p \in Workers, ParseHead(p)
  PROVE  Moves(p, Kinds, local[p].start, {"headers"}, "headers_call")
<1> DEFINE r == [local[p] EXCEPT !.stop = Kinds, !.fire = {"headers"}]
<1>1. r \in Records /\ r.stop = Kinds /\ r.start = local[p].start /\ r.fire = {"headers"}
  BY DEF Records, Kinds, Fires, ControlOK, Threads, Workers
<1>2. Leave(p, r)
  BY DEF ParseHead, ParsedBy
<1> HIDE DEF r
<1> QED
  BY <1>1, <1>2, LeaveMoves DEF AfterLeave

LEMMA ParseDoneMoves ==
  ASSUME ControlOK, NEW p \in Workers, NEW F \in SUBSET Fires,
         Leave(p, [local[p] EXCEPT !.stop = Kinds, !.start = {}, !.fire = F])
  PROVE  Moves(p, Kinds, {}, F, AfterLeave(F))
<1> DEFINE r == [local[p] EXCEPT !.stop = Kinds, !.start = {}, !.fire = F]
<1>1. r \in Records /\ r.stop = Kinds /\ r.start = {} /\ r.fire = F
  BY DEF Records, Kinds, ControlOK, Threads, Workers
<1>2. Leave(p, r)
  OBVIOUS
<1> HIDE DEF r
<1> QED
  BY <1>1, <1>2, LeaveMoves

LEMMA RestartMoves ==
  ASSUME ControlOK, NEW p \in Workers, NEW r \in Records, Restart(p, r)
  PROVE  Moves(p, r.stop, r.start, {}, "loop")
<1> DEFINE l == [r EXCEPT !.fire = {}, !.failed = FALSE, !.next = "loop"]
<1>1. l \in Records /\ l.stop = r.stop /\ l.start = r.start /\ l.fire = {} /\ l.next = "loop"
  BY DEF Records, Kinds, Places, Fires, ControlOK, NoLocal, Threads, Workers, Enders
<1>2. Timers(p, l)
  BY DEF Restart
<1> HIDE DEF l
<1> QED
  BY <1>1, <1>2, TimersMoves DEF Threads, Workers, Enders

LEMMA HeadersReturnMoves ==
  ASSUME ControlOK, NEW p \in Workers,
         Restart(p, [local[p] EXCEPT !.start = @ \union {"Throughput"}])
  PROVE  Moves(p, local[p].stop, local[p].start \union {"Throughput"}, {}, "loop")
<1> DEFINE r == [local[p] EXCEPT !.start = @ \union {"Throughput"}]
<1>1. r \in Records /\ r.stop = local[p].stop /\ r.start = local[p].start \union {"Throughput"}
  BY DEF Records, Kinds, ControlOK, Threads, Workers
<1>2. Restart(p, r)
  OBVIOUS
<1> HIDE DEF r
<1> QED
  BY <1>1, <1>2, RestartMoves

LEMMA ConnectMoves ==
  ASSUME ControlOK, OnSocketConnect
  PROVE  Moves("reader", {}, {"Headers", "Throughput"}, {}, "connected")
<1> DEFINE l == [NoLocal EXCEPT !.start = {"Headers", "Throughput"}, !.next = "connected"]
<1>1. l \in Records /\ l.stop = {} /\ l.start = {"Headers", "Throughput"} /\ l.fire = {}
      /\ l.next = "connected"
  BY DEF Records, Kinds, Places, Fires, ControlOK, NoLocal, Threads, Workers, Enders
<1>2. Timers("reader", l)
  BY DEF OnSocketConnect
<1> HIDE DEF l
<1> QED
  BY <1>1, <1>2, TimersMoves DEF Threads, Workers, Enders

LEMMA UpgradeMoves ==
  ASSUME ControlOK, NEW p \in Workers, Timers(p, [NoLocal EXCEPT !.stop = Kinds])
  PROVE  Moves(p, Kinds, {}, {}, "idle")
<1> DEFINE l == [NoLocal EXCEPT !.stop = Kinds]
<1>1. l \in Records /\ l.stop = Kinds /\ l.start = {} /\ l.fire = {} /\ l.next = "idle"
  BY DEF Records, Kinds, Places, Fires, ControlOK, NoLocal, Threads, Workers, Enders
<1>2. Timers(p, l)
  OBVIOUS
<1> HIDE DEF l
<1> QED
  BY <1>1, <1>2, TimersMoves DEF Threads, Workers, Enders

LEMMA SignalMoves ==
  ASSUME ControlOK, SignalFires
  PROVE  Moves("writer", Kinds, {}, {}, "sent")
<1> DEFINE l == [NoLocal EXCEPT !.stop = Kinds, !.next = "sent"]
<1>1. l \in Records /\ l.stop = Kinds /\ l.start = {} /\ l.fire = {} /\ l.next = "sent"
  BY DEF Records, Kinds, Places, Fires, ControlOK, NoLocal, Threads, Workers, Enders
<1>2. Timers("writer", l)
  BY DEF SignalFires
<1> HIDE DEF l
<1> QED
  BY <1>1, <1>2, TimersMoves DEF Threads, Workers, Enders

LEMMA LingerMoves ==
  ASSUME ControlOK, Timers("writer", [NoLocal EXCEPT !.start = {"GracefulTermination"}])
  PROVE  Moves("writer", {}, {"GracefulTermination"}, {}, "idle")
<1> DEFINE l == [NoLocal EXCEPT !.start = {"GracefulTermination"}]
<1>1. l \in Records /\ l.stop = {} /\ l.start = {"GracefulTermination"} /\ l.fire = {}
      /\ l.next = "idle"
  BY DEF Records, Kinds, Places, Fires, ControlOK, NoLocal, Threads, Workers, Enders
<1>2. Timers("writer", l)
  OBVIOUS
<1> HIDE DEF l
<1> QED
  BY <1>1, <1>2, TimersMoves DEF Threads, Workers, Enders

LEMMA ResetMoves ==
  ASSUME ControlOK, ResetForNewRequest
  PROVE  Moves("writer", {}, {"KeepAlive"}, {}, "nested")
<1> DEFINE l == [NoLocal EXCEPT !.start = {"KeepAlive"}, !.next = "nested"]
<1>1. l \in Records /\ l.stop = {} /\ l.start = {"KeepAlive"} /\ l.fire = {} /\ l.next = "nested"
  BY DEF Records, Kinds, Places, Fires, ControlOK, NoLocal, Threads, Workers, Enders
<1>2. Timers("writer", l)
  BY DEF ResetForNewRequest
<1> HIDE DEF l
<1> QED
  BY <1>1, <1>2, TimersMoves DEF Threads, Workers, Enders

LEMMA EndSendsMoves ==
  ASSUME ControlOK, EndSends
  PROVE  Moves("app", Kinds, {"Throughput"}, {}, "signal")
<1> DEFINE l == [NoLocal EXCEPT !.stop = Kinds, !.start = {"Throughput"}, !.next = "signal"]
<1>1. l \in Records /\ l.stop = Kinds /\ l.start = {"Throughput"} /\ l.fire = {}
      /\ l.next = "signal"
  BY DEF Records, Kinds, Places, Fires, ControlOK, NoLocal, Threads, Workers, Enders
<1>2. Timers("app", l)
  BY DEF EndSends
<1> HIDE DEF l
<1> QED
  BY <1>1, <1>2, TimersMoves DEF Threads, Workers, Enders

LEMMA CloseReturnsMoves ==
  ASSUME ControlOK, NEW p \in Enders, CloseReturns(p)
  PROVE  Moves(p, local[p].stop, local[p].start, local[p].fire, local[p].next)
BY TimersMoves DEF CloseReturns, ControlOK, Threads, Enders

LEMMA DestroyMoves ==
  ASSUME ControlOK, NEW p \in Enders, DestroyEnters(p)
  PROVE  Moves(p, Kinds, {}, local[p].fire, "unlist")
<1>a. local[p] \in Records /\ (p # "destroyer") \in BOOLEAN
  BY DEF ControlOK, Threads, Enders
<1> DEFINE l == [local[p] EXCEPT !.stop = Kinds, !.start = {}, !.next = "unlist",
                                    !.inside = (p # "destroyer")]
<1>1. l \in Records /\ l.stop = Kinds /\ l.start = {} /\ l.fire = local[p].fire
      /\ l.next = "unlist"
  BY <1>a DEF Records, Places
<1>2. Timers(p, l)
  BY DEF DestroyEnters
<1> HIDE DEF l
<1> QED
  BY <1>1, <1>2, TimersMoves DEF Threads, Workers, Enders

LeaveStop(p) == IF p = "destroyer" THEN {} ELSE Kinds
LeaveNext(p) == IF p = "timer" THEN "end" ELSE IF p = "app" THEN "idle" ELSE "gone"

LEMMA LeavesMoves ==
  ASSUME ControlOK, NEW p \in Enders, DestroyLeaves(p)
  PROVE  Moves(p, LeaveStop(p), {}, {}, LeaveNext(p))
<1> DEFINE l == [NoLocal EXCEPT !.stop = LeaveStop(p), !.failed = local[p].failed,
                                   !.next = LeaveNext(p)]
<1>1. l \in Records /\ l.stop = LeaveStop(p) /\ l.start = {} /\ l.fire = {}
      /\ l.next = LeaveNext(p)
  BY DEF Records, Kinds, Places, Fires, ControlOK, NoLocal, Threads, Workers, Enders, LeaveStop,
     LeaveNext
<1>2. Timers(p, l)
  BY DEF DestroyLeaves, LeaveStop, LeaveNext
<1> HIDE DEF l
<1> QED
  BY <1>1, <1>2, TimersMoves DEF Threads, Workers, Enders
LEMMA NoLocalRecord == NoLocal \in Records
BY DEF NoLocal, Records, Places

LEMMA ControlStep ==
  ASSUME ControlOK, [Next]_vars
  PROVE  ControlOK'
<1>1. ASSUME NEW p \in Threads, StopTimeoutTimers(p) PROVE ControlOK'
  BY <1>1, NoLocalRecord
     DEF StopTimeoutTimers, Goto, AfterStop, ControlOK, Records, Places, TimerWork, Threads,
         Workers, Kinds
<1>2. ASSUME NEW p \in Threads, StartClears(p) PROVE ControlOK'
  BY <1>2, NoLocalRecord
     DEF StartClears, Goto, AfterStop, ControlOK, Records, Places, TimerWork, Threads, Workers,
         Kinds
<1>3. ASSUME NEW p \in Threads, StartSets(p) PROVE ControlOK'
  BY <1>3, NoLocalRecord
     DEF StartSets, Goto, AfterStop, ControlOK, Records, Places, TimerWork, Threads, Workers,
         Kinds
<1>4. ASSUME NEW p \in Workers, LeaveLoop(p) PROVE ControlOK'
  BY <1>4, LeaveLoopMoves DEF AfterLeave, Moves, ControlOK, Threads, Workers, Enders, Places
<1>5. ASSUME NEW p \in Workers, BeginRequest(p) PROVE ControlOK'
  BY <1>5, NoLocalRecord
     DEF BeginRequest, Goto, AfterStop, ControlOK, Records, Places, TimerWork, Threads, Workers,
         Kinds
<1>6. ASSUME NEW p \in Workers, ParsePart(p) PROVE ControlOK'
  BY <1>6, NoLocalRecord
     DEF ParsePart, Goto, AfterStop, ControlOK, Records, Places, TimerWork, Threads, Workers,
         Kinds
<1>7. ASSUME NEW p \in Workers, ParseHead(p) PROVE ControlOK'
  BY <1>7, ParseHeadMoves DEF Moves, ControlOK, Threads, Workers, Enders, Places
<1>8. ASSUME NEW p \in Workers, ParseDone(p) PROVE ControlOK'
  <2>1. \E F \in SUBSET Fires : Leave(p, [local[p] EXCEPT !.stop = Kinds, !.start = {}, !.fire = F])
    BY <1>8 DEF ParseDone, ParsedBy, Fires
  <2> QED
    BY <2>1, ParseDoneMoves DEF Moves, ControlOK
<1>9. ASSUME NEW p \in Workers, ParseFails(p) PROVE ControlOK'
  BY <1>9, ErrorMoves DEF ParseFails, Moves, ControlOK, Threads, Workers, Enders, Places
<1>10. ASSUME NEW p \in Workers, Refuse(p) PROVE ControlOK'
  BY <1>10, ErrorMoves DEF Refuse, Moves, ControlOK, Threads, Workers, Enders, Places
<1>11. ASSUME NEW p \in Workers, Discard(p) PROVE ControlOK'
  BY <1>11, NoLocalRecord
     DEF Discard, Goto, AfterStop, ControlOK, Records, Places, TimerWork, Threads, Workers,
         Kinds
<1>12. ASSUME NEW p \in Workers, HeadersCallback(p) PROVE ControlOK'
  BY <1>12, NoLocalRecord
     DEF HeadersCallback, Callback, Goto, AfterStop, ControlOK, Records, Places, TimerWork,
         Threads, Workers, Kinds
<1>13. ASSUME NEW p \in Workers, HeadersReturn(p) PROVE ControlOK'
  <2>1. \/ Restart(p, [local[p] EXCEPT !.start = @ \union {"Throughput"}])
        \/ Restart(p, local[p])
        \/ Goto(p, "completed") /\ UNCHANGED local
    BY <1>13 DEF HeadersReturn
  <2>2. local[p] \in Records
    BY DEF ControlOK, Threads, Workers
  <2> QED
    BY <2>1, <2>2, HeadersReturnMoves, RestartMoves DEF Goto, Moves, ControlOK, Places
<1>14. ASSUME NEW p \in Workers, HeadersFailed(p) PROVE ControlOK'
  BY <1>14, ErrorMoves DEF HeadersFailed, Moves, ControlOK, Threads, Workers, Enders, Places
<1>15. ASSUME NEW p \in Workers, CompletedCallback(p) PROVE ControlOK'
  BY <1>15, NoLocalRecord
     DEF CompletedCallback, Goto, AfterStop, ControlOK, Records, Places, TimerWork, Threads,
         Workers, Kinds
<1>16. ASSUME NEW p \in Workers, CompletedCancelled(p) PROVE ControlOK'
  BY <1>16, ErrorMoves
     DEF CompletedCancelled, Moves, ControlOK, Threads, Workers, Enders, Places
<1>17. ASSUME NEW p \in Workers, UpgradeCallback(p) PROVE ControlOK'
  BY <1>17, NoLocalRecord
     DEF UpgradeCallback, Callback, Goto, AfterStop, ControlOK, Records, Places, TimerWork,
         Threads, Workers, Kinds
<1>18. ASSUME NEW p \in Workers, UpgradeReturn(p) PROVE ControlOK'
  BY <1>18, UpgradeMoves
     DEF UpgradeReturn, Goto, Moves, ControlOK, Threads, Workers, Enders, Places
<1>19. ASSUME NEW p \in Workers, UpgradeFailed(p) PROVE ControlOK'
  BY <1>19, ErrorMoves DEF UpgradeFailed, Moves, ControlOK, Threads, Workers, Enders, Places
<1>20. ASSUME ConnectRefused PROVE ControlOK'
  BY <1>20, NoLocalRecord
     DEF ConnectRefused, Goto, AfterStop, ControlOK, Records, Places, TimerWork, Threads,
         Workers, Kinds
<1>21. ASSUME OnSocketConnect PROVE ControlOK'
  BY <1>21, ConnectMoves DEF Moves, ControlOK, Threads, Workers, Enders, Places
<1>22. ASSUME Connected PROVE ControlOK'
  BY <1>22, NoLocalRecord
     DEF Connected, Goto, AfterStop, ControlOK, Records, Places, TimerWork, Threads, Workers,
         Kinds
<1>23. ASSUME DataArrives PROVE ControlOK'
  BY <1>23, NoLocalRecord
     DEF DataArrives, Goto, AfterStop, ControlOK, Records, Places, TimerWork, Threads, Workers,
         Kinds
<1>24. ASSUME SignalFires PROVE ControlOK'
  BY <1>24, SignalMoves DEF Moves, ControlOK, Threads, Workers, Enders, Places
<1>25. ASSUME LingerClose PROVE ControlOK'
  BY <1>25, LingerMoves
     DEF LingerClose, Goto, Moves, ControlOK, Threads, Workers, Enders, Places
<1>26. ASSUME ResetForNewRequest PROVE ControlOK'
  BY <1>26, ResetMoves DEF Moves, ControlOK, Threads, Workers, Enders, Places
<1>27. ASSUME NestedDataReceived PROVE ControlOK'
  BY <1>27, NoLocalRecord
     DEF NestedDataReceived, Goto, AfterStop, ControlOK, Records, Places, TimerWork, Threads,
         Workers, Kinds
<1>28. ASSUME EndIgnored PROVE ControlOK'
  BY <1>28, NoLocalRecord
     DEF EndIgnored, Goto, AfterStop, ControlOK, Records, Places, TimerWork, Threads, Workers,
         Kinds
<1>29. ASSUME EndSends PROVE ControlOK'
  BY <1>29, EndSendsMoves DEF Moves, ControlOK, Threads, Workers, Enders, Places
<1>30. ASSUME EndFails PROVE ControlOK'
  BY <1>30, NoLocalRecord
     DEF EndFails, Goto, AfterStop, ControlOK, Records, Places, TimerWork, Threads, Workers,
         Kinds
<1>31. ASSUME EndSignals PROVE ControlOK'
  BY <1>31, NoLocalRecord
     DEF EndSignals, Goto, AfterStop, ControlOK, Records, Places, TimerWork, Threads, Workers,
         Kinds
<1>32. ASSUME EndSignalFails PROVE ControlOK'
  BY <1>32, NoLocalRecord
     DEF EndSignalFails, Goto, AfterStop, ControlOK, Records, Places, TimerWork, Threads,
         Workers, Kinds
<1>33. ASSUME EnableDirectResponse PROVE ControlOK'
  BY <1>33, NoLocalRecord
     DEF EnableDirectResponse, Goto, AfterStop, ControlOK, Records, Places, TimerWork, Threads,
         Workers, Kinds
<1>34. ASSUME TimerChecks PROVE ControlOK'
  BY <1>34, NoLocalRecord
     DEF TimerChecks, Goto, AfterStop, ControlOK, Records, Places, TimerWork, Threads, Workers,
         Kinds
<1>35. ASSUME TimerIgnores PROVE ControlOK'
  BY <1>35, NoLocalRecord
     DEF TimerIgnores, Goto, AfterStop, ControlOK, Records, Places, TimerWork, Threads, Workers,
         Kinds
<1>36. ASSUME TimerEnds PROVE ControlOK'
  BY <1>36, NoLocalRecord
     DEF TimerEnds, Goto, AfterStop, ControlOK, Records, Places, TimerWork, Threads, Workers,
         Kinds
<1>37. ASSUME Resumes PROVE ControlOK'
  BY <1>37, NoLocalRecord
     DEF Resumes, Goto, AfterStop, ControlOK, Records, Places, TimerWork, Threads, Workers,
         Kinds
<1>38. ASSUME LastData PROVE ControlOK'
  BY <1>38, NoLocalRecord
     DEF LastData, Goto, AfterStop, ControlOK, Records, Places, TimerWork, Threads, Workers,
         Kinds
<1>39. ASSUME Receive PROVE ControlOK'
  BY <1>39, NoLocalRecord
     DEF Receive, Goto, AfterStop, ControlOK, Records, Places, TimerWork, Threads, Workers,
         Kinds
<1>40. ASSUME PeerCloses PROVE ControlOK'
  BY <1>40, NoLocalRecord
     DEF PeerCloses, Goto, AfterStop, ControlOK, Records, Places, TimerWork, Threads, Workers,
         Kinds
<1>41. ASSUME StopListening PROVE ControlOK'
  BY <1>41, NoLocalRecord
     DEF StopListening, Goto, AfterStop, ControlOK, Records, Places, TimerWork, Threads,
         Workers, Kinds
<1>42. ASSUME ServerDestroyed PROVE ControlOK'
  BY <1>42, NoLocalRecord
     DEF ServerDestroyed, Goto, AfterStop, ControlOK, Records, Places, TimerWork, Threads,
         Workers, Kinds
<1>43. ASSUME ServerTerminates PROVE ControlOK'
  BY <1>43, NoLocalRecord
     DEF ServerTerminates, Goto, AfterStop, ControlOK, Records, Places, TimerWork, Threads,
         Workers, Kinds
<1>44. ASSUME NEW p \in Enders, CloseReturns(p) PROVE ControlOK'
  BY <1>44, CloseReturnsMoves DEF Moves, ControlOK, Threads, Workers, Enders, Places
<1>45. ASSUME NEW p \in Enders, DestroyEnters(p) PROVE ControlOK'
  BY <1>45, DestroyMoves DEF Moves, ControlOK, Threads, Workers, Enders, Places
<1>46. ASSUME NEW p \in Enders, DestroyLeaves(p) PROVE ControlOK'
  BY <1>46, LeavesMoves DEF Moves, ControlOK, Threads, Workers, Enders, Places
<1>47. ASSUME NEW k \in Kinds, TimerTerminates(k) PROVE ControlOK'
  BY <1>47, NoLocalRecord
     DEF TimerTerminates, Goto, AfterStop, ControlOK, Records, Places, TimerWork, Threads,
         Workers, Kinds
<1>48. ASSUME NEW k \in Kinds, TimerFires(k) PROVE ControlOK'
  BY <1>48, NoLocalRecord
     DEF TimerFires, Goto, AfterStop, ControlOK, Records, Places, TimerWork, Threads, Workers,
         Kinds
<1>49. CASE UNCHANGED vars
  BY <1>49 DEF vars, ControlOK
<1> QED
  BY <1>1, <1>2, <1>3, <1>4, <1>5, <1>6, <1>7, <1>8, <1>9, <1>10, <1>11, <1>12, <1>13, <1>14,
     <1>15, <1>16, <1>17, <1>18, <1>19, <1>20, <1>21, <1>22, <1>23, <1>24, <1>25, <1>26, <1>27,
     <1>28, <1>29, <1>30, <1>31, <1>32, <1>33, <1>34, <1>35, <1>36, <1>37, <1>38, <1>39, <1>40,
     <1>41, <1>42, <1>43, <1>44, <1>45, <1>46, <1>47, <1>48, <1>49
     DEF Next, Step, TimerSteps, OnSocketDataReceived, End, Workers, Enders, Threads

-----------------------------------------------------------------------------
(***************************************************************************)
(* The pause of the connection.                                          *)
(***************************************************************************)
PauseInv ==
  /\ paused \in BOOLEAN /\ closed \in BOOLEAN
  /\ state = "Terminated" => closed
  /\ PausedWithApplication

\* Every step changes the state through SetState, or closes the connection, or neither; only
\* an End that fails does both at once.
StateStep ==
  \/ UNCHANGED <<state, paused, closed>>
  \/ UNCHANGED <<state, paused>> /\ closed' = TRUE
  \/ \E s : s # "Terminated" /\ SetState(s) /\ UNCHANGED closed
  \/ SetState("Terminated") /\ (closed' = TRUE \/ (closed /\ UNCHANGED closed))
  \/ /\ state' = "Terminated" /\ closed' = TRUE
     /\ paused' = paused \/ paused' = (paused /\ state \notin PausedStates)

LEMMA ErrorState ==
  ASSUME NEW p, OnRequestError(p)
  PROVE  StateStep
BY DEF OnRequestError, TerminateRequest, StateStep

LEMMA StateSteps ==
  ASSUME [Next]_vars
  PROVE  StateStep
<1> USE DEF StateStep
<1>1. ASSUME NEW p \in Threads, TimerSteps(p) \/ CloseReturns(p) \/ DestroyLeaves(p)
      PROVE  StateStep
  BY <1>1
     DEF TimerSteps, StopTimeoutTimers, StartClears, StartSets, CloseReturns, DestroyLeaves,
     reqVars, connVars
<1>2. ASSUME NEW p \in Workers, LeaveLoop(p) \/ ParsePart(p) \/ Discard(p) \/ HeadersCallback(p)
             \/ CompletedCallback(p) \/ UpgradeCallback(p)
      PROVE  StateStep
  BY <1>2
     DEF LeaveLoop, ParsePart, Discard, HeadersCallback, CompletedCallback, UpgradeCallback,
         Callback, reqVars, connVars
<1>3. ASSUME NEW p \in Workers, BeginRequest(p) \/ ParseHead(p) \/ ParseDone(p)
             \/ HeadersReturn(p) \/ UpgradeReturn(p)
      PROVE  StateStep
  BY <1>3 DEF BeginRequest, ParseHead, ParseDone, HeadersReturn, UpgradeReturn, ParsedBy
<1>4. ASSUME NEW p \in Workers, ParseFails(p) \/ Refuse(p) \/ HeadersFailed(p)
             \/ CompletedCancelled(p) \/ UpgradeFailed(p)
      PROVE  StateStep
  BY <1>4, ErrorState DEF ParseFails, Refuse, HeadersFailed, CompletedCancelled, UpgradeFailed
<1>5. ASSUME ConnectRefused \/ Connected \/ DataArrives \/ SignalFires \/ NestedDataReceived
             \/ EndIgnored \/ EndSignals \/ TimerChecks \/ TimerIgnores \/ TimerEnds \/ Resumes
                  \/ LastData \/ Receive \/ PeerCloses \/ StopListening \/ ServerDestroyed
      PROVE  StateStep
  BY <1>5
     DEF ConnectRefused, Connected, DataArrives, SignalFires, NestedDataReceived, EndIgnored,
         EndSignals, TimerChecks, TimerIgnores, TimerEnds, Resumes, LastData, Receive,
         PeerCloses, StopListening, ServerDestroyed, reqVars, connVars
<1>6. ASSUME OnSocketConnect \/ LingerClose \/ ResetForNewRequest \/ EndSends
             \/ EndSignalFails \/ EnableDirectResponse \/ ServerTerminates
      PROVE  StateStep
  BY <1>6
     DEF OnSocketConnect, LingerClose, ResetForNewRequest, EndSends, EndSignalFails,
         EnableDirectResponse, ServerTerminates, TerminateRequest
<1>10. ASSUME EndFails PROVE StateStep
  BY <1>10 DEF EndFails
<1>7. ASSUME NEW p \in Enders, DestroyEnters(p) PROVE StateStep
  BY <1>7 DEF DestroyEnters, Quiet
<1>8. ASSUME NEW k \in Kinds, TimerTerminates(k) \/ TimerFires(k) PROVE StateStep
  BY <1>8 DEF TimerTerminates, TimerFires, TerminateRequest, reqVars, connVars
<1>9. CASE UNCHANGED vars
  BY <1>9 DEF vars, reqVars, connVars
<1> QED
  BY <1>1, <1>2, <1>3, <1>4, <1>5, <1>6, <1>7, <1>8, <1>9, <1>10
     DEF Next, Step, OnSocketDataReceived, End, Workers, Enders, Threads

LEMMA PauseStep ==
  ASSUME PauseInv, StateStep
  PROVE  PauseInv'
<1>1. CASE UNCHANGED <<state, paused, closed>>
  BY <1>1 DEF PauseInv, PausedWithApplication
<1>2. CASE UNCHANGED <<state, paused>> /\ closed' = TRUE
  BY <1>2 DEF PauseInv, PausedWithApplication
<1>3. CASE \E s : s # "Terminated" /\ SetState(s) /\ UNCHANGED closed
  BY <1>3 DEF PauseInv, PausedWithApplication, SetState
<1>4. CASE SetState("Terminated") /\ (closed' = TRUE \/ (closed /\ UNCHANGED closed))
  BY <1>4 DEF PauseInv, PausedWithApplication, SetState
<1>5. CASE /\ state' = "Terminated" /\ closed' = TRUE
           /\ paused' = paused \/ paused' = (paused /\ state \notin PausedStates)
  BY <1>5 DEF PauseInv, PausedWithApplication
<1> QED
  BY <1>1, <1>2, <1>3, <1>4, <1>5 DEF StateStep

LEMMA PauseInit == Init => PauseInv
<1> SUFFICES ASSUME Init PROVE PauseInv
  OBVIOUS
<1>1. state \notin PausedStates /\ paused = FALSE /\ closed = FALSE /\ state # "Terminated"
  BY DEF Init, PausedStates
<1>2. (state \in PausedStates) = FALSE
  BY <1>1
<1>3. PausedWithApplication
  BY <1>1, <1>2, Zenon DEF PausedWithApplication
<1> QED
  BY <1>1, <1>3 DEF PauseInv

\* SetState pauses and resumes the connection exactly where the request passes
\* to the application and back, from whichever of the five threads.
THEOREM PauseIsTheApplications == Spec => []PausedWithApplication
<1>1. PauseInv /\ [Next]_vars => PauseInv'
  BY StateSteps, PauseStep
<1>2. PauseInv => PausedWithApplication
  BY DEF PauseInv
<1> QED
  BY <1>1, <1>2, PauseInit, PTL DEF Spec

-----------------------------------------------------------------------------
(***************************************************************************)
(* The request has one owner at a time: a worker between the parser and  *)
(* the callbacks, the application, its End on the way to the signal, the *)
(* signal in the connection, or the worker of OnAfterSendResponse.       *)
(***************************************************************************)
Hands == {"reader", "writer", "application", "ending", "signal", "sent"}
Calls == {"headers_call", "headers", "upgrade_call", "upgraded", "completed", "cancelled"}

Has(h) ==
  \/ h \in Workers /\ At(h) \in Calls
  \/ h = "application" /\ owed
  \/ h = "ending" /\ At("app") = "signal"
  \/ h = "signal" /\ signals # 0
  \/ h = "sent" /\ At("writer") = "sent"

\* The states of a request that h has, unless it was terminated.
StatesOf(h) ==
  IF h \in Workers
  THEN IF At(h) \in {"headers_call", "headers"} THEN {"AfterHeaders"}
       ELSE IF At(h) \in {"upgrade_call", "upgraded"} THEN {"NegotiatingWebSocket"}
       ELSE {"BuildingResponse"}
  ELSE IF h = "ending" THEN {"SendingResponse"} ELSE {"BuildingResponse", "SendingResponse"}

OneOwner == \A g, h \in Hands : Has(g) /\ Has(h) => g = h

OwnerState == \A h \in Hands : Has(h) => state \in StatesOf(h) \union {"Terminated"}

\* Nothing happens to the request before the connect callback.
NotConnected ==
  pc["reader"] = "connect" =>
    /\ pc["writer"] = "idle" /\ At("app") # "signal" /\ ~owed /\ signals = 0
    /\ state = "Inactive" \/ server = "down"

\* A worker that looks into the buffer has no callback left to make.
NothingToCall ==
  \A p \in Workers :
    /\ At(p) \in {"loop", "next"} => local[p].fire = {}
    /\ p = "writer" /\ local[p].next = "sent"
       => pc[p] \in {"stop", "clear", "set", "sent", "idle"}
    /\ pc[p] # "closing"

TurnInv == signals \in {0, 1} /\ OneOwner /\ OwnerState /\ NotConnected /\ NothingToCall

\* The places of the others stay.
Others(p) == \A q \in {"reader", "writer", "app"} \ {p} : At(q)' = At(q)

\* p, at a place of from, goes to one of to.
Goes(p, from, to) == At(p) \in from /\ At(p)' \in to /\ Others(p)

LEMMA ErrorEffect ==
  ASSUME NEW p, OnRequestError(p)
  PROVE  \/ state' \in {"GracefulTermination", "Terminated"} /\ signals' = signals
         \/ state = "BuildingResponse" /\ state' = state /\ signals' = signals + 1
BY DEF OnRequestError, TerminateRequest, SetState

LEMMA OwnerStep ==
  ASSUME ControlOK, TurnInv, [Next]_vars
  PROVE  OneOwner' /\ OwnerState' /\ signals' \in {0, 1}
<1>1. ASSUME NEW p \in Threads, StopTimeoutTimers(p)
      PROVE  OneOwner' /\ OwnerState' /\ signals' \in {0, 1}
  <2>a. \A q \in Threads : local'[q].next = local[q].next
    BY <1>1 DEF StopTimeoutTimers, ControlOK, Records
  <2>b. /\ \A q \in Threads \ {p} : pc'[q] = pc[q]
        /\ pc[p] \in TimerWork /\ pc'[p] \in {"clear", "set", local[p].next}
    BY <1>1 DEF StopTimeoutTimers, Goto, AfterStop, ControlOK, TimerWork
  <2>c. {"reader", "writer", "app"} \subseteq Threads
    BY DEF Threads
  <2>1. Others("none")
    BY <2>a, <2>b, <2>c DEF Others, At, TimerWork
  <2>2. state' \in {state, "Terminated"} /\ UNCHANGED <<owed, signals>>
    BY <1>1 DEF StopTimeoutTimers, reqVars, connVars, SetState, TerminateRequest
  <2> QED
    BY <2>1, <2>2
       DEF Others, TurnInv, OneOwner, OwnerState, Has, StatesOf, Hands, Calls, Workers
<1>2. ASSUME NEW p \in Threads, StartClears(p)
      PROVE  OneOwner' /\ OwnerState' /\ signals' \in {0, 1}
  <2>a. \A q \in Threads : local'[q].next = local[q].next
    BY <1>2 DEF StartClears, ControlOK, Records
  <2>b. /\ \A q \in Threads \ {p} : pc'[q] = pc[q]
        /\ pc[p] \in TimerWork /\ pc'[p] \in {"clear", "set", local[p].next}
    BY <1>2 DEF StartClears, Goto, AfterStop, ControlOK, TimerWork
  <2>c. {"reader", "writer", "app"} \subseteq Threads
    BY DEF Threads
  <2>1. Others("none")
    BY <2>a, <2>b, <2>c DEF Others, At, TimerWork
  <2>2. state' \in {state, "Terminated"} /\ UNCHANGED <<owed, signals>>
    BY <1>2 DEF StartClears, reqVars, connVars, SetState, TerminateRequest
  <2> QED
    BY <2>1, <2>2
       DEF Others, TurnInv, OneOwner, OwnerState, Has, StatesOf, Hands, Calls, Workers
<1>3. ASSUME NEW p \in Threads, StartSets(p)
      PROVE  OneOwner' /\ OwnerState' /\ signals' \in {0, 1}
  <2>a. \A q \in Threads : local'[q].next = local[q].next
    BY <1>3 DEF StartSets, ControlOK, Records
  <2>b. /\ \A q \in Threads \ {p} : pc'[q] = pc[q]
        /\ pc[p] \in TimerWork /\ pc'[p] \in {"clear", "set", local[p].next}
    BY <1>3 DEF StartSets, Goto, AfterStop, ControlOK, TimerWork
  <2>c. {"reader", "writer", "app"} \subseteq Threads
    BY DEF Threads
  <2>1. Others("none")
    BY <2>a, <2>b, <2>c DEF Others, At, TimerWork
  <2>2. state' \in {state, "Terminated"} /\ UNCHANGED <<owed, signals>>
    BY <1>3 DEF StartSets, reqVars, connVars, SetState, TerminateRequest
  <2> QED
    BY <2>1, <2>2
       DEF Others, TurnInv, OneOwner, OwnerState, Has, StatesOf, Hands, Calls, Workers
<1>4. ASSUME NEW p \in Workers, LeaveLoop(p)
      PROVE  OneOwner' /\ OwnerState' /\ signals' \in {0, 1}
  <2>0. At(p) \in {"loop", "next"}
    BY <1>4 DEF LeaveLoop, InLoop, AfterLeave, At, TimerWork
  <2>a. AfterLeave(local[p].fire) = "idle"
    BY <2>0 DEF AfterLeave, NothingToCall, TurnInv
  <2>1. Goes(p, {"loop", "next"}, {"idle"})
    BY <1>4, <2>0, <2>a, LeaveLoopMoves, MovesAt DEF Goes, Others, Threads, Workers, Places
  <2>2. UNCHANGED <<state, owed, signals>>
    BY <1>4, <2>1
       DEF LeaveLoop, InLoop, AfterLeave, SetState, TerminateRequest, connVars, reqVars,
           envVars, At
  <2> QED
    BY <2>1, <2>2
       DEF Goes, Others, TurnInv, OneOwner, OwnerState, Has, StatesOf, Hands, Calls, Workers
<1>5. ASSUME NEW p \in Workers, BeginRequest(p)
      PROVE  OneOwner' /\ OwnerState' /\ signals' \in {0, 1}
  <2>1. Goes(p, {"loop", "next"}, {"next"})
    BY <1>5, NoLocalRecord
       DEF Goes, Others, BeginRequest, HasMessage, InLoop, At, Goto, ControlOK, Records,
           TimerWork, Threads, Workers, Enders, Places, NoLocal
  <2>2. state \in {"KeepingAlive", "Inactive"} /\ state' = "ReceivingRequestHeaders"
        /\ UNCHANGED <<owed, signals>>
    BY <1>5, <2>1
       DEF BeginRequest, HasMessage, InLoop, SetState, TerminateRequest, connVars, reqVars,
           envVars, At
  <2> QED
    BY <2>1, <2>2
       DEF Goes, Others, TurnInv, OneOwner, OwnerState, Has, StatesOf, Hands, Calls, Workers
<1>6. ASSUME NEW p \in Workers, ParsePart(p)
      PROVE  OneOwner' /\ OwnerState' /\ signals' \in {0, 1}
  <2>1. Goes(p, {"loop", "next"}, {"next"})
    BY <1>6, NoLocalRecord
       DEF Goes, Others, ParsePart, HasMessage, InLoop, At, Goto, ControlOK, Records, TimerWork,
           Threads, Workers, Enders, Places, NoLocal
  <2>2. UNCHANGED <<state, owed, signals>>
    BY <1>6, <2>1
       DEF ParsePart, HasMessage, InLoop, SetState, TerminateRequest, connVars, reqVars,
           envVars, At
  <2> QED
    BY <2>1, <2>2
       DEF Goes, Others, TurnInv, OneOwner, OwnerState, Has, StatesOf, Hands, Calls, Workers
<1>7. ASSUME NEW p \in Workers, ParseHead(p)
      PROVE  OneOwner' /\ OwnerState' /\ signals' \in {0, 1}
  <2>0. At(p) \in {"loop", "next"}
    BY <1>7 DEF ParseHead, HasMessage, InLoop, ParsedBy, At, TimerWork
  <2>1. Goes(p, {"loop", "next"}, {"headers_call"})
    BY <1>7, <2>0, ParseHeadMoves, MovesAt DEF Goes, Others, Threads, Workers, Places, ParseHead
  <2>2. state = "ReceivingRequestHeaders" /\ state' = "AfterHeaders"
        /\ UNCHANGED <<owed, signals>>
    BY <1>7, <2>1
       DEF ParseHead, HasMessage, InLoop, ParsedBy, SetState, TerminateRequest, connVars,
           reqVars, envVars, At
  <2> QED
    BY <2>1, <2>2
       DEF Goes, Others, TurnInv, OneOwner, OwnerState, Has, StatesOf, Hands, Calls, Workers
<1>8. ASSUME NEW p \in Workers, ParseDone(p)
      PROVE  OneOwner' /\ OwnerState' /\ signals' \in {0, 1}
  <2>1. CASE state' = "NegotiatingWebSocket"
             /\ Leave(p, [local[p] EXCEPT !.stop = Kinds, !.start = {}, !.fire = {"upgrade"}])
    <3>0. At(p) \in {"loop", "next"}
      BY <1>8 DEF ParseDone, HasMessage, InLoop, At, TimerWork
    <3>a. {"upgrade"} \in SUBSET Fires /\ AfterLeave({"upgrade"}) = "upgrade_call"
      BY DEF AfterLeave, Fires
    <3>b. Moves(p, Kinds, {}, {"upgrade"}, AfterLeave({"upgrade"}))
      BY <2>1, <3>a, ParseDoneMoves, Zenon
    <3>1. Goes(p, {"loop", "next"}, {"upgrade_call"})
      BY <3>0, <3>a, <3>b, MovesAt DEF Goes, Others, Places, Threads, Workers
    <3> QED
      BY <1>8, <2>1, <3>1
         DEF Goes, Others, ParseDone, ParsedBy, TurnInv, OneOwner, OwnerState, Has, StatesOf,
             Hands, Calls, Workers
  <2>2. CASE state' = "AfterHeaders"
             /\ Leave(p, [local[p] EXCEPT !.stop = Kinds, !.start = {}, !.fire = {"headers", "completed"}])
    <3>0. At(p) \in {"loop", "next"}
      BY <1>8 DEF ParseDone, HasMessage, InLoop, At, TimerWork
    <3>a. {"headers", "completed"} \in SUBSET Fires
          /\ AfterLeave({"headers", "completed"}) = "headers_call"
      BY DEF AfterLeave, Fires
    <3>b. Moves(p, Kinds, {}, {"headers", "completed"}, AfterLeave({"headers", "completed"}))
      BY <2>2, <3>a, ParseDoneMoves, Zenon
    <3>1. Goes(p, {"loop", "next"}, {"headers_call"})
      BY <3>0, <3>a, <3>b, MovesAt DEF Goes, Others, Places, Threads, Workers
    <3> QED
      BY <1>8, <2>2, <3>1
         DEF Goes, Others, ParseDone, ParsedBy, TurnInv, OneOwner, OwnerState, Has, StatesOf,
             Hands, Calls, Workers
  <2>3. CASE state' = "BuildingResponse"
             /\ Leave(p, [local[p] EXCEPT !.stop = Kinds, !.start = {}, !.fire = {"completed"}])
    <3>0. At(p) \in {"loop", "next"}
      BY <1>8 DEF ParseDone, HasMessage, InLoop, At, TimerWork
    <3>a. {"completed"} \in SUBSET Fires /\ AfterLeave({"completed"}) = "completed"
      BY DEF AfterLeave, Fires
    <3>b. Moves(p, Kinds, {}, {"completed"}, AfterLeave({"completed"}))
      BY <2>3, <3>a, ParseDoneMoves, Zenon
    <3>1. Goes(p, {"loop", "next"}, {"completed"})
      BY <3>0, <3>a, <3>b, MovesAt DEF Goes, Others, Places, Threads, Workers
    <3> QED
      BY <1>8, <2>3, <3>1
         DEF Goes, Others, ParseDone, ParsedBy, TurnInv, OneOwner, OwnerState, Has, StatesOf,
             Hands, Calls, Workers
  <2> QED
    BY <1>8, <2>1, <2>2, <2>3 DEF ParseDone, ParsedBy, SetState
<1>9. ASSUME NEW p \in Workers, ParseFails(p)
      PROVE  OneOwner' /\ OwnerState' /\ signals' \in {0, 1}
  <2>0. At(p) \in {"loop", "next"}
    BY <1>9 DEF ParseFails, HasMessage, InLoop, At, TimerWork
  <2>1. Goes(p, {"loop", "next"}, {"loop"})
    BY <1>9, <2>0, ErrorMoves, MovesAt DEF Goes, Others, Threads, Workers, Places, ParseFails
  <2>2. /\ state \in {"ReceivingRequestHeaders", "ReceivingRequestBody"}
        /\ state' \in {"GracefulTermination", "Terminated"} /\ UNCHANGED <<owed, signals>>
    BY <1>9, <2>1, ErrorEffect
       DEF ParseFails, HasMessage, InLoop, SetState, TerminateRequest, connVars, reqVars,
           envVars, At
  <2> QED
    BY <2>1, <2>2, ErrorEffect
       DEF Goes, Others, TurnInv, OneOwner, OwnerState, Has, StatesOf, Hands, Calls, Workers
<1>10. ASSUME NEW p \in Workers, Refuse(p) PROVE OneOwner' /\ OwnerState' /\ signals' \in {0, 1}
  <2>0. At(p) \in {"loop", "next"}
    BY <1>10 DEF Refuse, HasMessage, InLoop, At, TimerWork
  <2>1. Goes(p, {"loop", "next"}, {"loop"})
    BY <1>10, <2>0, ErrorMoves, MovesAt DEF Goes, Others, Threads, Workers, Places, Refuse
  <2>2. state \in {"ReceivingRequestHeaders", "ReceivingRequestBody"}
        /\ state' \in {"GracefulTermination", "Terminated"} /\ UNCHANGED <<owed, signals>>
    BY <1>10, <2>1, ErrorEffect
       DEF Refuse, HasMessage, InLoop, SetState, TerminateRequest, connVars, reqVars, envVars,
           At
  <2> QED
    BY <2>1, <2>2, ErrorEffect
       DEF Goes, Others, TurnInv, OneOwner, OwnerState, Has, StatesOf, Hands, Calls, Workers
<1>11. ASSUME NEW p \in Workers, Discard(p)
       PROVE  OneOwner' /\ OwnerState' /\ signals' \in {0, 1}
  <2>1. Goes(p, {"loop", "next"}, {"next"})
    BY <1>11, NoLocalRecord
       DEF Goes, Others, Discard, HasMessage, InLoop, At, Goto, ControlOK, Records, TimerWork,
           Threads, Workers, Enders, Places, NoLocal
  <2>2. UNCHANGED <<state, owed, signals>>
    BY <1>11, <2>1
       DEF Discard, HasMessage, InLoop, SetState, TerminateRequest, connVars, reqVars, envVars,
           At
  <2> QED
    BY <2>1, <2>2
       DEF Goes, Others, TurnInv, OneOwner, OwnerState, Has, StatesOf, Hands, Calls, Workers
<1>12. ASSUME NEW p \in Workers, HeadersCallback(p)
       PROVE  OneOwner' /\ OwnerState' /\ signals' \in {0, 1}
  <2>1. Goes(p, {"headers_call"}, {"headers"})
    BY <1>12, NoLocalRecord
       DEF Goes, Others, HeadersCallback, Callback, At, Goto, ControlOK, Records, TimerWork,
           Threads, Workers, Enders, Places, NoLocal
  <2>2. UNCHANGED <<state, owed, signals>>
    BY <1>12, <2>1
       DEF HeadersCallback, Callback, SetState, TerminateRequest, connVars, reqVars, envVars, At
  <2> QED
    BY <2>1, <2>2
       DEF Goes, Others, TurnInv, OneOwner, OwnerState, Has, StatesOf, Hands, Calls, Workers
<1>13. ASSUME NEW p \in Workers, HeadersReturn(p)
       PROVE  OneOwner' /\ OwnerState' /\ signals' \in {0, 1}
  <2>1. \/ Restart(p, [local[p] EXCEPT !.start = @ \union {"Throughput"}])
        \/ Restart(p, local[p])
        \/ Goto(p, "completed") /\ UNCHANGED local
    BY <1>13 DEF HeadersReturn
  <2>a. At(p) \in {"headers"} /\ local[p] \in Records
    BY <1>13 DEF HeadersReturn, At, TimerWork, ControlOK, Threads, Workers
  <2>b. ASSUME Goto(p, "completed") /\ UNCHANGED local
        PROVE  Goes(p, {"headers"}, {"loop", "completed"})
    BY <2>a, <2>b DEF Goes, Others, Goto, At, TimerWork, ControlOK, Places, Threads, Workers
  <2>c. ASSUME ~(Goto(p, "completed") /\ UNCHANGED local)
        PROVE  Goes(p, {"headers"}, {"loop", "completed"})
    BY <2>1, <2>a, <2>c, HeadersReturnMoves, RestartMoves, MovesAt
       DEF Goes, Others, Places, Threads, Workers
  <2>2. Goes(p, {"headers"}, {"loop", "completed"})
    BY <2>b, <2>c
  <2>3. UNCHANGED <<owed, signals>>
    BY <1>13 DEF HeadersReturn
  <2>d. \/ state' = "BuildingResponse"
        \/ state # "AfterHeaders" /\ state' = state
        \/ Restart(p, [local[p] EXCEPT !.start = @ \union {"Throughput"}])
    BY <1>13 DEF HeadersReturn, SetState
  <2>4. At(p)' = "completed" => state' = "BuildingResponse"
        \/ (state # "AfterHeaders" /\ state' = state)
    BY <2>d, HeadersReturnMoves, MovesAt DEF Places, Threads, Workers
  <2> QED
    BY <2>2, <2>3, <2>4
       DEF Goes, Others, TurnInv, OneOwner, OwnerState, Has, StatesOf, Hands, Calls, Workers
<1>14. ASSUME NEW p \in Workers, HeadersFailed(p)
       PROVE  OneOwner' /\ OwnerState' /\ signals' \in {0, 1}
  <2>0. At(p) \in {"headers"}
    BY <1>14 DEF HeadersFailed, At, TimerWork
  <2>1. Goes(p, {"headers"}, {"loop"})
    BY <1>14, <2>0, ErrorMoves, MovesAt
       DEF Goes, Others, Threads, Workers, Places, HeadersFailed
  <2>2. state = "AfterHeaders" /\ state' \in {"GracefulTermination", "Terminated"}
        /\ UNCHANGED <<owed, signals>>
    BY <1>14, <2>1, ErrorEffect
       DEF HeadersFailed, SetState, TerminateRequest, connVars, reqVars, envVars, At
  <2> QED
    BY <2>1, <2>2, ErrorEffect
       DEF Goes, Others, TurnInv, OneOwner, OwnerState, Has, StatesOf, Hands, Calls, Workers
<1>15. ASSUME NEW p \in Workers, CompletedCallback(p)
       PROVE  OneOwner' /\ OwnerState' /\ signals' \in {0, 1}
  <2>1. Goes(p, {"completed"}, {"cancelled", "idle"})
    BY <1>15
       DEF Goes, Others, CompletedCallback, Goto, At, TimerWork, ControlOK, Threads, Workers
  <2>2. UNCHANGED <<state, signals>>
    BY <1>15 DEF CompletedCallback, reqVars, connVars
  <2>3. \/ UNCHANGED owed
        \/ At(p)' = "idle" /\ state # "Terminated"
    BY <1>15 DEF CompletedCallback, Goto, At, TimerWork, ControlOK, Threads, Workers
  <2> QED
    BY <2>1, <2>2, <2>3
       DEF Goes, Others, TurnInv, OneOwner, OwnerState, Has, StatesOf, Hands, Calls, Workers
<1>16. ASSUME NEW p \in Workers, CompletedCancelled(p)
       PROVE  OneOwner' /\ OwnerState' /\ signals' \in {0, 1}
  <2>0. At(p) \in {"cancelled"}
    BY <1>16 DEF CompletedCancelled, At, TimerWork
  <2>1. Goes(p, {"cancelled"}, {"loop"})
    BY <1>16, <2>0, ErrorMoves, MovesAt
       DEF Goes, Others, Threads, Workers, Places, CompletedCancelled
  <2>2. OnRequestError(p) /\ UNCHANGED owed
    BY <1>16, <2>1, ErrorEffect
       DEF CompletedCancelled, SetState, TerminateRequest, connVars, reqVars, envVars, At
  <2> QED
    BY <2>1, <2>2, ErrorEffect
       DEF Goes, Others, TurnInv, OneOwner, OwnerState, Has, StatesOf, Hands, Calls, Workers
<1>17. ASSUME NEW p \in Workers, UpgradeCallback(p)
       PROVE  OneOwner' /\ OwnerState' /\ signals' \in {0, 1}
  <2>1. Goes(p, {"upgrade_call"}, {"upgraded"})
    BY <1>17, NoLocalRecord
       DEF Goes, Others, UpgradeCallback, Callback, At, Goto, ControlOK, Records, TimerWork,
           Threads, Workers, Enders, Places, NoLocal
  <2>2. UNCHANGED <<state, owed, signals>>
    BY <1>17, <2>1
       DEF UpgradeCallback, Callback, SetState, TerminateRequest, connVars, reqVars, envVars, At
  <2> QED
    BY <2>1, <2>2
       DEF Goes, Others, TurnInv, OneOwner, OwnerState, Has, StatesOf, Hands, Calls, Workers
<1>18. ASSUME NEW p \in Workers, UpgradeReturn(p)
       PROVE  OneOwner' /\ OwnerState' /\ signals' \in {0, 1}
  <2>1. At(p) = "upgraded" /\ UNCHANGED <<owed, signals>>
    BY <1>18 DEF UpgradeReturn, At, TimerWork
  <2>2. ASSUME Goto(p, "idle"), UNCHANGED local PROVE At(p)' = "idle" /\ Others(p)
    BY <2>2 DEF Others, Goto, At, TimerWork, ControlOK, Threads, Workers
  <2>3. ASSUME Timers(p, [NoLocal EXCEPT !.stop = Kinds]) PROVE At(p)' = "idle" /\ Others(p)
    BY <2>3, UpgradeMoves, MovesAt DEF Others, Places, Threads, Workers
  <2>4. At(p)' = "idle" /\ Others(p)
    BY <1>18, <2>2, <2>3 DEF UpgradeReturn
  <2> QED
    BY <2>1, <2>4
       DEF Others, TurnInv, OneOwner, OwnerState, Has, StatesOf, Hands, Calls, Workers
<1>19. ASSUME NEW p \in Workers, UpgradeFailed(p)
       PROVE  OneOwner' /\ OwnerState' /\ signals' \in {0, 1}
  <2>0. At(p) \in {"upgraded"}
    BY <1>19 DEF UpgradeFailed, At, TimerWork
  <2>1. Goes(p, {"upgraded"}, {"loop"})
    BY <1>19, <2>0, ErrorMoves, MovesAt
       DEF Goes, Others, Threads, Workers, Places, UpgradeFailed
  <2>2. state = "NegotiatingWebSocket" /\ state' \in {"GracefulTermination", "Terminated"}
        /\ UNCHANGED <<owed, signals>>
    BY <1>19, <2>1, ErrorEffect
       DEF UpgradeFailed, SetState, TerminateRequest, connVars, reqVars, envVars, At
  <2> QED
    BY <2>1, <2>2, ErrorEffect
       DEF Goes, Others, TurnInv, OneOwner, OwnerState, Has, StatesOf, Hands, Calls, Workers
<1>20. ASSUME ConnectRefused PROVE OneOwner' /\ OwnerState' /\ signals' \in {0, 1}
  <2>1. Goes("reader", {"connect"}, {"idle"})
    BY <1>20, NoLocalRecord
       DEF Goes, Others, ConnectRefused, At, Goto, ControlOK, Records, TimerWork, Threads,
           Workers, Enders, Places, NoLocal
  <2>2. UNCHANGED <<state, owed, signals>>
    BY <1>20, <2>1
       DEF ConnectRefused, SetState, TerminateRequest, connVars, reqVars, envVars, At
  <2> QED
    BY <2>1, <2>2
       DEF Goes, Others, TurnInv, OneOwner, OwnerState, Has, StatesOf, Hands, Calls, Workers
<1>21. ASSUME OnSocketConnect PROVE OneOwner' /\ OwnerState' /\ signals' \in {0, 1}
  <2>0. At("reader") \in {"connect"}
    BY <1>21 DEF OnSocketConnect, At, TimerWork
  <2>1. Goes("reader", {"connect"}, {"connected"})
    BY <1>21, <2>0, ConnectMoves, MovesAt DEF Goes, Others, Threads, Workers, Places
  <2>2. pc["reader"] = "connect" /\ UNCHANGED <<owed, signals>>
    BY <1>21, <2>1
       DEF OnSocketConnect, SetState, TerminateRequest, connVars, reqVars, envVars, At
  <2>3. At("writer") = "idle" /\ NotConnected
    BY <2>2 DEF TurnInv, NotConnected, At, TimerWork
  <2> QED
    BY <2>1, <2>2, <2>3
       DEF Goes, Others, TurnInv, OneOwner, OwnerState, Has, StatesOf, Hands, Calls, Workers,
           NotConnected, OnSocketConnect
<1>22. ASSUME Connected PROVE OneOwner' /\ OwnerState' /\ signals' \in {0, 1}
  <2>1. Goes("reader", {"connected"}, {"idle"})
    BY <1>22, NoLocalRecord
       DEF Goes, Others, Connected, At, Goto, ControlOK, Records, TimerWork, Threads, Workers,
           Enders, Places, NoLocal
  <2>2. UNCHANGED <<state, owed, signals>>
    BY <1>22, <2>1 DEF Connected, SetState, TerminateRequest, connVars, reqVars, envVars, At
  <2> QED
    BY <2>1, <2>2
       DEF Goes, Others, TurnInv, OneOwner, OwnerState, Has, StatesOf, Hands, Calls, Workers
<1>23. ASSUME DataArrives PROVE OneOwner' /\ OwnerState' /\ signals' \in {0, 1}
  <2>1. Goes("reader", {"idle"}, {"loop"})
    BY <1>23, NoLocalRecord
       DEF Goes, Others, DataArrives, At, Goto, ControlOK, Records, TimerWork, Threads, Workers,
           Enders, Places, NoLocal
  <2>2. UNCHANGED <<state, owed, signals>>
    BY <1>23, <2>1 DEF DataArrives, SetState, TerminateRequest, connVars, reqVars, envVars, At
  <2> QED
    BY <2>1, <2>2
       DEF Goes, Others, TurnInv, OneOwner, OwnerState, Has, StatesOf, Hands, Calls, Workers
<1>24. ASSUME SignalFires PROVE OneOwner' /\ OwnerState' /\ signals' \in {0, 1}
  <2>0. At("writer") \in {"idle"}
    BY <1>24 DEF SignalFires, At, TimerWork
  <2>1. Goes("writer", {"idle"}, {"sent"})
    BY <1>24, <2>0, SignalMoves, MovesAt DEF Goes, Others, Threads, Workers, Places
  <2>2. signals > 0 /\ signals' = signals - 1 /\ UNCHANGED <<state, owed>>
    BY <1>24, <2>1 DEF SignalFires, SetState, TerminateRequest, connVars, reqVars, envVars, At
  <2> QED
    BY <2>1, <2>2
       DEF Goes, Others, TurnInv, OneOwner, OwnerState, Has, StatesOf, Hands, Calls, Workers
<1>25. ASSUME LingerClose PROVE OneOwner' /\ OwnerState' /\ signals' \in {0, 1}
  <2>1. At("writer") = "sent" /\ UNCHANGED <<owed, signals>>
    BY <1>25 DEF LingerClose, TerminateRequest, At, TimerWork
  <2>2. ASSUME Goto("writer", "idle"), UNCHANGED local
        PROVE  At("writer")' = "idle" /\ Others("writer")
    BY <2>2 DEF Others, Goto, At, TimerWork, ControlOK, Threads
  <2>3. ASSUME Timers("writer", [NoLocal EXCEPT !.start = {"GracefulTermination"}])
        PROVE  At("writer")' = "idle" /\ Others("writer")
    BY <2>3, LingerMoves, MovesAt DEF Others, Places, Threads
  <2>4. At("writer")' = "idle" /\ Others("writer")
    BY <1>25, <2>2, <2>3 DEF LingerClose
  <2> QED
    BY <2>1, <2>4
       DEF Others, TurnInv, OneOwner, OwnerState, Has, StatesOf, Hands, Calls, Workers
<1>26. ASSUME ResetForNewRequest PROVE OneOwner' /\ OwnerState' /\ signals' \in {0, 1}
  <2>0. At("writer") \in {"sent"}
    BY <1>26 DEF ResetForNewRequest, At, TimerWork
  <2>1. Goes("writer", {"sent"}, {"nested"})
    BY <1>26, <2>0, ResetMoves, MovesAt DEF Goes, Others, Threads, Workers, Places
  <2>2. UNCHANGED <<owed, signals>>
    BY <1>26, <2>1
       DEF ResetForNewRequest, SetState, TerminateRequest, connVars, reqVars, envVars, At
  <2> QED
    BY <2>1, <2>2
       DEF Goes, Others, TurnInv, OneOwner, OwnerState, Has, StatesOf, Hands, Calls, Workers
<1>27. ASSUME NestedDataReceived PROVE OneOwner' /\ OwnerState' /\ signals' \in {0, 1}
  <2>1. Goes("writer", {"nested"}, {"loop"})
    BY <1>27, NoLocalRecord
       DEF Goes, Others, NestedDataReceived, At, Goto, ControlOK, Records, TimerWork, Threads,
           Workers, Enders, Places, NoLocal
  <2>2. UNCHANGED <<state, owed, signals>>
    BY <1>27, <2>1
       DEF NestedDataReceived, SetState, TerminateRequest, connVars, reqVars, envVars, At
  <2> QED
    BY <2>1, <2>2
       DEF Goes, Others, TurnInv, OneOwner, OwnerState, Has, StatesOf, Hands, Calls, Workers
<1>28. ASSUME EndIgnored PROVE OneOwner' /\ OwnerState' /\ signals' \in {0, 1}
  <2>1. Goes("app", {"idle"}, {"idle"})
    BY <1>28, NoLocalRecord
       DEF Goes, Others, EndIgnored, At, Goto, ControlOK, Records, TimerWork, Threads, Workers,
           Enders, Places, NoLocal
  <2>2. owed /\ owed' = FALSE /\ UNCHANGED <<state, signals>>
    BY <1>28, <2>1 DEF EndIgnored, SetState, TerminateRequest, connVars, reqVars, envVars, At
  <2> QED
    BY <2>1, <2>2
       DEF Goes, Others, TurnInv, OneOwner, OwnerState, Has, StatesOf, Hands, Calls, Workers
<1>29. ASSUME EndSends PROVE OneOwner' /\ OwnerState' /\ signals' \in {0, 1}
  <2>0. At("app") \in {"idle"}
    BY <1>29 DEF EndSends, At, TimerWork
  <2>1. Goes("app", {"idle"}, {"signal"})
    BY <1>29, <2>0, EndSendsMoves, MovesAt DEF Goes, Others, Threads, Workers, Places
  <2>2. owed /\ owed' = FALSE /\ state' = "SendingResponse" /\ UNCHANGED signals
    BY <1>29, <2>1 DEF EndSends, SetState, TerminateRequest, connVars, reqVars, envVars, At
  <2> QED
    BY <2>1, <2>2
       DEF Goes, Others, TurnInv, OneOwner, OwnerState, Has, StatesOf, Hands, Calls, Workers
<1>30. ASSUME EndFails PROVE OneOwner' /\ OwnerState' /\ signals' \in {0, 1}
  <2>1. Goes("app", {"idle"}, {"signal"})
    BY <1>30, NoLocalRecord
       DEF Goes, Others, EndFails, At, Goto, ControlOK, Records, TimerWork, Threads, Workers,
           Enders, Places, NoLocal
  <2>2. owed /\ owed' = FALSE /\ state' = "Terminated" /\ UNCHANGED signals
    BY <1>30, <2>1 DEF EndFails, SetState, TerminateRequest, connVars, reqVars, envVars, At
  <2> QED
    BY <2>1, <2>2
       DEF Goes, Others, TurnInv, OneOwner, OwnerState, Has, StatesOf, Hands, Calls, Workers
<1>31. ASSUME EndSignals PROVE OneOwner' /\ OwnerState' /\ signals' \in {0, 1}
  <2>1. Goes("app", {"signal"}, {"idle"})
    BY <1>31, NoLocalRecord
       DEF Goes, Others, EndSignals, At, Goto, ControlOK, Records, TimerWork, Threads, Workers,
           Enders, Places, NoLocal
  <2>2. signals' = signals + 1 /\ UNCHANGED <<state, owed>>
    BY <1>31, <2>1 DEF EndSignals, SetState, TerminateRequest, connVars, reqVars, envVars, At
  <2> QED
    BY <2>1, <2>2
       DEF Goes, Others, TurnInv, OneOwner, OwnerState, Has, StatesOf, Hands, Calls, Workers
<1>32. ASSUME EndSignalFails PROVE OneOwner' /\ OwnerState' /\ signals' \in {0, 1}
  <2>1. Goes("app", {"signal"}, {"idle"})
    BY <1>32, NoLocalRecord
       DEF Goes, Others, EndSignalFails, At, Goto, ControlOK, Records, TimerWork, Threads,
           Workers, Enders, Places, NoLocal
  <2>2. state' = "Terminated" /\ UNCHANGED <<owed, signals>>
    BY <1>32, <2>1
       DEF EndSignalFails, SetState, TerminateRequest, connVars, reqVars, envVars, At
  <2> QED
    BY <2>1, <2>2
       DEF Goes, Others, TurnInv, OneOwner, OwnerState, Has, StatesOf, Hands, Calls, Workers
<1>33. ASSUME EnableDirectResponse PROVE OneOwner' /\ OwnerState' /\ signals' \in {0, 1}
  <2>1. Others("none") /\ owed /\ state' = "SendingResponse" /\ UNCHANGED <<owed, signals>>
    BY <1>33 DEF EnableDirectResponse, Others, At, SetState
  <2> QED
    BY <2>1 DEF Others, TurnInv, OneOwner, OwnerState, Has, StatesOf, Hands, Calls, Workers
<1>34. ASSUME LastData PROVE OneOwner' /\ OwnerState' /\ signals' \in {0, 1}
  <2>1. Goes("reader", {"idle"}, {"loop"})
    BY <1>34, NoLocalRecord
       DEF Goes, Others, LastData, Quiet, At, Goto, ControlOK, Records, TimerWork, Threads,
           Workers, Enders, Places, NoLocal
  <2>2. UNCHANGED <<state, owed, signals>>
    BY <1>34, <2>1 DEF LastData, SetState, TerminateRequest, connVars, reqVars, envVars, At
  <2> QED
    BY <2>1, <2>2
       DEF Goes, Others, TurnInv, OneOwner, OwnerState, Has, StatesOf, Hands, Calls, Workers
<1>35. ASSUME Resumes \/ Receive \/ PeerCloses \/ StopListening \/ ServerDestroyed
              \/ ServerTerminates
       PROVE  OneOwner' /\ OwnerState' /\ signals' \in {0, 1}
  <2>1. Others("none")
    BY <1>35
       DEF Resumes, Receive, PeerCloses, StopListening, ServerDestroyed, ServerTerminates,
           Others, At
  <2>2. state' \in {state, "Terminated"} /\ UNCHANGED <<owed, signals>>
    BY <1>35
       DEF Resumes, Receive, PeerCloses, StopListening, ServerDestroyed, ServerTerminates, At,
           reqVars, connVars, SetState, TerminateRequest
  <2> QED
    BY <2>1, <2>2
       DEF Others, TurnInv, OneOwner, OwnerState, Has, StatesOf, Hands, Calls, Workers
<1>36. ASSUME TimerChecks PROVE OneOwner' /\ OwnerState' /\ signals' \in {0, 1}
  <2>a. \A q \in Threads \ {"timer"} : local'[q] = local[q] /\ pc'[q] = pc[q]
    BY <1>36 DEF TimerChecks, Goto, ControlOK
  <2>c. {"reader", "writer", "app"} \subseteq Threads \ {"timer"}
    BY DEF Threads
  <2>1. Others("none")
    BY <2>a, <2>c DEF Others, At, TimerWork
  <2>2. state' \in {state, "Terminated"} /\ UNCHANGED <<owed, signals>>
    BY <1>36 DEF TimerChecks, reqVars, connVars, SetState, TerminateRequest
  <2> QED
    BY <2>1, <2>2
       DEF Others, TurnInv, OneOwner, OwnerState, Has, StatesOf, Hands, Calls, Workers
<1>37. ASSUME TimerIgnores PROVE OneOwner' /\ OwnerState' /\ signals' \in {0, 1}
  <2>a. \A q \in Threads \ {"timer"} : local'[q] = local[q] /\ pc'[q] = pc[q]
    BY <1>37 DEF TimerIgnores, Goto, ControlOK
  <2>c. {"reader", "writer", "app"} \subseteq Threads \ {"timer"}
    BY DEF Threads
  <2>1. Others("none")
    BY <2>a, <2>c DEF Others, At, TimerWork
  <2>2. state' \in {state, "Terminated"} /\ UNCHANGED <<owed, signals>>
    BY <1>37 DEF TimerIgnores, reqVars, connVars, SetState, TerminateRequest
  <2> QED
    BY <2>1, <2>2
       DEF Others, TurnInv, OneOwner, OwnerState, Has, StatesOf, Hands, Calls, Workers
<1>38. ASSUME TimerEnds PROVE OneOwner' /\ OwnerState' /\ signals' \in {0, 1}
  <2>a. \A q \in Threads \ {"timer"} : local'[q] = local[q] /\ pc'[q] = pc[q]
    BY <1>38 DEF TimerEnds, Goto, ControlOK
  <2>c. {"reader", "writer", "app"} \subseteq Threads \ {"timer"}
    BY DEF Threads
  <2>1. Others("none")
    BY <2>a, <2>c DEF Others, At, TimerWork
  <2>2. state' \in {state, "Terminated"} /\ UNCHANGED <<owed, signals>>
    BY <1>38 DEF TimerEnds, reqVars, connVars, SetState, TerminateRequest
  <2> QED
    BY <2>1, <2>2
       DEF Others, TurnInv, OneOwner, OwnerState, Has, StatesOf, Hands, Calls, Workers
<1>39. ASSUME NEW k \in Kinds, TimerTerminates(k)
       PROVE  OneOwner' /\ OwnerState' /\ signals' \in {0, 1}
  <2>a. \A q \in Threads \ {"timer"} : local'[q] = local[q] /\ pc'[q] = pc[q]
    BY <1>39 DEF TimerTerminates, Goto, ControlOK
  <2>c. {"reader", "writer", "app"} \subseteq Threads \ {"timer"}
    BY DEF Threads
  <2>1. Others("none")
    BY <2>a, <2>c DEF Others, At, TimerWork
  <2>2. state' \in {state, "Terminated"} /\ UNCHANGED <<owed, signals>>
    BY <1>39 DEF TimerTerminates, reqVars, connVars, SetState, TerminateRequest
  <2> QED
    BY <2>1, <2>2
       DEF Others, TurnInv, OneOwner, OwnerState, Has, StatesOf, Hands, Calls, Workers
<1>40. ASSUME NEW k \in Kinds, TimerFires(k)
       PROVE  OneOwner' /\ OwnerState' /\ signals' \in {0, 1}
  <2>a. \A q \in Threads \ {"timer"} : local'[q] = local[q] /\ pc'[q] = pc[q]
    BY <1>40 DEF TimerFires, Goto, ControlOK
  <2>c. {"reader", "writer", "app"} \subseteq Threads \ {"timer"}
    BY DEF Threads
  <2>1. Others("none")
    BY <2>a, <2>c DEF Others, At, TimerWork
  <2>2. state' \in {state, "Terminated"} /\ UNCHANGED <<owed, signals>>
    BY <1>40 DEF TimerFires, reqVars, connVars, SetState, TerminateRequest
  <2> QED
    BY <2>1, <2>2
       DEF Others, TurnInv, OneOwner, OwnerState, Has, StatesOf, Hands, Calls, Workers
<1>41. ASSUME NEW p \in Enders, CloseReturns(p)
       PROVE  OneOwner' /\ OwnerState' /\ signals' \in {0, 1}
  <2>b. local[p].next \in Places
    BY DEF ControlOK, Records, Places, LeaveNext, Threads, Enders
  <2>a. At(p)' = local[p].next /\ \A q \in Threads \ {p} : At(q)' = At(q)
    BY <1>41, <2>b, CloseReturnsMoves, MovesAt DEF Threads, Enders
  <2>c. p \in {"destroyer", "app", "timer"} /\ {"reader", "writer", "app"} \subseteq Threads
        /\ LeaveNext(p) # "signal"
    BY DEF Threads, Enders, LeaveNext
  <2>d. At(p) = local[p].next
    BY <1>41 DEF CloseReturns, At, TimerWork
  <2>1. Others("none")
    BY <2>a, <2>c, <2>d DEF Others, Enders
  <2>2. state' \in {state, "Terminated"} /\ UNCHANGED <<owed, signals>>
    BY <1>41 DEF CloseReturns, reqVars, connVars, SetState, TerminateRequest
  <2> QED
    BY <2>1, <2>2
       DEF Others, TurnInv, OneOwner, OwnerState, Has, StatesOf, Hands, Calls, Workers
<1>42. ASSUME NEW p \in Enders, DestroyEnters(p)
       PROVE  OneOwner' /\ OwnerState' /\ signals' \in {0, 1}
  <2>b. "unlist" \in Places
    BY DEF ControlOK, Records, Places, LeaveNext, Threads, Enders
  <2>a. At(p)' = "unlist" /\ \A q \in Threads \ {p} : At(q)' = At(q)
    BY <1>42, <2>b, DestroyMoves, MovesAt DEF Threads, Enders
  <2>c. p \in {"destroyer", "app", "timer"} /\ {"reader", "writer", "app"} \subseteq Threads
        /\ LeaveNext(p) # "signal"
    BY DEF Threads, Enders, LeaveNext
  <2>d. TRUE
    BY <1>42 DEF DestroyEnters, At, TimerWork
  <2>1. \A q \in {"reader", "writer", "app"} : At(q)' = At(q) \/ (q = "app" /\ At(q)' # "signal")
    BY <2>a, <2>c, <2>d DEF Enders
  <2>2. state' \in {state, "Terminated"} /\ UNCHANGED <<owed, signals>>
    BY <1>42 DEF DestroyEnters, reqVars, connVars, SetState, TerminateRequest
  <2> QED
    BY <2>1, <2>2 DEF TurnInv, OneOwner, OwnerState, Has, StatesOf, Hands, Calls, Workers
<1>43. ASSUME NEW p \in Enders, DestroyLeaves(p)
       PROVE  OneOwner' /\ OwnerState' /\ signals' \in {0, 1}
  <2>b. LeaveNext(p) \in Places
    BY DEF ControlOK, Records, Places, LeaveNext, Threads, Enders
  <2>a. At(p)' = LeaveNext(p) /\ \A q \in Threads \ {p} : At(q)' = At(q)
    BY <1>43, <2>b, LeavesMoves, MovesAt DEF Threads, Enders
  <2>c. p \in {"destroyer", "app", "timer"} /\ {"reader", "writer", "app"} \subseteq Threads
        /\ LeaveNext(p) # "signal"
    BY DEF Threads, Enders, LeaveNext
  <2>d. TRUE
    BY <1>43 DEF DestroyLeaves, At, TimerWork
  <2>1. \A q \in {"reader", "writer", "app"} : At(q)' = At(q) \/ (q = "app" /\ At(q)' # "signal")
    BY <2>a, <2>c, <2>d DEF Enders
  <2>2. state' \in {state, "Terminated"} /\ UNCHANGED <<owed, signals>>
    BY <1>43 DEF DestroyLeaves, reqVars, connVars, SetState, TerminateRequest
  <2> QED
    BY <2>1, <2>2 DEF TurnInv, OneOwner, OwnerState, Has, StatesOf, Hands, Calls, Workers
<1>44. CASE UNCHANGED vars
  BY <1>44
     DEF vars, reqVars, connVars, envVars, At, TurnInv, OneOwner, OwnerState, Has, StatesOf,
         Hands, Calls, Workers
<1> QED
  BY <1>1, <1>2, <1>3, <1>4, <1>5, <1>6, <1>7, <1>8, <1>9, <1>10, <1>11, <1>12, <1>13, <1>14,
     <1>15, <1>16, <1>17, <1>18, <1>19, <1>20, <1>21, <1>22, <1>23, <1>24, <1>25, <1>26, <1>27,
     <1>28, <1>29, <1>30, <1>31, <1>32, <1>33, <1>34, <1>35, <1>36, <1>37, <1>38, <1>39, <1>40,
     <1>41, <1>42, <1>43, <1>44
     DEF Next, Step, TimerSteps, OnSocketDataReceived, End, Workers, Enders, Threads

LEMMA CallStep ==
  ASSUME ControlOK, NothingToCall, [Next]_vars
  PROVE  NothingToCall'
<1>1. ASSUME NEW p \in Threads, StopTimeoutTimers(p) PROVE NothingToCall'
  BY <1>1
     DEF StopTimeoutTimers, Goto, AfterStop, ControlOK, Records, NoLocal, Places, NothingToCall,
         At, TimerWork, Workers, Threads
<1>2. ASSUME NEW p \in Threads, StartClears(p) PROVE NothingToCall'
  BY <1>2
     DEF StartClears, Goto, AfterStop, ControlOK, Records, NoLocal, Places, NothingToCall, At,
         TimerWork, Workers, Threads
<1>3. ASSUME NEW p \in Threads, StartSets(p) PROVE NothingToCall'
  BY <1>3
     DEF StartSets, Goto, AfterStop, ControlOK, Records, NoLocal, Places, NothingToCall, At,
         TimerWork, Workers, Threads
<1>4. ASSUME NEW p \in Workers, LeaveLoop(p) PROVE NothingToCall'
  BY <1>4, LeaveLoopMoves
     DEF Moves, NothingToCall, At, TimerWork, Workers, Threads, Enders, LeaveLoop, InLoop,
         AfterLeave
<1>5. ASSUME NEW p \in Workers, BeginRequest(p) PROVE NothingToCall'
  BY <1>5
     DEF BeginRequest, HasMessage, InLoop, Goto, AfterStop, ControlOK, Records, NoLocal, Places,
         NothingToCall, At, TimerWork, Workers, Threads
<1>6. ASSUME NEW p \in Workers, ParsePart(p) PROVE NothingToCall'
  BY <1>6
     DEF ParsePart, HasMessage, InLoop, Goto, AfterStop, ControlOK, Records, NoLocal, Places,
         NothingToCall, At, TimerWork, Workers, Threads
<1>7. ASSUME NEW p \in Workers, ParseHead(p) PROVE NothingToCall'
  BY <1>7, ParseHeadMoves
     DEF Moves, NothingToCall, At, TimerWork, Workers, Threads, Enders, ParseHead, ParsedBy,
         HasMessage, InLoop, Goto, ControlOK, Records
<1>8. ASSUME NEW p \in Workers, ParseDone(p) PROVE NothingToCall'
  <2>1. PICK F \in SUBSET Fires :
          Leave(p, [local[p] EXCEPT !.stop = Kinds, !.start = {}, !.fire = F])
    BY <1>8 DEF ParseDone, ParsedBy, Fires
  <2>2. Moves(p, Kinds, {}, F, AfterLeave(F))
    BY <2>1, ParseDoneMoves
  <2> QED
    BY <2>2 DEF Moves, AfterLeave, Kinds, NothingToCall, At, TimerWork, Workers, Threads
<1>9. ASSUME NEW p \in Workers, ParseFails(p) PROVE NothingToCall'
  BY <1>9, ErrorMoves
     DEF Moves, NothingToCall, At, TimerWork, Workers, Threads, Enders, ParseFails
<1>10. ASSUME NEW p \in Workers, Refuse(p) PROVE NothingToCall'
  BY <1>10, ErrorMoves DEF Moves, NothingToCall, At, TimerWork, Workers, Threads, Enders, Refuse
<1>11. ASSUME NEW p \in Workers, Discard(p) PROVE NothingToCall'
  BY <1>11
     DEF Discard, HasMessage, InLoop, Goto, AfterStop, ControlOK, Records, NoLocal, Places,
         NothingToCall, At, TimerWork, Workers, Threads
<1>12. ASSUME NEW p \in Workers, HeadersCallback(p) PROVE NothingToCall'
  BY <1>12
     DEF HeadersCallback, Callback, Goto, AfterStop, ControlOK, Records, NoLocal, Places,
         NothingToCall, At, TimerWork, Workers, Threads
<1>13. ASSUME NEW p \in Workers, HeadersReturn(p) PROVE NothingToCall'
  <2>1. local[p] \in Records /\ pc[p] = "headers"
    BY <1>13 DEF HeadersReturn, ControlOK, Threads, Workers
  <2>2. \/ \E U, V : Moves(p, U, V, {}, "loop")
        \/ Goto(p, "completed") /\ UNCHANGED local
    BY <1>13, <2>1, HeadersReturnMoves, RestartMoves DEF HeadersReturn
  <2>3. ASSUME NEW U, NEW V, Moves(p, U, V, {}, "loop") PROVE NothingToCall'
    BY <2>3 DEF Moves, NothingToCall, At, TimerWork, Workers, Threads
  <2>4. ASSUME Goto(p, "completed"), UNCHANGED local PROVE NothingToCall'
    BY <2>1, <2>4 DEF Goto, ControlOK, NothingToCall, At, TimerWork, Workers, Threads
  <2> QED
    BY <2>2, <2>3, <2>4
<1>14. ASSUME NEW p \in Workers, HeadersFailed(p) PROVE NothingToCall'
  BY <1>14, ErrorMoves
     DEF Moves, NothingToCall, At, TimerWork, Workers, Threads, Enders, HeadersFailed
<1>15. ASSUME NEW p \in Workers, CompletedCallback(p) PROVE NothingToCall'
  BY <1>15
     DEF CompletedCallback, Goto, AfterStop, ControlOK, Records, NoLocal, Places, NothingToCall,
         At, TimerWork, Workers, Threads
<1>16. ASSUME NEW p \in Workers, CompletedCancelled(p) PROVE NothingToCall'
  BY <1>16, ErrorMoves
     DEF Moves, NothingToCall, At, TimerWork, Workers, Threads, Enders, CompletedCancelled
<1>17. ASSUME NEW p \in Workers, UpgradeCallback(p) PROVE NothingToCall'
  BY <1>17
     DEF UpgradeCallback, Callback, Goto, AfterStop, ControlOK, Records, NoLocal, Places,
         NothingToCall, At, TimerWork, Workers, Threads
<1>18. ASSUME NEW p \in Workers, UpgradeReturn(p) PROVE NothingToCall'
  BY <1>18, UpgradeMoves
     DEF Moves, NothingToCall, At, TimerWork, Workers, Threads, Enders, UpgradeReturn, Goto,
         ControlOK, Records
<1>19. ASSUME NEW p \in Workers, UpgradeFailed(p) PROVE NothingToCall'
  BY <1>19, ErrorMoves
     DEF Moves, NothingToCall, At, TimerWork, Workers, Threads, Enders, UpgradeFailed
<1>20. ASSUME ConnectRefused PROVE NothingToCall'
  BY <1>20
     DEF ConnectRefused, Goto, AfterStop, ControlOK, Records, NoLocal, Places, NothingToCall,
         At, TimerWork, Workers, Threads
<1>21. ASSUME OnSocketConnect PROVE NothingToCall'
  BY <1>21, ConnectMoves DEF Moves, NothingToCall, At, TimerWork, Workers, Threads, Enders
<1>22. ASSUME Connected PROVE NothingToCall'
  BY <1>22
     DEF Connected, Goto, AfterStop, ControlOK, Records, NoLocal, Places, NothingToCall, At,
         TimerWork, Workers, Threads
<1>23. ASSUME DataArrives PROVE NothingToCall'
  BY <1>23
     DEF DataArrives, Goto, AfterStop, ControlOK, Records, NoLocal, Places, NothingToCall, At,
         TimerWork, Workers, Threads
<1>24. ASSUME SignalFires PROVE NothingToCall'
  BY <1>24, SignalMoves
     DEF Moves, NothingToCall, At, TimerWork, Workers, Threads, Enders, SignalFires
<1>25. ASSUME LingerClose PROVE NothingToCall'
  BY <1>25, LingerMoves
     DEF Moves, NothingToCall, At, TimerWork, Workers, Threads, Enders, LingerClose, Goto,
         ControlOK, Records
<1>26. ASSUME ResetForNewRequest PROVE NothingToCall'
  BY <1>26, ResetMoves DEF Moves, NothingToCall, At, TimerWork, Workers, Threads, Enders
<1>27. ASSUME NestedDataReceived PROVE NothingToCall'
  BY <1>27
     DEF NestedDataReceived, Goto, AfterStop, ControlOK, Records, NoLocal, Places,
         NothingToCall, At, TimerWork, Workers, Threads
<1>28. ASSUME EndSends PROVE NothingToCall'
  BY <1>28, EndSendsMoves DEF Moves, NothingToCall, At, TimerWork, Workers, Threads, Enders
<1>29. ASSUME LastData PROVE NothingToCall'
  BY <1>29
     DEF LastData, Quiet, Goto, AfterStop, ControlOK, Records, NoLocal, Places, NothingToCall,
         At, TimerWork, Workers, Threads
<1>30. ASSUME EndIgnored \/ EndFails \/ EndSignals \/ EndSignalFails \/ EnableDirectResponse
              \/ TimerChecks \/ TimerIgnores \/ TimerEnds \/ Resumes \/ Receive \/ PeerCloses
                   \/ StopListening \/ ServerDestroyed \/ ServerTerminates
       PROVE  NothingToCall'
  BY <1>30
     DEF EndIgnored, EndFails, EndSignals, EndSignalFails, EnableDirectResponse, TimerChecks,
         TimerIgnores, TimerEnds, Resumes, Receive, PeerCloses, StopListening, ServerDestroyed,
         ServerTerminates, Goto, ControlOK, vars, NothingToCall, At, TimerWork, Workers, Threads
<1>31. ASSUME NEW p \in Enders, CloseReturns(p) PROVE NothingToCall'
  BY <1>31, CloseReturnsMoves DEF Moves, NothingToCall, At, TimerWork, Workers, Threads, Enders
<1>32. ASSUME NEW p \in Enders, DestroyEnters(p) PROVE NothingToCall'
  BY <1>32, DestroyMoves DEF Moves, NothingToCall, At, TimerWork, Workers, Threads, Enders
<1>33. ASSUME NEW p \in Enders, DestroyLeaves(p) PROVE NothingToCall'
  BY <1>33, LeavesMoves DEF Moves, NothingToCall, At, TimerWork, Workers, Threads, Enders
<1>34. ASSUME NEW k \in Kinds, TimerTerminates(k) PROVE NothingToCall'
  BY <1>34
     DEF TimerTerminates, Goto, AfterStop, ControlOK, Records, NoLocal, Places, NothingToCall,
         At, TimerWork, Workers, Threads
<1>35. ASSUME NEW k \in Kinds, TimerFires(k) PROVE NothingToCall'
  BY <1>35
     DEF TimerFires, Goto, AfterStop, ControlOK, Records, NoLocal, Places, NothingToCall, At,
         TimerWork, Workers, Threads
<1>36. CASE UNCHANGED vars
  BY <1>36 DEF vars, NothingToCall, At, TimerWork, Workers, Threads
<1> QED
  BY <1>1, <1>2, <1>3, <1>4, <1>5, <1>6, <1>7, <1>8, <1>9, <1>10, <1>11, <1>12, <1>13, <1>14,
     <1>15, <1>16, <1>17, <1>18, <1>19, <1>20, <1>21, <1>22, <1>23, <1>24, <1>25, <1>26, <1>27,
     <1>28, <1>29, <1>30, <1>31, <1>32, <1>33, <1>34, <1>35, <1>36
     DEF Next, Step, TimerSteps, OnSocketDataReceived, End, Workers, Enders, Threads

\* Nobody comes back to the connect callback.
LEMMA NoReturn ==
  ASSUME ControlOK, [Next]_vars, pc'["reader"] = "connect"
  PROVE  pc["reader"] = "connect"
<1> USE DEF Threads
<1>1. ASSUME NEW p \in Threads, TimerSteps(p) PROVE pc["reader"] = "connect"
  <2>1. local[p].next # "connect"
    BY DEF ControlOK, Records, Places
  <2> QED
    BY <1>1, <2>1
       DEF TimerSteps, StopTimeoutTimers, StartClears, StartSets, Goto, AfterStop, ControlOK
<1>2. ASSUME NEW p \in Workers, BeginRequest(p) PROVE pc["reader"] = "connect"
  BY <1>2 DEF BeginRequest, Goto, ControlOK, Workers
<1>3. ASSUME NEW p \in Workers, ParsePart(p) PROVE pc["reader"] = "connect"
  BY <1>3 DEF ParsePart, Goto, ControlOK, Workers
<1>4. ASSUME NEW p \in Workers, Discard(p) PROVE pc["reader"] = "connect"
  BY <1>4 DEF Discard, Goto, ControlOK, Workers
<1>5. ASSUME NEW p \in Workers, HeadersCallback(p) PROVE pc["reader"] = "connect"
  BY <1>5 DEF HeadersCallback, Callback, Goto, ControlOK, Workers
<1>6. ASSUME NEW p \in Workers, CompletedCallback(p) PROVE pc["reader"] = "connect"
  BY <1>6 DEF CompletedCallback, Goto, ControlOK, Workers
<1>7. ASSUME NEW p \in Workers, UpgradeCallback(p) PROVE pc["reader"] = "connect"
  BY <1>7 DEF UpgradeCallback, Callback, Goto, ControlOK, Workers
<1>8. ASSUME NEW p \in Workers, LeaveLoop(p) PROVE pc["reader"] = "connect"
  BY <1>8, LeaveLoopMoves DEF Moves, AfterLeave, Workers
<1>9. ASSUME NEW p \in Workers, ParseHead(p) PROVE pc["reader"] = "connect"
  BY <1>9, ParseHeadMoves DEF Moves, AfterLeave, Workers
<1>10. ASSUME NEW p \in Workers, ParseDone(p) PROVE pc["reader"] = "connect"
  <2>1. PICK F \in SUBSET Fires :
          Leave(p, [local[p] EXCEPT !.stop = Kinds, !.start = {}, !.fire = F])
    BY <1>10 DEF ParseDone, ParsedBy, Fires
  <2>2. Moves(p, Kinds, {}, F, AfterLeave(F))
    BY <2>1, ParseDoneMoves
  <2> QED
    BY <2>2 DEF Moves, AfterLeave
<1>11. ASSUME NEW p \in Workers, ParseFails(p) PROVE pc["reader"] = "connect"
  BY <1>11, ErrorMoves DEF ParseFails, Moves, AfterLeave, Workers
<1>12. ASSUME NEW p \in Workers, Refuse(p) PROVE pc["reader"] = "connect"
  BY <1>12, ErrorMoves DEF Refuse, Moves, AfterLeave, Workers
<1>13. ASSUME NEW p \in Workers, HeadersReturn(p) PROVE pc["reader"] = "connect"
  <2>1. local[p] \in Records
    BY DEF ControlOK, Workers
  <2>2. \/ \E U, V : Moves(p, U, V, {}, "loop")
        \/ Goto(p, "completed")
    BY <1>13, <2>1, HeadersReturnMoves, RestartMoves DEF HeadersReturn
  <2> QED
    BY <2>2 DEF Moves, Goto, ControlOK, Workers
<1>14. ASSUME NEW p \in Workers, HeadersFailed(p) PROVE pc["reader"] = "connect"
  BY <1>14, ErrorMoves DEF HeadersFailed, Moves, AfterLeave, Workers
<1>15. ASSUME NEW p \in Workers, CompletedCancelled(p) PROVE pc["reader"] = "connect"
  BY <1>15, ErrorMoves DEF CompletedCancelled, Moves, AfterLeave, Workers
<1>16. ASSUME NEW p \in Workers, UpgradeReturn(p) PROVE pc["reader"] = "connect"
  <2>1. Moves(p, Kinds, {}, {}, "idle") \/ Goto(p, "idle")
    BY <1>16, UpgradeMoves DEF UpgradeReturn
  <2> QED
    BY <2>1 DEF Moves, Goto, ControlOK, Workers
<1>17. ASSUME NEW p \in Workers, UpgradeFailed(p) PROVE pc["reader"] = "connect"
  BY <1>17, ErrorMoves DEF UpgradeFailed, Moves, AfterLeave, Workers
<1>18. ASSUME ConnectRefused \/ Connected \/ DataArrives \/ EndIgnored \/ EndFails \/ EndSignals
              \/ EndSignalFails \/ EnableDirectResponse \/ TimerChecks \/ TimerIgnores
                   \/ TimerEnds \/ Resumes \/ LastData \/ Receive \/ PeerCloses \/ StopListening
                        \/ ServerDestroyed \/ ServerTerminates
       PROVE  pc["reader"] = "connect"
  BY <1>18
     DEF ConnectRefused, Connected, DataArrives, NestedDataReceived, EndIgnored, EndFails,
         EndSignals, EndSignalFails, EnableDirectResponse, TimerChecks, TimerIgnores, TimerEnds,
         Resumes, LastData, Receive, PeerCloses, StopListening, ServerDestroyed,
         ServerTerminates, Goto, ControlOK
<1>19. ASSUME NestedDataReceived PROVE pc["reader"] = "connect"
  BY <1>19 DEF NestedDataReceived, Goto, ControlOK
<1>20. ASSUME OnSocketConnect PROVE pc["reader"] = "connect"
  BY <1>20, ConnectMoves DEF Moves
<1>21. ASSUME SignalFires PROVE pc["reader"] = "connect"
  BY <1>21, SignalMoves DEF Moves
<1>22. ASSUME LingerClose PROVE pc["reader"] = "connect"
  <2>1. Moves("writer", {}, {"GracefulTermination"}, {}, "idle") \/ Goto("writer", "idle")
    BY <1>22, LingerMoves DEF LingerClose
  <2> QED
    BY <2>1 DEF Moves, Goto, ControlOK
<1>23. ASSUME ResetForNewRequest PROVE pc["reader"] = "connect"
  BY <1>23, ResetMoves DEF Moves
<1>24. ASSUME EndSends PROVE pc["reader"] = "connect"
  BY <1>24, EndSendsMoves DEF Moves
<1>25. ASSUME NEW p \in Enders, CloseReturns(p) PROVE pc["reader"] = "connect"
  BY <1>25, CloseReturnsMoves DEF Moves, Enders
<1>26. ASSUME NEW p \in Enders, DestroyEnters(p) PROVE pc["reader"] = "connect"
  BY <1>26, DestroyMoves DEF Moves, Enders
<1>27. ASSUME NEW p \in Enders, DestroyLeaves(p) PROVE pc["reader"] = "connect"
  BY <1>27, LeavesMoves DEF Moves, Enders
<1>28. ASSUME NEW k \in Kinds, TimerTerminates(k) \/ TimerFires(k)
       PROVE  pc["reader"] = "connect"
  BY <1>28 DEF TimerTerminates, TimerFires, Goto, ControlOK
<1>29. CASE UNCHANGED vars
  BY <1>29 DEF vars
<1> QED
  BY <1>1, <1>2, <1>3, <1>4, <1>5, <1>6, <1>7, <1>8, <1>9, <1>10, <1>11, <1>12, <1>13, <1>14,
     <1>15, <1>16, <1>17, <1>18, <1>19, <1>20, <1>21, <1>22, <1>23, <1>24, <1>25, <1>26, <1>27,
     <1>28, <1>29
     DEF Next, Step, OnSocketDataReceived, End, Workers, Enders

LEMMA ConnectStep ==
  ASSUME ControlOK, NotConnected, [Next]_vars
  PROVE  NotConnected'
<1> SUFFICES ASSUME pc'["reader"] = "connect" PROVE NotConnected'
  BY DEF NotConnected
<1>1. /\ pc["reader"] = "connect" /\ pc["writer"] = "idle"
      /\ At("app") # "signal" /\ ~owed /\ signals = 0
      /\ state = "Inactive" \/ server = "down"
  BY NoReturn DEF NotConnected
<1>2. pc["app"] # "signal"
  BY <1>1 DEF At, TimerWork
<1>3. ASSUME NEW p \in Workers, TimerSteps(p) \/ OnSocketDataReceived(p) PROVE FALSE
  BY <1>1, <1>3
     DEF TimerSteps, StopTimeoutTimers, StartClears, StartSets, OnSocketDataReceived, LeaveLoop,
         BeginRequest, ParsePart, ParseHead, ParseDone, ParseFails, Refuse, Discard,
         HeadersCallback, HeadersReturn, HeadersFailed, CompletedCallback, CompletedCancelled,
         UpgradeCallback, UpgradeReturn, UpgradeFailed, HasMessage, InLoop, Callback, Workers
<1>4. ASSUME NEW p \in Enders, TimerSteps(p) PROVE NotConnected'
  <2>a. \A q \in Threads : local'[q].next = local[q].next
    BY <1>4
       DEF TimerSteps, StopTimeoutTimers, StartClears, StartSets, ControlOK, Records, Enders,
           Threads
  <2>b. /\ \A q \in Threads \ {p} : pc'[q] = pc[q]
        /\ pc[p] \in TimerWork /\ pc'[p] \in {"clear", "set", local[p].next}
    BY <1>4
       DEF TimerSteps, StopTimeoutTimers, StartClears, StartSets, Goto, AfterStop, ControlOK,
           TimerWork, Enders, Threads
  <2>1. At("app")' = At("app") /\ pc'["writer"] = pc["writer"]
    BY <2>a, <2>b DEF At, TimerWork, Enders, Threads
  <2>2. UNCHANGED <<state, server, owed, signals>>
    BY <1>4
       DEF TimerSteps, StopTimeoutTimers, StartClears, StartSets, reqVars, connVars, envVars
  <2> QED
    BY <1>1, <2>1, <2>2 DEF NotConnected
<1>5. ASSUME ConnectRefused \/ OnSocketConnect \/ Connected \/ DataArrives \/ SignalFires
             \/ LingerClose \/ ResetForNewRequest \/ NestedDataReceived \/ End
                  \/ EnableDirectResponse \/ LastData
      PROVE  NotConnected'
  <2>1. ASSUME OnSocketConnect PROVE FALSE
    BY <2>1, ConnectMoves DEF Moves
  <2>2. ASSUME ConnectRefused PROVE FALSE
    BY <2>2 DEF ConnectRefused, Goto, ControlOK, Threads
  <2> QED
    BY <1>1, <1>2, <1>5, <2>1, <2>2
       DEF Connected, DataArrives, SignalFires, LingerClose, ResetForNewRequest,
       NestedDataReceived, End, EndIgnored, EndSends, EndFails, EndSignals, EndSignalFails,
       EnableDirectResponse,
       LastData, Quiet
<1>6. ASSUME NEW p \in Enders, CloseReturns(p) PROVE NotConnected'
  <2>1. local[p].next \in Places /\ At(p) = local[p].next
    BY <1>6 DEF CloseReturns, At, TimerWork, ControlOK, Records, Places, Threads, Enders
  <2>2. At("app")' = At("app") /\ pc'["writer"] = pc["writer"]
    BY <1>6, <2>1, CloseReturnsMoves, MovesAt DEF Moves, Threads, Enders
  <2>3. UNCHANGED <<state, server, owed, signals>>
    BY <1>6 DEF CloseReturns, reqVars, connVars, envVars
  <2> QED
    BY <1>1, <2>2, <2>3 DEF NotConnected
<1>7. ASSUME NEW p \in Enders, DestroyEnters(p) PROVE FALSE
  BY <1>1, <1>7 DEF DestroyEnters, Quiet
<1>8. ASSUME NEW p \in Enders, DestroyLeaves(p) PROVE NotConnected'
  <2>1. LeaveNext(p) \in Places /\ LeaveNext(p) # "signal"
    BY DEF LeaveNext, Places
  <2>2. At("app")' # "signal" /\ pc'["writer"] = pc["writer"]
    BY <1>1, <1>8, <2>1, LeavesMoves, MovesAt DEF Moves, Threads, Enders
  <2>3. UNCHANGED <<state, server, owed, signals>>
    BY <1>8 DEF DestroyLeaves, connVars, envVars
  <2> QED
    BY <1>1, <2>2, <2>3 DEF NotConnected
<1>9. ASSUME TimerChecks \/ TimerIgnores \/ TimerEnds
             \/ (\E k \in Kinds : TimerTerminates(k) \/ TimerFires(k))
      PROVE  NotConnected'
  <2>1. \A q \in Threads \ {"timer"} : local'[q] = local[q] /\ pc'[q] = pc[q]
    BY <1>9
       DEF TimerChecks, TimerIgnores, TimerEnds, TimerTerminates, TimerFires, Goto, ControlOK
  <2>2. At("app")' = At("app") /\ pc'["writer"] = pc["writer"]
    BY <2>1 DEF At, Threads
  <2>3. UNCHANGED <<server, owed, signals>> /\ (state = "Inactive" => state' = state)
    BY <1>9
       DEF TimerChecks, TimerIgnores, TimerEnds, TimerTerminates, TimerFires, TerminateRequest,
       EndedBy, Kinds, reqVars, connVars, envVars
  <2> QED
    BY <1>1, <2>2, <2>3 DEF NotConnected
<1>10. ASSUME Resumes \/ Receive \/ PeerCloses \/ StopListening \/ ServerDestroyed
              \/ ServerTerminates
       PROVE  NotConnected'
  BY <1>1, <1>10
     DEF Resumes, Receive, PeerCloses, StopListening, ServerDestroyed, ServerTerminates,
     TerminateRequest, NotConnected, At, reqVars, connVars, envVars
<1>11. CASE UNCHANGED vars
  BY <1>1, <1>11 DEF vars, reqVars, connVars, envVars, NotConnected, At
<1> QED
  BY <1>3, <1>4, <1>5, <1>6, <1>7, <1>8, <1>9, <1>10, <1>11
     DEF Next, Step, Workers, Enders, Threads

LEMMA TurnStep ==
  ASSUME ControlOK, TurnInv, [Next]_vars
  PROVE  TurnInv'
BY OwnerStep, ConnectStep, CallStep DEF TurnInv

\* From the connect callback on, a worker in its callbacks, the application, End,
\* the queued signal or OnAfterSendResponse has the request, one at a time, and
\* the state is one in which it may.
THEOREM OneHasTheRequest == Spec => [](ControlOK /\ TurnInv)
<1>1. Init => ControlOK /\ TurnInv
  BY NoLocalRecord
     DEF Init, ControlOK, TurnInv, OneOwner, OwnerState, NotConnected, NothingToCall, Has,
     Hands, Calls, At, TimerWork, Places, Threads, Workers, NoLocal
<1>2. ControlOK /\ TurnInv /\ [Next]_vars => (ControlOK /\ TurnInv)'
  BY ControlStep, TurnStep
<1> QED
  BY <1>1, <1>2, PTL DEF Spec

\* OnAfterSendResponse resets the request that was answered and no other.
THEOREM SignalIsOfThisRequest == Spec => []SignalOfThisRequest
<1>1. ControlOK /\ TurnInv => SignalOfThisRequest
  <2> SUFFICES ASSUME ControlOK, TurnInv PROVE SignalOfThisRequest
    OBVIOUS
  <2>1. "sent" \in {pc["writer"], local["writer"].next}
        /\ pc["writer"] # "idle" => At("writer") = "sent"
    BY DEF TurnInv, NothingToCall, At, TimerWork, Workers
  <2>2. pc["app"] \in {"stop", "clear", "set", "signal"}
        /\ local["app"].next = "signal" => At("app") = "signal"
    BY DEF At, TimerWork
  <2>3. /\ signals \in {0, 1}
        /\ ~(signals = 1 /\ (At("writer") = "sent" \/ At("app") = "signal"))
        /\ ~(At("writer") = "sent" /\ At("app") = "signal")
        /\ signals = 1 \/ At("writer") = "sent" \/ At("app") = "signal"
             => state \in {"BuildingResponse", "SendingResponse", "Terminated"}
    BY DEF TurnInv, OneOwner, OwnerState, Has, StatesOf, Hands, Workers
  <2> QED
    BY <2>1, <2>2, <2>3 DEF SignalOfThisRequest, Responses
<1> QED
  BY <1>1, OneHasTheRequest, PTL

\* OnRequestCompleted is called for the request being answered, one at a time.
THEOREM CompletedComesInTurn == Spec => []CompletedInTurn
<1>1. ControlOK /\ TurnInv => CompletedInTurn
  <2> SUFFICES ASSUME ControlOK, TurnInv, NEW p \in Workers, pc[p] = "completed"
               PROVE  /\ state \in {"BuildingResponse", "Terminated"}
                      /\ ~owed /\ Responses = 0
                      /\ \A q \in {"reader", "writer"} \ {p} : pc[q] \notin {"headers", "completed"}
    BY DEF CompletedInTurn, Workers
  <2>1. "sent" \in {pc["writer"], local["writer"].next}
        /\ pc["writer"] # "idle" => At("writer") = "sent"
    BY DEF TurnInv, NothingToCall, At, TimerWork, Workers
  <2>2. pc["app"] \in {"stop", "clear", "set", "signal"}
        /\ local["app"].next = "signal" => At("app") = "signal"
    BY DEF At, TimerWork
  <2>3. At(p) = "completed"
        /\ \A q \in Workers : pc[q] \in {"headers", "completed"} => At(q) \in Calls
    BY DEF At, TimerWork, Calls
  <2>4. /\ state \in {"BuildingResponse", "Terminated"}
        /\ ~owed /\ signals = 0 /\ At("writer") # "sent" /\ At("app") # "signal"
        /\ \A q \in Workers \ {p} : At(q) \notin Calls
    BY <2>3 DEF TurnInv, OneOwner, OwnerState, Has, StatesOf, Hands, Calls, Workers
  <2> QED
    BY <2>1, <2>2, <2>3, <2>4 DEF Responses, Workers
<1> QED
  BY <1>1, OneHasTheRequest, PTL

-----------------------------------------------------------------------------
(***************************************************************************)
(* Nobody forgets data that arrived: when the request can take it, a     *)
(* worker looks or is going to be told.                                  *)
(***************************************************************************)
CanTake == {"KeepingAlive", "ReceivingRequestHeaders", "ReceivingRequestBody",
            "GracefulTermination"}

WillLook(p) == At(p) # "idle" /\ pc[p] # "completed"

ConnectLooks ==
  /\ pc["reader"] = "connect" => buffered = <<>>
  /\ At("reader") = "connected" /\ buffered # <<>> => newData

LookInv ==
  /\ ConnectLooks
  /\ buffered # <<>> /\ ~closed /\ state \in CanTake
     => newData \/ resuming \/ \E p \in Workers : WillLook(p)

LEMMA MovesPc ==
  ASSUME NEW p \in Threads, NEW S, NEW T, NEW F, NEW n \in Places, Moves(p, S, T, F, n)
  PROVE  /\ pc'[p] \in {"stop", "clear", n}
         /\ \A q \in Threads \ {p} : pc'[q] = pc[q]
BY DEF Moves

LEMMA LookMeaning ==
  ASSUME ControlOK, NothingToCall, NEW p \in Workers
  PROVE  Looks(p) <=> WillLook(p)
BY DEF Looks, WillLook, At, TimerWork, NothingToCall, ControlOK, Threads, Workers, Places

\* What a step of p that goes on to look shows of the others.
LEMMA LookGoes ==
  ASSUME ConnectLooks, NEW p \in Workers, WillLook(p)', At(p)' # "connected", pc'[p] # "connect",
         \A q \in Workers \ {p} : At(q)' = At(q) /\ pc'[q] = pc[q],
         buffered' # <<>> => buffered # <<>>, newData' = newData \/ p = "reader"
  PROVE  LookInv'
BY DEF LookInv, ConnectLooks, Workers, CanTake

LEMMA LookStep ==
  ASSUME ControlOK, TurnInv, LookInv, [Next]_vars
  PROVE  LookInv'
<1>1. ASSUME NEW p \in Workers, BeginRequest(p) PROVE LookInv'
  <2>1. At(p)' = "next" /\ pc'[p] = "next"
        /\ \A q \in Workers \ {p} : At(q)' = At(q) /\ pc'[q] = pc[q]
    BY <1>1 DEF BeginRequest, Goto, At, TimerWork, ControlOK, Threads, Workers
  <2>2. buffered' # <<>> => buffered # <<>>
    BY <1>1 DEF BeginRequest, HasMessage, InLoop, connVars
  <2>3. newData' = newData
    BY <1>1 DEF BeginRequest, HasMessage, InLoop, connVars
  <2> QED
    BY <2>1, <2>2, <2>3, LookGoes DEF WillLook, LookInv
<1>2. ASSUME NEW p \in Workers, ParsePart(p) PROVE LookInv'
  <2>1. At(p)' = "next" /\ pc'[p] = "next"
        /\ \A q \in Workers \ {p} : At(q)' = At(q) /\ pc'[q] = pc[q]
    BY <1>2 DEF ParsePart, Goto, At, TimerWork, ControlOK, Threads, Workers
  <2>2. buffered' # <<>> => buffered # <<>>
    BY <1>2 DEF ParsePart, HasMessage, InLoop, connVars
  <2>3. newData' = newData
    BY <1>2 DEF ParsePart, HasMessage, InLoop, connVars
  <2> QED
    BY <2>1, <2>2, <2>3, LookGoes DEF WillLook, LookInv
<1>3. ASSUME NEW p \in Workers, ParseHead(p) PROVE LookInv'
  <2>1. At(p)' = "headers_call" /\ pc'[p] # "completed" /\ pc'[p] # "connect"
        /\ \A q \in Workers \ {p} : At(q)' = At(q) /\ pc'[q] = pc[q]
    BY <1>3, ParseHeadMoves, MovesAt, MovesPc DEF Kinds, Places, Threads, Workers
  <2>2. (buffered' # <<>> => buffered # <<>>) /\ newData' = newData
    BY <1>3 DEF ParseHead, ParsedBy, HasMessage
  <2> QED
    BY <2>1, <2>2, LookGoes DEF WillLook, LookInv
<1>4. ASSUME NEW p \in Workers, ParseDone(p) PROVE LookInv'
  <2>1. PICK F \in SUBSET Fires : F # {}
             /\ Leave(p, [local[p] EXCEPT !.stop = Kinds, !.start = {}, !.fire = F])
    BY <1>4 DEF ParseDone, ParsedBy, Fires
  <2>2. Moves(p, Kinds, {}, F, AfterLeave(F)) /\ AfterLeave(F) \in Places \ {"idle", "connected"}
    BY <2>1, ParseDoneMoves DEF AfterLeave, Places
  <2>3. At(p)' = AfterLeave(F)
        /\ \A q \in Workers \ {p} : At(q)' = At(q) /\ pc'[q] = pc[q]
    BY <2>2, MovesAt, MovesPc DEF Places, Threads, Workers
  <2>4. pc'[p] = "stop"
    BY <2>2 DEF Moves, Kinds
  <2>5. (buffered' # <<>> => buffered # <<>>) /\ newData' = newData
    BY <1>4 DEF ParseDone, ParsedBy, HasMessage
  <2> QED
    BY <2>2, <2>3, <2>4, <2>5, LookGoes DEF WillLook, LookInv
<1>5. ASSUME NEW p \in Workers, ParseFails(p) PROVE LookInv'
  <2>1. At(p)' = "loop" /\ pc'[p] # "completed" /\ pc'[p] # "connect"
        /\ \A q \in Workers \ {p} : At(q)' = At(q) /\ pc'[q] = pc[q]
    BY <1>5, ErrorMoves, MovesAt, MovesPc DEF ParseFails, Kinds, Places, Threads, Workers
  <2>2. buffered' # <<>> => buffered # <<>>
    BY <1>5 DEF ParseFails, HasMessage
  <2>3. newData' = newData
    BY <1>5 DEF ParseFails, OnRequestError
  <2> QED
    BY <2>1, <2>2, <2>3, LookGoes DEF WillLook, LookInv
<1>6. ASSUME NEW p \in Workers, Refuse(p) PROVE LookInv'
  <2>1. At(p)' = "loop" /\ pc'[p] # "completed" /\ pc'[p] # "connect"
        /\ \A q \in Workers \ {p} : At(q)' = At(q) /\ pc'[q] = pc[q]
    BY <1>6, ErrorMoves, MovesAt, MovesPc DEF Refuse, Kinds, Places, Threads, Workers
  <2>2. buffered' # <<>> => buffered # <<>>
    BY <1>6 DEF Refuse, HasMessage
  <2>3. newData' = newData
    BY <1>6 DEF Refuse, OnRequestError
  <2> QED
    BY <2>1, <2>2, <2>3, LookGoes DEF WillLook, LookInv
<1>7. ASSUME NEW p \in Workers, Discard(p) PROVE LookInv'
  <2>1. At(p)' = "next" /\ pc'[p] = "next"
        /\ \A q \in Workers \ {p} : At(q)' = At(q) /\ pc'[q] = pc[q]
    BY <1>7 DEF Discard, Goto, At, TimerWork, ControlOK, Threads, Workers
  <2>2. buffered' # <<>> => buffered # <<>>
    BY <1>7 DEF Discard, HasMessage, InLoop, connVars
  <2>3. newData' = newData
    BY <1>7 DEF Discard, HasMessage, InLoop, connVars
  <2> QED
    BY <2>1, <2>2, <2>3, LookGoes DEF WillLook, LookInv
<1>8. ASSUME NEW p \in Workers, HeadersCallback(p) PROVE LookInv'
  <2>1. At(p)' = "headers" /\ pc'[p] = "headers"
        /\ \A q \in Workers \ {p} : At(q)' = At(q) /\ pc'[q] = pc[q]
    BY <1>8 DEF HeadersCallback, Callback, Goto, At, TimerWork, ControlOK, Threads, Workers
  <2>2. buffered' # <<>> => buffered # <<>>
    BY <1>8 DEF HeadersCallback, Callback, connVars
  <2>3. newData' = newData
    BY <1>8 DEF HeadersCallback, Callback, connVars
  <2> QED
    BY <2>1, <2>2, <2>3, LookGoes DEF WillLook, LookInv
<1>9. ASSUME NEW p \in Workers, HeadersFailed(p) PROVE LookInv'
  <2>1. At(p)' = "loop" /\ pc'[p] # "completed" /\ pc'[p] # "connect"
        /\ \A q \in Workers \ {p} : At(q)' = At(q) /\ pc'[q] = pc[q]
    BY <1>9, ErrorMoves, MovesAt, MovesPc DEF HeadersFailed, Kinds, Places, Threads, Workers
  <2>2. buffered' # <<>> => buffered # <<>>
    BY <1>9 DEF HeadersFailed, HasMessage
  <2>3. newData' = newData
    BY <1>9 DEF HeadersFailed, OnRequestError
  <2> QED
    BY <2>1, <2>2, <2>3, LookGoes DEF WillLook, LookInv
<1>10. ASSUME NEW p \in Workers, CompletedCancelled(p) PROVE LookInv'
  <2>1. At(p)' = "loop" /\ pc'[p] # "completed" /\ pc'[p] # "connect"
        /\ \A q \in Workers \ {p} : At(q)' = At(q) /\ pc'[q] = pc[q]
    BY <1>10, ErrorMoves, MovesAt, MovesPc
       DEF CompletedCancelled, Kinds, Places, Threads, Workers
  <2>2. buffered' # <<>> => buffered # <<>>
    BY <1>10 DEF CompletedCancelled, HasMessage
  <2>3. newData' = newData
    BY <1>10 DEF CompletedCancelled, OnRequestError
  <2> QED
    BY <2>1, <2>2, <2>3, LookGoes DEF WillLook, LookInv
<1>11. ASSUME NEW p \in Workers, UpgradeCallback(p) PROVE LookInv'
  <2>1. At(p)' = "upgraded" /\ pc'[p] = "upgraded"
        /\ \A q \in Workers \ {p} : At(q)' = At(q) /\ pc'[q] = pc[q]
    BY <1>11 DEF UpgradeCallback, Callback, Goto, At, TimerWork, ControlOK, Threads, Workers
  <2>2. buffered' # <<>> => buffered # <<>>
    BY <1>11 DEF UpgradeCallback, Callback, connVars
  <2>3. newData' = newData
    BY <1>11 DEF UpgradeCallback, Callback, connVars
  <2> QED
    BY <2>1, <2>2, <2>3, LookGoes DEF WillLook, LookInv
<1>12. ASSUME NEW p \in Workers, UpgradeFailed(p) PROVE LookInv'
  <2>1. At(p)' = "loop" /\ pc'[p] # "completed" /\ pc'[p] # "connect"
        /\ \A q \in Workers \ {p} : At(q)' = At(q) /\ pc'[q] = pc[q]
    BY <1>12, ErrorMoves, MovesAt, MovesPc DEF UpgradeFailed, Kinds, Places, Threads, Workers
  <2>2. buffered' # <<>> => buffered # <<>>
    BY <1>12 DEF UpgradeFailed, HasMessage
  <2>3. newData' = newData
    BY <1>12 DEF UpgradeFailed, OnRequestError
  <2> QED
    BY <2>1, <2>2, <2>3, LookGoes DEF WillLook, LookInv
<1>13. ASSUME NEW p \in Workers, LeaveLoop(p) PROVE LookInv'
  <2>1. AfterLeave(local[p].fire) = "idle"
    BY <1>13 DEF LeaveLoop, InLoop, TurnInv, NothingToCall, AfterLeave, At, TimerWork
  <2>2. At(p)' = "idle" /\ pc'[p] # "connect"
        /\ \A q \in Workers \ {p} : At(q)' = At(q) /\ pc'[q] = pc[q]
    BY <1>13, <2>1, LeaveLoopMoves, MovesAt, MovesPc DEF Places, Threads, Workers
  <2>3. UNCHANGED <<state, buffered, newData>> /\ (buffered = <<>> \/ state \notin CanTake)
    BY <1>13 DEF LeaveLoop, CanTake, PausedStates, reqVars, connVars
  <2> QED
    BY <2>2, <2>3 DEF LookInv, ConnectLooks, Workers
<1>14. ASSUME NEW p \in Workers, HeadersReturn(p) PROVE LookInv'
  <2>1. local[p] \in Records /\ pc[p] = "headers" /\ UNCHANGED <<buffered, newData>>
    BY <1>14 DEF HeadersReturn, ControlOK, Threads, Workers
  <2>2. state \in {"AfterHeaders", "Terminated"}
    BY <2>1 DEF TurnInv, OwnerState, Has, StatesOf, Hands, Calls, At, TimerWork, Workers
  <2>3. \/ Restart(p, [local[p] EXCEPT !.start = @ \union {"Throughput"}])
        \/ Restart(p, local[p])
        \/ Goto(p, "completed") /\ UNCHANGED local /\ state' \notin CanTake
    BY <1>14, <2>2 DEF HeadersReturn, SetState, CanTake
  <2>4. ASSUME NEW U, NEW V, Moves(p, U, V, {}, "loop") PROVE LookInv'
    <3>1. At(p)' = "loop" /\ \A q \in Workers \ {p} : At(q)' = At(q)
      BY <2>4, MovesAt DEF Places, Threads, Workers
    <3>2. pc'[p] \in {"stop", "clear", "loop"} /\ \A q \in Workers \ {p} : pc'[q] = pc[q]
      BY <2>4, MovesPc DEF Places, Threads, Workers
    <3> QED
      BY <2>1, <2>4, <3>1, <3>2, LookGoes DEF WillLook, LookInv
  <2>5. ASSUME Goto(p, "completed"), UNCHANGED local, state' \notin CanTake PROVE LookInv'
    <3>1. At(p)' = "completed" /\ pc'[p] = "completed"
          /\ \A q \in Workers \ {p} : At(q)' = At(q) /\ pc'[q] = pc[q]
      BY <2>5 DEF Goto, At, TimerWork, ControlOK, Threads, Workers
    <3> QED
      BY <2>1, <2>5, <3>1 DEF LookInv, ConnectLooks, Workers
  <2> QED
    BY <2>1, <2>3, <2>4, <2>5, HeadersReturnMoves, RestartMoves
<1>15. ASSUME NEW p \in Workers, CompletedCallback(p) PROVE LookInv'
  <2>1. At(p)' \in {"cancelled", "idle"} /\ pc'[p] # "connect"
        /\ \A q \in Workers \ {p} : At(q)' = At(q) /\ pc'[q] = pc[q]
    BY <1>15 DEF CompletedCallback, Goto, At, TimerWork, ControlOK, Threads, Workers
  <2>2. state \in {"BuildingResponse", "Terminated"} /\ UNCHANGED <<state, buffered, newData>>
    BY <1>15
       DEF CompletedCallback, TurnInv, OwnerState, Has, StatesOf, Hands, Calls, At, TimerWork,
           Workers, reqVars, connVars
  <2> QED
    BY <2>1, <2>2 DEF LookInv, ConnectLooks, CanTake, Workers
<1>16. ASSUME NEW p \in Workers, UpgradeReturn(p) PROVE LookInv'
  <2>1. \/ Moves(p, Kinds, {}, {}, "idle") /\ state' = "WebSocket"
        \/ Goto(p, "idle") /\ UNCHANGED <<local, state>> /\ state # "NegotiatingWebSocket"
    BY <1>16, UpgradeMoves DEF UpgradeReturn, SetState
  <2>2. At(p)' = "idle" /\ pc'[p] # "connect"
        /\ \A q \in Workers \ {p} : At(q)' = At(q) /\ pc'[q] = pc[q]
    <3>1. CASE Moves(p, Kinds, {}, {}, "idle")
      BY <3>1, MovesAt, MovesPc DEF Places, Threads, Workers
    <3>2. CASE Goto(p, "idle") /\ UNCHANGED local
      BY <3>2 DEF Goto, At, TimerWork, ControlOK, Threads, Workers
    <3> QED
      BY <2>1, <3>1, <3>2
  <2>3. state \in {"NegotiatingWebSocket", "Terminated"} /\ UNCHANGED <<buffered, newData>>
    BY <1>16
       DEF UpgradeReturn, TurnInv, OwnerState, Has, StatesOf, Hands, Calls, At, TimerWork,
           Workers
  <2> QED
    BY <2>1, <2>2, <2>3 DEF LookInv, ConnectLooks, CanTake, Workers
<1>17. ASSUME NEW p \in Workers, TimerSteps(p) PROVE LookInv'
  <2>1. \A q \in Threads : local'[q].next = local[q].next
    BY <1>17
       DEF TimerSteps, StopTimeoutTimers, StartClears, StartSets, ControlOK, Records, Workers,
           Threads
  <2>2. /\ \A q \in Threads \ {p} : pc'[q] = pc[q]
        /\ pc[p] \in TimerWork /\ pc'[p] \in {"clear", "set", local[p].next}
    BY <1>17
       DEF TimerSteps, StopTimeoutTimers, StartClears, StartSets, Goto, AfterStop, ControlOK,
           TimerWork, Workers, Threads
  <2>3. \A q \in Workers : At(q)' = At(q)
    BY <2>1, <2>2 DEF At, TimerWork, Workers, Threads
  <2>4. pc'[p] # "connect"
    BY <2>2 DEF ControlOK, Records, Workers, Threads
  <2>5. UNCHANGED <<state, closed, buffered, newData, resuming>>
    BY <1>17 DEF TimerSteps, StopTimeoutTimers, StartClears, StartSets, reqVars, connVars
  <2>6. pc'[p] = "completed" => state \in {"BuildingResponse", "Terminated"}
    BY <2>2, <2>3 DEF TurnInv, OwnerState, Has, StatesOf, Hands, Calls, At, TimerWork, Workers
  <2>7. pc'[p] # "completed" /\ WillLook(p) => WillLook(p)'
    BY <2>3 DEF WillLook
  <2> QED
    BY <2>2, <2>3, <2>4, <2>5, <2>6, <2>7
       DEF LookInv, ConnectLooks, WillLook, CanTake, Workers, Threads
<1>18. ASSUME ConnectRefused PROVE LookInv'
  <2>1. At("reader")' = "idle" /\ pc'["reader"] = "idle" /\ closed' = TRUE
    BY <1>18 DEF ConnectRefused, Goto, At, TimerWork, ControlOK, Threads
  <2> QED
    BY <2>1 DEF LookInv, ConnectLooks
<1>19. ASSUME OnSocketConnect PROVE LookInv'
  <2>1. At("reader")' = "connected" /\ pc'["reader"] # "completed" /\ pc'["reader"] # "connect"
        /\ \A q \in Workers \ {"reader"} : At(q)' = At(q) /\ pc'[q] = pc[q]
    BY <1>19, ConnectMoves, MovesAt, MovesPc DEF Kinds, Places, Threads, Workers
  <2>2. buffered' = <<>>
    BY <1>19 DEF OnSocketConnect, LookInv, ConnectLooks
  <2> QED
    BY <2>1, <2>2 DEF LookInv, ConnectLooks
<1>20. ASSUME Connected PROVE LookInv'
  <2>1. At("reader") = "connected" /\ At("reader")' = "idle" /\ pc'["reader"] = "idle"
    BY <1>20 DEF Connected, Goto, At, TimerWork, ControlOK, Threads
  <2>2. UNCHANGED <<buffered, newData>>
    BY <1>20 DEF Connected, connVars
  <2> QED
    BY <2>1, <2>2 DEF LookInv, ConnectLooks
<1>21. ASSUME DataArrives PROVE LookInv'
  <2>1. At("reader")' = "loop" /\ pc'["reader"] = "loop"
        /\ \A q \in Workers \ {"reader"} : At(q)' = At(q) /\ pc'[q] = pc[q]
    BY <1>21 DEF DataArrives, Goto, At, TimerWork, ControlOK, Threads, Workers
  <2>2. buffered' = buffered /\ (newData' = newData \/ "reader" = "reader")
    BY <1>21 DEF DataArrives, connVars
  <2> QED
    BY <2>1, <2>2, LookGoes DEF WillLook, LookInv, Workers
<1>22. ASSUME LastData PROVE LookInv'
  <2>1. At("reader")' = "loop" /\ pc'["reader"] = "loop"
        /\ \A q \in Workers \ {"reader"} : At(q)' = At(q) /\ pc'[q] = pc[q]
    BY <1>22 DEF LastData, Goto, At, TimerWork, ControlOK, Threads, Workers
  <2>2. buffered' = buffered /\ (newData' = newData \/ "reader" = "reader")
    BY <1>22 DEF LastData, connVars
  <2> QED
    BY <2>1, <2>2, LookGoes DEF WillLook, LookInv, Workers
<1>23. ASSUME NestedDataReceived PROVE LookInv'
  <2>1. At("writer")' = "loop" /\ pc'["writer"] = "loop"
        /\ \A q \in Workers \ {"writer"} : At(q)' = At(q) /\ pc'[q] = pc[q]
    BY <1>23 DEF NestedDataReceived, Goto, At, TimerWork, ControlOK, Threads, Workers
  <2>2. buffered' = buffered /\ (newData' = newData \/ "writer" = "reader")
    BY <1>23 DEF NestedDataReceived, connVars
  <2> QED
    BY <2>1, <2>2, LookGoes DEF WillLook, LookInv, Workers
<1>24. ASSUME SignalFires PROVE LookInv'
  <2>1. At("writer")' = "sent" /\ pc'["writer"] # "completed" /\ pc'["writer"] # "connect"
        /\ \A q \in Workers \ {"writer"} : At(q)' = At(q) /\ pc'[q] = pc[q]
    BY <1>24, SignalMoves, MovesAt, MovesPc DEF Kinds, Places, Threads, Workers
  <2>2. buffered' = buffered /\ newData' = newData
    BY <1>24 DEF SignalFires
  <2> QED
    BY <2>1, <2>2, LookGoes DEF WillLook, LookInv, Workers
<1>25. ASSUME ResetForNewRequest PROVE LookInv'
  <2>1. At("writer")' = "nested" /\ pc'["writer"] # "completed" /\ pc'["writer"] # "connect"
        /\ \A q \in Workers \ {"writer"} : At(q)' = At(q) /\ pc'[q] = pc[q]
    BY <1>25, ResetMoves, MovesAt, MovesPc DEF Kinds, Places, Threads, Workers
  <2>2. buffered' = buffered /\ newData' = newData
    BY <1>25 DEF ResetForNewRequest
  <2> QED
    BY <2>1, <2>2, LookGoes DEF WillLook, LookInv, Workers
<1>26. ASSUME LingerClose PROVE LookInv'
  <2>1. Moves("writer", {}, {"GracefulTermination"}, {}, "idle")
        \/ (Goto("writer", "idle") /\ UNCHANGED local)
    BY <1>26, LingerMoves DEF LingerClose
  <2>2. At("reader")' = At("reader") /\ pc'["reader"] = pc["reader"]
    <3>1. CASE Moves("writer", {}, {"GracefulTermination"}, {}, "idle")
      BY <3>1, MovesAt, MovesPc DEF Places, Threads
    <3>2. CASE Goto("writer", "idle") /\ UNCHANGED local
      BY <3>2 DEF Goto, At, ControlOK, Threads
    <3> QED
      BY <2>1, <3>1, <3>2
  <2>3. state' = "LingerClose" \/ closed' = TRUE
    BY <1>26 DEF LingerClose, SetState, TerminateRequest
  <2>4. UNCHANGED <<buffered, newData>>
    BY <1>26 DEF LingerClose
  <2> QED
    BY <2>2, <2>3, <2>4 DEF LookInv, ConnectLooks, CanTake
<1>27. ASSUME \A q \in Workers : pc'[q] = pc[q] /\ local'[q] = local[q],
              UNCHANGED <<buffered, newData>>, (resuming => resuming'),
             state' \notin CanTake \/ closed' = TRUE \/ UNCHANGED <<state, closed>> PROVE LookInv'
  <2>1. \A q \in Workers : At(q)' = At(q)
    BY <1>27 DEF At
  <2> QED
    BY <1>27, <2>1 DEF LookInv, ConnectLooks, WillLook, Workers
<1>28. ASSUME EndIgnored PROVE LookInv'
  <2>1. \A q \in Workers : pc'[q] = pc[q] /\ local'[q] = local[q]
    BY <1>28 DEF EndIgnored, Goto, ControlOK, Threads, Workers, Enders
  <2>2. UNCHANGED <<buffered, newData>> /\ (resuming => resuming')
    BY <1>28 DEF EndIgnored, SetState, TerminateRequest, connVars
  <2>3. state' \notin CanTake \/ closed' = TRUE \/ UNCHANGED <<state, closed>>
    BY <1>28 DEF EndIgnored, SetState, TerminateRequest, CanTake, reqVars, connVars
  <2> QED
    BY <2>1, <2>2, <2>3, <1>27
<1>29. ASSUME EndSends PROVE LookInv'
  <2>1. \A q \in Workers : pc'[q] = pc[q] /\ local'[q] = local[q]
    BY <1>29, EndSendsMoves DEF Moves, Threads, Workers, Enders
  <2>2. UNCHANGED <<buffered, newData>> /\ (resuming => resuming')
    BY <1>29 DEF EndSends, SetState, TerminateRequest, connVars
  <2>3. state' \notin CanTake \/ closed' = TRUE \/ UNCHANGED <<state, closed>>
    BY <1>29 DEF EndSends, SetState, TerminateRequest, CanTake, reqVars, connVars
  <2> QED
    BY <2>1, <2>2, <2>3, <1>27
<1>30. ASSUME EndFails PROVE LookInv'
  <2>1. \A q \in Workers : pc'[q] = pc[q] /\ local'[q] = local[q]
    BY <1>30 DEF EndFails, Goto, ControlOK, Threads, Workers, Enders
  <2>2. UNCHANGED <<buffered, newData>> /\ (resuming => resuming')
    <3>1. UNCHANGED <<buffered, newData>>
      BY <1>30 DEF EndFails
    <3>2. resuming' = resuming \/ resuming' = (resuming \/ (paused /\ state \in PausedStates))
      BY <1>30, Zenon DEF EndFails
    <3>3. resuming => resuming'
      BY <3>2, Zenon
    <3> QED
      BY <3>1, <3>3
  <2>3. state' \notin CanTake \/ closed' = TRUE \/ UNCHANGED <<state, closed>>
    BY <1>30 DEF EndFails
  <2> QED
    BY <2>1, <2>2, <2>3, <1>27
<1>31. ASSUME EndSignals PROVE LookInv'
  <2>1. \A q \in Workers : pc'[q] = pc[q] /\ local'[q] = local[q]
    BY <1>31 DEF EndSignals, Goto, ControlOK, Threads, Workers, Enders
  <2>2. UNCHANGED <<buffered, newData>> /\ (resuming => resuming')
    BY <1>31 DEF EndSignals, SetState, TerminateRequest, connVars
  <2>3. state' \notin CanTake \/ closed' = TRUE \/ UNCHANGED <<state, closed>>
    BY <1>31 DEF EndSignals, SetState, TerminateRequest, CanTake, reqVars, connVars
  <2> QED
    BY <2>1, <2>2, <2>3, <1>27
<1>32. ASSUME EndSignalFails PROVE LookInv'
  <2>1. \A q \in Workers : pc'[q] = pc[q] /\ local'[q] = local[q]
    BY <1>32 DEF EndSignalFails, Goto, ControlOK, Threads, Workers, Enders
  <2>2. UNCHANGED <<buffered, newData>> /\ (resuming => resuming')
    BY <1>32 DEF EndSignalFails, SetState, TerminateRequest, connVars
  <2>3. state' \notin CanTake \/ closed' = TRUE \/ UNCHANGED <<state, closed>>
    BY <1>32 DEF EndSignalFails, SetState, TerminateRequest, CanTake, reqVars, connVars
  <2> QED
    BY <2>1, <2>2, <2>3, <1>27
<1>33. ASSUME EnableDirectResponse PROVE LookInv'
  <2>1. \A q \in Workers : pc'[q] = pc[q] /\ local'[q] = local[q]
    BY <1>33 DEF EnableDirectResponse, Goto, ControlOK, Threads, Workers, Enders
  <2>2. UNCHANGED <<buffered, newData>> /\ (resuming => resuming')
    BY <1>33 DEF EnableDirectResponse, SetState, TerminateRequest, connVars
  <2>3. state' \notin CanTake \/ closed' = TRUE \/ UNCHANGED <<state, closed>>
    BY <1>33 DEF EnableDirectResponse, SetState, TerminateRequest, CanTake, reqVars, connVars
  <2> QED
    BY <2>1, <2>2, <2>3, <1>27
<1>34. ASSUME TimerChecks PROVE LookInv'
  <2>1. \A q \in Workers : pc'[q] = pc[q] /\ local'[q] = local[q]
    BY <1>34 DEF TimerChecks, Goto, ControlOK, Threads, Workers, Enders
  <2>2. UNCHANGED <<buffered, newData>> /\ (resuming => resuming')
    BY <1>34 DEF TimerChecks, SetState, TerminateRequest, connVars
  <2>3. state' \notin CanTake \/ closed' = TRUE \/ UNCHANGED <<state, closed>>
    BY <1>34 DEF TimerChecks, SetState, TerminateRequest, CanTake, reqVars, connVars
  <2> QED
    BY <2>1, <2>2, <2>3, <1>27
<1>35. ASSUME TimerIgnores PROVE LookInv'
  <2>1. \A q \in Workers : pc'[q] = pc[q] /\ local'[q] = local[q]
    BY <1>35 DEF TimerIgnores, Goto, ControlOK, Threads, Workers, Enders
  <2>2. UNCHANGED <<buffered, newData>> /\ (resuming => resuming')
    BY <1>35 DEF TimerIgnores, SetState, TerminateRequest, connVars
  <2>3. state' \notin CanTake \/ closed' = TRUE \/ UNCHANGED <<state, closed>>
    BY <1>35 DEF TimerIgnores, SetState, TerminateRequest, CanTake, reqVars, connVars
  <2> QED
    BY <2>1, <2>2, <2>3, <1>27
<1>36. ASSUME TimerEnds PROVE LookInv'
  <2>1. \A q \in Workers : pc'[q] = pc[q] /\ local'[q] = local[q]
    BY <1>36 DEF TimerEnds, Goto, ControlOK, Threads, Workers, Enders
  <2>2. UNCHANGED <<buffered, newData>> /\ (resuming => resuming')
    BY <1>36 DEF TimerEnds, SetState, TerminateRequest, connVars
  <2>3. state' \notin CanTake \/ closed' = TRUE \/ UNCHANGED <<state, closed>>
    BY <1>36 DEF TimerEnds, SetState, TerminateRequest, CanTake, reqVars, connVars
  <2> QED
    BY <2>1, <2>2, <2>3, <1>27
<1>37. ASSUME PeerCloses PROVE LookInv'
  <2>1. \A q \in Workers : pc'[q] = pc[q] /\ local'[q] = local[q]
    BY <1>37 DEF PeerCloses, Goto, ControlOK, Threads, Workers, Enders
  <2>2. UNCHANGED <<buffered, newData>> /\ (resuming => resuming')
    BY <1>37 DEF PeerCloses, SetState, TerminateRequest, connVars
  <2>3. state' \notin CanTake \/ closed' = TRUE \/ UNCHANGED <<state, closed>>
    BY <1>37 DEF PeerCloses, SetState, TerminateRequest, CanTake, reqVars, connVars
  <2> QED
    BY <2>1, <2>2, <2>3, <1>27
<1>38. ASSUME StopListening PROVE LookInv'
  <2>1. \A q \in Workers : pc'[q] = pc[q] /\ local'[q] = local[q]
    BY <1>38 DEF StopListening, Goto, ControlOK, Threads, Workers, Enders
  <2>2. UNCHANGED <<buffered, newData>> /\ (resuming => resuming')
    BY <1>38 DEF StopListening, SetState, TerminateRequest, connVars
  <2>3. state' \notin CanTake \/ closed' = TRUE \/ UNCHANGED <<state, closed>>
    BY <1>38 DEF StopListening, SetState, TerminateRequest, CanTake, reqVars, connVars
  <2> QED
    BY <2>1, <2>2, <2>3, <1>27
<1>39. ASSUME ServerDestroyed PROVE LookInv'
  <2>1. \A q \in Workers : pc'[q] = pc[q] /\ local'[q] = local[q]
    BY <1>39 DEF ServerDestroyed, Goto, ControlOK, Threads, Workers, Enders
  <2>2. UNCHANGED <<buffered, newData>> /\ (resuming => resuming')
    BY <1>39 DEF ServerDestroyed, SetState, TerminateRequest, connVars
  <2>3. state' \notin CanTake \/ closed' = TRUE \/ UNCHANGED <<state, closed>>
    BY <1>39 DEF ServerDestroyed, SetState, TerminateRequest, CanTake, reqVars, connVars
  <2> QED
    BY <2>1, <2>2, <2>3, <1>27
<1>40. ASSUME ServerTerminates PROVE LookInv'
  <2>1. \A q \in Workers : pc'[q] = pc[q] /\ local'[q] = local[q]
    BY <1>40 DEF ServerTerminates, Goto, ControlOK, Threads, Workers, Enders
  <2>2. UNCHANGED <<buffered, newData>> /\ (resuming => resuming')
    BY <1>40 DEF ServerTerminates, SetState, TerminateRequest, connVars
  <2>3. state' \notin CanTake \/ closed' = TRUE \/ UNCHANGED <<state, closed>>
    BY <1>40 DEF ServerTerminates, SetState, TerminateRequest, CanTake, reqVars, connVars
  <2> QED
    BY <2>1, <2>2, <2>3, <1>27
<1>41. ASSUME NEW p \in Enders, CloseReturns(p) PROVE LookInv'
  <2>1. \A q \in Workers : pc'[q] = pc[q] /\ local'[q] = local[q]
    BY <1>41, CloseReturnsMoves DEF Moves, Threads, Workers, Enders
  <2>2. UNCHANGED <<buffered, newData>> /\ (resuming => resuming')
    BY <1>41 DEF CloseReturns, SetState, TerminateRequest, connVars
  <2>3. state' \notin CanTake \/ closed' = TRUE \/ UNCHANGED <<state, closed>>
    BY <1>41 DEF CloseReturns, SetState, TerminateRequest, CanTake, reqVars, connVars
  <2> QED
    BY <2>1, <2>2, <2>3, <1>27
<1>42. ASSUME NEW p \in Enders, DestroyEnters(p) PROVE LookInv'
  <2>1. \A q \in Workers : pc'[q] = pc[q] /\ local'[q] = local[q]
    BY <1>42, DestroyMoves DEF Moves, Threads, Workers, Enders
  <2>2. UNCHANGED <<buffered, newData>> /\ (resuming => resuming')
    BY <1>42 DEF DestroyEnters, SetState, TerminateRequest, connVars
  <2>3. state' \notin CanTake \/ closed' = TRUE \/ UNCHANGED <<state, closed>>
    BY <1>42 DEF DestroyEnters, SetState, TerminateRequest, CanTake, reqVars, connVars
  <2> QED
    BY <2>1, <2>2, <2>3, <1>27
<1>43. ASSUME NEW p \in Enders, DestroyLeaves(p) PROVE LookInv'
  <2>1. \A q \in Workers : pc'[q] = pc[q] /\ local'[q] = local[q]
    BY <1>43, LeavesMoves DEF Moves, Threads, Workers, Enders
  <2>2. UNCHANGED <<buffered, newData>> /\ (resuming => resuming')
    BY <1>43 DEF DestroyLeaves, SetState, TerminateRequest, connVars
  <2>3. state' \notin CanTake \/ closed' = TRUE \/ UNCHANGED <<state, closed>>
    BY <1>43 DEF DestroyLeaves, SetState, TerminateRequest, CanTake, reqVars, connVars
  <2> QED
    BY <2>1, <2>2, <2>3, <1>27
<1>44. ASSUME NEW k \in Kinds, TimerTerminates(k) PROVE LookInv'
  <2>1. \A q \in Workers : pc'[q] = pc[q] /\ local'[q] = local[q]
    BY <1>44 DEF TimerTerminates, Goto, ControlOK, Threads, Workers, Enders
  <2>2. UNCHANGED <<buffered, newData>> /\ (resuming => resuming')
    BY <1>44 DEF TimerTerminates, SetState, TerminateRequest, connVars
  <2>3. state' \notin CanTake \/ closed' = TRUE \/ UNCHANGED <<state, closed>>
    BY <1>44 DEF TimerTerminates, SetState, TerminateRequest, CanTake, reqVars, connVars
  <2> QED
    BY <2>1, <2>2, <2>3, <1>27
<1>45. ASSUME NEW k \in Kinds, TimerFires(k) PROVE LookInv'
  <2>1. \A q \in Workers : pc'[q] = pc[q] /\ local'[q] = local[q]
    BY <1>45 DEF TimerFires, Goto, ControlOK, Threads, Workers, Enders
  <2>2. UNCHANGED <<buffered, newData>> /\ (resuming => resuming')
    BY <1>45 DEF TimerFires, SetState, TerminateRequest, connVars
  <2>3. state' \notin CanTake \/ closed' = TRUE \/ UNCHANGED <<state, closed>>
    BY <1>45 DEF TimerFires, SetState, TerminateRequest, CanTake, reqVars, connVars
  <2> QED
    BY <2>1, <2>2, <2>3, <1>27
<1>46. ASSUME NEW p \in Enders, TimerSteps(p) PROVE LookInv'
  <2>1. \A q \in Workers : pc'[q] = pc[q] /\ local'[q] = local[q]
    BY <1>46
       DEF TimerSteps, StopTimeoutTimers, StartClears, StartSets, Goto, ControlOK, Threads,
           Workers, Enders
  <2>2. UNCHANGED <<buffered, newData>> /\ (resuming => resuming')
    BY <1>46
       DEF TimerSteps, StopTimeoutTimers, StartClears, StartSets, SetState, TerminateRequest,
           connVars
  <2>3. state' \notin CanTake \/ closed' = TRUE \/ UNCHANGED <<state, closed>>
    BY <1>46
       DEF TimerSteps, StopTimeoutTimers, StartClears, StartSets, SetState, TerminateRequest,
           CanTake, reqVars, connVars
  <2> QED
    BY <2>1, <2>2, <2>3, <1>27
<1>47. ASSUME Receive \/ Resumes PROVE LookInv'
  <2>1. UNCHANGED <<pc, local, state, closed>> /\ (newData => newData')
    BY <1>47 DEF Receive, Resumes, reqVars
  <2>2. Receive \/ (buffered' = buffered /\ (resuming /\ buffered # <<>> => newData'))
    BY <1>47 DEF Resumes
  <2>3. Receive => newData' /\ pc["reader"] # "connect"
    BY DEF Receive
  <2> QED
    BY <1>47, <2>1, <2>2, <2>3 DEF Resumes, LookInv, ConnectLooks, WillLook, At, Workers
<1>48. ASSUME UNCHANGED vars PROVE LookInv'
  <2> QED
    BY <1>48 DEF vars, reqVars, connVars, LookInv, ConnectLooks, WillLook, At
<1> QED
  BY <1>1, <1>2, <1>3, <1>4, <1>5, <1>6, <1>7, <1>8, <1>9, <1>10, <1>11, <1>12, <1>13, <1>14,
     <1>15, <1>16, <1>17, <1>18, <1>19, <1>20, <1>21, <1>22, <1>23, <1>24, <1>25, <1>26, <1>28,
     <1>29, <1>30, <1>31, <1>32, <1>33, <1>34, <1>35, <1>36, <1>37, <1>38, <1>39, <1>40, <1>41,
     <1>42, <1>43, <1>44, <1>45, <1>46, <1>47, <1>48
     DEF Next, Step, OnSocketDataReceived, End, Workers, Enders, Threads

\* Data that arrived while a response was sent is looked at when the request
\* can take it again.
THEOREM PipelinedRequestsAreServed == Spec => []PipelinedIsServed
<1>1. Init => LookInv
  BY DEF Init, LookInv, ConnectLooks
<1>2. ControlOK /\ TurnInv /\ LookInv /\ [Next]_vars => LookInv'
  BY LookStep
<1>3. ControlOK /\ TurnInv /\ LookInv => PipelinedIsServed
  BY LookMeaning DEF TurnInv, LookInv, PipelinedIsServed, CanTake, Workers
<1> QED
  BY <1>1, <1>2, <1>3, OneHasTheRequest, PTL DEF Spec

-----------------------------------------------------------------------------
(***************************************************************************)
(* The timers of a request that the connection has left: the thread that *)
(* destroys the connection stops them all, and End, which may have       *)
(* started one since, finds that it cannot answer and stops them all again.*)
(***************************************************************************)
Unbound == ~bound => closed /\ pc["reader"] = "idle" /\ pc["writer"] = "idle"

PassedOn == bound /\ ~listed => state = "WebSocket"

OneDestroys ==
  \A p \in Enders : At(p) = "unlist" =>
    /\ ~bound /\ listed
    /\ pc[p] \in {"stop", "unlist"}
    /\ \A q \in Enders : At(q) = "unlist" => p = q

OnlyEndStarts ==
  \A p \in Enders :
    /\ local[p].start # {} => p = "app" /\ local[p].next = "signal"
    /\ pc[p] \in {"clear", "set"} => local[p].start # {}

AppWillStop ==
  \/ At("app") = "signal"
  \/ pc["app"] \in {"closing", "stop"} /\ local["app"].stop = Kinds

DestroyerWillStop ==
  \E p \in Enders : pc[p] = "stop" /\ local[p].stop = Kinds /\ local[p].next = "unlist"

NoIds == \A k \in Kinds : timerId[k] = 0

StopInv ==
  /\ Unbound /\ PassedOn /\ OneDestroys /\ OnlyEndStarts
  /\ ~bound => NoIds \/ DestroyerWillStop \/ AppWillStop

\* Nobody moves but p.
Alone(p) == \A q \in Threads \ {p} : pc'[q] = pc[q] /\ local'[q] = local[q]

\* Every step of a worker, with the calls of the connection that begin one.
WorkerStep(p) ==
  \/ TimerSteps(p) \/ OnSocketDataReceived(p)
  \/ p = "reader" /\ (ConnectRefused \/ OnSocketConnect \/ Connected \/ DataArrives \/ LastData)
  \/ p = "writer" /\ (SignalFires \/ LingerClose \/ ResetForNewRequest \/ NestedDataReceived)

LEMMA WorkerAlone ==
  ASSUME ControlOK, NEW p \in Workers, WorkerStep(p)
  PROVE  Alone(p) /\ UNCHANGED bound
<1> USE DEF Alone, Timers, Goto, ControlOK, Threads, Workers
<1>1. CASE TimerSteps(p)
  BY <1>1 DEF TimerSteps, StopTimeoutTimers, StartClears, StartSets, reqVars
<1>2. CASE LeaveLoop(p) \/ BeginRequest(p) \/ ParsePart(p) \/ ParseHead(p) \/ ParseDone(p)
           \/ Discard(p)
  BY <1>2
     DEF LeaveLoop, BeginRequest, ParsePart, ParseHead, ParseDone, Discard, ParsedBy, Leave,
         reqVars
<1>3. CASE ParseFails(p) \/ Refuse(p) \/ HeadersFailed(p) \/ CompletedCancelled(p)
           \/ UpgradeFailed(p)
  BY <1>3
     DEF ParseFails, Refuse, HeadersFailed, CompletedCancelled, UpgradeFailed, OnRequestError
<1>4. CASE HeadersCallback(p) \/ CompletedCallback(p) \/ UpgradeCallback(p)
  BY <1>4 DEF HeadersCallback, CompletedCallback, UpgradeCallback, Callback, reqVars
<1>5. CASE HeadersReturn(p) \/ UpgradeReturn(p)
  BY <1>5 DEF HeadersReturn, UpgradeReturn, Restart
<1>6. CASE p = "reader"
           /\ (ConnectRefused \/ OnSocketConnect \/ Connected \/ DataArrives \/ LastData)
  BY <1>6 DEF ConnectRefused, OnSocketConnect, Connected, DataArrives, LastData, reqVars
<1>7. CASE p = "writer"
           /\ (SignalFires \/ LingerClose \/ ResetForNewRequest \/ NestedDataReceived)
  BY <1>7 DEF SignalFires, LingerClose, ResetForNewRequest, NestedDataReceived, reqVars
<1> QED
  BY <1>1, <1>2, <1>3, <1>4, <1>5, <1>6, <1>7 DEF WorkerStep, OnSocketDataReceived

\* A worker that moves is in a callback of a connection that is not destroyed.
LEMMA WorkerBound ==
  ASSUME StopInv, NEW p \in Workers, WorkerStep(p)
  PROVE  bound
<1>1. ASSUME pc[p] # "idle" PROVE bound
  BY <1>1 DEF StopInv, Unbound, Workers
<1>2. ASSUME DataArrives \/ LastData \/ SignalFires PROVE bound
  BY <1>2 DEF DataArrives, LastData, SignalFires, Quiet, StopInv, Unbound
<1>3. CASE TimerSteps(p)
  BY <1>1, <1>3 DEF TimerSteps, StopTimeoutTimers, StartClears, StartSets
<1>4. CASE OnSocketDataReceived(p)
  BY <1>1, <1>4
     DEF OnSocketDataReceived, LeaveLoop, BeginRequest, ParsePart, ParseHead, ParseDone,
         ParseFails, Refuse, Discard, HeadersCallback, HeadersReturn, HeadersFailed,
         CompletedCallback, CompletedCancelled, UpgradeCallback, UpgradeReturn, UpgradeFailed,
     HasMessage, InLoop, Callback
<1> QED
  BY <1>1, <1>2, <1>3, <1>4
     DEF WorkerStep, ConnectRefused, OnSocketConnect, Connected, LingerClose,
     ResetForNewRequest, NestedDataReceived

\* The web socket takes the request for good.
LEMMA WorkerPasses ==
  ASSUME ControlOK, TurnInv, StopInv, NEW p \in Workers, WorkerStep(p)
  PROVE  PassedOn'
<1>1. ASSUME state # "WebSocket", UNCHANGED listed PROVE PassedOn'
  BY <1>1, WorkerAlone DEF StopInv, PassedOn
<1>2. ASSUME UNCHANGED <<state, listed>> PROVE PassedOn'
  BY <1>2, WorkerAlone DEF StopInv, PassedOn
<1>3. ASSUME pc[p] \in Calls PROVE state # "WebSocket"
  BY <1>3 DEF TurnInv, OwnerState, Has, StatesOf, Hands, Calls, At, TimerWork, Workers
<1>4. ASSUME pc["writer"] = "sent" PROVE state # "WebSocket"
  BY <1>4 DEF TurnInv, OwnerState, Has, StatesOf, Hands, At, TimerWork, Workers
<1>5. CASE TimerSteps(p)
  BY <1>2, <1>5 DEF TimerSteps, StopTimeoutTimers, StartClears, StartSets, reqVars
<1>6. CASE LeaveLoop(p) \/ ParsePart(p) \/ Discard(p) \/ HeadersCallback(p)
           \/ CompletedCallback(p) \/ UpgradeCallback(p)
  BY <1>2, <1>6
     DEF LeaveLoop, ParsePart, Discard, HeadersCallback, CompletedCallback, UpgradeCallback,
         Callback, reqVars
<1>7. CASE BeginRequest(p) \/ ParseHead(p) \/ ParseDone(p) \/ ParseFails(p) \/ Refuse(p)
  BY <1>1, <1>7
     DEF BeginRequest, ParseHead, ParseDone, ParseFails, Refuse, ParsedBy, OnRequestError
<1>8. CASE HeadersFailed(p) \/ CompletedCancelled(p) \/ UpgradeFailed(p) \/ HeadersReturn(p)
  BY <1>1, <1>3, <1>8
     DEF HeadersFailed, CompletedCancelled, UpgradeFailed, HeadersReturn, OnRequestError, Calls
<1>9. CASE UpgradeReturn(p)
  BY <1>1, <1>2, <1>9 DEF UpgradeReturn, SetState, PassedOn
<1>10. CASE ConnectRefused \/ Connected \/ DataArrives \/ LastData \/ SignalFires
            \/ NestedDataReceived
  BY <1>2, <1>10
     DEF ConnectRefused, Connected, DataArrives, LastData, SignalFires, NestedDataReceived,
         reqVars
<1>11. CASE OnSocketConnect
  BY <1>1, <1>11 DEF OnSocketConnect, TurnInv, NotConnected
<1>12. CASE LingerClose \/ ResetForNewRequest
  BY <1>1, <1>4, <1>12 DEF LingerClose, ResetForNewRequest
<1> QED
  BY <1>5, <1>6, <1>7, <1>8, <1>9, <1>10, <1>11, <1>12 DEF WorkerStep, OnSocketDataReceived

LEMMA WorkerStops ==
  ASSUME ControlOK, TurnInv, StopInv, NEW p \in Workers, WorkerStep(p)
  PROVE  StopInv'
<1>1. bound /\ bound' /\ PassedOn'
  BY WorkerAlone, WorkerBound, WorkerPasses
<1>2. \A q \in Enders : pc'[q] = pc[q] /\ local'[q] = local[q] /\ At(q)' = At(q)
  BY WorkerAlone DEF Alone, At, Threads, Workers, Enders
<1>3. OneDestroys'
  BY <1>1, <1>2 DEF StopInv, OneDestroys
<1> QED
  BY <1>1, <1>2, <1>3 DEF StopInv, Unbound, OnlyEndStarts

\* A step of somebody who is not a worker: p moves, or nobody.
LEMMA OtherStops ==
  ASSUME ControlOK, TurnInv, StopInv, NEW p \in Enders, Alone(p), UNCHANGED bound, closed
         => closed', PassedOn',
         listed => listed', UNCHANGED timerId, At(p)' # "unlist",
         local'[p].start = {} \/ (p = "app" /\ local'[p].next = "signal"),
         pc'[p] \in {"clear", "set"} => local'[p].start # {},
         ~(pc[p] = "stop" /\ local[p].next = "unlist"),
         bound \/ (p = "app" /\ AppWillStop => AppWillStop')
  PROVE  StopInv'
<1>1. \A q \in Threads \ {p} : At(q)' = At(q)
  BY DEF Alone, At
<1>2. Unbound'
  BY DEF StopInv, Unbound, Alone, Threads, Enders
<1>3. OneDestroys'
  BY <1>1 DEF StopInv, OneDestroys, Alone, Threads, Enders
<1>4. OnlyEndStarts'
  BY DEF StopInv, OnlyEndStarts, Alone, Threads, Enders
<1>5. DestroyerWillStop => DestroyerWillStop'
  BY DEF DestroyerWillStop, Alone, Threads, Enders
<1>6. bound \/ (AppWillStop => AppWillStop')
  BY <1>1 DEF AppWillStop, Alone, Threads, Enders
<1> QED
  BY <1>2, <1>3, <1>4, <1>5, <1>6 DEF StopInv, NoIds

\* A step that moves nobody.
LEMMA NobodyStops ==
  ASSUME StopInv, UNCHANGED <<pc, local, bound, timerId>>, closed => closed', PassedOn', listed
         => listed'
  PROVE  StopInv'
<1>1. \A q \in Threads : At(q)' = At(q)
  BY DEF At
<1>2. OneDestroys'
  BY <1>1 DEF StopInv, OneDestroys, Threads, Enders
<1>3. DestroyerWillStop' = DestroyerWillStop /\ AppWillStop' = AppWillStop
  BY DEF DestroyerWillStop, AppWillStop, At
<1> QED
  BY <1>2, <1>3 DEF StopInv, Unbound, OnlyEndStarts, NoIds

LEMMA EnvironmentStops ==
  ASSUME StopInv,
         \/ EndIgnored \/ EnableDirectResponse \/ Resumes \/ Receive \/ PeerCloses
         \/ StopListening \/ ServerDestroyed \/ ServerTerminates
  PROVE  StopInv'
<1>1. UNCHANGED <<pc, local, bound, listed, timerId>> /\ (closed => closed')
  BY DEF EndIgnored, EnableDirectResponse, Resumes, Receive, PeerCloses, StopListening,
     ServerDestroyed,
     ServerTerminates, TerminateRequest, reqVars, timerVars, connVars
<1>2. UNCHANGED state \/ listed \/ state = "BuildingResponse"
  BY DEF EndIgnored, EnableDirectResponse, Resumes, Receive, PeerCloses, StopListening,
     ServerDestroyed,
     ServerTerminates, reqVars
<1> QED
  BY <1>1, <1>2, NobodyStops DEF StopInv, PassedOn

LEMMA AppStops ==
  ASSUME ControlOK, TurnInv, StopInv, EndSends \/ EndFails \/ EndSignals \/ EndSignalFails
  PROVE  StopInv'
<1>1. Alone("app") /\ UNCHANGED <<bound, listed, timerId>> /\ (closed => closed')
  BY DEF EndSends, EndFails, EndSignals, EndSignalFails, Alone, Timers, Goto, ControlOK, Threads,
     TerminateRequest, reqVars, timerVars
<1>2. PassedOn'
  <2>1. pc["app"] = "signal" => state # "WebSocket"
    BY DEF TurnInv, OwnerState, Has, StatesOf, Hands, At, TimerWork, Workers
  <2>2. state # "WebSocket" \/ UNCHANGED state
    BY <2>1 DEF EndSends, EndFails, EndSignals, EndSignalFails, Endable, reqVars
  <2> QED
    BY <1>1, <2>2 DEF StopInv, PassedOn
<1>3. pc["app"] \in {"idle", "signal"}
  BY DEF EndSends, EndFails, EndSignals, EndSignalFails
<1>4. CASE EndSends
  <2>1. Moves("app", Kinds, {"Throughput"}, {}, "signal")
    BY <1>4, EndSendsMoves
  <2>2. local'["app"].start = {"Throughput"} /\ local'["app"].next = "signal"
        /\ pc'["app"] = "stop"
    BY <2>1 DEF Moves, Kinds
  <2>3. At("app")' = "signal"
    BY <2>2 DEF At, TimerWork
  <2> QED
    BY <1>1, <1>2, <1>3, <2>2, <2>3, OtherStops DEF AppWillStop, Enders
<1>5. CASE EndFails \/ EndSignalFails
  <2>1. pc'["app"] = "closing" /\ local'["app"].stop = Kinds /\ local'["app"].start = {}
        /\ local'["app"].next # "unlist"
    <3>1. CASE EndFails
      BY <3>1 DEF EndFails, Goto, NoLocal, ControlOK, Threads
    <3>2. CASE EndSignalFails
      BY <3>2 DEF EndSignalFails, Goto, NoLocal, ControlOK, Threads
    <3> QED
      BY <1>5, <3>1, <3>2
  <2>2. At("app")' # "unlist"
    BY <2>1 DEF At, TimerWork
  <2> QED
    BY <1>1, <1>2, <1>3, <2>1, <2>2, OtherStops DEF AppWillStop, Enders
<1>6. CASE EndSignals
  <2>1. pc'["app"] = "idle" /\ UNCHANGED local /\ bound
    BY <1>6 DEF EndSignals, Goto, ControlOK, Threads
  <2>2. At("app")' = "idle"
    BY <2>1 DEF At, TimerWork
  <2>3. local'["app"].start = {} \/ local'["app"].next = "signal"
    BY <2>1 DEF StopInv, OnlyEndStarts, Enders
  <2> QED
    BY <1>1, <1>2, <1>3, <2>1, <2>2, <2>3, OtherStops DEF Enders
<1> QED
  BY <1>4, <1>5, <1>6

LEMMA CloserStops ==
  ASSUME ControlOK, TurnInv, StopInv, NEW p \in Enders, CloseReturns(p)
  PROVE  StopInv'
<1>1. Moves(p, local[p].stop, local[p].start, local[p].fire, local[p].next)
  BY CloseReturnsMoves
<1>2. Alone(p) /\ local'[p].start = local[p].start /\ local'[p].stop = local[p].stop
      /\ local'[p].next = local[p].next /\ pc'[p] \in {"stop", "clear", local[p].next}
      /\ (pc'[p] = "clear" => local[p].start # {} \/ local[p].next = "clear")
      /\ (local[p].stop # {} => pc'[p] = "stop")
  BY <1>1 DEF Moves, Alone
<1>3. local[p].next \in Places /\ pc[p] = "closing" /\ At(p) = local[p].next
  BY DEF CloseReturns, ControlOK, Records, At, TimerWork, Places, Threads, Enders
<1>4. At(p)' = At(p)
  BY <1>1, <1>3, MovesAt DEF Threads, Enders
<1>5. At(p) # "unlist"
  BY <1>3 DEF StopInv, OneDestroys
<1>6. UNCHANGED <<bound, listed, timerId, closed>> /\ PassedOn'
  BY DEF CloseReturns, reqVars, timerVars, connVars, StopInv, PassedOn
<1>7. pc'[p] \in {"clear", "set"} => local'[p].start # {}
  BY <1>2, <1>3 DEF Places
<1>8. local'[p].start = {} \/ (p = "app" /\ local'[p].next = "signal")
  BY <1>2 DEF StopInv, OnlyEndStarts
<1>9. p = "app" /\ AppWillStop => AppWillStop'
  BY <1>2, <1>3, <1>4 DEF AppWillStop, Kinds
<1> QED
  BY <1>2, <1>3, <1>4, <1>5, <1>6, <1>7, <1>8, <1>9, OtherStops

LEMMA TimerThreadStops ==
  ASSUME ControlOK, TurnInv, StopInv,
         TimerChecks \/ TimerIgnores \/ TimerEnds
         \/ \E k \in Kinds : TimerTerminates(k) \/ TimerFires(k)
  PROVE  StopInv'
<1>1. Alone("timer") /\ UNCHANGED <<bound, listed, timerId>> /\ (closed => closed')
  <2>1. ASSUME NEW k \in Kinds, TimerTerminates(k)
        PROVE  Alone("timer") /\ UNCHANGED <<bound, listed, timerId>> /\ (closed => closed')
    BY <2>1
       DEF TimerTerminates, Alone, Goto, ControlOK, TerminateRequest, Threads, reqVars,
           timerVars, connVars
  <2>2. ASSUME NEW k \in Kinds, TimerFires(k)
        PROVE  Alone("timer") /\ UNCHANGED <<bound, listed, timerId>> /\ (closed => closed')
    BY <2>2
       DEF TimerFires, Alone, Goto, ControlOK, TerminateRequest, Threads, reqVars, timerVars,
           connVars
  <2>3. ASSUME TimerChecks \/ TimerIgnores \/ TimerEnds
        PROVE  Alone("timer") /\ UNCHANGED <<bound, listed, timerId>> /\ (closed => closed')
    BY <2>3
       DEF TimerChecks, TimerIgnores, TimerEnds, Alone, Goto, ControlOK, reqVars, timerVars,
           connVars
  <2> QED
    BY <2>1, <2>2, <2>3
<1>2. UNCHANGED state \/ state # "WebSocket"
  BY DEF TimerChecks, TimerIgnores, TimerEnds, TimerTerminates, TimerFires, EndedBy, Kinds,
     reqVars
<1>3. PassedOn'
  BY <1>1, <1>2 DEF StopInv, PassedOn
<1>4. pc["timer"] \in {"idle", "fired", "expired", "end"} /\ local["timer"].start = {}
  BY DEF TimerChecks, TimerIgnores, TimerEnds, TimerTerminates, TimerFires, StopInv,
     OnlyEndStarts, Enders
<1>5. pc'["timer"] \in {"idle", "fired", "expired", "end", "closing"}
  BY DEF TimerChecks, TimerIgnores, TimerEnds, TimerTerminates, TimerFires, Goto, ControlOK,
     Threads
<1>6. local'["timer"].start = {} /\ (pc'["timer"] = "closing" => local'["timer"].next = "end")
  <2>1. ASSUME NEW k \in Kinds, TimerTerminates(k)
        PROVE  local'["timer"].start = {}
               /\ (pc'["timer"] = "closing" => local'["timer"].next = "end")
    BY <2>1 DEF TimerTerminates, Goto, NoLocal, ControlOK, Threads
  <2>2. ASSUME NEW k \in Kinds, TimerFires(k)
        PROVE  local'["timer"].start = {}
               /\ (pc'["timer"] = "closing" => local'["timer"].next = "end")
    BY <2>2 DEF TimerFires, Goto, NoLocal, ControlOK, Threads
  <2>3. ASSUME TimerChecks \/ TimerIgnores \/ TimerEnds
        PROVE  UNCHANGED local /\ pc'["timer"] # "closing"
    BY <2>3 DEF TimerChecks, TimerIgnores, TimerEnds, Goto, ControlOK, Threads
  <2> QED
    BY <1>4, <2>1, <2>2, <2>3
<1>7. At("timer")' # "unlist"
  BY <1>5, <1>6 DEF At, TimerWork
<1> QED
  BY <1>1, <1>3, <1>4, <1>5, <1>6, <1>7, OtherStops DEF Enders

\* The timers of a thread that is not a worker: Clear leaves zeros, and only End sets one.
LEMMA TimersStop ==
  ASSUME ControlOK, StopInv, NEW p \in Enders, TimerSteps(p)
  PROVE  StopInv'
<1>1. Alone(p) /\ UNCHANGED <<bound, listed, state, closed>>
  BY DEF TimerSteps, StopTimeoutTimers, StartClears, StartSets, Alone, Goto, ControlOK, Threads,
     reqVars, connVars
<1>2. local'[p].next = local[p].next /\ local'[p].start = local[p].start
  BY DEF TimerSteps, StopTimeoutTimers, StartClears, StartSets, ControlOK, Threads, Enders,
     Records
<1>3. \/ pc[p] = "stop" /\ pc'[p] = (IF local[p].start # {} THEN "clear" ELSE local[p].next)
      \/ pc[p] = "clear" /\ pc'[p] = "set"
      \/ pc[p] = "set" /\ pc'[p] = local[p].next
  BY DEF TimerSteps, StopTimeoutTimers, StartClears, StartSets, Goto, AfterStop, ControlOK,
     Threads, Enders
<1>4. local[p].next \in Places
  BY DEF ControlOK, Records, Threads, Enders
<1>5. \A q \in Threads : At(q)' = At(q)
  BY <1>1, <1>2, <1>3, <1>4 DEF At, Alone, TimerWork, Places, Threads, Enders
<1>6. Unbound' /\ PassedOn'
  BY <1>1 DEF StopInv, Unbound, PassedOn, Alone, Threads, Enders
<1>7. OnlyEndStarts'
  BY <1>1, <1>2, <1>3, <1>4 DEF StopInv, OnlyEndStarts, Alone, Places, Threads, Enders
<1>8. OneDestroys'
  <2>1. At(p) = "unlist" => pc'[p] \in {"stop", "unlist"}
    BY <1>3, <1>4 DEF StopInv, OneDestroys, OnlyEndStarts, At, TimerWork
  <2> QED
    BY <1>1, <1>5, <2>1 DEF StopInv, OneDestroys, Alone, Threads, Enders
<1>9. ASSUME ~bound PROVE NoIds' \/ DestroyerWillStop' \/ AppWillStop'
  <2>1. CASE StopTimeoutTimers(p) /\ local[p].stop = Kinds
    BY <2>1 DEF StopTimeoutTimers, Clear, NoIds, Kinds
  <2>2. CASE StopTimeoutTimers(p) /\ local[p].stop # Kinds
    <3>1. NoIds => NoIds'
      BY <2>2 DEF StopTimeoutTimers, Clear, NoIds
    <3>2. DestroyerWillStop => DestroyerWillStop'
      BY <1>1, <2>2 DEF DestroyerWillStop, Alone, Threads, Enders
    <3>3. AppWillStop => AppWillStop'
      BY <1>1, <1>5, <2>2 DEF AppWillStop, Alone, StopTimeoutTimers, Threads, Enders
    <3> QED
      BY <1>9, <3>1, <3>2, <3>3 DEF StopInv
  <2>3. CASE StartClears(p) \/ StartSets(p)
    <3>1. pc[p] \in {"clear", "set"}
      BY <2>3 DEF StartClears, StartSets
    <3>2. p = "app" /\ local[p].next = "signal"
      BY <3>1 DEF StopInv, OnlyEndStarts
    <3>3. At("app")' = "signal"
      BY <1>5, <3>1, <3>2 DEF At, TimerWork, Threads
    <3> QED
      BY <3>3 DEF AppWillStop
  <2> QED
    BY <2>1, <2>2, <2>3 DEF TimerSteps
<1> QED
  BY <1>1, <1>6, <1>7, <1>8, <1>9 DEF StopInv

LEMMA DestroyerStops ==
  ASSUME ControlOK, TurnInv, StopInv, NEW p \in Enders, DestroyEnters(p)
  PROVE  StopInv'
<1>1. Moves(p, Kinds, {}, local[p].fire, "unlist")
  BY DestroyMoves
<1>2. Alone(p) /\ local'[p].start = {} /\ local'[p].stop = Kinds /\ local'[p].next = "unlist"
      /\ pc'[p] = "stop"
  BY <1>1 DEF Moves, Alone, Kinds
<1>3. bound /\ bound' = FALSE /\ closed' = TRUE /\ pc["reader"] = "idle" /\ pc["writer"] = "idle"
  BY DEF DestroyEnters, Quiet
<1>4. listed /\ listed'
  BY DEF DestroyEnters, Quiet, StopInv, PassedOn
<1>5. At(p)' = "unlist" /\ \A q \in Threads \ {p} : At(q)' = At(q)
  BY <1>2 DEF At, TimerWork, Alone
<1>6. \A q \in Enders : At(q) # "unlist"
  BY <1>3 DEF StopInv, OneDestroys
<1>7. Unbound' /\ PassedOn'
  BY <1>2, <1>3 DEF Unbound, PassedOn, Alone, Threads, Enders
<1>8. OneDestroys'
  BY <1>2, <1>3, <1>4, <1>5, <1>6 DEF OneDestroys, Threads, Enders
<1>9. OnlyEndStarts'
  BY <1>2 DEF StopInv, OnlyEndStarts, Alone, Threads, Enders
<1>10. DestroyerWillStop'
  BY <1>2 DEF DestroyerWillStop
<1> QED
  BY <1>7, <1>8, <1>9, <1>10 DEF StopInv

LEMMA LeaverStops ==
  ASSUME ControlOK, TurnInv, StopInv, NEW p \in Enders, DestroyLeaves(p)
  PROVE  StopInv'
<1>1. Moves(p, LeaveStop(p), {}, {}, LeaveNext(p))
  BY LeavesMoves
<1>2. Alone(p) /\ local'[p].start = {} /\ local'[p].next = LeaveNext(p)
      /\ pc'[p] \in {"stop", LeaveNext(p)}
  BY <1>1 DEF Moves, Alone
<1>3. pc[p] = "unlist" /\ At(p) = "unlist"
  BY DEF DestroyLeaves, At, TimerWork
<1>4. ~bound /\ UNCHANGED <<bound, closed, timerId>>
  BY <1>3 DEF DestroyLeaves, StopInv, OneDestroys, reqVars, connVars, timerVars
<1>5. At(p)' = LeaveNext(p) /\ \A q \in Threads \ {p} : At(q)' = At(q)
  BY <1>2 DEF At, Alone, TimerWork, LeaveNext
<1>6. \A q \in Enders : At(q)' # "unlist"
  BY <1>3, <1>5 DEF StopInv, OneDestroys, LeaveNext, Threads, Enders
<1>7. Unbound' /\ PassedOn' /\ OneDestroys'
  BY <1>2, <1>4, <1>6 DEF StopInv, Unbound, PassedOn, OneDestroys, Alone, Threads, Enders
<1>8. OnlyEndStarts'
  BY <1>2 DEF StopInv, OnlyEndStarts, Alone, LeaveNext, Threads, Enders
<1>9. DestroyerWillStop => DestroyerWillStop'
  BY <1>2, <1>3 DEF DestroyerWillStop, Alone, Threads, Enders
<1>10. AppWillStop => AppWillStop'
  BY <1>2, <1>3, <1>5 DEF AppWillStop, Alone, Threads, Enders
<1> QED
  BY <1>4, <1>7, <1>8, <1>9, <1>10 DEF StopInv, NoIds

LEMMA StopStep ==
  ASSUME ControlOK, TurnInv, StopInv, [Next]_vars
  PROVE  StopInv'
<1>1. ASSUME UNCHANGED vars PROVE StopInv'
  <2>1. UNCHANGED <<pc, local, bound, listed, timerId, closed, state>>
    BY <1>1 DEF vars, reqVars, timerVars, connVars
  <2> QED
    BY <2>1, NobodyStops DEF StopInv, PassedOn
<1>2. ASSUME NEW p \in Threads, Step(p) PROVE StopInv'
  <2>1. CASE p \in Workers
    BY <1>2, <2>1, WorkerStops DEF Step, WorkerStep, Workers
  <2>2. CASE p \in Enders
    BY <1>2, <2>2, TimersStop, AppStops, CloserStops, TimerThreadStops, DestroyerStops,
       LeaverStops,
       EnvironmentStops DEF Step, End, Enders
  <2> QED
    BY <2>1, <2>2 DEF Threads, Workers, Enders
<1>3. ASSUME LastData PROVE StopInv'
  BY <1>3, WorkerStops DEF WorkerStep, Workers
<1> QED
  BY <1>1, <1>2, <1>3, EnvironmentStops, TimerThreadStops DEF Next

\* OnSocketDestroy: whoever destroys the connection, and whatever End started
\* meanwhile, no timer is left to a request that nobody refers to.
THEOREM DestroyStopsTheTimers == Spec => []DestroyStopsTimers
<1>1. Init => StopInv
  <2> SUFFICES ASSUME Init PROVE StopInv
    OBVIOUS
  <2>1. bound /\ listed /\ \A p \in Enders : pc[p] = "idle" /\ local[p].start = {}
    BY DEF Init, NoLocal, Threads, Enders
  <2>2. \A p \in Enders : At(p) = "idle"
    BY <2>1 DEF At, TimerWork
  <2> QED
    BY <2>1, <2>2 DEF StopInv, Unbound, PassedOn, OneDestroys, OnlyEndStarts
<1>2. ControlOK /\ TurnInv /\ StopInv /\ [Next]_vars => StopInv'
  BY StopStep
<1>3. ControlOK /\ StopInv => DestroyStopsTimers
  <2> SUFFICES ASSUME ControlOK, StopInv, Freed, ~bound PROVE NoIds
    BY DEF DestroyStopsTimers, NoIds
  <2>1. ~AppWillStop
    BY DEF Freed, AppWillStop, At, TimerWork
  <2>2. ~DestroyerWillStop
    BY DEF Freed, DestroyerWillStop, StopInv, OneDestroys, At, TimerWork
  <2> QED
    BY <2>1, <2>2 DEF StopInv
<1> QED
  BY <1>1, <1>2, <1>3, OneHasTheRequest, PTL DEF Spec

-----------------------------------------------------------------------------
(***************************************************************************)
(* Types.                                                                  *)
(***************************************************************************)
States == {"Inactive", "KeepingAlive", "ReceivingRequestBody", "SendingResponse",
           "ReceivingRequestHeaders", "WebSocket", "GracefulTermination", "LingerClose",
           "Terminated"} \union PausedStates
FlagBits == {"HeadersSent", "ErrorPageSent", "DontKeepAlive", "Direct"}
Texts    == {"get", "part", "post", "body", "bad", "upgrade"}

StateTyped == state \in States /\ flags \subseteq FlagBits

\* The timers of a kind are finitely many, so that a new one gets an id.
TimersTyped ==
  /\ timerId = [k \in Kinds |-> timerId[k]] /\ armed = [k \in Kinds |-> armed[k]]
  /\ \A k \in Kinds : timerId[k] \in Nat /\ armed[k] \subseteq Nat \ {0} /\ IsFiniteSet(armed[k])
  /\ waiting \subseteq Threads \ {"timer"}
  /\ waiting # {} => running # <<>>

InputTyped == buffered \in Seq(Texts) /\ server \in {"up", "stopped", "down"}

SwitchesTyped ==
  /\ bound \in BOOLEAN /\ listed \in BOOLEAN /\ ended \in BOOLEAN
  /\ resuming \in BOOLEAN /\ newData \in BOOLEAN /\ half \in BOOLEAN /\ owed \in BOOLEAN

\* The id of a new timer.
LEMMA NewIdIsNew ==
  ASSUME TimersTyped, NEW k \in Kinds
  PROVE  NewId(k) \in Nat \ {0} /\ NewId(k) \notin InUse(k)
<1> DEFINE n == Cardinality(InUse(k)) + 1
<1>1. IsFiniteSet(InUse(k))
  <2>1. IsFiniteSet(armed[k])
    BY DEF TimersTyped
  <2>2. IsFiniteSet(armed[k] \union {timerId[k]})
    BY <2>1, FS_AddElement
  <2>3. IsFiniteSet((armed[k] \union {timerId[k]}) \union {running[2]})
    BY <2>2, FS_AddElement
  <2>4. QED
    BY <2>2, <2>3 DEF InUse
<1>2. Cardinality(InUse(k)) \in Nat
  BY <1>1, FS_CardinalityType
<1>3. n \in Nat /\ Cardinality(InUse(k)) < n
  BY <1>2
<1> HIDE DEF n
<1>4. Cardinality(1..n) = n
  BY <1>3, FS_Interval
<1>5. ~(1..n \subseteq InUse(k))
  <2>1. SUFFICES ASSUME 1..n \subseteq InUse(k) PROVE FALSE
    OBVIOUS
  <2>2. Cardinality(1..n) <= Cardinality(InUse(k))
    BY <1>1, <2>1, FS_Subset
  <2>3. QED
    BY <1>2, <1>3, <1>4, <2>2
<1>6. \E i \in 1..n : i \notin InUse(k)
  BY <1>5
<1>7. NewId(k) \in 1..n /\ NewId(k) \notin InUse(k)
  BY <1>6 DEF NewId, n
<1>8. QED
  BY <1>3, <1>7

LEMMA ClearTypes ==
  ASSUME TimersTyped, NEW p \in Threads, NEW S, Clear(p, S)
  PROVE  TimersTyped'
<1>1. \A k \in Kinds : timerId'[k] \in Nat /\ armed'[k] \subseteq armed[k]
  BY DEF Clear, TimersTyped
<1>2. \A k \in Kinds : armed'[k] \subseteq Nat \ {0} /\ IsFiniteSet(armed'[k])
  BY <1>1, FS_Subset DEF TimersTyped
<1>3. timerId' = [k \in Kinds |-> timerId'[k]] /\ armed' = [k \in Kinds |-> armed'[k]]
  BY DEF Clear
<1>4. waiting' \subseteq Threads \ {"timer"} /\ (waiting' # {} => running' # <<>>)
  BY DEF Clear, TimersTyped
<1>5. QED
  BY <1>1, <1>2, <1>3, <1>4 DEF TimersTyped

LEMMA SetTypes ==
  ASSUME TimersTyped, NEW p \in Threads, StartSets(p)
  PROVE  TimersTyped'
<1> PICK S : S = local[p].start
  OBVIOUS
<1>1. /\ timerId' = [k \in Kinds |-> IF k \in S THEN NewId(k) ELSE timerId[k]]
      /\ armed' = [k \in Kinds |-> IF k \in S THEN armed[k] \union {NewId(k)} ELSE armed[k]]
      /\ UNCHANGED <<running, waiting>>
  BY DEF StartSets
<1>2. \A k \in Kinds : NewId(k) \in Nat \ {0}
  BY NewIdIsNew
<1>3. \A k \in Kinds : timerId'[k] \in Nat /\ armed'[k] \subseteq Nat \ {0}
  BY <1>1, <1>2 DEF TimersTyped
<1>4. ASSUME NEW k \in Kinds PROVE IsFiniteSet(armed'[k])
  <2>1. IsFiniteSet(armed[k]) /\ IsFiniteSet(armed[k] \union {NewId(k)})
    BY FS_AddElement DEF TimersTyped
  <2>2. QED
    BY <1>1, <2>1
<1>5. timerId' = [k \in Kinds |-> timerId'[k]] /\ armed' = [k \in Kinds |-> armed'[k]]
  BY <1>1
<1>6. QED
  BY <1>1, <1>3, <1>4, <1>5 DEF TimersTyped

LEMMA EndTypes ==
  ASSUME TimersTyped, TimerEnds
  PROVE  TimersTyped'
<1> PICK k : k = running[1]
  OBVIOUS
<1> PICK i : i = running[2]
  OBVIOUS
<1>1. armed' = [armed EXCEPT ![k] = IF k \in OneShot \/ local["timer"].failed THEN @ \ {i} ELSE @]
  BY DEF TimerEnds
<1>2. UNCHANGED timerId /\ waiting' = {}
  BY DEF TimerEnds
<1>3. armed' = [j \in Kinds |-> armed'[j]] /\ \A j \in Kinds : armed'[j] \subseteq armed[j]
  BY <1>1 DEF TimersTyped
<1>4. \A j \in Kinds : armed'[j] \subseteq Nat \ {0} /\ IsFiniteSet(armed'[j])
  BY <1>3, FS_Subset DEF TimersTyped
<1>5. QED
  BY <1>2, <1>3, <1>4 DEF TimersTyped

LEMMA FiresTypes ==
  ASSUME TimersTyped, NEW k \in Kinds, TimerFires(k)
  PROVE  TimersTyped'
<1>1. running' # <<>>
  BY DEF TimerFires
<1>2. UNCHANGED <<timerId, armed, waiting>>
  BY DEF TimerFires
<1>3. QED
  BY <1>1, <1>2 DEF TimersTyped

\* What the types say of one step: the state goes to a state, flags are set or
\* all cleared, and so on.
Turns ==
  /\ state' = state \/ state' \in States
  /\ flags' = flags \/ flags' \subseteq flags \union FlagBits
  /\ \/ buffered' = buffered \/ buffered' = <<>>
     \/ buffered # <<>> /\ buffered' = Tail(buffered)
     \/ \E m \in Texts : buffered' = Append(buffered, m)
  /\ server' = server \/ server' \in {"stopped", "down"}

Switches ==
  /\ bound' = bound \/ bound' = FALSE
  /\ listed' = listed \/ listed' = FALSE
  /\ ended' = ended \/ ended' = TRUE
  /\ resuming' = resuming \/ resuming' \in BOOLEAN
  /\ newData' = newData \/ newData' \in BOOLEAN
  /\ half' = half \/ half' \in BOOLEAN
  /\ owed' = owed \/ owed' \in BOOLEAN

LEMMA SetStateTurns ==
  ASSUME NEW s \in States, SetState(s)
  PROVE  state' \in States /\ resuming' \in BOOLEAN
BY DEF SetState

LEMMA TerminateTurns ==
  ASSUME TerminateRequest
  PROVE  state' \in States /\ resuming' \in BOOLEAN /\ flags' = flags
BY SetStateTurns DEF TerminateRequest, States

LEMMA ErrorTurns ==
  ASSUME NEW p, OnRequestError(p)
  PROVE  /\ state' = state \/ state' \in States
         /\ resuming' = resuming \/ resuming' \in BOOLEAN
         /\ flags' \subseteq flags \union FlagBits
         /\ UNCHANGED <<bound, listed, newData>>
<1>1. CASE CanAnswer /\ state = "BuildingResponse"
  BY <1>1 DEF OnRequestError, FlagBits
<1>2. CASE CanAnswer /\ state # "BuildingResponse"
  BY <1>2, SetStateTurns DEF OnRequestError, FlagBits, States
<1>3. CASE ~CanAnswer
  BY <1>3, TerminateTurns DEF OnRequestError
<1>4. QED
  BY <1>1, <1>2, <1>3

\* Every step but those of the timers leaves the timers alone.
TypesStay == Turns /\ Switches /\ UNCHANGED timerVars

LEMMA ErrorsTurn ==
  ASSUME NEW p \in Workers,
         ParseFails(p) \/ Refuse(p) \/ HeadersFailed(p) \/ CompletedCancelled(p) \/ UpgradeFailed(p)
  PROVE  TypesStay
<1>1. OnRequestError(p)
  BY DEF ParseFails, Refuse, HeadersFailed, CompletedCancelled, UpgradeFailed
<1>2. UNCHANGED <<timerVars, ended, server, half, owed>>
  BY DEF ParseFails, Refuse, HeadersFailed, CompletedCancelled, UpgradeFailed, envVars
<1>3. buffered' = buffered \/ (buffered # <<>> /\ buffered' = Tail(buffered))
  BY DEF ParseFails, Refuse, HeadersFailed, CompletedCancelled, UpgradeFailed, Consume, HasMessage
<1>4. QED
  BY <1>1, <1>2, <1>3, ErrorTurns DEF TypesStay, Turns, Switches

LEMMA LooksTurn ==
  ASSUME NEW p \in Workers,
         \/ LeaveLoop(p) \/ ParsePart(p) \/ Discard(p) \/ HeadersCallback(p) \/ UpgradeCallback(p)
         \/ CompletedCallback(p)
  PROVE  TypesStay
<1>1. UNCHANGED <<reqVars, timerVars, envVars, ended, resuming, newData>>
  BY DEF LeaveLoop, ParsePart, Discard, HeadersCallback, UpgradeCallback, CompletedCallback,
         Callback, connVars
<1>2. \/ buffered' = buffered \/ buffered' = <<>>
      \/ buffered # <<>> /\ buffered' = Tail(buffered)
  BY DEF LeaveLoop, ParsePart, Discard, HeadersCallback, UpgradeCallback, CompletedCallback,
         Callback, connVars, Consume, HasMessage
<1>3. owed' = owed \/ owed' \in BOOLEAN
  BY DEF LeaveLoop, ParsePart, Discard, HeadersCallback, UpgradeCallback, CompletedCallback,
         Callback
<1>4. QED
  BY <1>1, <1>2, <1>3 DEF TypesStay, Turns, Switches, reqVars, envVars

\* A step that sets the state to one of the states and leaves the rest.
SetsState == \E s \in States : SetState(s)

LEMMA ParsesTurn ==
  ASSUME NEW p \in Workers,
         BeginRequest(p) \/ ParseHead(p) \/ ParseDone(p) \/ HeadersReturn(p)
  PROVE  TypesStay
<1>1. SetsState \/ UNCHANGED <<state, resuming>>
  BY DEF BeginRequest, ParseHead, ParseDone, HeadersReturn, ParsedBy, SetsState, States,
         PausedStates
<1>2. UNCHANGED <<flags, bound, listed, timerVars, newData, ended, envVars, owed>>
  BY DEF BeginRequest, ParseHead, ParseDone, HeadersReturn, ParsedBy
<1>3. buffered' = buffered \/ (buffered # <<>> /\ buffered' = Tail(buffered))
  BY DEF BeginRequest, ParseHead, ParseDone, HeadersReturn, ParsedBy, Consume, HasMessage
<1>4. /\ state' = state \/ state' \in States
      /\ resuming' = resuming \/ resuming' \in BOOLEAN
  BY <1>1, SetStateTurns DEF SetsState
<1>5. QED
  BY <1>2, <1>3, <1>4 DEF TypesStay, Turns, Switches, envVars

LEMMA UpgradeTurns ==
  ASSUME NEW p \in Workers, UpgradeReturn(p)
  PROVE  TypesStay
<1>1. SetsState \/ UNCHANGED <<state, resuming>>
  BY DEF UpgradeReturn, SetsState, States
<1>2. /\ UNCHANGED <<bound, timerVars, buffered, newData, ended, envVars, owed>>
      /\ listed' = listed \/ listed' = FALSE
      /\ flags' \subseteq flags \union FlagBits
  BY DEF UpgradeReturn, FlagBits
<1>3. /\ state' = state \/ state' \in States
      /\ resuming' = resuming \/ resuming' \in BOOLEAN
  BY <1>1, SetStateTurns DEF SetsState
<1>4. QED
  BY <1>2, <1>3 DEF TypesStay, Turns, Switches, envVars

LEMMA SetsTurn ==
  ASSUME OnSocketConnect \/ LingerClose \/ ResetForNewRequest \/ EndSends \/ EndFails
           \/ EndSignalFails \/ EnableDirectResponse \/ ServerTerminates
           \/ (\E k \in Kinds : TimerTerminates(k)) \/ (\E p \in Enders : DestroyEnters(p))
  PROVE  TypesStay
<1>1. SetsState \/ EndFails
  BY DEF OnSocketConnect, LingerClose, ResetForNewRequest, EndSends, EndSignalFails,
         EnableDirectResponse, ServerTerminates, TimerTerminates, DestroyEnters,
         TerminateRequest, SetsState, States
<1>2. /\ UNCHANGED <<listed, timerVars, buffered, newData, ended, envVars>>
      /\ bound' = bound \/ bound' = FALSE
      /\ owed' = owed \/ owed' = FALSE
  BY DEF OnSocketConnect, LingerClose, ResetForNewRequest, EndSends, EndFails, EndSignalFails,
         EnableDirectResponse, ServerTerminates, TimerTerminates, DestroyEnters,
         TerminateRequest
<1>3. flags' = flags \/ flags' \subseteq flags \union FlagBits
  BY DEF OnSocketConnect, LingerClose, ResetForNewRequest, EndSends, EndFails, EndSignalFails,
         EnableDirectResponse, ServerTerminates, TimerTerminates, DestroyEnters,
         TerminateRequest, FlagBits
<1>4. state' \in States /\ (resuming' = resuming \/ resuming' \in BOOLEAN)
  BY <1>1, SetStateTurns DEF SetsState, EndFails, States
<1>5. QED
  BY <1>2, <1>3, <1>4 DEF TypesStay, Turns, Switches, envVars

LEMMA OthersTurn ==
  ASSUME ConnectRefused \/ Connected \/ DataArrives \/ SignalFires \/ NestedDataReceived
           \/ EndIgnored \/ EndSignals \/ TimerChecks \/ TimerIgnores \/ Resumes \/ LastData
           \/ Receive \/ PeerCloses \/ StopListening \/ ServerDestroyed \/ UNCHANGED vars
           \/ (\E p \in Enders : CloseReturns(p) \/ DestroyLeaves(p))
  PROVE  TypesStay
<1>1. /\ UNCHANGED <<state, flags, bound, timerVars>>
      /\ listed' = listed \/ listed' = FALSE
  BY DEF ConnectRefused, Connected, DataArrives, SignalFires, NestedDataReceived, EndIgnored,
         EndSignals, TimerChecks, TimerIgnores, Resumes, LastData, Receive, PeerCloses,
         StopListening, ServerDestroyed, vars, CloseReturns, DestroyLeaves, reqVars
<1>2. /\ buffered' = buffered \/ \E m \in Texts : buffered' = Append(buffered, m)
      /\ half' = half \/ half' \in BOOLEAN
  BY HttpConstantsOK
     DEF ConnectRefused, Connected, DataArrives, SignalFires, NestedDataReceived, EndIgnored,
         EndSignals, TimerChecks, TimerIgnores, Resumes, LastData, Receive, PeerCloses,
         StopListening, ServerDestroyed, vars, CloseReturns, DestroyLeaves, connVars, envVars,
         HttpConstantsOK, Texts
<1>3. /\ ended' = ended \/ ended' = TRUE
      /\ server' = server \/ server' \in {"stopped", "down"}
      /\ resuming' = resuming \/ resuming' = FALSE
      /\ owed' = owed \/ owed' = FALSE
  BY DEF ConnectRefused, Connected, DataArrives, SignalFires, NestedDataReceived, EndIgnored,
         EndSignals, TimerChecks, TimerIgnores, Resumes, LastData, Receive, PeerCloses,
         StopListening, ServerDestroyed, vars, CloseReturns, DestroyLeaves, connVars, envVars
<1>4. newData' = newData \/ newData' \in BOOLEAN
  BY DEF ConnectRefused, Connected, DataArrives, SignalFires, NestedDataReceived, EndIgnored,
         EndSignals, TimerChecks, TimerIgnores, Resumes, LastData, Receive, PeerCloses,
         StopListening, ServerDestroyed, vars, CloseReturns, DestroyLeaves, connVars
<1>5. QED
  BY <1>1, <1>2, <1>3, <1>4 DEF TypesStay, Turns, Switches

LEMMA TimersTurn ==
  ASSUME TimersTyped,
         \/ \E p \in Threads : TimerSteps(p)
         \/ TimerEnds
         \/ \E k \in Kinds : TimerFires(k)
  PROVE  Turns /\ Switches /\ TimersTyped'
<1>1. UNCHANGED <<reqVars, connVars, envVars, owed>>
  BY DEF TimerSteps, StopTimeoutTimers, StartClears, StartSets, TimerEnds, TimerFires
<1>2. Turns /\ Switches
  BY <1>1 DEF Turns, Switches, reqVars, connVars, envVars
<1>3. ASSUME NEW p \in Threads, StopTimeoutTimers(p) \/ StartClears(p)
      PROVE  TimersTyped'
  <2>1. \E S : Clear(p, S)
    BY <1>3 DEF StopTimeoutTimers, StartClears
  <2>2. QED
    BY <2>1, ClearTypes
<1>4. TimersTyped'
  BY <1>3, SetTypes, EndTypes, FiresTypes DEF TimerSteps
<1>5. QED
  BY <1>2, <1>4

LEMMA EveryStep ==
  ASSUME TimersTyped, [Next]_vars
  PROVE  Turns /\ Switches /\ TimersTyped'
<1>1. ASSUME TypesStay PROVE Turns /\ Switches /\ TimersTyped'
  BY <1>1 DEF TypesStay, TimersTyped, timerVars
<1>2. ASSUME NEW p \in Threads, Step(p)
      PROVE  \/ TimerSteps(p) \/ TimerEnds
             \/ TypesStay
  <2>1. ASSUME p \in Workers, OnSocketDataReceived(p) PROVE TypesStay
    BY <2>1, LooksTurn, ParsesTurn, UpgradeTurns, ErrorsTurn DEF OnSocketDataReceived
  <2>2. ASSUME p \in Enders, CloseReturns(p) \/ DestroyEnters(p) \/ DestroyLeaves(p) PROVE TypesStay
    BY <2>2, SetsTurn, OthersTurn
  <2>3. QED
    BY <1>2, <2>1, <2>2, SetsTurn, OthersTurn DEF Step, End, Workers, Enders
<1>3. \/ \E p \in Threads : Step(p)
      \/ \E k \in Kinds : TimerFires(k)
      \/ TypesStay
  BY SetsTurn, OthersTurn DEF Next
<1>4. QED
  BY <1>1, <1>2, <1>3, TimersTurn

TypesInv == StateTyped /\ TimersTyped /\ InputTyped /\ SwitchesTyped

LEMMA TypesStep ==
  ASSUME TypesInv, [Next]_vars
  PROVE  TypesInv'
<1>1. Turns /\ Switches /\ TimersTyped'
  BY EveryStep DEF TypesInv
<1>2. StateTyped'
  BY <1>1 DEF TypesInv, StateTyped, Turns
<1>3. buffered' \in Seq(Texts)
  <2>1. buffered \in Seq(Texts)
    BY DEF TypesInv, InputTyped
  <2>2. CASE buffered' = buffered \/ buffered' = <<>>
    <3>1. <<>> \in Seq(Texts)
      BY EmptySeq
    <3>2. QED
      BY <2>1, <2>2, <3>1
  <2>3. CASE buffered # <<>> /\ buffered' = Tail(buffered)
    BY <2>1, <2>3, HeadTailProperties
  <2>4. CASE \E m \in Texts : buffered' = Append(buffered, m)
    BY <2>1, <2>4, AppendProperties
  <2>5. QED
    BY <1>1, <2>2, <2>3, <2>4 DEF Turns
<1>4. InputTyped'
  BY <1>1, <1>3 DEF TypesInv, InputTyped, Turns
<1>5. SwitchesTyped'
  BY <1>1 DEF TypesInv, SwitchesTyped, Switches
<1>6. QED
  BY <1>1, <1>2, <1>4, <1>5 DEF TypesInv

LEMMA TypesInit == Init => TypesInv
<1> SUFFICES ASSUME Init PROVE TypesInv
  OBVIOUS
<1>1. StateTyped /\ SwitchesTyped /\ server = "up"
  BY DEF Init, StateTyped, SwitchesTyped, States, FlagBits
<1>2. TimersTyped
  BY FS_EmptySet DEF Init, TimersTyped
<1>3. buffered \in Seq(Texts)
  BY DEF Init
<1>4. QED
  BY <1>1, <1>2, <1>3 DEF TypesInv, InputTyped

\* The state, the timers and the connection keep to their values (TypeOK): no
\* thread is left waiting for a time-out callback that has ended (TimerEnds tells
\* all of them), and at most one response is under way to OnAfterSendResponse.
THEOREM TypesAreKept == Spec => []TypeOK
<1>1. TypesInv /\ [Next]_vars => TypesInv'
  BY TypesStep
<1>2. PauseInv /\ [Next]_vars => PauseInv'
  BY StateSteps, PauseStep
<1>3. PauseInv /\ TypesInv /\ ControlOK /\ TurnInv => TypeOK
  <2> SUFFICES ASSUME PauseInv, TypesInv, ControlOK, TurnInv PROVE TypeOK
    OBVIOUS
  <2>1. {closed, paused, resuming, newData, ended, bound, listed, half, owed} \subseteq BOOLEAN
    BY DEF PauseInv, TypesInv, SwitchesTyped
  <2>2. \A p \in Threads : local[p].stop \union local[p].start \subseteq Kinds
    BY DEF ControlOK, Records
  <2>3. timerId \in [Kinds -> Nat] /\ armed \in [Kinds -> SUBSET (Nat \ {0})]
    BY DEF TypesInv, TimersTyped
  <2>4. waiting \subseteq Threads \ {"timer"} /\ (waiting # {} => running # <<>>)
    BY DEF TypesInv, TimersTyped
  <2>5. QED
    BY <2>1, <2>2, <2>3, <2>4
    DEF TypesInv, StateTyped, InputTyped, TurnInv, TypeOK, States, FlagBits, Texts
<1>4. QED
  BY <1>1, <1>2, <1>3, TypesInit, PauseInit, OneHasTheRequest, PTL DEF Spec

=============================================================================
