---------------------------- MODULE HttpRequest ----------------------------
(***************************************************************************)
(* One connection of CHttpServer and its request object (CClientRequest),  *)
(* from the connect callback to the destructor.                            *)
(*                                                                         *)
(* Five threads share the request.                                         *)
(*   reader     the worker inside OnSocketConnect or OnSocketDataReceived; *)
(*              the connection's cOnDataReceivedCS admits one at a time    *)
(*   writer     the worker inside OnAfterSendResponse; the write order of  *)
(*              the connection admits one at a time.  It calls             *)
(*              OnSocketDataReceived too, beside the reader                *)
(*   app        the application thread that ends the request               *)
(*   timer      the timer thread, inside a time-out callback               *)
(*   destroyer  the worker whose Release destroys the connection           *)
(* The critical section cMutex orders their changes of the state, but they *)
(* start and stop timers, and call the application, outside of it.         *)
(*                                                                         *)
(* The connection below is what IpcConnection shows of it: a callback runs *)
(* while its worker holds a reference, so a destruction follows every      *)
(* callback; once closed, a connection refuses to send.  A timer is what   *)
(* TimerService promises: clearing it waits for its callback, except from  *)
(* the timer thread.  A message of the peer is a whole request ("get"), a  *)
(* part of one ("part"), the head of a request with a body ("post"), the   *)
(* rest of that body ("body"), an invalid text ("bad") or an upgrade       *)
(* ("upgrade").  Allocations succeed.                                      *)
(*                                                                         *)
(* OnSocketDataReceived refuses a peer that floods a request being         *)
(* answered when one message is longer than dwMaxIncomingBytesWhileSending;*)
(* a message is read into 4096 bytes and the option is at least 16384, so  *)
(* that branch is never taken and has no action here.                      *)
(***************************************************************************)
EXTENDS Naturals, Sequences, FiniteSets

CONSTANTS
  Messages,     \* what the peer may send: subset of {"get", "part", "post", "bad", "upgrade"}
  MaxMessages,  \* bound: number of messages the peer sends
  MayRefuse,    \* whether a request may be refused (rate, limits, web socket rules, its body)
  MayLackCallback, \* whether cRequestCompletedCallback may be unset
  CanStop,      \* whether the server may stop listening and be destroyed
  Closers       \* the threads, of "timer" and "app", whose Close may be the last to release

ASSUME HttpConstantsOK ==
  /\ Messages \subseteq {"get", "part", "post", "bad", "upgrade"}
  /\ MaxMessages \in Nat
  /\ {MayRefuse, MayLackCallback, CanStop} \subseteq BOOLEAN
  /\ Closers \subseteq {"timer", "app"}

VARIABLES
  state,     \* nState
  flags,     \* the REQUEST_FLAG_* bits of nFlags, and sResponse.bDirect
  bound,     \* hConn # NULL
  listed,    \* the reference that cRequestsList stands for is held
  timerId,   \* nHeadersTimeoutTimerId ...: the id in each variable, 0 for none
  armed,     \* the timers of each kind that the timer handler holds
  running,   \* the timer whose callback runs: <<kind, id>>, or <<>>
  waiting,   \* the threads that wait for that callback in Clear
  closed, paused, resuming, buffered, newData, signals, ended, \* the connection
  messages,  \* what the peer sent so far, as a number
  half,      \* the peer has sent the head of a request whose body is to follow
  server,    \* "up", "stopped" (cShutdownEv set) or "down" (nRundownLock closed)
  owed,      \* the completed callback ran and the application has not ended it
  pc, local

reqVars   == <<state, flags, bound, listed>>
timerVars == <<timerId, armed, running, waiting>>
connVars  == <<closed, paused, resuming, buffered, newData, signals, ended>>
envVars   == <<messages, half, server>>
vars == <<reqVars, timerVars, connVars, envVars, owed, pc, local>>

Threads == {"reader", "writer", "app", "timer", "destroyer"}
Kinds   == {"Headers", "Throughput", "GracefulTermination", "KeepAlive"}
OneShot == {"Headers", "GracefulTermination"}
PausedStates == {"AfterHeaders", "BuildingResponse", "NegotiatingWebSocket"}

shut == server # "up"

(***************************************************************************)
(* Control.  A label names the next step of a thread; LockFree(p) holds    *)
(* when no other thread is in the middle of a locked section.              *)
(***************************************************************************)
LockFree(p) == \A q \in Threads \ {p} : pc[q] \notin {"next", "closing"} /\ ~local[q].inside

Goto(p, l) == pc' = [pc EXCEPT ![p] = l]

(* The locals of a thread: nTimersToStop, nTimersToStart, the bFire flags, *)
(* a failed hRes or bCancel, where to go after the timers are done, and    *)
(* whether it destroys the connection from inside a Close of its own.      *)
NoLocal == [stop |-> {}, start |-> {}, fire |-> {}, failed |-> FALSE,
            next |-> "idle", inside |-> FALSE]

Init ==
  /\ state = "Inactive" /\ flags = {} /\ bound = TRUE /\ listed = TRUE
  /\ timerId = [k \in Kinds |-> 0] /\ armed = [k \in Kinds |-> {}]
  /\ running = <<>> /\ waiting = {}
  /\ closed = FALSE /\ paused = FALSE /\ resuming = FALSE
  /\ buffered = <<>> /\ newData = FALSE /\ signals = 0 /\ ended = FALSE
  /\ messages = 0 /\ half = FALSE /\ server = "up" /\ owed = FALSE
  /\ pc = [p \in Threads |-> IF p = "reader" THEN "connect" ELSE "idle"]
  /\ local = [p \in Threads |-> NoLocal]

(***************************************************************************)
(* The timers of the request.  A thread that stops and starts timers goes  *)
(* through "stop", "clear" and "set", and from there to local[p].next.     *)
(***************************************************************************)
AfterStop(l) == IF l.start # {} THEN "clear" ELSE l.next

(* Run p's nTimersToStop and nTimersToStart, then go on at l.next.         *)
Timers(p, l) ==
  /\ local' = [local EXCEPT ![p] = l]
  /\ Goto(p, IF l.stop # {} THEN "stop" ELSE AfterStop(l))

(* Clear of every kind in ks: the ids found in the variables are removed;  *)
(* the caller waits for one that runs, unless it runs inside it.           *)
Clear(p, ks) ==
  /\ timerId' = [k \in Kinds |-> IF k \in ks THEN 0 ELSE timerId[k]]
  /\ armed' = [k \in Kinds |-> IF k \in ks THEN armed[k] \ {timerId[k]} ELSE armed[k]]
  /\ waiting' = IF /\ running # <<>> /\ p # "timer"
                   /\ running[1] \in ks /\ timerId[running[1]] = running[2]
                THEN waiting \union {p} ELSE waiting
  /\ UNCHANGED running

StopTimeoutTimers(p) ==
  /\ pc[p] = "stop"
  /\ Clear(p, local[p].stop)
  /\ Goto(p, AfterStop(local[p]))
  /\ local' = [local EXCEPT ![p].stop = {}]
  /\ UNCHANGED <<reqVars, connVars, envVars, owed>>

StartClears(p) ==
  /\ pc[p] = "clear"
  /\ Clear(p, local[p].start)
  /\ Goto(p, "set")
  /\ UNCHANGED <<reqVars, connVars, envVars, owed, local>>

(* The id of a new timer is one that no timer and no variable holds.       *)
InUse(k) == armed[k] \union {timerId[k]}
              \union (IF running # <<>> /\ running[1] = k THEN {running[2]} ELSE {})

NewId(k) == CHOOSE i \in 1..(Cardinality(InUse(k)) + 1) : i \notin InUse(k)

StartSets(p) ==
  /\ pc[p] = "set"
  /\ LET ks == local[p].start IN
       /\ timerId' = [k \in Kinds |-> IF k \in ks THEN NewId(k) ELSE timerId[k]]
       /\ armed' = [k \in Kinds |-> IF k \in ks THEN armed[k] \union {NewId(k)} ELSE armed[k]]
  /\ Goto(p, local[p].next)
  /\ UNCHANGED <<reqVars, running, waiting, connVars, envVars, owed, local>>

(***************************************************************************)
(* CClientRequest::SetState, and what is built on it.                      *)
(***************************************************************************)
(* SetState that never resumes the connection.                             *)
MutSetState(s) ==
  /\ state' = s
  /\ paused' = (s \in PausedStates \/ paused)
  /\ UNCHANGED resuming

SetState(s) ==
  /\ state' = s
  /\ paused' = (s \in PausedStates \/ (paused /\ (state \notin PausedStates \/ s = "Terminated")))
  /\ resuming' = (resuming \/ (paused /\ state \in PausedStates /\ s \notin {state, "Terminated"}))

TerminateRequest == SetState("Terminated") /\ closed' = TRUE /\ UNCHANGED <<flags, signals>>

(* SendHeaders and SendQueuedStreams succeed while the connection is open. *)
Answerable == {"ReceivingRequestHeaders", "AfterHeaders", "ReceivingRequestBody",
               "BuildingResponse", "NegotiatingWebSocket"}

CanAnswer == "HeadersSent" \notin flags /\ state \in Answerable /\ ~closed

(* OnRequestError, with p's nTimersToStop and nTimersToStart set for the   *)
(* restart that follows each call of it.                                   *)
OnRequestError(p) ==
  LET start == IF CanAnswer /\ state # "BuildingResponse" THEN {"GracefulTermination"} ELSE {}
  IN /\ \/ /\ CanAnswer
           /\ flags' = flags \union {"HeadersSent", "ErrorPageSent", "DontKeepAlive"}
           /\ \/ /\ state = "BuildingResponse"
                 /\ signals' = signals + 1
                 /\ UNCHANGED <<state, closed, paused, resuming>>
              \/ /\ state # "BuildingResponse"
                 /\ SetState("GracefulTermination")
                 /\ UNCHANGED <<closed, signals>>
        \/ ~CanAnswer /\ TerminateRequest
     /\ Timers(p, [local[p] EXCEPT !.stop = Kinds, !.start = start, !.fire = {}, !.next = "loop"])
     /\ UNCHANGED <<bound, listed, newData>>


(***************************************************************************)
(* CHttpServer::OnSocketConnect.                                           *)
(***************************************************************************)
ConnectRefused ==
  /\ pc["reader"] = "connect"
  /\ closed' = TRUE
  /\ Goto("reader", "idle")
  /\ UNCHANGED <<reqVars, timerVars, paused, resuming, buffered, newData, signals, ended,
                 envVars, owed, local>>

OnSocketConnect ==
  /\ pc["reader"] = "connect" /\ server # "down"
  /\ SetState("ReceivingRequestHeaders")
  /\ Timers("reader", [NoLocal EXCEPT !.start = {"Headers", "Throughput"}, !.next = "connected"])
  /\ UNCHANGED <<flags, bound, listed, timerVars, closed, buffered, newData, signals, ended,
                 envVars, owed>>

Connected ==
  /\ pc["reader"] = "connected"
  /\ Goto("reader", "idle")
  /\ UNCHANGED <<reqVars, timerVars, connVars, envVars, owed, local>>

(***************************************************************************)
(* CHttpServer::OnSocketDataReceived, by the reader or the writer.  From   *)
(* "loop" it enters cMutex; at "next" it holds it.                         *)
(***************************************************************************)
InLoop(p) == pc[p] \in {"loop", "next"} /\ LockFree(p)

(* A message is there and the loop's condition holds.                      *)
HasMessage(p) == InLoop(p) /\ state # "Terminated" /\ buffered # <<>>

Consume == buffered' = Tail(buffered)

(* Leave cMutex with l's timers to stop and start, then the callbacks.     *)
Leave(p, l) ==
  Timers(p, [l EXCEPT !.next = IF l.fire = {} THEN "idle"
                               ELSE IF "headers" \in l.fire THEN "headers_call"
                               ELSE IF "upgrade" \in l.fire THEN "upgrade_call" ELSE "completed"])

LeaveLoop(p) ==
  /\ InLoop(p)
  /\ \/ state = "Terminated" \/ buffered = <<>>
     \/ state \in PausedStates \union {"SendingResponse", "WebSocket"}
  /\ Leave(p, local[p])
  /\ UNCHANGED <<reqVars, timerVars, connVars, envVars, owed>>

(* Data that follows a response begins a request.                          *)
BeginRequest(p) ==
  /\ HasMessage(p) /\ state \in {"KeepingAlive", "Inactive"}
  /\ SetState("ReceivingRequestHeaders")
  /\ local' = [local EXCEPT ![p].stop = @ \union
                  (IF state = "KeepingAlive" THEN {"KeepAlive"} ELSE {})]
  /\ Goto(p, "next")
  /\ UNCHANGED <<flags, bound, listed, timerVars, closed, buffered, newData, signals, ended,
                 envVars, owed>>

ParsePart(p) ==
  /\ HasMessage(p) /\ state = "ReceivingRequestHeaders" /\ Head(buffered) = "part"
  /\ Consume
  /\ Goto(p, "next")
  /\ UNCHANGED <<reqVars, timerVars, closed, paused, resuming, newData, signals, ended,
                 envVars, owed, local>>

ParsedBy(p, s, l) ==
  /\ Consume /\ SetState(s) /\ Leave(p, l)
  /\ UNCHANGED <<flags, bound, listed, timerVars, closed, newData, signals, ended, envVars, owed>>

(* BodyStart: nTimersToStart is left as it is.                             *)
ParseHead(p) ==
  /\ HasMessage(p) /\ state = "ReceivingRequestHeaders" /\ Head(buffered) = "post"
  /\ ParsedBy(p, "AfterHeaders", [local[p] EXCEPT !.stop = Kinds, !.fire = {"headers"}])

ParseDone(p) ==
  /\ HasMessage(p)
  /\ LET l(f) == [local[p] EXCEPT !.stop = Kinds, !.start = {}, !.fire = f] IN
     \/ /\ state = "ReceivingRequestHeaders" /\ Head(buffered) = "get"
        /\ ParsedBy(p, "AfterHeaders", l({"headers", "completed"}))
     \/ /\ state = "ReceivingRequestHeaders" /\ Head(buffered) = "upgrade"
        /\ ParsedBy(p, "NegotiatingWebSocket", l({"upgrade"}))
     \/ /\ state = "ReceivingRequestBody" /\ Head(buffered) = "body"
        /\ ParsedBy(p, "BuildingResponse", l({"completed"}))

(* The parser fails and consumes nothing.                                  *)
ParseFails(p) ==
  /\ HasMessage(p)
  /\ \/ state = "ReceivingRequestHeaders" /\ Head(buffered) \in {"bad", "body"}
     \/ state = "ReceivingRequestBody" /\ MayRefuse
  /\ OnRequestError(p)
  /\ UNCHANGED <<buffered, timerVars, ended, envVars, owed>>

(* CheckRateLimit, IsWebSocket, ValidateWebSocket: the message is consumed.*)
Refuse(p) ==
  /\ MayRefuse /\ HasMessage(p)
  /\ \/ state = "ReceivingRequestHeaders" /\ Head(buffered) \in {"get", "post", "upgrade"}
     \/ state = "ReceivingRequestBody"
  /\ Consume
  /\ OnRequestError(p)
  /\ UNCHANGED <<timerVars, ended, envVars, owed>>

Discard(p) ==
  /\ HasMessage(p) /\ state \in {"GracefulTermination", "LingerClose"}
  /\ buffered' = <<>>
  /\ Goto(p, "next")
  /\ UNCHANGED <<reqVars, timerVars, closed, paused, resuming, newData, signals, ended,
                 envVars, owed, local>>

(***************************************************************************)
(* The callbacks of OnSocketDataReceived.                                  *)
(***************************************************************************)
(* A callback that is not made after cShutdownEv counts as one that fails. *)
Callback(p, from, to) ==
  /\ pc[p] = from
  /\ \E f \in BOOLEAN : /\ shut => f
                        /\ local' = [local EXCEPT ![p].failed = f]
  /\ Goto(p, to)
  /\ UNCHANGED <<reqVars, timerVars, connVars, envVars, owed>>

HeadersCallback(p) == Callback(p, "headers_call", "headers")

Restart(p, l) == Timers(p, [l EXCEPT !.fire = {}, !.failed = FALSE, !.next = "loop"])

(* BuildingResponse is not set before the completed callback.              *)
MutHeadersReturn(p) ==
  /\ pc[p] = "headers" /\ LockFree(p) /\ "completed" \in local[p].fire
  /\ Goto(p, "completed")
  /\ UNCHANGED <<reqVars, timerVars, connVars, envVars, owed, local>>

HeadersReturn(p) ==
  /\ pc[p] = "headers" /\ LockFree(p)
  /\ \/ /\ state = "AfterHeaders" /\ ~local[p].failed /\ "completed" \notin local[p].fire
        /\ SetState("ReceivingRequestBody")
        /\ Restart(p, [local[p] EXCEPT !.start = @ \union {"Throughput"}])
     \/ /\ state = "AfterHeaders" /\ ~local[p].failed /\ "completed" \in local[p].fire
        /\ SetState("BuildingResponse")
        /\ Goto(p, "completed") /\ UNCHANGED local
     \/ /\ state # "AfterHeaders"
        /\ UNCHANGED <<state, paused, resuming>>
        /\ \/ "completed" \in local[p].fire /\ Goto(p, "completed") /\ UNCHANGED local
           \/ "completed" \notin local[p].fire /\ Restart(p, local[p])
  /\ UNCHANGED <<flags, bound, listed, timerVars, closed, buffered, newData, signals, ended,
                 envVars, owed>>

HeadersFailed(p) ==
  /\ pc[p] = "headers" /\ LockFree(p) /\ state = "AfterHeaders" /\ local[p].failed
  /\ OnRequestError(p)
  /\ UNCHANGED <<buffered, timerVars, ended, envVars, owed>>

(* The completed callback is made after cShutdownEv too.                   *)
MutCompletedCallback(p) ==
  /\ pc[p] = "completed"
  /\ \/ state = "Terminated" /\ Goto(p, "idle") /\ UNCHANGED owed
     \/ /\ state # "Terminated"
        /\ Goto(p, IF shut THEN "cancelled" ELSE "idle")
        /\ owed' = TRUE
  /\ UNCHANGED <<reqVars, timerVars, connVars, envVars, local>>

(* The state and cShutdownEv are read without cMutex.  A request that no   *)
(* callback takes is answered with an error, E_NOTIMPL or MX_E_Cancelled.  *)
CompletedCallback(p) ==
  /\ pc[p] = "completed"
  /\ \/ state = "Terminated" /\ Goto(p, "idle") /\ UNCHANGED owed
     \/ state # "Terminated" /\ ~shut /\ Goto(p, "idle") /\ owed' = TRUE
     \/ /\ state # "Terminated" /\ (shut \/ MayLackCallback)
        /\ Goto(p, "cancelled") /\ UNCHANGED owed
  /\ UNCHANGED <<reqVars, timerVars, connVars, envVars, local>>

CompletedCancelled(p) ==
  /\ pc[p] = "cancelled" /\ LockFree(p)
  /\ OnRequestError(p)
  /\ UNCHANGED <<buffered, timerVars, ended, envVars, owed>>

UpgradeCallback(p) == Callback(p, "upgrade_call", "upgraded")

(* ProcessWebSocket: the connection passes to the web socket.              *)
UpgradeReturn(p) ==
  /\ pc[p] = "upgraded" /\ LockFree(p)
  /\ \/ /\ state = "NegotiatingWebSocket" /\ ~local[p].failed /\ ~closed
        /\ SetState("WebSocket")
        /\ flags' = flags \union {"HeadersSent"}
        /\ listed' = FALSE
        /\ Timers(p, [NoLocal EXCEPT !.stop = Kinds])
     \/ /\ state # "NegotiatingWebSocket"
        /\ Goto(p, "idle")
        /\ UNCHANGED <<state, paused, resuming, flags, listed, local>>
  /\ UNCHANGED <<bound, timerVars, closed, buffered, newData, signals, ended, envVars, owed>>

UpgradeFailed(p) ==
  /\ pc[p] = "upgraded" /\ LockFree(p)
  /\ state = "NegotiatingWebSocket" /\ (local[p].failed \/ closed)
  /\ OnRequestError(p)
  /\ UNCHANGED <<buffered, timerVars, ended, envVars, owed>>

(***************************************************************************)
(* CHttpServer::OnAfterSendResponse: it stops the timers, and then resets  *)
(* the request or closes the link half way.                                *)
(***************************************************************************)
SignalFires ==
  /\ signals > 0 /\ pc["writer"] = "idle" /\ bound
  /\ signals' = signals - 1
  /\ Timers("writer", [NoLocal EXCEPT !.stop = Kinds, !.next = "sent"])
  /\ UNCHANGED <<reqVars, timerVars, closed, paused, resuming, buffered, newData, ended,
                 envVars, owed>>

LastResponse == state = "GracefulTermination" \/ "DontKeepAlive" \in flags

(* Disable fails on a link that is closed.                                 *)
LingerClose ==
  /\ pc["writer"] = "sent" /\ LockFree("writer") /\ LastResponse
  /\ \/ /\ ~closed /\ SetState("LingerClose")
        /\ Timers("writer", [NoLocal EXCEPT !.start = {"GracefulTermination"}])
        /\ UNCHANGED <<flags, closed, signals>>
     \/ /\ closed /\ TerminateRequest
        /\ Goto("writer", "idle") /\ UNCHANGED local
  /\ UNCHANGED <<bound, listed, timerVars, buffered, newData, ended, envVars, owed>>

(* What waits in the buffer is not looked at after the reset.              *)
MutResetForNewRequest ==
  /\ pc["writer"] = "sent" /\ LockFree("writer") /\ ~LastResponse
  /\ SetState("KeepingAlive")
  /\ flags' = {}
  /\ Timers("writer", [NoLocal EXCEPT !.start = {"KeepAlive"}])
  /\ UNCHANGED <<bound, listed, timerVars, closed, buffered, newData, signals, ended,
                 envVars, owed>>

ResetForNewRequest ==
  /\ pc["writer"] = "sent" /\ LockFree("writer") /\ ~LastResponse
  /\ SetState("KeepingAlive")
  /\ flags' = {}
  /\ Timers("writer", [NoLocal EXCEPT !.start = {"KeepAlive"}, !.next = "nested"])
  /\ UNCHANGED <<bound, listed, timerVars, closed, buffered, newData, signals, ended,
                 envVars, owed>>

(* There might be data waiting to be read.                                 *)
NestedDataReceived ==
  /\ pc["writer"] = "nested"
  /\ local' = [local EXCEPT !["writer"] = NoLocal]
  /\ Goto("writer", "loop")
  /\ UNCHANGED <<reqVars, timerVars, connVars, envVars, owed>>

(***************************************************************************)
(* The application: EnableDirectResponse with the data it sends then (from *)
(* the completed callback on; the code accepts it in the headers callback  *)
(* too), and End, which is OnRequestEnding.  At "closing" a thread is      *)
(* inside the Close of TerminateRequest and holds cMutex.                  *)
(***************************************************************************)
EnableDirectResponse ==
  /\ owed /\ pc["app"] = "idle" /\ LockFree("app") /\ state = "BuildingResponse"
  /\ SetState("SendingResponse")
  /\ flags' = flags \union {"Direct", "HeadersSent"}
  /\ UNCHANGED <<bound, listed, timerVars, closed, buffered, newData, signals, ended,
                 envVars, owed, pc, local>>

Endable == {"AfterHeaders", "BuildingResponse", "SendingResponse", "NegotiatingWebSocket"}

EndIgnored ==
  /\ owed /\ pc["app"] = "idle" /\ LockFree("app") /\ state \notin Endable
  /\ owed' = FALSE
  /\ UNCHANGED <<reqVars, timerVars, connVars, envVars, pc, local>>

(* The response is sent; keep says whether the connection may be kept.     *)
EndSends ==
  /\ owed /\ pc["app"] = "idle" /\ LockFree("app") /\ state \in Endable
  /\ ~closed \/ "Direct" \in flags
  /\ SetState("SendingResponse")
  /\ \E keep \in BOOLEAN :
       flags' = flags \union {"HeadersSent"} \union (IF keep THEN {} ELSE {"DontKeepAlive"})
  /\ Timers("app", [NoLocal EXCEPT !.stop = Kinds, !.start = {"Throughput"}, !.next = "signal"])
  /\ owed' = FALSE
  /\ UNCHANGED <<bound, listed, timerVars, closed, buffered, newData, signals, ended, envVars>>

(* End with an error, or a response that cannot be sent: the headers are   *)
(* then marked as sent and the state was SendingResponse before, unless    *)
(* SetState failed too; either way OnCleanup may ask for a new connection. *)
EndFails ==
  /\ owed /\ pc["app"] = "idle" /\ LockFree("app") /\ state \in Endable
  /\ state' = "Terminated" /\ closed' = TRUE
  /\ \/ UNCHANGED <<flags, paused, resuming>>
     \/ /\ "Direct" \notin flags
        /\ flags' \in {flags \union {"HeadersSent"}, flags \union {"HeadersSent", "DontKeepAlive"}}
        /\ paused' = (paused /\ state \notin PausedStates)
        /\ resuming' = (resuming \/ (paused /\ state \in PausedStates))
     \/ /\ flags' = flags \union {"DontKeepAlive"}
        /\ UNCHANGED <<paused, resuming>>
  /\ local' = [local EXCEPT !["app"] = [NoLocal EXCEPT !.stop = Kinds, !.next = "signal"]]
  /\ Goto("app", "closing")
  /\ owed' = FALSE
  /\ UNCHANGED <<bound, listed, timerVars, buffered, newData, signals, ended, envVars>>

EndSignals ==
  /\ pc["app"] = "signal" /\ LockFree("app") /\ bound /\ ~closed
  /\ signals' = signals + 1
  /\ Goto("app", "idle")
  /\ UNCHANGED <<reqVars, timerVars, closed, paused, resuming, buffered, newData, ended,
                 envVars, owed, local>>

(* The timers started before the failure are left alone.                   *)
MutEndSignalFails ==
  /\ pc["app"] = "signal" /\ LockFree("app") /\ ~(bound /\ ~closed)
  /\ TerminateRequest
  /\ local' = [local EXCEPT !["app"] = NoLocal]
  /\ Goto("app", "closing")
  /\ UNCHANGED <<bound, listed, timerVars, buffered, newData, ended, envVars, owed>>

EndSignalFails ==
  /\ pc["app"] = "signal" /\ LockFree("app") /\ ~(bound /\ ~closed)
  /\ TerminateRequest
  /\ local' = [local EXCEPT !["app"] = [NoLocal EXCEPT !.stop = Kinds]]
  /\ Goto("app", "closing")
  /\ UNCHANGED <<bound, listed, timerVars, buffered, newData, ended, envVars, owed>>

CloseReturns(p) ==
  /\ pc[p] = "closing"
  /\ Timers(p, local[p])
  /\ UNCHANGED <<reqVars, timerVars, connVars, envVars, owed>>

(***************************************************************************)
(* The time-out callbacks.                                                 *)
(***************************************************************************)
TimerFires(k) ==
  /\ pc["timer"] = "idle"
  /\ \E i \in armed[k] : running' = <<k, i>>
  /\ Goto("timer", "fired")
  /\ local' = [local EXCEPT !["timer"] = NoLocal]
  /\ UNCHANGED <<reqVars, timerId, armed, waiting, connVars, envVars, owed>>

(* The id is compared before cMutex is entered.                            *)
TimerChecks ==
  /\ pc["timer"] = "fired"
  /\ Goto("timer", IF server # "down" /\ timerId[running[1]] = running[2] THEN "expired" ELSE "end")
  /\ UNCHANGED <<reqVars, timerVars, connVars, envVars, owed, local>>

(* OnGracefulTermination forgets LingerClose.                              *)
MutEndedBy == [Headers             |-> {"ReceivingRequestHeaders"},
               Throughput          |-> {"ReceivingRequestBody", "SendingResponse"},
               GracefulTermination |-> {"SendingResponse"},
               KeepAlive           |-> {"KeepingAlive"}]

(* The states that each callback ends.                                     *)
EndedBy == [Headers             |-> {"ReceivingRequestHeaders"},
            Throughput          |-> {"ReceivingRequestBody", "SendingResponse"},
            GracefulTermination |-> {"SendingResponse", "LingerClose"},
            KeepAlive           |-> {"KeepingAlive"}]

(* For Throughput: it has been low for long enough.                        *)
TimerTerminates(k) ==
  /\ pc["timer"] = "expired" /\ LockFree("timer") /\ running[1] = k /\ state \in EndedBy[k]
  /\ TerminateRequest
  /\ local' = [local EXCEPT !["timer"] =
                 [NoLocal EXCEPT !.stop = Kinds \ {k}, !.failed = TRUE, !.next = "end"]]
  /\ Goto("timer", "closing")
  /\ UNCHANGED <<bound, listed, timerVars, buffered, newData, ended, envVars, owed>>

TimerIgnores ==
  /\ pc["timer"] = "expired" /\ LockFree("timer")
  /\ running[1] = "Throughput" \/ state \notin EndedBy[running[1]]
  /\ Goto("timer", "end")
  /\ UNCHANGED <<reqVars, timerVars, connVars, envVars, owed, local>>

(* The threads that wait in Clear are not told.                            *)
MutTimerEnds ==
  /\ pc["timer"] = "end"
  /\ armed' = [armed EXCEPT ![running[1]] = @ \ {running[2]}]
  /\ running' = <<>>
  /\ Goto("timer", "idle")
  /\ UNCHANGED <<reqVars, timerId, waiting, connVars, envVars, owed, local>>

(* A one-shot timer and an interval that was cancelled are removed.        *)
TimerEnds ==
  /\ pc["timer"] = "end"
  /\ LET k == running[1] IN
       armed' = [armed EXCEPT ![k] = IF k \in OneShot \/ local["timer"].failed
                                     THEN @ \ {running[2]} ELSE @]
  /\ running' = <<>> /\ waiting' = {}
  /\ Goto("timer", "idle")
  /\ UNCHANGED <<reqVars, timerId, connVars, envVars, owed, local>>

(***************************************************************************)
(* CHttpServer::OnSocketDestroy, by a worker or inside a Close.            *)
(***************************************************************************)
Quiet == closed /\ bound /\ state # "WebSocket" /\ pc["reader"] = "idle" /\ pc["writer"] = "idle"

DestroyEnters(p) ==
  /\ \/ p = "destroyer" /\ pc[p] = "idle" /\ LockFree(p)
     \/ p \in Closers /\ pc[p] = "closing"
  /\ Quiet
  /\ SetState("Terminated")
  /\ bound' = FALSE
  /\ Timers(p, [local[p] EXCEPT !.stop = Kinds, !.start = {}, !.next = "unlist",
                                !.inside = (p # "destroyer")])
  /\ UNCHANGED <<flags, listed, timerVars, closed, buffered, newData, signals, ended,
                 envVars, owed>>

(* Out of the list, the destroyed callback and Release.  A thread that was *)
(* in TerminateRequest leaves cMutex and stops the timers once more.       *)
DestroyLeaves(p) ==
  /\ pc[p] = "unlist"
  /\ listed' = FALSE
  /\ Timers(p, [NoLocal EXCEPT !.stop = IF p = "destroyer" THEN {} ELSE Kinds,
                               !.failed = local[p].failed,
                               !.next = IF p = "timer" THEN "end"
                                        ELSE IF p = "app" THEN "idle" ELSE "gone"])
  /\ UNCHANGED <<state, flags, bound, timerVars, connVars, envVars, owed>>

(***************************************************************************)
(* The connection, the peer and the server.                                *)
(***************************************************************************)
(* The body of a request follows its head.                                 *)
Receive ==
  /\ ~closed /\ ~paused /\ pc["reader"] # "connect" /\ messages < MaxMessages
  /\ \E m \in IF half THEN {"body"} ELSE Messages :
       buffered' = Append(buffered, m) /\ half' = (m = "post")
  /\ newData' = TRUE
  /\ messages' = messages + 1
  /\ UNCHANGED <<reqVars, timerVars, closed, paused, resuming, signals, ended, server, owed, pc, local>>

(* The handler of the packet that ResumeInputProcessing posts.             *)
Resumes ==
  /\ resuming
  /\ resuming' = FALSE
  /\ newData' = (newData \/ buffered # <<>>)
  /\ UNCHANGED <<reqVars, timerVars, closed, paused, buffered, signals, ended, envVars, owed, pc, local>>

DataArrives ==
  /\ newData /\ ~closed /\ pc["reader"] = "idle" /\ state # "WebSocket"
  /\ newData' = FALSE
  /\ local' = [local EXCEPT !["reader"] = NoLocal]
  /\ Goto("reader", "loop")
  /\ UNCHANGED <<reqVars, timerVars, closed, paused, resuming, buffered, signals, ended, envVars, owed>>

PeerCloses ==
  /\ ~closed
  /\ closed' = TRUE
  /\ UNCHANGED <<reqVars, timerVars, paused, resuming, buffered, newData, signals, ended,
                 envVars, owed, pc, local>>

(* The end of the connection reports the data left, once.                  *)
LastData ==
  /\ Quiet /\ ~ended /\ signals = 0 /\ buffered # <<>> /\ pc["destroyer"] = "idle"
  /\ state # "Inactive"
  /\ ended' = TRUE
  /\ local' = [local EXCEPT !["reader"] = NoLocal]
  /\ Goto("reader", "loop")
  /\ UNCHANGED <<reqVars, timerVars, closed, paused, resuming, buffered, newData, signals,
                 envVars, owed>>

StopListening ==
  /\ CanStop /\ server = "up"
  /\ server' = "stopped"
  /\ UNCHANGED <<reqVars, timerVars, connVars, messages, half, owed, pc, local>>

(* ~CHttpServer waits for the callbacks that hold nRundownLock, ...        *)
ServerDestroyed ==
  /\ CanStop /\ server # "down" /\ running = <<>>
  /\ pc["reader"] # "connected" /\ local["reader"].next # "connected"
  /\ server' = "down"
  /\ UNCHANGED <<reqVars, timerVars, connVars, messages, half, owed, pc, local>>

(* ... and terminates the request.                                         *)
ServerTerminates ==
  /\ server = "down" /\ listed /\ state # "Terminated" /\ LockFree("destroyer")
  /\ TerminateRequest
  /\ UNCHANGED <<bound, listed, timerVars, buffered, newData, ended, envVars, owed, pc, local>>

-----------------------------------------------------------------------------
OnSocketDataReceived(p) ==
  \/ LeaveLoop(p) \/ BeginRequest(p) \/ ParsePart(p) \/ ParseHead(p) \/ ParseDone(p)
  \/ ParseFails(p) \/ Refuse(p) \/ Discard(p)
  \/ HeadersCallback(p) \/ HeadersReturn(p) \/ HeadersFailed(p)
  \/ CompletedCallback(p) \/ CompletedCancelled(p)
  \/ UpgradeCallback(p) \/ UpgradeReturn(p) \/ UpgradeFailed(p)

TimerSteps(p) == StopTimeoutTimers(p) \/ StartClears(p) \/ StartSets(p)

End == EndIgnored \/ EndSends \/ EndFails \/ EndSignals \/ EndSignalFails

(* A thread that waits in Clear does nothing else.                         *)
Step(p) ==
  /\ p \notin waiting
  /\ \/ TimerSteps(p)
     \/ p \in {"reader", "writer"} /\ OnSocketDataReceived(p)
     \/ p = "reader" /\ (ConnectRefused \/ OnSocketConnect \/ Connected \/ DataArrives)
     \/ p = "writer" /\ (SignalFires \/ LingerClose \/ ResetForNewRequest \/ NestedDataReceived)
     \/ p = "app" /\ End
     \/ p \in {"app", "timer"} /\ CloseReturns(p)
     \/ p = "timer" /\ (TimerChecks \/ TimerIgnores \/ TimerEnds
                        \/ \E k \in Kinds : TimerTerminates(k))
     \/ p \in {"destroyer", "app", "timer"} /\ (DestroyEnters(p) \/ DestroyLeaves(p))

Next ==
  \/ \E p \in Threads : Step(p)
  \/ "app" \notin waiting /\ EnableDirectResponse
  \/ \E k \in Kinds : TimerFires(k)
  \/ Resumes \/ LastData \/ Receive \/ PeerCloses
  \/ StopListening \/ ServerDestroyed \/ ServerTerminates

Spec == Init /\ [][Next]_vars

(***************************************************************************)
(* Fairness.  Workers and the timer thread go on.  The application ends    *)
(* every request that it was given (End is its obligation: no time-out     *)
(* watches over BuildingResponse), and an End that began goes on.  Timers  *)
(* fire in the order in which they are due, so none is passed over for     *)
(* ever although others fire meanwhile; and a peer that sends or takes     *)
(* nothing more is found slow in the end.  The peer owes nothing, and no   *)
(* time-out is assumed of a request whose headers are being received.      *)
(***************************************************************************)
Fairness ==
  /\ \A p \in Threads : WF_vars(Step(p))
  /\ WF_vars(Resumes)
  /\ \A k \in Kinds \ {"Headers"} : SF_vars(TimerFires(k))
  /\ SF_vars(Step("timer") /\ TimerTerminates("Throughput"))

FairSpec == Spec /\ Fairness

-----------------------------------------------------------------------------
(* nState, the timer variables and the locals keep to their values: a      *)
(* variable holds an id or 0, nobody waits for a callback unless one runs  *)
(* (the waiter would never be told), and one response at most is under     *)
(* way to OnAfterSendResponse, whoever ends the request.                   *)
TypeOK ==
  /\ state \in {"Inactive", "KeepingAlive", "ReceivingRequestBody", "SendingResponse",
                "ReceivingRequestHeaders", "WebSocket", "GracefulTermination", "LingerClose",
                "Terminated"} \union PausedStates
  /\ flags \subseteq {"HeadersSent", "ErrorPageSent", "DontKeepAlive", "Direct"}
  /\ timerId \in [Kinds -> Nat] /\ armed \in [Kinds -> SUBSET (Nat \ {0})]
  /\ waiting \subseteq Threads \ {"timer"}
  /\ waiting # {} => running # <<>>
  /\ buffered \in Seq({"get", "part", "post", "body", "bad", "upgrade"})
  /\ signals \in {0, 1}
  /\ server \in {"up", "stopped", "down"}
  /\ {closed, paused, resuming, newData, ended, bound, listed, half, owed} \subseteq BOOLEAN
  /\ \A p \in Threads : local[p].stop \union local[p].start \subseteq Kinds

(* Nobody holds a reference to the request.                                *)
Freed ==
  /\ ~listed /\ ~owed
  /\ pc["reader"] = "idle" /\ pc["writer"] = "idle" /\ pc["app"] = "idle"

(* OnSocketDestroy stops the timers of a request that any thread may still *)
(* be ending: whatever they started or stopped side by side, the variables *)
(* are 0 when the last reference goes.                                     *)
DestroyStopsTimers == Freed /\ ~bound => \A k \in Kinds : timerId[k] = 0

(* The assertions of ~CClientRequest, for a request that a web socket took *)
(* over too.                                                               *)
DestructorAsserts ==
  Freed => state \in {"Inactive", "WebSocket", "Terminated"} /\ \A k \in Kinds : timerId[k] = 0

(* The responses under way: sent, with OnAfterSendResponse still to come.  *)
Responses ==
  signals + (IF "sent" \in {pc["writer"], local["writer"].next} /\ pc["writer"] # "idle" THEN 1 ELSE 0)
          + (IF pc["app"] \in {"stop", "clear", "set", "signal"} /\ local["app"].next = "signal"
             THEN 1 ELSE 0)

(* OnAfterSendResponse resets the request that was answered and no other:  *)
(* at most one response is under way, and no request is received meanwhile.*)
SignalOfThisRequest ==
  /\ Responses <= 1
  /\ Responses = 1 => state \in {"BuildingResponse", "SendingResponse", "Terminated"}

(* SetState: an open connection reads unless the application has the       *)
(* request, whichever thread moved it there or away.                       *)
PausedWithApplication ==
  ~closed /\ state # "Terminated" => paused = (state \in PausedStates)

(* OnRequestCompleted is called for a request that is being answered, and  *)
(* not before the application has ended the one before.                    *)
CompletedInTurn ==
  \A p \in {"reader", "writer"} : pc[p] = "completed" =>
    /\ state \in {"BuildingResponse", "Terminated"}
    /\ ~owed /\ Responses = 0
    /\ \A q \in {"reader", "writer"} \ {p} : pc[q] \notin {"headers", "completed"}

(* The time-outs: a peer that stays silent cannot keep a connection in a   *)
(* state that a timer is to end, because one is armed and nobody stops it. *)
TimedStatesEnd ==
  []<>(state \notin {"ReceivingRequestBody", "SendingResponse", "KeepingAlive", "LingerClose"})

(* OnSocketDestroy: no thread waits for ever, in Clear or for cMutex, so a *)
(* closed connection leaves the server's list.                             *)
ClosedIsUnlisted == closed ~> ~listed

(* A thread that has yet to look into the buffer.                          *)
Looks(p) ==
  /\ pc[p] \notin {"idle", "completed"}
  /\ pc[p] \in {"stop", "clear", "set"} => local[p].next # "idle"

(* Data that arrived while a response was sent is not forgotten: when the  *)
(* request can take it again somebody will look, not only the next time    *)
(* that the peer sends.                                                    *)
PipelinedIsServed ==
  /\ buffered # <<>> /\ ~closed
  /\ state \in {"KeepingAlive", "ReceivingRequestHeaders", "ReceivingRequestBody",
                "GracefulTermination"}
  => newData \/ resuming \/ \E p \in {"reader", "writer"} : Looks(p)

=============================================================================
