# Verification of the MX Common Libraries

The MX Common Libraries (`mxlib`) are a C++ toolkit for Windows: an IPC engine
over I/O completion ports (sockets, named pipes), an HTTP server and client on
top of it, timers, task queues, thread pools, locks, and wrappers around
OpenSSL, DukTape, SQLite, MySQL and ODBC. This directory models the part where
the library's own difficulty lies: many threads that take completion packets
from one port and work on the same objects, kept together by interlocked
counters, order numbers and rundown protection.

Every module is written from the code under `src/`; `PROJECT.json` maps each
definition to its lines. References below are to files under `src/`.

## 1. Inventory

### 1.1 The concurrent core

**Rundown protection** (`Source/WaitableObjects.cpp` 629-675). State: one 32-bit
word, the top bit for "going down", the rest a count of holders. Operations:
Acquire and Release (compare-and-swap loops), WaitForRelease (set the bit, spin
until the word is exactly 0x80000000), Initialize (store 0). Users: TaskQueue,
HttpServer, HostResolver, CIpc, CTimerHandler; each calls WaitForRelease first
thing in its Finalize, and everything it frees afterwards relies on it. Hard:
stale copies of the word in the compare-and-swap loops, over a shutdown and a
reinitialization. Correct when nobody enters after the bit is set, nobody is
inside once the wait returns, the count is exact, and the wait returns although
callers keep retrying.

**I/O completion port and thread pool** (`Source/IOCompletionPort.cpp`). State:
the kernel's queue of packets; nActiveCount, nBusyCount, nShuttingDown; the list
of threads; each thread's CanExit flag. Operations: Initialize (finalize, open the
port, start the minimum of threads), Finalize (post one key-0 packet per listed
thread until the list is empty, close the port, zero the counters), Post,
ThreadProc and StartThread. Hard: the decisions to grow and to leave compare two
counters that other threads change in between; the shutdown races threads that
start threads; surplus key-0 packets. Correct when the counters are exact, the
growth is bounded, nobody is inside after Finalize and an idle pool keeps its
minimum.

**Task queue** (`Source/TaskQueue.cpp`). State: a rundown word, a count of
pending tasks, a pool of its own. Operations: QueueTask, the pool's callback
OnQueuedTask (which may sleep to throttle), Initialize, Finalize (wait for the
rundown, poll the count, finalize the pool). Hard: Finalize against a task between
its count and its Post, and Post failing. Correct when an accepted task runs,
Finalize drops none, and Finalize returns.

**IPC connection engine** (`Source/Comm/IpcCommon.cpp`, `IpcConnection.cpp`,
`Include/Comm/IpcCommon.h`). State of a connection: the FLAG_ bits, the first
error code, the reference count, nIncomingReads, nOutgoingWrites,
nOutgoingBytes, two order numbers per direction, the received buffer, the lists
of packets that wait for their turn. Operations: SendMsg, SendStream,
AfterWriteSignal, Close, Pause/Resume of input and output, and
OnDispatcherPacket, which handles each type of completion packet and then the
end of the connection and the callbacks. Hard: two workers that took packets one
after the other run interleaved; the link is shut down by whoever finds the last
write done; the end is reported by whoever finds both counters at zero; streams
and after-write signals are put back and looked at again; references follow
packets through the kernel. Correct when writes reach the socket in order and
within the limit, received data is in order, counters and references are exact,
the end is notified once, accepted writes are processed while nobody closes, and a
closed connection is destroyed.

**Sockets transport** (`Source/Comm/Sockets.cpp`). The operations the engine
calls: SendReadPacket, SendWritePacket (which may complete at once),
ShutdownLink (graceful or abortive, once). Also listeners, accept and connect
with their own throttling. **Named pipes** (`NamedPipes.cpp`) offer the same
interface without zero reads.

**Timed events** (`Source/TimedEvent.cpp`). State: a singleton thread and event,
a list of timers sorted by id, a red-black tree by due time, four flags per
timer, the caller's id variable. Operations: AddTimer, RemoveTimer, ProcessQueue,
Get and Shutdown of the singleton. Hard: RemoveTimer while the callback runs,
from outside (it waits) and from inside (the thread frees the timer later);
one-shot timers that free themselves; ids reused after wrapping; Shutdown holding
the lock a callback may need. Correct when a timer is freed once, never used
afterwards, no callback runs after RemoveTimer has returned, and no wake-up is lost.

**Slim reader/writer lock** (`Source/WaitableObjects.cpp` 490-627). State: one LONG,
the top bit for the writer, the rest a count of readers; it stands in for the
system's SRW lock where there is none, and guards the timers' singleton, the host
resolver's, the sockets' handles and the HTTP server's limiters. Operations: acquire
and release, shared and exclusive; upgrade and downgrade, which let others in between.
Hard: stale copies of the word, and a writer that sets the bit first and then waits
for the readers. Correct when a writer is alone inside, the count is exact, and a
thread that has set the bit gets in.

**Host resolver** (`Source/Comm/HostResolver.cpp`): asynchronous resolutions
against their time-out and cancellation, under a rundown.

### 1.2 HTTP

**Server** (`Source/Http/HttpServer.cpp`, `HttpServerRequest.cpp`). State of a
request, which lives as long as its connection: nState, the REQUEST_FLAG_ bits, the
ids of four timers (headers, throughput, graceful termination, keep-alive), the
connection it belongs to, its place in the server's list. Operations: the
connection's callbacks (connect, data received, after-write signal, destroy), the
time-outs, the application's EnableDirectResponse and End, StopListening and the
destructor. Hard: five threads move the request; the state changes inside a critical
section, but timers are started and stopped, and the application is called, outside
it; the signal at the end of a response is handled long after it was queued; SetState
pauses and resumes the connection's input as a side effect; Clear waits for a
callback that may itself wait for the critical section. Correct when one response is
under way at a time and its signal resets the request it belongs to, the input is
paused exactly while the application has the request, pipelined data is looked at, a
silent peer is ended by a time-out, and the destructor finds no timer.
**Client** (`HttpClient.cpp`): connect, send, receive, redirect, authenticate,
retry, cancel. **Parser** (`HttpCommonParser.cpp`): a state machine over bytes,
whose result must not depend on how the input is split. **WebSockets**
(`WebSockets.cpp`): frames, ping/pong, the close handshake. Headers, cookies,
body parsers, URLs and punycode are sequential conversions.

### 1.3 The rest

Locks (`WaitableObjects.cpp`: fast lock, recursive mutex, events), containers (arrays, list, red-black tree, circular buffer),
reference counting, streams, strings, dates, logging, finalizers, databases,
JavaScript, crypto. Locks and containers have algorithms worth checking; the
others wrap external libraries or manipulate one value on one thread.

### 1.4 How the parts interact

    HttpServer, HttpClient, WebSockets, JsHttpServer
        |  SendMsg, SendStream, AfterWriteSignal, Pause/Resume, Close
        v  ^  OnConnect, OnDataReceived, OnDisconnect, OnDestroy
    CIpc / CConnectionBase  -- reads and writes -->  CSockets | CNamedPipes
        |  Post                       ^ completion packets
        v                             |
    CIoCompletionPortThreadPool  -- Get -->  kernel port
        ^
    CTaskQueue (a pool of its own)
    rundown words guard the entry points of CIpc, CTaskQueue, CHttpServer,
    CHostResolver and CTimerHandler against their own Finalize

The shared state is: the port (a FIFO queue, but handled in any order), the
interlocked counters, and small lists under spin locks.

## 2. Modules

| module | models | proofs |
| --- | --- | --- |
| `Rundown` | what rundown protection promises | |
| `RundownProt` | the interlocked word, refining `Rundown` | `RundownProtProofs` |
| `ReaderWriterLock` | what the reader/writer lock promises | |
| `SlimRWLock` | the interlocked word, refining `ReaderWriterLock` | `SlimRWLockProofs` |
| `IocpThreadPool` | CIoCompletionPortThreadPool | `IocpThreadPoolProofs` |
| `TaskQueue` | CTaskQueue, composing `IocpThreadPool` and `Rundown` | `TaskQueueProofs` |
| `TimerService` | what the timed events promise | |
| `TimedEvent` | CTimerHandler, its thread and its callers, refining `TimerService` | `TimedEventProofs` |
| `IpcConnection` | one connection and the dispatcher threads | `IpcConnectionProofs`, `IpcOrderProofs` |
| `HttpRequest` | one request of CHttpServer, on a connection and the timers | `HttpRequestProofs` |

Each has an `MC` module with its model values and its symmetry, and one or more
`.cfg`. Definitions whose name begins with `Mut` are faulty variants of a step,
kept to show that a property notices the fault; no specification uses them.

### 2.1 Rundown and RundownProt

`value` is the word. A thread's Acquire is a read (`AcquireRead`), then a refusal
(`AcquireRefused`) or a compare-and-swap (`AcquireSwap`) that on failure goes on
with the value it found, as `_InterlockedCompareExchange` returns it; Release
likewise. The owner marks (`MarkDown`), sees the exact value (`SeeDrained`) and
may initialize again. `Rundown` is the abstract specification: a phase and a set
of holders. The mapping takes the phase from the owner's place and the holders
from the threads' places; the theorem `Refinement` proves it.

### 2.2 ReaderWriterLock and SlimRWLock

`value` is the word as a record of the bit and the count. Each interlocked access is
an action: a thread reads the word (`SharedRead`, `ExclusiveRead`, `UnshareRead`), is
refused or swaps (`SharedSwap`, ...), and on a failed swap goes on with what it found. A writer claims the lock with the bit and
waits in "drain". The abstract lock has the readers, the claimant and whether it is
inside; `ImplementsLock` is the refinement. TryAcquire and the blocking forms share
their loops; upgrade and downgrade are a release followed by an acquire.

### 2.3 IocpThreadPool

One action per access to shared state. `nBusyCount + threshold < nActiveCount` is
two reads, so two actions, wherever the code makes that comparison (choosing
the time-out, deciding to leave, deciding to start a thread). StartThread reads
both counters again. Critical sections on nMutex do not block and are one action.
`owner` is the thread inside Initialize or Finalize, with the place it has reached.

Left out: the start, end and error callbacks; errors of Get other than the
time-out, which need a closed port; the bytes of a packet. A thread's removal from
the list is its last access to the pool, so its own deletion is part of it.

### 2.4 TaskQueue

The pool's actions are conjoined unchanged; posting is the pool's `Post`, the
callback's return its `FinishPacket`, so by construction what holds of the pool holds
here. Post may fail at any time, as PostQueuedCompletionStatus may
(`PostTaskFails`). The rundown is used through the
abstract module; `RundownProt` implements that, which is why the composition
need not carry the word. Assumed of the application: QueueTask is not called while
Initialize runs (a failing Initialize would drop the packet and keep its count),
Initialize and Finalize do not overlap and are not called from a task.

### 2.5 TimedEvent

`TimerService` is the promise: a timer is armed, firing or cleared; one fires at a
time; a cleared one fires no more, and a call that waits for a firing one to end
returns after it. `TimedEvent` is the code: a timer object is in a list by id and
a tree by due time, both changed only under `sQueue.nMutex`, so each locked block is
one action (`InsertTimer`, `CancelTimer`, `PickTimer`, `After...`), and what the
code does between the blocks (drawing the id, setting the event, polling the
Running flag, freeing) are actions of their own. The flags, the free list with its
limit and the reuse of objects are kept, since the hazard is an object freed while
someone still looks at it; `allocated` is the set of objects there are. The callers'
variables are state because Clear takes the id out of them by an exchange. A
callback makes its calls as the caller `Handler`, and returns in between.

Time is abstract: the tree's order, and how many of its first timers are due.
`TimePasses` makes one more due. A new timer may be inserted anywhere; a periodic
one goes behind every timer that was due when it was picked, because its next
due time counts from the moment before its callback and equal times go behind. In the
refinement a timer is armed or firing while it is in the tree and cleared when
the thread still fires it but the tree has lost it; an id counts as used from the
insertion, or from its failure.

Left out: Get, Initialize, Shutdown and the destructor (the handler lives, so
AddTimer is always let in), the wrap of the ids after 2^32 and the skipping of a
canceled timer in ProcessQueue, which never happens, as `IndexesAgree` shows: a
canceled timer is not in the tree.

### 2.6 IpcConnection

A worker takes a packet (`Dispatch`), runs the handler for its type (`Start...`),
the input part (`InCheck`, `InTake`, `InWrite`), the reads (`ReadNext`,
`ReadIssue`), the output part (`OutEnter` to `OutExit`), and the common end
(`Post`, `PostEnding`, `FireEnter`, `EndingWait`, `EndPacket`, `ReleaseConn`).
Close is a sub-routine any thread may be in, with a return label (`closing`): the
flag (`CloseMark`), the error code (`CloseCode`), the test of nOutgoingWrites
(`CloseTest`), the error code read again (`ShutCode`), the link (`ShutLink`) and the
final reference (`CloseRelease`). A decrement of nOutgoingWrites that reaches zero
goes through its own test of the flag (`DecClosed`) and the same `ShutCode` and
`ShutLink`; others may count and post writes between any two of these. Each label is a point between two accesses to
shared state; in particular the test of nOutgoingBytes and the requeue of a
signal or a stream are separate steps, which is the race the code's second look
at the counter (`IpcConnection.cpp` 586) is for.

Operations the system holds (`kreads`, `kwrites`) complete in order at any
moment; with `SyncIo` they may also complete inside the call. After the link is
shut down, writes fail or, after a graceful shutdown, may still complete.

Abstractions: a packet is its type, order and result; data is a count of arrivals,
so that "in order without gaps" is checkable; the limit on outgoing bytes is
counted in packets; messages are one packet. The requeue slot `bHasRequeuedPacket`
is never set by the code (its only stores are FALSE), so the branches on it are
absent. SSL, connecting, the connection table, statistics, multi-send and a
failing Post are not modelled yet. The 32-bit order numbers wrap in the code;
the model is bounded well below that.

### 2.7 HttpRequest

Five threads share the request: the `reader` (the worker inside OnSocketConnect or
OnSocketDataReceived), the `writer` (the worker inside OnAfterSendResponse, which
calls OnSocketDataReceived too), the `app`, the `timer` thread and the `destroyer`
(the worker that drops the last reference to the connection). Each label of `pc` is a
point between two critical sections, or between a critical section and work done
outside it: stopping timers ("stop"), starting them, which clears and then sets
("clear", "set"), and each callback to the application. A thread's `local` record is
the function's local variables: the timers to stop and to start, the callbacks to
fire, and whether one failed. A message of the peer is what the parser makes of it: a
whole request, a part, a head with a body to follow, invalid text, an upgrade.

| code | action |
| --- | --- |
| OnSocketConnect | `ConnectRefused`, `OnSocketConnect`, `Connected` |
| OnSocketDataReceived, the loop | `BeginRequest`, `ParsePart`, `ParseHead`, `ParseDone`, `ParseFails`, `Refuse`, `Discard`, `LeaveLoop` |
| OnSocketDataReceived, its callbacks | `HeadersCallback`, `HeadersReturn`, `HeadersFailed`, `CompletedCallback`, `CompletedCancelled`, `UpgradeCallback`, `UpgradeReturn` (ProcessWebSocket), `UpgradeFailed` |
| OnAfterSendResponse | `SignalFires`, `ResetForNewRequest`, `LingerClose`, `NestedDataReceived` |
| EnableDirectResponse, End (OnRequestEnding) | `EnableDirectResponse`, `EndIgnored`, `EndSends`, `EndFails`, `EndSignals`, `EndSignalFails`, `CloseReturns` |
| the time-out callbacks | `TimerFires`, `TimerChecks`, `TimerTerminates`, `TimerIgnores`, `TimerEnds` |
| StopTimeoutTimers, StartTimeoutTimers | `StopTimeoutTimers`, `StartClears`, `StartSets` |
| OnSocketDestroy | `DestroyEnters`, `DestroyLeaves` |
| StopListening, ~CHttpServer | `StopListening`, `ServerDestroyed`, `ServerTerminates` |

`SetState` is the code's: it pauses the connection when the new state is one of the
three in which the application has the request, and resumes it when it leaves them.
`OnRequestError` is taken whole, with the timers its callers then stop and start.

The connection and the timers are used through what `IpcConnection` and
`TimerService` show of them: callbacks run while their worker holds a reference, so
the destruction follows every callback; a closed connection refuses to send; the input
is one callback at a time and a resume is a packet that makes a worker look; Clear
waits for a callback that runs, except from the timer thread. Also assumed:
allocations succeed; the connection is not closed between the 101 response and the
hand-over to the web socket; the application ends a request once, after its completed
callback, and calls EnableDirectResponse only from that callback on (the code accepts
it from the headers callback too, `HttpServerRequest.cpp` 92: the completed callback
would then find SendingResponse). Every End with an error, and every one whose response
cannot be sent, is `EndFails`; a completed callback that is not set
(`HttpServer.cpp` 1395) is the constant `MayLackCallback`. The branch that terminates a peer which floods a request being answered is
absent: one message is read into 4096 bytes and the option is at least 16384, so it
is never taken.

What the model keeps although one may not expect it of the code: the state
GracefulTermination has no effective time-out (its callback ends SendingResponse and
LingerClose only, `HttpServer.cpp` 701); the second request on a connection has no
headers timer; OnAfterSendResponse does not look at Terminated, so a request that was
terminated is put back to KeepingAlive; the four timer callbacks never take
nTimerCallbackRundownLock, so the wait for it at line 834 waits for nothing; two
threads that start the same timer side by side leave one that no variable names; and
nTimersToStart keeps its bits over a restart of OnSocketDataReceived.

## 3. What the runs check

| run | instance | question |
| --- | --- | --- |
| `rundown` | 3 users, reopened | exact counts, refinement (no late entry, no holder after the wait), the wait returns |
| `slim_rwlock` | 3 threads, upgrades and downgrades | exact word, a writer is alone, refinement, a claim gets in |
| `pool` | 1..3 threads of 4, re-initialized | exact counters, bounded growth, nobody left, minimum kept |
| `task_queue` | 1..2 threads of 3, 2 tasks, 1 client | pending count exact, nothing dropped, accepted tasks run, Finalize returns |
| `timed_event` | 1 application thread and callbacks, 2 variables, 2 objects, 3 ids, 1 kept free object | one owner per object, the indexes agree, `TimerService` is implemented, due timers fire, calls return |
| `ipc_output` | 2 workers, 2 sends of data, stream or signal, a graceful close, a stream that fails | outstanding counts exact, order, signals after writes |
| `ipc_close` | 2 workers, 1 send of data, the connect callback fails (an abortive close), the link is reset, the application closes gracefully, zero reads, synchronous completion | references exact, end notified once, a closed connection is destroyed |
| `ipc_input` | 2 workers, 2 reads ahead, 2 arrivals, 2 pauses, synchronous completion | order of received data, data handed over |
| `ipc_output_progress` | 2 workers, 2 sends, a pause, limit 2 | accepted writes are processed |
| `http_request` | 3 messages (get, post, invalid, upgrade), refusals, a callback that may be missing, a server that stops, anybody may be last to close | one response at a time, in turn; pause; pipelined data; timers stopped at the end |
| `http_progress` | 2 messages, with and without body, or in parts | no silent peer keeps a timed state; a closed connection leaves the list |
| `http_destructor` | 2 messages, one an upgrade | a disagreement, below |

### 3.1 Why the bounds are enough

The races are between two, seldom three, threads and one or two packets. Two
workers give every pair of interleaved handlers. Two sends are what it takes to
have a write behind another, a signal behind data and a stream that is put back
in front of a write; `MaxOutgoing = 1` makes the limit bite at once, and
`MaxOutgoing = 2` in the progress run lets a signal meet an outstanding byte,
which it cannot at a limit of 1 because the loop stops first. Four thread objects
for a maximum of three let the pool start a thread while an old one is leaving.
Four key-0 packets (`MaxPoisons`) are more than one round; the owner simply posts
less often when the bound is reached, which `PostPoisons` may also do by waiting.
Two timer objects and three ids make one object live twice, through the free list or, with
one place in it, by deletion; two callers meet as an application thread and a callback.
Three messages of the HTTP peer are a request, the one pipelined behind it and one
that meets the first's late signal; the ids of the four timers have no bound, a new timer
takes the lowest that nothing of its kind uses. The rundown run reopens the object, so stale copies of the word survive a whole
shutdown. Three threads at the reader/writer lock are a writer that waits for a
reader and one that comes meanwhile. Deadlock is checked in the pool and task-queue runs (the owner can
always initialize or finalize, so no state may stop) and in the rundown run; in the
connection's runs a connection that nobody closes is quiet for ever, and so is a handler
when all ids of the timer run are given.

### 3.2 Fairness

Threads that are inside the library run on: weak fairness for each worker, each
pool thread, the owner once Initialize or Finalize has been called, a sender once
it has begun, the application's thread once it has called Close, and the system for
operations it holds. Callbacks return (the library cannot go on if they do not); in
`TaskQueue` a callback may queue tasks first, which disables its return
meanwhile, so it has strong fairness, as the timers' callbacks have in
`TimedEvent`. The timer thread's wait ends only when the event is set or the time it
was given has come, and time need not pass. Nobody is obliged to send, queue, pause,
resume, close, finalize or arrive; a pool thread is not obliged to time out. The rundown's compare-and-swap loops have
weak fairness only: `WaitReturns` holds because once the top bit is set new
callers are refused at their next read.


In `HttpRequest` the workers, the application and the timer thread have weak fairness.
For the application this is an obligation: every request it was given it ends (no
time-out of the server watches over BuildingResponse), and an End that began goes on. A timer that is armed fires: strong fairness, because another timer's
callback disables it meanwhile but timers fire in the order in which they are due.
That the throughput callback at last finds a silent peer slow is a fairness of its own.
Nothing is assumed of the peer, and no time-out of a request whose headers are being
received, since the code arms none for the second request. `http_progress` keeps the
server running with a completed callback set and lets no application thread be the last
to close, because outside these the code does not keep the promise: with `CanStop` or
`MayLackCallback` the restart after a request that no callback took stops the linger
timer that the writer has just armed (TimedStatesEnd fails, on a running server too), and a
Close inside End that destroys the connection clears timers while it holds the critical
section which a timer's callback may be waiting for (ClosedIsUnlisted fails). Both are
listed as hazards.

### 3.3 Findings

- `http_destructor`: ~CClientRequest asserts that the keep-alive timer's id is 0
  (`HttpServerRequest.cpp` 48). OnAfterSendResponse sets KeepingAlive inside the critical
  section and starts the keep-alive interval after leaving it (`HttpServer.cpp` 1581). A
  worker may take the next message meanwhile, find an upgrade, stop all timers and hand
  the connection to the web socket; the interval armed then is stopped by nobody and
  calls back with the address of a freed request.

Four statements are kept in the modules, not checked by a run, because the code does
not keep them: `OpenWhileChainIsBuilt` (`IpcConnection`; Close tests the count of
outstanding writes at `IpcConnection.cpp` 353-354 and shuts the link down at 364,
DecrementOutgoingWrites likewise at 837 and 847, so a sender that found the connection open
may count and post a write in between: SendMsg succeeds, and the graceful shutdown comes
under the worker that took the write, contrary to the comment at 507; no run claims that
a graceful close flushes), `NoDataAfterDisconnect` (`IpcConnection`; OnDataReceived may run after
OnDisconnect, since a worker that has cleared the new-data flag may not have entered the
critical section through which the ending worker passes), `NothingLeftAtDisconnect`
(`IpcConnection`; the data left at the end is reported only if the ending worker's own
packet succeeded) and `GrownWhenAllBusy` (`IocpThreadPool`; nActiveCount counts a thread
that has decided to leave, so a worker that takes the last packet may not start another
although all are busy, contrary to the comment at `IOCompletionPort.cpp` 475). TLC finds
each of them violated; `PROJECT.json` has them as hazards.

Four more show in the model and are recorded as hazards without a property:
the order of FLAG_Closed and the error code in Close may turn an abortive end
into a graceful one; a close that meets a resumed output may leave writes
counted, so that the link is never shut down; and a resume of the input with fewer
reads ahead than workers may issue none; and after an abortive close with pending
writes the connection is destroyed without OnDisconnect, since the count of
outstanding writes never reaches zero. The runs avoid the second and third by not
pausing the output of a connection that closes, and by a read-ahead of at least
the number of workers (the default is 4).

`ActiveBounded` is worth a word: the pool may exceed dwMaxThreadsCount, because
the maximum is tested before StartThread and never inside it, and because
Initialize does not count the threads that packets start while it runs. The
property states the bound that does hold, `2*Max + Min - 3` (1 when the maximum is
1), and it is proved.

## 4. What is proved

`RundownProtProofs`, for every finite set of threads. The inductive invariant
`IInv` joins the type invariant with the equality of the count and the number of
holders, and relates the top bit to the owner's place. From it: `TypeCorrect`,
`CountsAreExact` (with the assertion in Release), `Drained`, the action property
`NoLateEntry` (the swap compares the whole word, so a stale copy without the
bit fails), and `Refinement`: each step is a step of `Rundown` or a stutter.

`IocpThreadPoolProofs`, for every finite set of threads and all options. The
counters alone are not inductive: what makes InternalFinalize's zeroing harmless
is that nobody is inside, and that is a fact about the list. So a first invariant
`StructInv` says which threads are in the list, that a suspended thread has
exactly one creator, and that after the loop has seen the list empty it stays so,
because a thread that creates another is itself listed until after it (`NobodyIsLeft`).
On top of it `CountInv` equates each counter with the number of threads at
certain places and bounds the threads and those being decided on; each step moves
one thread from one place to another, so two lemmas about the cardinality of a set
of places under one move (`CountMove`, `CountSubset`) carry all of them
(`CountersAreExact`, `ActiveIsBounded`).

`MinThreadsAreKept` needs a third invariant, `LeaveInv`: while the pool serves no key-0
packet is in the port or in a thread's hands, so the only threads that leave are those
that time out, and only a thread that was started under load waits with a time-out. The
threads Initialize started therefore stay.

`SlimRWLockProofs`, for every finite set of threads: `IInv` equates the count with the
number of readers and the bit with there being one claimant, who is inside only once
the count has reached zero. `WordIsExact`, `WritersAreAlone` and `Refinement` follow.
The copies a thread holds play no part: the swap compares the whole word.

`TaskQueueProofs`, for all numbers of threads, tasks and callers. Since the queue is
built from the steps of its pool (the lemma `QueueDrivesPool`), the theorems of the pool
hold of the queue's pool (`QueuePoolExact`). The count of pending tasks is the
number of callers between their increment and their Post or undo, plus the accepted tasks,
plus the threads that have run one and not yet decremented (`PendingIsExact`); and
since Finalize waits for the rundown and then for zero, nothing can be counted when it
closes the port (`NothingIsDropped`).

`HttpRequestProofs`, for any messages and any of the options. `ControlStep` types the
places of the threads and gives each step its effect: p runs some timers and goes on at
some place (`Moves`). `PauseIsTheApplications` follows from SetState alone. The center
is `OneHasTheRequest`: six hands (either worker in its callbacks, the application, End on its
way to the signal, the queued signal, the worker of OnAfterSendResponse), of which at most
one has the request, in a state that fits it; each step passes the request from one hand
to another. `SignalIsOfThisRequest` and `CompletedComesInTurn` are read off it.
`PipelinedRequestsAreServed` adds that whoever makes the request able to take data goes
on to look or resumes the connection. `DestroyStopsTheTimers` adds that after the
connection was destroyed either the ids are all 0, or the destroying thread is still to
stop them all, or End is on its way to a signal that will fail and stop them all.
`TypesAreKept` needs that the armed timers of a kind are finitely many, so that a new one
gets an id of its own (`NewIdIsNew`, by cardinality), and that `TimerEnds` leaves nobody waiting; that
one signal at most is under way it takes from `OneHasTheRequest`.

`IpcConnectionProofs`, for any finite sets of workers and senders and any limits. The
reference count alone is not inductive: that the last reference is dropped once needs to
know who may drop it. `RefsInv` therefore joins the count (`Counted`) with `Shape` (the
queues are sequences, and a worker's own queue holds reads), `Closing` (where a thread
goes after Close, and that at most one is the first closer), `Ending1` (at most one worker
reports the end, and only after FLAG_ShutdownProcessed) and `Notified` (what the user was
told fits the flag and the count). Most steps move one worker between two labels and at
most start an operation with a reference of its own: `Local` says so, and
`LocalKeeps` proves the invariant for all of them at once. The rest (a packet taken or
finished, a completion, Close, the end, the application's calls) have a lemma each.
`ReferencesAreExact`, `EndIsNotifiedOnce` and `DestroyedIsUnreachable` follow: when the
destructor runs, no packet, operation or thread refers to the connection.

Its second half is about the two counters that decide when the link is shut down and the
end reported. `OutInv` adds to `OutstandingExact` which type of packet
a worker may have at which label (`Flow`: only a read gets to "r_dec", only a write to
"w_dec"), because a step that lowers a counter must be one of a worker that is counted.
`ReadWeight` and `WriteWeight` say how much a worker counts at a label; `Balance` reduces
every step of a worker to an equation between what the items (packets, pending
operations, pending writes), the worker's weight and the counter change by, so that each
action needs its labels only. `OutstandingIsExact` follows.

`IpcOrderProofs` builds on both, for the order of what is sent and received. It follows
each write and each completed read by its order number.

- Writes. `WriteInv` says that every write is in one place (to be posted, in the port, in
  the hands of a worker, pending), that its order is not yet past the one whose turn it is,
  that a worker between taking a pending write and advancing the order holds exactly that
  order and is the only one (`WriteTurns`, `WriteOnce`), that all earlier orders were given
  to the socket while the peer is alive (`WriteSent`), and that a signal was called back
  when every order still with the system is a later one (`SignalFired`). That needs the
  bytes counter to be exact as well (`BytesExact`): the test of nOutgoingBytes proves that
  nothing is outstanding only because no write between the system and its handler is
  uncounted. The sorted queue is handled by what an insertion does (`Inserted`: every
  element but one stays, with its relative place), so neither QueueSorted nor QueueFirst is
  looked into again. `WritesAreSentInOrder` and `SignalsFollowWrites` follow.
- Reads. A completed read with data is a token, its order and its data. `ReadInv` says that
  a token is in one place (a worker's hands, its own queue, the port, the read packets that
  wait), that order and data of it agree, that a worker about to write to the buffer holds
  the order whose turn it is (`ReadTurn`), and that the orders are given out as the system
  was asked to read (`ReadFeed`): the numbers of the zero reads and of those that failed
  leave no hole before data. `DataIsReceivedInOrder` follows.
- Types. The counters and orders are natural numbers because of what they count;
  the rest (codes, labels, flags, where a thread returns to) is `TypeInv` and `StateTyped`.
  `TypesAreCorrect` follows.

The assumption `ConstantsOK` of `IpcConnection` says of the codes of callbacks and of Close
that they are "ok" or "err", the two the model tells apart.

`TimedEventProofs`, for any set of timers, variables and clients and any number of kept
objects. `TimerInv` says in whose hands each object is: the queue (`TreeInv`: the list and
the tree agree), the free list (`FreeInv`), a caller (`HoldInv`) or the thread; the flags
tell who frees a firing timer that was cleared (`ThreadInv`: a call that waits for it leaves
no CanceledInCallback, and Running in the queue means the one that fires), and the ids of
all timers somebody may still name differ (`IdInv`). `TimersHaveOneOwner` and
`IndexesHoldTheSame` follow. `Refinement` then maps each step to `TimerService`: drawing an
id and freeing are stutters, inserting is Set, taking a timer out of both indexes is Clear,
and the poll that finds Running gone is Return, which needs the id of the freed timer to be
nobody else's.

The theorems rest on the named assumptions of the modules (finite sets, minimum
at most maximum, a key-0 packet distinct from others), which TLC evaluates.

Only model-checked: everything temporal (`WaitReturns`, `ClaimGetsIn`, `AcceptedTaskRuns`,
`FinalizeReturns`, `WritesProgress`, `DataProgress`, `ClosedIsDestroyed`, `DueTimersFire`,
`CallsReturn`, `TimedStatesEnd`, `ClosedIsUnlisted`), since fairness is out of the
prover's reach.

## 5. What is left

In the order in which it would add most:

1. `IpcConnection`: a failing Post, messages of more than one packet with the multi-send lock, connecting,
   and then SSL's requeue paths.
2. `TimedEvent`: the singleton (Get, Initialize, Shutdown, the destructor), with
   calls in flight and from callbacks.
3. `HttpServer`'s per-address limiter, and the composition of `HttpRequest` with the web
   socket that takes the connection over.
4. `HostResolver` and `HttpClient`: completion against time-out and cancellation.
5. `WebSockets`: frame assembly and the close handshake. Named pipes.
6. Pure algorithms: `CircularBuffer` (ring with growth against a sequence), the HTTP
   parser's state machine over classes of bytes (any splitting gives the same result).

## 6. Not modelled

Databases, JavaScript, crypto, strings, dates, URLs, cookies, logging, debugging and
memory pools: sequential code around external libraries or one value, where unit
tests reach what a model would. Vendored code is not the library's own. SSL is left
for later: it adds a second pair of buffers and a re-entrant path to each direction.
`PROJECT.json` lists every component with its status.
