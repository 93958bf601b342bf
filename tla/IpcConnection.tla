--------------------------- MODULE IpcConnection ---------------------------
(***************************************************************************)
(* One connection of the IPC engine (CIpc::CConnectionBase), from the      *)
(* moment it is connected to its destruction, and the dispatcher threads   *)
(* that run CIpc::OnDispatcherPacket for it.                               *)
(*                                                                         *)
(* Everything the engine does for a connection is done by worker threads   *)
(* that take completion packets from one I/O completion port: posted       *)
(* requests (WriteRequest, ResumeIoProcessing, InitialSetup) and completed *)
(* overlapped operations (ZeroRead, Read, Write).  The port is a FIFO      *)
(* queue, but two workers that took packets one after the other run        *)
(* interleaved, so packets are handled in any order; the order numbers of  *)
(* reads and writes restore it.  Counters of outstanding operations decide *)
(* when the link is shut down, when the end is notified and (refs) when    *)
(* the object is destroyed.                                                *)
(*                                                                         *)
(* An action is one access to the shared state (an interlocked operation   *)
(* or a critical section) with the local computation around it; one that   *)
(* stands for more says why nothing can come between.  SSL is not          *)
(* modelled: FLAG_HasSSL is clear.                                         *)
(***************************************************************************)
EXTENDS Integers, Sequences, FiniteSets

CONSTANTS
  Workers,         \* the dispatcher threads of the completion port
  Senders,         \* threads that call SendMsg, SendStream, AfterWriteSignal
  App,             \* the thread that pauses, resumes and closes
  ReadAhead,       \* dwReadAhead
  MaxOutgoing,     \* dwMaxOutgoingBytes, in packets
  ZeroReads,       \* bDoZeroReads /\ ZeroReadsSupported()
  SyncIo,          \* operations may complete synchronously, without a packet
  Kinds,           \* what senders send: subset of {"data", "signal", "stream"}
  CallbackResults, \* what OnConnect and OnDataReceived return: {"ok"}, or with "err"
  CloseCodes,      \* the codes the user may close with: subset of {"ok", "err"}
  PeerEnds,        \* how the peer may end: subset of {"eof", "reset"}
  MaxSends,        \* bound: number of send calls
  StreamChunks,    \* bound: packets in a stream
  Arrivals,        \* bound: packets the peer sends
  Pausable,        \* what the application pauses: subset of {"InPaused", "OutPaused"}
  MaxPauses        \* bound: number of pause calls

ASSUME ConstantsOK ==
  /\ App \notin Workers \union Senders /\ Workers \intersect Senders = {}
  /\ IsFiniteSet(Workers) /\ IsFiniteSet(Senders)
  /\ ReadAhead \in 1..16
  /\ MaxOutgoing \in Nat \ {0}
  /\ {ZeroReads, SyncIo} \subseteq BOOLEAN
  /\ Pausable \subseteq {"InPaused", "OutPaused"}
  /\ CallbackResults \subseteq {"ok", "err"} /\ CloseCodes \subseteq {"ok", "err"}
  /\ {MaxSends, StreamChunks, Arrivals, MaxPauses} \subseteq Nat

VARIABLES
  flags, hrErrorCode, refs, link,
  nIncomingReads, nNextReadOrder, nNextReadOrderToProcess, readPackets,
  received, delivered,
  nOutgoingWrites, nOutgoingBytes, nNextWriteOrder, nNextWriteOrderToProcess,
  pendingWrites, kind, left, sent, fired,
  iocp, kreads, kwrites, arrived, consumed, peer,
  pc, cur, hr, todo, queued, closing,
  csOwner, notes, pauses

(***************************************************************************)
(* flags       the FLAG_* bits that are set                                *)
(* hrErrorCode the code of the first Close                                 *)
(* refs        the reference count; 0 means the destructor has run         *)
(* link        "up" until ShutdownLink, then how the socket was closed     *)
(* readPackets received packets that wait for their turn, by order         *)
(* received    all the data moved to the receive buffer so far             *)
(* delivered   how much of it OnDataReceived has taken                     *)
(* pendingWrites sPendingWritePackets: the orders, first to last         *)
(* kind, left  what the write of each order is, and a stream's rest        *)
(* sent        the orders of the packets the socket has accepted           *)
(* fired       the orders of the after-write signals called back           *)
(* iocp        the completion port                                         *)
(* kreads, kwrites  overlapped operations the system holds                 *)
(* arrived, consumed, peer  what the peer has sent, and whether it ended   *)
(* pc, cur, hr, todo, queued  each thread: control, packet, hRes, reads    *)
(*             still to issue, cQueuedPacketsList                          *)
(* closing     locals of a Close or DecrementOutgoingWrites in progress    *)
(* csOwner     owner of cOnDataReceivedCS, or App when free                *)
(* notes       the OnDisconnect and OnDestroy calls, in order              *)
(* pauses      number of pause calls so far (bounded by MaxPauses)         *)
(***************************************************************************)
connVars  == <<flags, hrErrorCode, refs, link>>
readVars  == <<nIncomingReads, nNextReadOrder, nNextReadOrderToProcess,
               readPackets, received, delivered>>
writeVars == <<nOutgoingWrites, nOutgoingBytes, nNextWriteOrder,
               nNextWriteOrderToProcess, pendingWrites, kind, left, sent, fired>>
ioVars    == <<iocp, kreads, kwrites, arrived, consumed, peer>>
procVars  == <<pc, cur, hr, todo, queued, closing>>
appVars   == <<csOwner, notes, pauses>>
vars == <<connVars, readVars, writeVars, ioVars, procVars, appVars>>

Procs == Workers \union Senders \union {App}
NoPacket == [type |-> "none", order |-> 0, data |-> 0, hr |-> "ok"]
Packet(t, o, d, h) == [type |-> t, order |-> o, data |-> d, hr |-> h]

NoClose == [hr |-> "ok", ret |-> "idle", first |-> FALSE, hard |-> FALSE, abort |-> FALSE]

Closed           == "Closed" \in flags
ClosedOrGraceful == flags \intersect {"Closed", "Graceful"} # {}
Destroyed        == refs = 0
DataAvailable    == Len(received) > delivered
Disconnected     == \E i \in DOMAIN notes : notes[i] = "disconnect"

Goto(p, l) == pc' = [pc EXCEPT ![p] = l]

\* HandleConnected has run: connected, the final reference and that of the
\* posted InitialSetup packet.
Init ==
  /\ flags = {"Connected"}
  /\ hrErrorCode = "ok"
  /\ refs = 2
  /\ link = "up"
  /\ nIncomingReads = 0
  /\ nNextReadOrder = 0
  /\ nNextReadOrderToProcess = 1
  /\ readPackets = <<>>
  /\ received = <<>>
  /\ delivered = 0
  /\ nOutgoingWrites = 0
  /\ nOutgoingBytes = 0
  /\ nNextWriteOrder = 0
  /\ nNextWriteOrderToProcess = 1
  /\ pendingWrites = <<>>
  /\ kind = <<>>
  /\ left = <<>>
  /\ sent = <<>>
  /\ fired = {}
  /\ iocp = <<Packet("InitialSetup", 0, 0, "ok")>>
  /\ kreads = <<>>
  /\ kwrites = <<>>
  /\ arrived = 0
  /\ consumed = 0
  /\ peer = "open"
  /\ pc = [p \in Procs |-> "idle"]
  /\ cur = [p \in Procs |-> NoPacket]
  /\ hr = [p \in Procs |-> "ok"]
  /\ todo = [p \in Procs |-> 0]
  /\ queued = [p \in Procs |-> <<>>]
  /\ closing = [p \in Procs |-> NoClose]
  /\ csOwner = App
  /\ notes = <<>>
  /\ pauses = 0

-----------------------------------------------------------------------------
(* Helpers                                                                  *)

\* CPacketList::QueueSorted: the packet goes in before those of a higher order.
\* The list is sorted, so as many packets stay before it as have a lower one.
QueueSorted(s, x) ==
  LET before == Cardinality({j \in DOMAIN s : s[j].order < x.order})
  IN  SubSeq(s, 1, before) \o <<x>> \o SubSeq(s, before + 1, Len(s))

\* Mutant: the head is taken whatever its order.
MutHasOrder(s, o) == s # <<>>

\* CPacketList::Dequeue succeeds only when the head has the wanted order.
HasOrder(s, o) == s # <<>> /\ Head(s).order = o

\* ShutdownLink: the socket is taken away once; abortive when the connection
\* ended with an error.
ShutdownLink(abortive) ==
  link' = IF link # "up" THEN link ELSE IF abortive THEN "aborted" ELSE "closed"

\* Mutant: nobody looks whether the last write was that of a closed connection.
MutDecrementOutgoingWrites(w, l) ==
  /\ nOutgoingWrites' = nOutgoingWrites - 1
  /\ Goto(w, l)
  /\ UNCHANGED closing

\* DecrementOutgoingWrites, called by w, which goes on at l: who counts down to
\* zero looks next whether the connection is closed (DecClosed).
DecrementOutgoingWrites(w, l) ==
  /\ nOutgoingWrites' = nOutgoingWrites - 1
  /\ IF nOutgoingWrites = 1
     THEN closing' = [closing EXCEPT ![w] = [NoClose EXCEPT !.ret = l]] /\ Goto(w, "dec_zero")
     ELSE Goto(w, l) /\ UNCHANGED closing

\* Drop one reference.  Dropping the last runs the destructor, which notifies
\* the user and closes the socket if it is still there.
Release ==
  /\ refs' = refs - 1
  /\ notes' = IF refs = 1 THEN Append(notes, "destroy") ELSE notes
  /\ link' = IF refs = 1 /\ link = "up" THEN "closed" ELSE link

\* Start a Close(h) whose caller goes on at label l.
CallClose(p, h, l) ==
  /\ closing' = [closing EXCEPT ![p] = [NoClose EXCEPT !.hr = h, !.ret = l]]
  /\ Goto(p, "close")

-----------------------------------------------------------------------------
(* CConnectionBase::Close, and DecrementOutgoingWrites at zero              *)

\* The compare-and-swap loop on nFlags.
CloseMark(p) ==
  /\ pc[p] = "close"
  /\ LET new == flags \union {"Closed"}
                \union (IF ~Closed /\ closing[p].hr = "ok" THEN {"Graceful"} ELSE {})
     IN /\ flags' = new
        /\ closing' = [closing EXCEPT ![p].first = ~Closed,
                                      ![p].hard = closing[p].hr # "ok" /\ "Graceful" \notin new]
  /\ Goto(p, IF Closed THEN "close_test" ELSE "close_code")
  /\ UNCHANGED <<hrErrorCode, refs, link, readVars, writeVars, ioVars, cur, hr, todo, queued, appVars>>

\* The first closer records its code, after it has set the flag.
CloseCode(p) ==
  /\ pc[p] = "close_code"
  /\ hrErrorCode' = IF hrErrorCode = "ok" THEN closing[p].hr ELSE hrErrorCode
  /\ Goto(p, "close_test")
  /\ UNCHANGED <<flags, refs, link, readVars, writeVars, ioVars, cur, hr, todo, queued, closing,
                 appVars>>

\* The call is over.
Return(p) ==
  /\ Goto(p, closing[p].ret)
  /\ closing' = [closing EXCEPT ![p] = NoClose]

\* Mutant: every closer drops the final reference.
MutFinishClose(p) == Goto(p, "close_rel") /\ UNCHANGED closing

\* The first closer still has to drop the final reference.
FinishClose(p) ==
  IF closing[p].first THEN Goto(p, "close_rel") /\ UNCHANGED closing ELSE Return(p)

\* The link is shut down on an error, or when no write is outstanding now.
CloseTest(p) ==
  /\ pc[p] = "close_test"
  /\ IF closing[p].hard \/ nOutgoingWrites = 0
     THEN Goto(p, "shut_code") /\ UNCHANGED closing
     ELSE FinishClose(p)
  /\ UNCHANGED <<connVars, readVars, writeVars, ioVars, cur, hr, todo, queued, appVars>>

\* IsClosed, after a decrement that reached zero.
DecClosed(p) ==
  /\ pc[p] = "dec_zero"
  /\ IF Closed THEN Goto(p, "shut_code") /\ UNCHANGED closing ELSE Return(p)
  /\ UNCHANGED <<connVars, readVars, writeVars, ioVars, cur, hr, todo, queued, appVars>>

\* The error code is read before ShutdownLink is called with it.
ShutCode(p) ==
  /\ pc[p] = "shut_code"
  /\ closing' = [closing EXCEPT ![p].abort = hrErrorCode # "ok"]
  /\ Goto(p, "shut_link")
  /\ UNCHANGED <<connVars, readVars, writeVars, ioVars, cur, hr, todo, queued, appVars>>

\* Another thread may have counted and posted a write since the test.
ShutLink(p) ==
  /\ pc[p] = "shut_link"
  /\ ShutdownLink(closing[p].abort)
  /\ FinishClose(p)
  /\ UNCHANGED <<flags, hrErrorCode, refs, readVars, writeVars, ioVars, cur, hr, todo, queued,
                 appVars>>

\* The final reference (the caller holds one of its own).
CloseRelease(p) ==
  /\ pc[p] = "close_rel"
  /\ refs' = refs - 1
  /\ Return(p)
  /\ UNCHANGED <<flags, hrErrorCode, link, readVars, writeVars, ioVars, cur, hr, todo, queued,
                 appVars>>

-----------------------------------------------------------------------------
(* OnDispatcherPacket: taking a packet and its type-specific beginning      *)

\* A worker takes the next packet from the completion port.
Dispatch(w) ==
  /\ pc[w] = "idle"
  /\ iocp # <<>>
  /\ iocp' = Tail(iocp)
  /\ cur' = [cur EXCEPT ![w] = Head(iocp)]
  /\ Goto(w, "start")
  /\ UNCHANGED <<connVars, readVars, writeVars, kreads, kwrites, arrived, consumed, peer, hr, todo,
                 queued, closing, appVars>>

\* The beginning of each handler, up to its first use of another shared variable.
\* FireOnConnect is skipped on a closed connection; then comes the read-ahead.
StartInitialSetup(w) ==
  /\ cur[w].type = "InitialSetup"
  /\ \E res \in (IF Closed THEN {"ok"} ELSE CallbackResults) :
       /\ hr' = [hr EXCEPT ![w] = res]
       /\ todo' = [todo EXCEPT ![w] = IF res = "ok" THEN ReadAhead ELSE 0]
  /\ Goto(w, "rd")
  /\ UNCHANGED <<flags, readVars, writeVars, closing>>

StartZeroRead(w) ==
  /\ cur[w].type = "ZeroRead"
  /\ hr' = [hr EXCEPT ![w] = cur[w].hr]
  /\ todo' = [todo EXCEPT ![w] = IF cur[w].hr = "ok" THEN 1 ELSE 0]
  /\ Goto(w, IF cur[w].hr = "ok" THEN "rd" ELSE "r_dec")
  /\ UNCHANGED <<flags, readVars, writeVars, closing>>

StartRead(w) ==
  /\ cur[w].type = "Read"
  /\ hr' = [hr EXCEPT ![w] = cur[w].hr]
  /\ \/ /\ cur[w].hr = "ok" /\ cur[w].data > 0
        /\ readPackets' = QueueSorted(readPackets, [order |-> cur[w].order, data |-> cur[w].data])
        /\ Goto(w, "in_check")
        /\ UNCHANGED <<flags, closing>>
     \/ /\ cur[w].hr = "ok" /\ cur[w].data = 0       \* the peer has ended
        /\ flags' = flags \union {"Graceful"}
        /\ CallClose(w, "ok", "r_dec")
        /\ UNCHANGED readPackets
     \/ /\ cur[w].hr # "ok"
        /\ Goto(w, "r_dec")
        /\ UNCHANGED <<flags, readPackets, closing>>
  /\ UNCHANGED <<nIncomingReads, nNextReadOrder, nNextReadOrderToProcess, received, delivered,
                 writeVars, todo>>

StartWriteRequest(w) ==
  /\ cur[w].type = "WriteRequest"
  /\ pendingWrites' = QueueSorted(pendingWrites, [order |-> cur[w].order])
  /\ Goto(w, "out_enter")
  /\ UNCHANGED <<flags, readVars, nOutgoingWrites, nOutgoingBytes, nNextWriteOrder,
                 nNextWriteOrderToProcess, kind, left, sent, fired, hr, todo, closing>>

StartWrite(w) ==
  /\ cur[w].type = "Write"
  /\ nOutgoingBytes' = nOutgoingBytes - 1
  /\ hr' = [hr EXCEPT ![w] = cur[w].hr]
  /\ Goto(w, IF cur[w].hr = "ok" THEN "out_enter" ELSE "w_dec")
  /\ UNCHANGED <<flags, readVars, nOutgoingWrites, nNextWriteOrder, nNextWriteOrderToProcess,
                 pendingWrites, kind, left, sent, fired, todo, closing>>

StartResume(w) ==
  /\ cur[w].type = "Resume"
  /\ Goto(w, "rs_loop")
  /\ UNCHANGED <<flags, readVars, writeVars, hr, todo, closing>>

Start(w) ==
  /\ pc[w] = "start"
  /\ \/ StartInitialSetup(w) \/ StartZeroRead(w) \/ StartRead(w)
     \/ StartWriteRequest(w) \/ StartWrite(w) \/ StartResume(w)
  /\ UNCHANGED <<hrErrorCode, refs, link, ioVars, cur, queued, appVars>>

-----------------------------------------------------------------------------
(* Input: HandleIncomingPackets, DoZeroRead and DoRead                      *)

\* The Read handler goes on only if input processing is not paused.
InCheck(w) ==
  /\ pc[w] = "in_check"
  /\ Goto(w, IF "InPaused" \in flags THEN "r_dec" ELSE "in_loop")
  /\ UNCHANGED <<connVars, readVars, writeVars, ioVars, cur, hr, todo, queued, closing, appVars>>

\* Take the next received packet in order, or go on with the output.
InTake(w) ==
  /\ pc[w] = "in_loop"
  /\ IF HasOrder(readPackets, nNextReadOrderToProcess)
     THEN /\ readPackets' = Tail(readPackets)
          /\ cur' = [cur EXCEPT ![w].order = Head(readPackets).order,
                                ![w].data = Head(readPackets).data]
          /\ Goto(w, "in_write")
     ELSE /\ Goto(w, "out_enter")
          /\ UNCHANGED <<readPackets, cur>>
  /\ UNCHANGED <<connVars, nIncomingReads, nNextReadOrder, nNextReadOrderToProcess, received,
                 delivered, writeVars, ioVars, hr, todo, queued, closing, appVars>>

\* Move its data to the receive buffer, flag it and step to the next order.
InWrite(w) ==
  /\ pc[w] = "in_write"
  /\ received' = Append(received, cur[w].data)
  /\ flags' = flags \union {"NewData"}
  /\ nNextReadOrderToProcess' = nNextReadOrderToProcess + 1
  /\ Goto(w, "in_loop")
  /\ UNCHANGED <<hrErrorCode, refs, link, nIncomingReads, nNextReadOrder, readPackets,
                 delivered, writeVars, ioVars, cur, hr, todo, queued, closing, appVars>>

\* Mutant: the initial setup falls into the end of the next case.
MutAfterReads(w) ==
  IF cur[w].type = "Resume" THEN "rs_loop" ELSE "r_dec"

\* Where the handler goes on after DoZeroRead or DoRead.
AfterReads(w) ==
  CASE cur[w].type = "InitialSetup" -> "post"
    [] cur[w].type = "Resume" -> "rs_loop"
    [] OTHER -> "r_dec"

\* The loop of DoZeroRead and DoRead: the reads still to issue, unless closed.
ReadNext(w) ==
  /\ pc[w] = "rd"
  /\ IF todo[w] = 0 \/ Closed
     THEN /\ Goto(w, AfterReads(w))
          /\ hr' = IF todo[w] > 0 THEN [hr EXCEPT ![w] = "err"] ELSE hr
          /\ todo' = [todo EXCEPT ![w] = 0]
     ELSE /\ Goto(w, "rd_io")
          /\ UNCHANGED <<hr, todo>>
  /\ UNCHANGED <<connVars, readVars, writeVars, ioVars, cur, queued, closing, appVars>>

\* A read issued after a zero read is a real one; only real reads are ordered
\* (under nMutex, together with the call to the socket).
IssueType(w) == IF cur[w].type # "ZeroRead" /\ ZeroReads THEN "ZeroRead" ELSE "Read"

\* What a completed read of kind t brings: nothing, the next data, the end.
ReadResult(t, o) ==
  IF consumed < arrived THEN Packet(t, o, IF t = "Read" THEN consumed + 1 ELSE 0, "ok")
                        ELSE Packet(t, o, 0, "ok")
CanReadNow == consumed < arrived \/ peer = "eof"

ReadIssue(w) ==
  /\ pc[w] = "rd_io"
  /\ LET t == IssueType(w)
         o == IF t = "Read" THEN nNextReadOrder + 1 ELSE 0
     IN /\ nNextReadOrder' = IF t = "Read" THEN nNextReadOrder + 1 ELSE nNextReadOrder
        /\ \/ \* SendReadPacket returns S_FALSE: no socket
              /\ link # "up"
              /\ flags' = flags \union {"Graceful"}
              /\ todo' = [todo EXCEPT ![w] = 0]
              /\ UNCHANGED <<nIncomingReads, refs, kreads, consumed, queued, hr>>
           \/ \* the socket fails the call
              /\ link = "up" /\ peer = "reset"
              /\ hr' = [hr EXCEPT ![w] = "err"]
              /\ todo' = [todo EXCEPT ![w] = 0]
              /\ UNCHANGED <<nIncomingReads, refs, flags, kreads, consumed, queued>>
           \/ \* completed at once: the packet is handled after this one
              /\ link = "up" /\ peer # "reset" /\ SyncIo /\ kreads = <<>> /\ CanReadNow
              /\ nIncomingReads' = nIncomingReads + 1
              /\ refs' = refs + 1
              /\ queued' = [queued EXCEPT ![w] = Append(@, ReadResult(t, o))]
              /\ consumed' = IF t = "Read" /\ consumed < arrived THEN consumed + 1 ELSE consumed
              /\ todo' = [todo EXCEPT ![w] = @ - 1]
              /\ UNCHANGED <<flags, kreads, hr>>
           \/ \* pending
              /\ link = "up" /\ peer # "reset"
              /\ nIncomingReads' = nIncomingReads + 1
              /\ refs' = refs + 1
              /\ kreads' = Append(kreads, [type |-> t, order |-> o])
              /\ todo' = [todo EXCEPT ![w] = @ - 1]
              /\ UNCHANGED <<flags, consumed, queued, hr>>
  /\ Goto(w, IF todo'[w] = 0 THEN AfterReads(w) ELSE "rd")
  /\ UNCHANGED <<hrErrorCode, link, nNextReadOrderToProcess, readPackets, received, delivered,
                 writeVars, iocp, kwrites, arrived, peer, cur, closing, appVars>>

\* The Read handler sets up a new read unless the connection is ending.
ReadAgain(w) ==
  /\ pc[w] = "r_again"
  /\ IF ClosedOrGraceful
     THEN Goto(w, "r_dec") /\ UNCHANGED todo
     ELSE Goto(w, "rd") /\ todo' = [todo EXCEPT ![w] = 1]
  /\ UNCHANGED <<connVars, readVars, writeVars, ioVars, cur, hr, queued, closing, appVars>>

\* End of the ZeroRead and Read handlers: this read is no longer outstanding.
ReadDone(w) ==
  /\ pc[w] = "r_dec"
  /\ nIncomingReads' = nIncomingReads - 1
  /\ Goto(w, "post")
  /\ UNCHANGED <<connVars, nNextReadOrder, nNextReadOrderToProcess, readPackets, received,
                 delivered, writeVars, ioVars, cur, hr, todo, queued, closing, appVars>>

\* Mutant: packets received during the pause are not looked at.
MutResumeLoop(w) ==
  /\ pc[w] = "rs_loop"
  /\ IF hr[w] = "ok" /\ "InPaused" \notin flags /\ ~ClosedOrGraceful /\ nIncomingReads < ReadAhead
     THEN /\ todo' = [todo EXCEPT ![w] = ReadAhead]
          /\ Goto(w, "rd")
          /\ UNCHANGED flags
     ELSE /\ flags' = IF hr[w] = "ok" /\ DataAvailable THEN flags \union {"NewData"} ELSE flags
          /\ Goto(w, IF hr[w] # "ok" THEN "post"
                     ELSE "out_enter")
          /\ UNCHANGED todo
  /\ UNCHANGED <<hrErrorCode, refs, link, readVars, writeVars, ioVars, cur, hr, queued, closing,
                 appVars>>

\* ResumeIoProcessing: top up the read-ahead, then flag data left in the
\* buffer and go on with the direction that was resumed.
ResumeLoop(w) ==
  /\ pc[w] = "rs_loop"
  /\ IF hr[w] = "ok" /\ "InPaused" \notin flags /\ ~ClosedOrGraceful /\ nIncomingReads < ReadAhead
     THEN /\ todo' = [todo EXCEPT ![w] = ReadAhead]
          /\ Goto(w, "rd")
          /\ UNCHANGED flags
     ELSE /\ flags' = IF hr[w] = "ok" /\ DataAvailable THEN flags \union {"NewData"} ELSE flags
          /\ Goto(w, IF hr[w] # "ok" THEN "post"
                     ELSE IF cur[w].order = 1 THEN "in_loop" ELSE "out_enter")
          /\ UNCHANGED todo
  /\ UNCHANGED <<hrErrorCode, refs, link, readVars, writeVars, ioVars, cur, hr, queued, closing,
                 appVars>>

-----------------------------------------------------------------------------
(* Output: HandleOutgoingPackets, DoWrite and the stream loop               *)

\* Keep the link open while the chain is built.
OutEnter(w) ==
  /\ pc[w] = "out_enter"
  /\ nOutgoingWrites' = nOutgoingWrites + 1
  /\ Goto(w, "out_loop")
  /\ UNCHANGED <<connVars, readVars, nOutgoingBytes, nNextWriteOrder, nNextWriteOrderToProcess,
                 pendingWrites, kind, left, sent, fired, ioVars, cur, hr, todo, queued, closing,
                 appVars>>

OutLoop(w) ==
  /\ pc[w] = "out_loop"
  /\ Goto(w, IF hr[w] = "ok" /\ "OutPaused" \notin flags /\ nOutgoingBytes < MaxOutgoing
             THEN "out_deq" ELSE "out_exit")
  /\ UNCHANGED <<connVars, readVars, writeVars, ioVars, cur, hr, todo, queued, closing, appVars>>

\* Take the next write in order; another thread may hold it.
OutTake(w) ==
  /\ pc[w] = "out_deq"
  /\ IF HasOrder(pendingWrites, nNextWriteOrderToProcess)
     THEN /\ pendingWrites' = Tail(pendingWrites)
          /\ cur' = [cur EXCEPT ![w].order = Head(pendingWrites).order]
          /\ Goto(w, CASE kind[Head(pendingWrites).order] = "signal" -> "out_sig"
                       [] kind[Head(pendingWrites).order] = "stream" -> "out_strm"
                       [] OTHER -> "out_data")
     ELSE Goto(w, "out_exit") /\ UNCHANGED <<pendingWrites, cur>>
  /\ UNCHANGED <<connVars, readVars, nOutgoingWrites, nOutgoingBytes, nNextWriteOrder,
                 nNextWriteOrderToProcess, kind, left, sent, fired, ioVars, hr, todo, queued,
                 closing, appVars>>

\* DoWrite of a packet of write o by w.  The counters it raises before the
\* call and lowers again when the socket has taken or refused the packet at
\* once stay above the worker's own count, so they move in one step.
DoWrite(w, o) ==
  \/ \* pending
     /\ link = "up" /\ peer # "reset"
     /\ kwrites' = Append(kwrites, o)
     /\ sent' = Append(sent, o)
     /\ nOutgoingBytes' = nOutgoingBytes + 1
     /\ nOutgoingWrites' = nOutgoingWrites + 1
     /\ refs' = refs + 1
     /\ UNCHANGED <<flags, hr>>
  \/ \* completed at once
     /\ link = "up" /\ peer # "reset" /\ SyncIo /\ kwrites = <<>>
     /\ sent' = Append(sent, o)
     /\ UNCHANGED <<kwrites, nOutgoingBytes, nOutgoingWrites, refs, flags, hr>>
  \/ \* no socket: the packet is dropped and the call succeeds
     /\ link # "up"
     /\ flags' = flags \union {"Graceful"}
     /\ UNCHANGED <<kwrites, sent, nOutgoingBytes, nOutgoingWrites, refs, hr>>
  \/ \* the socket fails the call
     /\ link = "up" /\ peer = "reset"
     /\ hr' = [hr EXCEPT ![w] = "err"]
     /\ UNCHANGED <<kwrites, sent, nOutgoingBytes, nOutgoingWrites, refs, flags>>

\* A normal packet: whatever DoWrite returned, it is done with.
OutData(w) ==
  /\ pc[w] = "out_data"
  /\ DoWrite(w, cur[w].order)
  /\ Goto(w, "out_next")
  /\ UNCHANGED <<hrErrorCode, link, readVars, nNextWriteOrder, nNextWriteOrderToProcess,
                 pendingWrites, kind, left, fired, iocp, kreads, arrived, consumed, peer,
                 cur, todo, queued, closing, appVars>>

\* Mutant: the signal does not wait for the outstanding bytes.
MutOutSignal(w) ==
  /\ pc[w] = "out_sig"
  /\ fired' = fired \union {cur[w].order} /\ Goto(w, "out_next")
  /\ UNCHANGED <<connVars, readVars, nOutgoingWrites, nOutgoingBytes, nNextWriteOrder,
                 nNextWriteOrderToProcess, pendingWrites, kind, left, sent, ioVars, cur, hr, todo,
                 queued, closing, appVars>>

\* An after-write signal: called back when no byte is outstanding.
OutSignal(w) ==
  /\ pc[w] = "out_sig"
  /\ IF nOutgoingBytes = 0
     THEN fired' = fired \union {cur[w].order} /\ Goto(w, "out_next")
     ELSE Goto(w, "out_req") /\ UNCHANGED fired
  /\ UNCHANGED <<connVars, readVars, nOutgoingWrites, nOutgoingBytes, nNextWriteOrder,
                 nNextWriteOrderToProcess, pendingWrites, kind, left, sent, ioVars, cur, hr, todo,
                 queued, closing, appVars>>

\* QueueFirst: a signal or a stream goes back to the head of the pending writes.
OutRequeue(w) ==
  /\ pc[w] = "out_req"
  /\ pendingWrites' = <<[order |-> cur[w].order]>> \o pendingWrites
  /\ Goto(w, IF kind[cur[w].order] = "signal" THEN "out_recheck" ELSE "out_loop")
  /\ UNCHANGED <<connVars, readVars, nOutgoingWrites, nOutgoingBytes, nNextWriteOrder,
                 nNextWriteOrderToProcess, kind, left, sent, fired, ioVars, cur, hr, todo, queued,
                 closing, appVars>>

\* Mutant: no second look after the requeue.
MutOutRecheck(w) ==
  /\ pc[w] = "out_recheck"
  /\ Goto(w, "out_exit")
  /\ UNCHANGED <<connVars, readVars, writeVars, ioVars, cur, hr, todo, queued, closing, appVars>>

\* The last write may have completed before the signal was put back.
OutRecheck(w) ==
  /\ pc[w] = "out_recheck"
  /\ Goto(w, IF nOutgoingBytes > 0 THEN "out_exit" ELSE "out_loop")
  /\ UNCHANGED <<connVars, readVars, writeVars, ioVars, cur, hr, todo, queued, closing, appVars>>

\* A round of the stream loop: at the limit the stream goes back; at its end
\* it is done with; otherwise its next chunk is written.  On an error the
\* stream is freed but the order does not advance.
OutStream(w) ==
  LET o == cur[w].order IN
  /\ pc[w] = "out_strm"
  /\ \/ /\ nOutgoingBytes >= MaxOutgoing
        /\ Goto(w, "out_req")
        /\ UNCHANGED <<flags, refs, nOutgoingWrites, nOutgoingBytes, left, sent, kwrites, hr>>
     \/ /\ nOutgoingBytes < MaxOutgoing /\ left[o] = 0
        /\ Goto(w, "out_next")
        /\ UNCHANGED <<flags, refs, nOutgoingWrites, nOutgoingBytes, left, sent, kwrites, hr>>
     \/ /\ nOutgoingBytes < MaxOutgoing /\ left[o] > 0
        /\ left' = [left EXCEPT ![o] = @ - 1]
        /\ DoWrite(w, o)
        /\ Goto(w, IF hr'[w] = "ok" THEN "out_strm" ELSE "out_drop")
     \/ \* ReadStream fails
        /\ nOutgoingBytes < MaxOutgoing
        /\ hr' = [hr EXCEPT ![w] = "err"]
        /\ Goto(w, "out_drop")
        /\ UNCHANGED <<flags, refs, nOutgoingWrites, nOutgoingBytes, left, sent, kwrites>>
  /\ UNCHANGED <<hrErrorCode, link, readVars, nNextWriteOrder, nNextWriteOrderToProcess,
                 pendingWrites, kind, fired, iocp, kreads, arrived, consumed, peer, cur, todo,
                 queued, closing, appVars>>

\* The write counted by the sender ends.
OutDrop(w) ==
  /\ pc[w] = "out_drop"
  /\ DecrementOutgoingWrites(w, "out_loop")
  /\ UNCHANGED <<connVars, readVars, nOutgoingBytes, nNextWriteOrder,
                 nNextWriteOrderToProcess, pendingWrites, kind, left, sent, fired, ioVars, cur,
                 hr, todo, queued, appVars>>

\* Mutant: a signal is not uncounted after its callback.
MutOutNext(w) ==
  /\ pc[w] = "out_next"
  /\ IF kind[cur[w].order] = "signal"
     THEN Goto(w, "out_loop") /\ UNCHANGED <<nOutgoingWrites, closing>>
     ELSE DecrementOutgoingWrites(w, "out_loop")
  /\ nNextWriteOrderToProcess' = nNextWriteOrderToProcess + 1
  /\ UNCHANGED <<connVars, readVars, nOutgoingBytes, nNextWriteOrder, pendingWrites, kind, left,
                 sent, fired, ioVars, cur, hr, todo, queued, appVars>>

\* The packet is done with: the write counted by the sender ends, and the next
\* order's turn comes.  (w's own count keeps the counter above zero meanwhile,
\* so that nobody can tell whether the two steps are one.)
OutNext(w) ==
  /\ pc[w] = "out_next"
  /\ DecrementOutgoingWrites(w, "out_loop")
  /\ nNextWriteOrderToProcess' = nNextWriteOrderToProcess + 1
  /\ UNCHANGED <<connVars, readVars, nOutgoingBytes, nNextWriteOrder,
                 pendingWrites, kind, left, sent, fired, ioVars, cur, hr, todo, queued, appVars>>

\* End of HandleOutgoingPackets, and what its caller does next.
OutExit(w) ==
  /\ pc[w] = "out_exit"
  /\ DecrementOutgoingWrites(w, CASE cur[w].type = "Read" -> (IF hr[w] = "ok" THEN "r_again" ELSE "r_dec")
                                  [] cur[w].type = "Write" -> "w_dec"
                                  [] OTHER -> "post")
  /\ UNCHANGED <<connVars, readVars, nOutgoingBytes, nNextWriteOrder, nNextWriteOrderToProcess,
                 pendingWrites, kind, left, sent, fired, ioVars, cur, hr, todo, queued, appVars>>

\* End of the Write handler.
WriteDone(w) ==
  /\ pc[w] = "w_dec"
  /\ DecrementOutgoingWrites(w, "post")
  /\ UNCHANGED <<connVars, readVars, nOutgoingBytes, nNextWriteOrder,
                 nNextWriteOrderToProcess, pendingWrites, kind, left, sent, fired, ioVars, cur,
                 hr, todo, queued, appVars>>

-----------------------------------------------------------------------------
(* OnDispatcherPacket: after the handler                                    *)

\* The last part of OnDispatcherPacket: an error ends the connection.
Ending(h) == IF h = "ok" THEN "release" ELSE "end"

\* New data on a live connection is reported by the worker that clears its
\* flag; a connection that is ending is checked for outstanding operations.
Post(w) ==
  /\ pc[w] = "post"
  /\ IF ClosedOrGraceful
     THEN Goto(w, IF nIncomingReads = 0 THEN "post2" ELSE Ending(hr[w])) /\ UNCHANGED flags
     ELSE /\ flags' = flags \ {"NewData"}
          /\ Goto(w, IF "NewData" \in flags THEN "post_fire" ELSE Ending(hr[w]))
  /\ UNCHANGED <<hrErrorCode, refs, link, readVars, writeVars, ioVars, cur, hr, todo, queued,
                 closing, appVars>>

\* Mutant: the end may be processed again.
MutPostEnding(w) ==
  /\ pc[w] = "post2"
  /\ IF nOutgoingWrites = 0
     THEN flags' = flags \union {"ShutdownProcessed"} /\ CallClose(w, "ok", "sd_wait")
     ELSE Goto(w, Ending(hr[w])) /\ UNCHANGED <<flags, closing>>
  /\ UNCHANGED <<hrErrorCode, refs, link, readVars, writeVars, ioVars, cur, hr, todo, queued,
                 appVars>>

\* The first worker that finds nothing outstanding ends the connection.
PostEnding(w) ==
  /\ pc[w] = "post2"
  /\ IF nOutgoingWrites = 0 /\ "ShutdownProcessed" \notin flags
     THEN flags' = flags \union {"ShutdownProcessed"} /\ CallClose(w, "ok", "sd_wait")
     ELSE Goto(w, Ending(hr[w])) /\ UNCHANGED <<flags, closing>>
  /\ UNCHANGED <<hrErrorCode, refs, link, readVars, writeVars, ioVars, cur, hr, todo, queued,
                 appVars>>

\* FireOnDataReceived runs the callback inside cOnDataReceivedCS.
FireEnter(w) ==
  /\ pc[w] \in {"post_fire", "sd_fire"}
  /\ csOwner = App
  /\ csOwner' = w
  /\ Goto(w, IF pc[w] = "post_fire" THEN "firing" ELSE "sd_firing")
  /\ UNCHANGED <<connVars, readVars, writeVars, ioVars, cur, hr, todo, queued, closing, notes, pauses>>

\* The callback reads what there is; its failure becomes the handler's, or at
\* the end of the connection the connection's error code.
FireExit(w) ==
  /\ pc[w] \in {"firing", "sd_firing"}
  /\ csOwner' = App
  /\ delivered' = Len(received)
  /\ \E res \in CallbackResults :
       IF pc[w] = "firing"
       THEN /\ hr' = IF hr[w] = "ok" THEN [hr EXCEPT ![w] = res] ELSE hr
            /\ UNCHANGED hrErrorCode
       ELSE /\ hrErrorCode' = IF hrErrorCode = "ok" THEN res ELSE hrErrorCode
            /\ UNCHANGED hr
  /\ Goto(w, IF pc[w] = "firing" THEN Ending(hr'[w]) ELSE "sd_disc")
  /\ UNCHANGED <<flags, refs, link, nIncomingReads, nNextReadOrder, nNextReadOrderToProcess,
                 readPackets, received, writeVars, ioVars, cur, todo, queued, closing, notes, pauses>>

\* Wait for a data callback that is running, then report what is left and the
\* disconnection.
EndingWait(w) ==
  /\ pc[w] = "sd_wait"
  /\ csOwner = App
  /\ Goto(w, IF "Connected" \notin flags THEN Ending(hr[w])
             ELSE IF hr[w] = "ok" /\ DataAvailable THEN "sd_fire" ELSE "sd_disc")
  /\ UNCHANGED <<connVars, readVars, writeVars, ioVars, cur, hr, todo, queued, closing, appVars>>

EndingNotify(w) ==
  /\ pc[w] = "sd_disc"
  /\ notes' = Append(notes, "disconnect")
  /\ Goto(w, Ending(hr[w]))
  /\ UNCHANGED <<connVars, readVars, writeVars, ioVars, cur, hr, todo, queued, closing, csOwner, pauses>>

\* An error closes the connection; a peer that went away, gracefully.
EndPacket(w) ==
  /\ pc[w] = "end"
  /\ flags' = IF hr[w] = "net" THEN flags \union {"Graceful"} ELSE flags
  /\ CallClose(w, IF hr[w] = "net" THEN "ok" ELSE "err", "release")
  /\ UNCHANGED <<hrErrorCode, refs, link, readVars, writeVars, ioVars, cur, hr, todo, queued, appVars>>

\* Drop the packet's reference and go on with a packet that completed at once.
ReleaseConn(w) ==
  /\ pc[w] = "release"
  /\ Release
  /\ hr' = [hr EXCEPT ![w] = "ok"]
  /\ IF queued[w] = <<>>
     THEN /\ cur' = [cur EXCEPT ![w] = NoPacket]
          /\ Goto(w, "idle")
          /\ UNCHANGED queued
     ELSE /\ cur' = [cur EXCEPT ![w] = Head(queued[w])]
          /\ queued' = [queued EXCEPT ![w] = Tail(@)]
          /\ Goto(w, "start")
  /\ UNCHANGED <<flags, hrErrorCode, readVars, writeVars, ioVars, todo, closing, csOwner, pauses>>

-----------------------------------------------------------------------------
(* The system and the peer                                                  *)

\* A pending operation completes: its packet is queued to the port.
ReadCompletes ==
  /\ kreads # <<>>
  /\ LET k == Head(kreads) IN
     /\ \/ /\ link = "up" /\ peer # "reset" /\ CanReadNow
           /\ iocp' = Append(iocp, ReadResult(k.type, k.order))
           /\ consumed' = IF k.type = "Read" /\ consumed < arrived THEN consumed + 1 ELSE consumed
        \/ /\ link = "up" /\ peer = "reset"
           /\ iocp' = Append(iocp, Packet(k.type, k.order, 0, "net"))
           /\ UNCHANGED consumed
        \/ /\ link # "up"
           /\ iocp' = Append(iocp, Packet(k.type, k.order, 0, "err"))
           /\ UNCHANGED consumed
  /\ kreads' = Tail(kreads)
  /\ UNCHANGED <<connVars, readVars, writeVars, kwrites, arrived, peer, procVars, appVars>>

WriteCompletes ==
  /\ kwrites # <<>>
  /\ \E res \in (IF link = "up" THEN (IF peer = "reset" THEN {"net"} ELSE {"ok"})
                ELSE IF link = "closed" /\ peer # "reset" THEN {"ok"} ELSE {"err"}) :
       iocp' = Append(iocp, Packet("Write", Head(kwrites), 0, res))
  /\ kwrites' = Tail(kwrites)
  /\ UNCHANGED <<connVars, readVars, writeVars, kreads, arrived, consumed, peer, procVars, appVars>>

\* The peer sends another packet, or ends.
PeerSends ==
  /\ peer = "open" /\ arrived < Arrivals
  /\ arrived' = arrived + 1
  /\ UNCHANGED <<connVars, readVars, writeVars, iocp, kreads, kwrites, consumed, peer, procVars,
                 appVars>>

PeerCloses ==
  /\ peer = "open"
  /\ peer' \in PeerEnds
  /\ UNCHANGED <<connVars, readVars, writeVars, iocp, kreads, kwrites, arrived, consumed,
                 procVars, appVars>>

-----------------------------------------------------------------------------
(* The users of the connection                                              *)

\* SendMsg, SendStream or AfterWriteSignal: the connection is looked up (its
\* reference count must not be zero), must not be closed, and gives an order.
SendBegin(s) ==
  /\ pc[s] = "idle"
  /\ ~Destroyed /\ ~Closed
  /\ nNextWriteOrder < MaxSends
  /\ nNextWriteOrder' = nNextWriteOrder + 1
  /\ \E k \in Kinds : /\ kind' = Append(kind, k)
                      /\ left' = Append(left, IF k = "stream" THEN StreamChunks ELSE 0)
  /\ refs' = refs + 1
  /\ cur' = [cur EXCEPT ![s].order = nNextWriteOrder + 1]
  /\ Goto(s, "posting")
  /\ UNCHANGED <<flags, hrErrorCode, link, readVars, nOutgoingWrites, nOutgoingBytes,
                 nNextWriteOrderToProcess, pendingWrites, sent, fired, ioVars, hr, todo, queued,
                 closing, appVars>>

\* Count the write and post the request; the caller's reference goes on as
\* the packet's (one is added and one dropped).
SendPost(s) ==
  /\ pc[s] = "posting"
  /\ nOutgoingWrites' = nOutgoingWrites + 1
  /\ iocp' = Append(iocp, Packet("WriteRequest", cur[s].order, 0, "ok"))
  /\ cur' = [cur EXCEPT ![s] = NoPacket]
  /\ Goto(s, "idle")
  /\ UNCHANGED <<connVars, readVars, nOutgoingBytes, nNextWriteOrder, nNextWriteOrderToProcess,
                 pendingWrites, kind, left, sent, fired, kreads, kwrites, arrived, consumed,
                 peer, hr, todo, queued, closing, appVars>>

\* PauseInputProcessing, PauseOutputProcessing: f is the flag.
Pause(f) ==
  /\ pc[App] = "idle"
  /\ ~Destroyed
  /\ pauses < MaxPauses
  /\ f \notin flags
  /\ flags' = flags \union {f}
  /\ pauses' = pauses + 1
  /\ UNCHANGED <<hrErrorCode, refs, link, readVars, writeVars, ioVars, procVars, csOwner, notes>>

\* ResumeInputProcessing, ResumeOutputProcessing: if the flag was set, a packet
\* that resumes the processing is posted (order 1 for the input).
Resume(f) ==
  /\ pc[App] = "idle"
  /\ ~Destroyed
  /\ f \in flags
  /\ flags' = flags \ {f}
  /\ refs' = refs + 1
  /\ iocp' = Append(iocp, Packet("Resume", IF f = "InPaused" THEN 1 ELSE 0, 0, "ok"))
  /\ UNCHANGED <<hrErrorCode, link, readVars, writeVars, kreads, kwrites, arrived, consumed,
                 peer, procVars, appVars>>

\* CIpc::Close: look up, close, drop the reference.  (Bound: the application
\* does not close a connection that is closed already.)
AppClose ==
  /\ pc[App] = "idle"
  /\ ~Destroyed /\ ~Closed
  /\ refs' = refs + 1
  /\ \E h \in CloseCodes : CallClose(App, h, "app_rel")
  /\ UNCHANGED <<flags, hrErrorCode, link, readVars, writeVars, ioVars, cur, hr, todo, queued, appVars>>

AppRelease ==
  /\ pc[App] = "app_rel"
  /\ Release
  /\ Goto(App, "idle")
  /\ UNCHANGED <<flags, hrErrorCode, readVars, writeVars, ioVars, cur, hr, todo, queued, closing,
                 csOwner, pauses>>

-----------------------------------------------------------------------------
\* The steps of Close.
CloseStep(p) ==
  \/ CloseMark(p) \/ CloseCode(p) \/ CloseTest(p) \/ ShutCode(p) \/ ShutLink(p) \/ CloseRelease(p)

\* The steps of a worker once it has a packet.
Handle(w) ==
  \/ Start(w)
  \/ CloseStep(w) \/ DecClosed(w)
  \/ InCheck(w) \/ InTake(w) \/ InWrite(w)
  \/ ReadNext(w) \/ ReadIssue(w) \/ ReadAgain(w) \/ ReadDone(w) \/ ResumeLoop(w)
  \/ OutEnter(w) \/ OutLoop(w) \/ OutTake(w) \/ OutData(w) \/ OutSignal(w) \/ OutRequeue(w)
  \/ OutRecheck(w) \/ OutStream(w) \/ OutDrop(w) \/ OutNext(w) \/ OutExit(w) \/ WriteDone(w)
  \/ Post(w) \/ PostEnding(w) \/ FireEnter(w) \/ FireExit(w) \/ EndingWait(w) \/ EndingNotify(w)
  \/ EndPacket(w) \/ ReleaseConn(w)

Worker(w) == Dispatch(w) \/ Handle(w)

\* What the application's thread does once it has called Close.
AppStep == CloseStep(App) \/ AppRelease

Next ==
  \/ \E w \in Workers : Worker(w)
  \/ \E s \in Senders : SendBegin(s) \/ SendPost(s)
  \/ \E f \in Pausable : Pause(f) \/ Resume(f)
  \/ AppClose \/ AppStep
  \/ ReadCompletes \/ WriteCompletes \/ PeerSends \/ PeerCloses

Spec == Init /\ [][Next]_vars

\* Threads that are inside the engine run on, and the system completes the
\* operations it holds; nobody is obliged to send, pause, resume or close.
Fairness ==
  /\ \A w \in Workers : WF_vars(Worker(w))
  /\ \A s \in Senders : WF_vars(SendPost(s))
  /\ WF_vars(AppStep)
  /\ WF_vars(ReadCompletes) /\ WF_vars(WriteCompletes)

FairSpec == Spec /\ Fairness

-----------------------------------------------------------------------------
(* Parts of the program, for the properties                                 *)

CloseLabels == {"close", "close_code", "close_test", "shut_code", "shut_link", "close_rel",
                "dec_zero"}
Labels == CloseLabels \union
          {"idle", "in_check", "in_loop", "in_write",
           "rd", "rd_io", "r_again", "r_dec", "rs_loop", "out_enter", "out_loop", "out_deq",
           "out_data", "out_sig", "out_req", "out_recheck", "out_strm",
           "out_drop", "out_next", "out_exit",
           "w_dec", "post", "post2", "post_fire", "firing", "sd_fire", "sd_firing", "sd_wait",
           "sd_disc", "end", "release", "start", "posting", "app_rel"}
Codes == {"ok", "err", "net"}

\* The label a worker returns to once a Close, or a decrement, it is in is over.
After(p) == IF pc[p] \in CloseLabels THEN closing[p].ret ELSE pc[p]

\* In HandleOutgoingPackets; holding a write taken from the pending ones.
Holding(w)    == pc[w] \in {"out_data", "out_sig", "out_req", "out_strm", "out_drop", "out_next"}
InOutgoing(w) == Holding(w) \/ After(w) \in {"out_loop", "out_deq", "out_recheck", "out_exit"}

\* Past the end of the handler of its packet's type.
Posted(w) == After(w) \in {"post", "post2", "post_fire", "firing", "sd_wait", "sd_fire",
                           "sd_firing", "sd_disc", "end", "release"}

Busy == {w \in Workers : pc[w] # "idle"}
Starting(T) == {w \in Workers : pc[w] = "start" /\ cur[w].type \in T}
OfType(s, T) == {i \in DOMAIN s : s[i].type \in T}
Queued(T) == UNION {{w} \X OfType(queued[w], T) : w \in Workers}
Reading == {"ZeroRead", "Read"}

-----------------------------------------------------------------------------
(* Safety                                                                   *)

\* Every component of the state has its type.
TypeOK ==
  /\ flags \subseteq {"Connected", "Closed", "Graceful", "NewData", "InPaused", "OutPaused",
                      "ShutdownProcessed"}
  /\ hrErrorCode \in Codes /\ link \in {"up", "closed", "aborted"}
  /\ {refs, nIncomingReads, nOutgoingWrites, nOutgoingBytes, nNextReadOrder, nNextWriteOrder,
      nNextReadOrderToProcess, nNextWriteOrderToProcess, delivered} \subseteq Nat
  /\ fired \subseteq DOMAIN kind
  /\ peer \in {"open"} \union PeerEnds
  /\ \A p \in Procs : pc[p] \in Labels /\ hr[p] \in Codes /\ todo[p] \in 0..ReadAhead
  /\ csOwner \in Workers \union {App}

\* The reference count is exactly what is owed: the final reference until the
\* first closer drops it, one per packet wherever it is, one per call that is
\* inside.  So the object is destroyed once, and only when no packet, pending
\* operation or thread can still reach it (AddRef and Release of SendMsg,
\* DoRead, DoWrite, OnDispatcherPacket and Close).
RefsExact ==
  refs = (IF Closed /\ \A p \in Procs : ~closing[p].first THEN 0 ELSE 1)
         + Len(iocp) + Len(kreads) + Len(kwrites)
         + Cardinality(Queued(Reading)) + Cardinality(Busy)
         + Cardinality({p \in Senders \union {App} : pc[p] # "idle"})

\* The counters that decide when the link is shut down and the end reported
\* count exactly the operations that are outstanding: a reader up to the end of
\* its handler, a write from the send call to its completion, and a worker that
\* is building a chain of writes.
OutstandingExact ==
  /\ nIncomingReads = Len(kreads) + Cardinality(OfType(iocp, Reading)) + Cardinality(Queued(Reading))
       + Cardinality({w \in Busy : cur[w].type \in Reading /\ ~Posted(w)})
  /\ nOutgoingWrites = Len(pendingWrites) + Len(kwrites)
       + Cardinality(OfType(iocp, {"WriteRequest", "Write"})) + Cardinality(Starting({"WriteRequest"}))
       + Cardinality({w \in Workers : cur[w].type = "Write" /\ ~Posted(w)})
       + Cardinality({w \in Workers : InOutgoing(w)})
       + Cardinality({w \in Workers : Holding(w)})

\* Whichever workers handle the requests and completions, the socket gets the
\* writes in the order of the send calls, none twice, and none is skipped
\* while the link is up and the peer is there.
SentInOrder ==
  /\ \A i, j \in DOMAIN sent :
       i < j => (sent[i] < sent[j] \/ (sent[i] = sent[j] /\ kind[sent[i]] = "stream"))
  /\ link = "up" /\ peer # "reset" =>
       \A o \in 1..(nNextWriteOrderToProcess - 1) : kind[o] = "data" => \E i \in DOMAIN sent : sent[i] = o

\* An after-write signal is called back only when every write of an earlier
\* order has completed and its completion has been handled, although a write
\* may complete between the test and the requeue of the signal.
SignalAfterWrites ==
  \A o \in fired :
    /\ \A i \in DOMAIN kwrites : kwrites[i] > o
    /\ \A i \in OfType(iocp, {"Write"}) : iocp[i].order > o
    /\ \A w \in Starting({"Write"}) : cur[w].order > o
    /\ \A i \in DOMAIN pendingWrites : pendingWrites[i].order > o

\* Received data reaches the buffer in the order it was sent, without a gap.
ReceivedInOrder == \A i \in DOMAIN received : received[i] = i

\* The user is told of the disconnection and of the destruction once each, in
\* that order (FLAG_ShutdownProcessed, the final reference).
EndNotifiedOnce == notes \in {<<>>, <<"disconnect">>, <<"destroy">>, <<"disconnect", "destroy">>}

\* "increment outstanding writes do keep the connection open while the chain is
\* built" (IpcConnection.cpp 507): the link is not closed gracefully under a worker
\* that has taken a write.  (A closer with an error may shut it down at any time.)
\* The code does not keep this: CloseTest and DecClosed may be stale at ShutLink.
OpenWhileChainIsBuilt ==
  [][ link = "up" /\ link' = "closed" /\ ~Destroyed' /\ (\A p \in Procs : ~closing[p].hard)
      => \A w \in Workers : ~Holding(w) ]_vars

\* "check if some received data left" (IpcCommon.cpp 1175): when the
\* disconnection is reported nothing received is left unreported.
NothingLeftAtDisconnect ==
  Disconnected => ~DataAvailable

\* "wait until another message is processed" (IpcCommon.cpp 1168): no data
\* callback runs after OnDisconnect.
NoDataAfterDisconnect == [][ Disconnected => delivered' = delivered ]_vars

-----------------------------------------------------------------------------
(* Liveness                                                                 *)

\* A write that was accepted is processed, however its request, the completions
\* of earlier writes and a resume interleave, unless the output is paused or
\* the connection ends.
WritesProgress ==
  \A o \in 1..MaxSends :
    nNextWriteOrder >= o ~> (nNextWriteOrderToProcess > o \/ "OutPaused" \in flags \/ Closed)

\* Data that arrives is handed to the user, unless the input is paused or the
\* connection ends.
DataProgress ==
  \A n \in 1..Arrivals :
    arrived >= n ~> (delivered >= n \/ "InPaused" \in flags \/ ClosedOrGraceful \/ peer = "reset")

\* A closed connection is destroyed, unless the output is paused.
ClosedIsDestroyed == Closed ~> (Destroyed \/ "OutPaused" \in flags)
=============================================================================
