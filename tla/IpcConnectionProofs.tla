------------------------ MODULE IpcConnectionProofs ------------------------
(***************************************************************************)
(* Proofs about IpcConnection, for any number of dispatcher threads and    *)
(* senders and any limits: the reference count is exact, so the connection *)
(* is destroyed once and only when nothing can reach it any more           *)
(* (RefsExact), the user is told of the disconnection and of the           *)
(* destruction once each and in that order (EndNotifiedOnce), and the      *)
(* counters of outstanding reads and writes are exact (OutstandingExact).  *)
(*                                                                         *)
(* Most steps of a worker change no reference: they move it from one label *)
(* of a handler to another and at most start an operation, which takes a   *)
(* reference.  Local names them; the other steps are proved one by one.    *)
(*                                                                         *)
(* What the two counters count is a packet that waits (in the completion   *)
(* port, with the system, in a queue, among the pending writes) or a       *)
(* worker at a label of a handler; ReadWeight and WriteWeight say how much *)
(* a worker counts.  The invariant OutInv adds which packets can be        *)
(* handled at which labels (Flow), since a step that lowers a counter must *)
(* be one of a worker that counts.                                         *)
(***************************************************************************)
EXTENDS IpcConnection, FiniteSetTheorems, SequenceTheorems, TLAPS

IsSeq(s) == \E S : s \in Seq(S)

\* The packets that completed at once and wait in a worker's queue.
ReadQueue(s) == IsSeq(s) /\ \A i \in DOMAIN s : s[i].type \in Reading
QueueShape == queued = [p \in Procs |-> queued[p]] /\ \A w \in Workers : ReadQueue(queued[w])

\* Where a worker goes on after a Close, and after a decrement; the labels at
\* which a first closer may be.
CloseReturns == {"r_dec", "sd_wait", "release"}
DecReturns   == {"out_loop", "r_again", "r_dec", "w_dec", "post"}
FirstLabels  == {"close_code", "close_test", "shut_code", "shut_link", "close_rel"}
EndingLabels == {"sd_wait", "sd_fire", "sd_firing", "sd_disc"}
Special      == {"idle"} \union CloseLabels \union EndingLabels

\* The packets and pending operations, each of which holds a reference.
Items    == Len(iocp) + Len(kreads) + Len(kwrites) + Cardinality(Queued(Reading))
FinalRef == IF Closed /\ \A p \in Procs : ~closing[p].first THEN 0 ELSE 1
Callers  == {p \in Senders \union {App} : pc[p] # "idle"}
Ends(w)  == After(w) \in EndingLabels

\* The shape of the state that the reference count is about.
Shape ==
  /\ pc = [p \in Procs |-> pc[p]]
  /\ closing = [p \in Procs |-> closing[p]]
  /\ QueueShape
  /\ IsSeq(iocp) /\ IsSeq(kreads) /\ IsSeq(kwrites)

ClosingRecord(c) ==
  /\ c = [hr |-> c.hr, ret |-> c.ret, first |-> c.first, hard |-> c.hard,
           abort |-> c.abort]
  /\ c.first \in BOOLEAN

\* Where a thread goes after a Close; one thread at most is the first closer,
\* and the connection is then closed.
Closing ==
  /\ \A s \in Senders : pc[s] \in {"idle", "posting"}
  /\ pc[App] \in {"idle", "app_rel"} \union CloseLabels
  /\ pc[App] \in CloseLabels => closing[App].ret = "app_rel"
  /\ \A w \in Workers : pc[w] \in CloseLabels => closing[w].ret \in CloseReturns \union DecReturns
  /\ \A p \in Procs : ClosingRecord(closing[p])
  /\ \A p \in Procs : closing[p].first => Closed /\ pc[p] \in FirstLabels
  /\ \A p \in Procs : pc[p] = "close_rel" => closing[p].first
  /\ \A p, q \in Procs : closing[p].first /\ closing[q].first => p = q

\* One worker at most reports the end, and only after it has set the flag.
Ending1 ==
  /\ \A v, w \in Workers : Ends(v) /\ Ends(w) => v = w
  /\ \A w \in Workers : Ends(w) => "ShutdownProcessed" \in flags

Counted ==
  /\ refs \in Nat
  /\ IsFiniteSet(Queued(Reading))
  /\ RefsExact

\* What the user has been told fits the flag and the reference count.
Notified ==
  /\ EndNotifiedOnce
  /\ refs = 0 <=> notes \in {<<"destroy">>, <<"disconnect", "destroy">>}
  /\ notes \in {<<"disconnect">>, <<"disconnect", "destroy">>} =>
       "ShutdownProcessed" \in flags /\ \A w \in Workers : ~Ends(w)

RefsInv == Shape /\ Closing /\ Ending1 /\ Counted /\ Notified

-----------------------------------------------------------------------------
(* Sequences: the lengths after an Append and a Tail.                      *)

LEMMA EmptyIsSeq == IsSeq(<<>>) /\ Len(<<>>) = 0
<1>1. <<>> \in Seq({})
  OBVIOUS
<1>2. QED
  BY <1>1 DEF IsSeq

LEMMA AppendGrows ==
  ASSUME NEW s, NEW e, IsSeq(s)
  PROVE  /\ IsSeq(Append(s, e))
         /\ Len(s) \in Nat /\ Len(Append(s, e)) = Len(s) + 1
         /\ DOMAIN s = 1..Len(s) /\ DOMAIN Append(s, e) = 1..(Len(s) + 1)
         /\ \A i \in 1..Len(s) : Append(s, e)[i] = s[i]
         /\ Append(s, e)[Len(s) + 1] = e
<1>1. PICK S : s \in Seq(S)
  BY DEF IsSeq
<1>2. s \in Seq(S \union {e})
  BY <1>1
<1>3. Append(s, e) \in Seq(S \union {e})
  BY <1>2
<1>4. QED
  BY <1>2, <1>3, AppendProperties DEF IsSeq

LEMMA TailShrinks ==
  ASSUME NEW s, IsSeq(s), s # <<>>
  PROVE  /\ IsSeq(Tail(s))
         /\ Len(s) \in Nat \ {0} /\ Len(Tail(s)) = Len(s) - 1
         /\ DOMAIN s = 1..Len(s) /\ DOMAIN Tail(s) = 1..(Len(s) - 1)
         /\ \A i \in 1..(Len(s) - 1) : Tail(s)[i] = s[i + 1]
         /\ Head(s) = s[1]
<1>1. PICK S : s \in Seq(S)
  BY DEF IsSeq
<1>2. QED
  BY <1>1, HeadTailProperties DEF IsSeq

LEMMA SeqLength == ASSUME NEW s, IsSeq(s) PROVE Len(s) \in Nat /\ DOMAIN s = 1..Len(s)
BY DEF IsSeq

-----------------------------------------------------------------------------
(* The packets that completed at once and wait in a worker's queue.        *)

ReadPairs(q) == UNION {{w} \X OfType(q[w], Reading) : w \in Workers}

LEMMA QueuedPairs ==
  ASSUME NEW q, \A w \in Workers : ReadQueue(q[w])
  PROVE  \A x : x \in ReadPairs(q) <=> \E w \in Workers : \E i \in 1..Len(q[w]) : x = <<w, i>>
<1>1. \A w \in Workers : OfType(q[w], Reading) = 1..Len(q[w])
  BY SeqLength DEF ReadQueue, OfType
<1>2. \A x : x \in ReadPairs(q) <=> \E w \in Workers : x \in {w} \X OfType(q[w], Reading)
  BY DEF ReadPairs
<1>3. QED
  BY <1>1, <1>2

\* A queue that is one packet longer has one pair more.
LEMMA OnePairMore ==
  ASSUME NEW q, NEW r, NEW w \in Workers,
         \A v \in Workers : ReadQueue(q[v]) /\ ReadQueue(r[v]),
         \A v \in Workers : v # w => r[v] = q[v],
         Len(r[w]) = Len(q[w]) + 1,
         IsFiniteSet(ReadPairs(q)) \/ IsFiniteSet(ReadPairs(r))
  PROVE  /\ IsFiniteSet(ReadPairs(q)) /\ IsFiniteSet(ReadPairs(r))
         /\ Cardinality(ReadPairs(r)) = Cardinality(ReadPairs(q)) + 1
<1> DEFINE n == Len(r[w])
<1>1. Len(q[w]) \in Nat /\ n \in Nat
  BY SeqLength DEF ReadQueue
<1>2. \A x : x \in ReadPairs(q) <=> \E v \in Workers : \E i \in 1..Len(q[v]) : x = <<v, i>>
  BY QueuedPairs
<1>3. \A x : x \in ReadPairs(r) <=> \E v \in Workers : \E i \in 1..Len(r[v]) : x = <<v, i>>
  BY QueuedPairs
<1>4. 1..n = (1..Len(q[w])) \union {n} /\ n \notin 1..Len(q[w])
  BY <1>1
<1>5. ReadPairs(r) = ReadPairs(q) \union {<<w, n>>} /\ <<w, n>> \notin ReadPairs(q)
  BY <1>2, <1>3, <1>4
<1>6. ReadPairs(q) = ReadPairs(r) \ {<<w, n>>}
  BY <1>5
<1>7. IsFiniteSet(ReadPairs(q))
  BY <1>6, FS_RemoveElement
<1>8. QED
  BY <1>5, <1>7, FS_AddElement

Enqueues(w, k) == queued' = [queued EXCEPT ![w] = Append(@, k)]
Dequeues(w)    == queued' = [queued EXCEPT ![w] = Tail(@)]

LEMMA QueuedGrows ==
  ASSUME QueueShape, IsFiniteSet(Queued(Reading)),
         NEW w \in Workers, NEW k, k.type \in Reading, Enqueues(w, k)
  PROVE  /\ QueueShape'
         /\ IsFiniteSet(Queued(Reading)')
         /\ Cardinality(Queued(Reading))' = Cardinality(Queued(Reading)) + 1
<1> PICK r : r = queued'
  OBVIOUS
<1>1. w \in Procs /\ \A v \in Workers : ReadQueue(queued[v])
  BY DEF Procs, QueueShape
<1>2. r[w] = Append(queued[w], k) /\ \A v \in Workers : v # w => r[v] = queued[v]
  BY <1>1 DEF QueueShape, Procs, Enqueues
<1>3. IsSeq(r[w]) /\ Len(r[w]) = Len(queued[w]) + 1
  BY <1>1, <1>2, AppendGrows DEF ReadQueue
<1>4. ReadQueue(r[w])
  <2>1. \A i \in 1..Len(queued[w]) : queued[w][i].type \in Reading
    BY <1>1, SeqLength DEF ReadQueue
  <2>2. QED
    BY <1>1, <1>2, <2>1, AppendGrows DEF ReadQueue
<1>5. \A v \in Workers : ReadQueue(r[v])
  BY <1>1, <1>2, <1>4
<1>6. Queued(Reading) = ReadPairs(queued) /\ Queued(Reading)' = ReadPairs(r)
  BY DEF Queued, ReadPairs
<1>7. r = [p \in Procs |-> r[p]]
  BY DEF QueueShape, Enqueues
<1>8. IsFiniteSet(ReadPairs(r)) /\ Cardinality(ReadPairs(r)) = Cardinality(ReadPairs(queued)) + 1
  BY <1>1, <1>2, <1>3, <1>5, <1>6, OnePairMore
<1>9. QED
  BY <1>5, <1>6, <1>7, <1>8 DEF QueueShape

LEMMA QueuedShrinks ==
  ASSUME QueueShape, IsFiniteSet(Queued(Reading)),
         NEW w \in Workers, queued[w] # <<>>, Dequeues(w)
  PROVE  /\ QueueShape'
         /\ IsFiniteSet(Queued(Reading)')
         /\ Cardinality(Queued(Reading))' = Cardinality(Queued(Reading)) - 1
<1> PICK r : r = queued'
  OBVIOUS
<1>1. w \in Procs /\ \A v \in Workers : ReadQueue(queued[v])
  BY DEF Procs, QueueShape
<1>2. r[w] = Tail(queued[w]) /\ \A v \in Workers : v # w => r[v] = queued[v]
  BY <1>1 DEF QueueShape, Procs, Dequeues
<1>3. IsSeq(r[w]) /\ Len(queued[w]) \in Nat /\ Len(queued[w]) = Len(r[w]) + 1
  BY <1>1, <1>2, TailShrinks DEF ReadQueue
<1>4. ReadQueue(r[w])
  <2>1. \A i \in 1..Len(queued[w]) : queued[w][i].type \in Reading
    BY <1>1, SeqLength DEF ReadQueue
  <2>2. QED
    BY <1>1, <1>2, <2>1, TailShrinks DEF ReadQueue
<1>5. \A v \in Workers : ReadQueue(r[v])
  BY <1>1, <1>2, <1>4
<1>6. Queued(Reading) = ReadPairs(queued) /\ Queued(Reading)' = ReadPairs(r)
  BY DEF Queued, ReadPairs
<1>7. r = [p \in Procs |-> r[p]]
  BY DEF QueueShape, Dequeues
<1>8. IsFiniteSet(ReadPairs(r)) /\ Cardinality(ReadPairs(queued)) = Cardinality(ReadPairs(r)) + 1
  BY <1>1, <1>2, <1>3, <1>5, <1>6, OnePairMore
<1>9. Cardinality(ReadPairs(r)) \in Nat
  BY <1>8, FS_CardinalityType
<1>10. Cardinality(ReadPairs(r)) = Cardinality(ReadPairs(queued)) - 1
  BY <1>8, <1>9
<1>11. QueueShape'
  BY <1>5, <1>7 DEF QueueShape
<1>12. QED
  BY <1>6, <1>8, <1>10, <1>11

-----------------------------------------------------------------------------
(* What the count adds up.                                                 *)

LEMMA InsideFinite ==
  /\ IsFiniteSet(Busy) /\ Cardinality(Busy) \in Nat
  /\ IsFiniteSet(Busy)' /\ Cardinality(Busy)' \in Nat
  /\ IsFiniteSet(Callers) /\ Cardinality(Callers) \in Nat
  /\ IsFiniteSet(Callers)' /\ Cardinality(Callers)' \in Nat
<1>1. IsFiniteSet(Senders \union {App}) /\ IsFiniteSet(Workers)
  BY ConstantsOK, FS_AddElement DEF ConstantsOK
<1>2. \A S : (S \subseteq Workers \/ S \subseteq Senders \union {App}) =>
               IsFiniteSet(S) /\ Cardinality(S) \in Nat
  BY <1>1, FS_Subset, FS_CardinalityType
<1>3. Busy \subseteq Workers /\ Busy' \subseteq Workers
  BY DEF Busy
<1>4. Callers \subseteq Senders \union {App} /\ Callers' \subseteq Senders \union {App}
  BY DEF Callers
<1>5. QED
  BY <1>2, <1>3, <1>4

LEMMA Sizes ==
  ASSUME RefsInv
  PROVE  /\ Len(iocp) \in Nat /\ Len(kreads) \in Nat /\ Len(kwrites) \in Nat
         /\ Cardinality(Queued(Reading)) \in Nat
         /\ Items \in Nat /\ FinalRef \in Nat
         /\ IsFiniteSet(Busy) /\ Cardinality(Busy) \in Nat
         /\ IsFiniteSet(Callers) /\ Cardinality(Callers) \in Nat
         /\ refs \in Nat /\ refs = FinalRef + Items + Cardinality(Busy) + Cardinality(Callers)
<1>1. Len(iocp) \in Nat /\ Len(kreads) \in Nat /\ Len(kwrites) \in Nat
  BY SeqLength DEF RefsInv, Shape
<1>2. /\ IsFiniteSet(Busy) /\ Cardinality(Busy) \in Nat
      /\ IsFiniteSet(Callers) /\ Cardinality(Callers) \in Nat
  BY InsideFinite
<1>5. Cardinality(Queued(Reading)) \in Nat
  BY FS_CardinalityType DEF RefsInv, Counted
<1>6. refs \in Nat /\ refs = FinalRef + Len(iocp) + Len(kreads) + Len(kwrites)
        + Cardinality(Queued(Reading)) + Cardinality(Busy) + Cardinality(Callers)
  BY DEF RefsInv, Counted, RefsExact, FinalRef, Callers
<1>7. Items \in Nat /\ FinalRef \in Nat
  BY <1>1, <1>5 DEF Items, FinalRef
<1>8. QED
  BY <1>1, <1>2, <1>5, <1>6, <1>7 DEF Items

LEMMA CountedByItems ==
  ASSUME Shape', IsFiniteSet(Queued(Reading)'),
         refs' \in Nat, refs' = FinalRef' + Items' + Cardinality(Busy)' + Cardinality(Callers)'
  PROVE  Counted'
<1>1. Len(iocp') \in Nat /\ Len(kreads') \in Nat /\ Len(kwrites') \in Nat
  BY SeqLength DEF Shape
<1>2. Cardinality(Queued(Reading))' \in Nat /\ FinalRef' \in Nat
  BY FS_CardinalityType DEF FinalRef
<1>3. Cardinality(Busy)' \in Nat /\ Cardinality(Callers)' \in Nat
  BY InsideFinite
<1>4. refs' = FinalRef' + Len(iocp') + Len(kreads') + Len(kwrites')
        + Cardinality(Queued(Reading))' + Cardinality(Busy)' + Cardinality(Callers)'
  BY <1>1, <1>2, <1>3 DEF Items
<1>5. QED
  BY <1>4 DEF Counted, RefsExact, FinalRef, Callers

\* Whoever is inside the engine holds a reference.
LEMMA Alive ==
  ASSUME RefsInv, (\E w \in Workers : pc[w] # "idle") \/ (\E p \in Senders \union {App} : pc[p] # "idle")
  PROVE  refs >= 1 /\ refs \in Nat
<1>1. Busy # {} \/ Callers # {}
  BY DEF Busy, Callers
<1>2. Cardinality(Busy) # 0 \/ Cardinality(Callers) # 0
  BY <1>1, Sizes, FS_EmptySet
<1>3. QED
  BY <1>2, Sizes DEF RefsInv, Counted

-----------------------------------------------------------------------------
(* The locals of Close, and who is in one.                                 *)

LEMMA NewCall ==
  ASSUME NEW h, NEW l
  PROVE  /\ LET c == [NoClose EXCEPT !.hr = h, !.ret = l]
            IN  ClosingRecord(c) /\ ~c.first /\ c.ret = l
         /\ LET c == [NoClose EXCEPT !.ret = l]
            IN  ClosingRecord(c) /\ ~c.first /\ c.ret = l
<1> DEFINE c == [NoClose EXCEPT !.hr = h, !.ret = l]
           d == [NoClose EXCEPT !.ret = l]
           R(x) == [hr : {x, "ok"}, ret : {l}, first : {FALSE}, hard : {FALSE}, abort : {FALSE}]
<1>1. NoClose \in [hr : {"ok"}, ret : {"idle"}, first : {FALSE}, hard : {FALSE}, abort : {FALSE}]
  BY DEF NoClose
<1>2. c \in R(h) /\ d \in R(h)
  BY <1>1
<1>3. ASSUME NEW e \in R(h) PROVE ClosingRecord(e) /\ ~e.first /\ e.ret = l
  BY <1>3 DEF ClosingRecord
<1> HIDE DEF c, d, R
<1>4. QED
  BY <1>2, <1>3 DEF c, d

\* A step of a thread outside Close that stays outside.
LEMMA StaysOutside ==
  ASSUME RefsInv, NEW p \in Procs, UNCHANGED closing, "Closed" \in flags' <=> "Closed" \in flags,
         pc[p] \notin CloseLabels, pc'[p] \notin CloseLabels,
         \A q \in Procs : q # p => pc'[q] = pc[q],
         p \in Senders => pc'[p] \in {"idle", "posting"}, p = App => pc'[p] \in {"idle", "app_rel"}
  PROVE  /\ Closing'
         /\ \A w \in Workers : w # p => (Ends(w)' <=> Ends(w))
         /\ Ends(p) <=> pc[p] \in EndingLabels
         /\ Ends(p)' <=> pc'[p] \in EndingLabels
<1>1. Senders \subseteq Procs /\ Workers \subseteq Procs /\ App \in Procs /\ Closed' = Closed
  BY DEF Procs, Closed
<1>2. FirstLabels \subseteq CloseLabels /\ "close_rel" \in CloseLabels
  BY DEF FirstLabels, CloseLabels
<1>3. \A q \in Procs : closing[q].first => Closed /\ pc[q] \in FirstLabels
  BY DEF RefsInv, Closing
<1>4. Closing'
  <2>1. /\ \A s \in Senders : pc'[s] \in {"idle", "posting"}
        /\ pc'[App] \in {"idle", "app_rel"} \union CloseLabels
        /\ pc'[App] \in CloseLabels => closing[App].ret = "app_rel"
    BY <1>1 DEF RefsInv, Closing
  <2>2. \A w \in Workers : pc'[w] \in CloseLabels => closing[w].ret \in CloseReturns \union DecReturns
    BY <1>1 DEF RefsInv, Closing
  <2>3. \A q \in Procs : closing[q].first => Closed' /\ pc'[q] \in FirstLabels
    BY <1>1, <1>2, <1>3
  <2>4. \A q \in Procs : pc'[q] = "close_rel" => closing[q].first
    BY <1>2 DEF RefsInv, Closing
  <2>5. /\ \A q \in Procs : ClosingRecord(closing[q])
        /\ \A q, r \in Procs : closing[q].first /\ closing[r].first => q = r
    BY DEF RefsInv, Closing
  <2>6. QED
    BY <2>1, <2>2, <2>3, <2>4, <2>5 DEF Closing
<1>5. QED
  BY <1>1, <1>4 DEF Ends, After

-----------------------------------------------------------------------------
(* The steps of a worker between the labels of its handlers.               *)

\* The operations a step starts: none, or one that takes a reference.
Starts(w) ==
  \/ UNCHANGED <<refs, iocp, kreads, kwrites, queued>>
  \/ /\ refs' = refs + 1
     /\ UNCHANGED iocp
     /\ \/ (\E k : kreads' = Append(kreads, k)) /\ UNCHANGED <<kwrites, queued>>
        \/ (\E k : kwrites' = Append(kwrites, k)) /\ UNCHANGED <<kreads, queued>>
        \/ (\E k : k.type \in Reading /\ Enqueues(w, k)) /\ UNCHANGED <<kreads, kwrites>>

SameEnd ==
  /\ "Closed" \in flags' <=> "Closed" \in flags
  /\ "ShutdownProcessed" \in flags' <=> "ShutdownProcessed" \in flags

Moves(w) == pc[w] \notin Special /\ \E l : l \notin Special /\ pc' = [pc EXCEPT ![w] = l]

Local(w) == Moves(w) /\ Starts(w) /\ SameEnd /\ UNCHANGED <<closing, notes>>

LEMMA SameQueues ==
  ASSUME QueueShape, IsFiniteSet(Queued(Reading)), UNCHANGED queued
  PROVE  QueueShape' /\ IsFiniteSet(Queued(Reading)') /\ Queued(Reading)' = Queued(Reading)
<1>1. Queued(Reading)' = Queued(Reading)
  BY DEF Queued, OfType
<1>2. QED
  BY <1>1 DEF QueueShape

LEMMA StartsCount ==
  ASSUME RefsInv, NEW w \in Workers, Starts(w)
  PROVE  /\ QueueShape' /\ IsSeq(iocp') /\ IsSeq(kreads') /\ IsSeq(kwrites')
         /\ IsFiniteSet(Queued(Reading)')
         /\ \/ refs' = refs /\ Items' = Items
            \/ refs' = refs + 1 /\ Items' = Items + 1
<1>0. /\ Len(iocp) \in Nat /\ Len(kreads) \in Nat /\ Len(kwrites) \in Nat
      /\ Cardinality(Queued(Reading)) \in Nat
      /\ QueueShape /\ IsSeq(iocp) /\ IsSeq(kreads) /\ IsSeq(kwrites)
      /\ IsFiniteSet(Queued(Reading))
  BY Sizes DEF RefsInv, Shape, Counted
<1>1. ASSUME UNCHANGED queued
      PROVE  QueueShape' /\ IsFiniteSet(Queued(Reading)') /\ Queued(Reading)' = Queued(Reading)
  BY <1>0, <1>1, SameQueues
<1>2. CASE UNCHANGED <<refs, iocp, kreads, kwrites, queued>>
  BY <1>0, <1>1, <1>2 DEF Items
<1>3. CASE refs' = refs + 1 /\ UNCHANGED <<iocp, kwrites, queued>> /\ \E k : kreads' = Append(kreads, k)
  <2>1. IsSeq(kreads') /\ Len(kreads') = Len(kreads) + 1
    BY <1>0, <1>3, AppendGrows
  <2>2. QED
    BY <1>0, <1>1, <1>3, <2>1 DEF Items
<1>4. CASE refs' = refs + 1 /\ UNCHANGED <<iocp, kreads, queued>> /\ \E k : kwrites' = Append(kwrites, k)
  <2>1. IsSeq(kwrites') /\ Len(kwrites') = Len(kwrites) + 1
    BY <1>0, <1>4, AppendGrows
  <2>2. QED
    BY <1>0, <1>1, <1>4, <2>1 DEF Items
<1>5. CASE /\ refs' = refs + 1 /\ UNCHANGED <<iocp, kreads, kwrites>>
           /\ \E k : k.type \in Reading /\ Enqueues(w, k)
  <2>1. /\ QueueShape' /\ IsFiniteSet(Queued(Reading)')
        /\ Cardinality(Queued(Reading))' = Cardinality(Queued(Reading)) + 1
    BY <1>0, <1>5, QueuedGrows
  <2>2. QED
    BY <1>0, <1>5, <2>1 DEF Items
<1>6. QED
  BY <1>2, <1>3, <1>4, <1>5 DEF Starts

\* A step that leaves the set of those inside and the final reference alone.
LEMMA SameInside ==
  ASSUME RefsInv, NEW w \in Workers, Starts(w), Shape',
         Busy' = Busy, Callers' = Callers, FinalRef' = FinalRef
  PROVE  Counted'
<1>1. /\ refs \in Nat /\ Items \in Nat /\ FinalRef \in Nat
      /\ Cardinality(Busy) \in Nat /\ Cardinality(Callers) \in Nat
      /\ refs = FinalRef + Items + Cardinality(Busy) + Cardinality(Callers)
  BY Sizes
<1>2. (refs' = refs /\ Items' = Items) \/ (refs' = refs + 1 /\ Items' = Items + 1)
  BY StartsCount
<1>3. refs' \in Nat /\ refs' = FinalRef + Items' + Cardinality(Busy) + Cardinality(Callers)
  BY <1>1, <1>2
<1>4. refs' = FinalRef' + Items' + Cardinality(Busy)' + Cardinality(Callers)'
  BY <1>3
<1>5. QED
  BY <1>3, <1>4, StartsCount, CountedByItems

LEMMA LocalKeeps ==
  ASSUME RefsInv, NEW w \in Workers, Local(w)
  PROVE  RefsInv'
<1> USE DEF RefsInv
<1>1. PICK l : l \notin Special /\ pc' = [pc EXCEPT ![w] = l]
  BY DEF Local, Moves
<1>2. /\ w \in Procs /\ w \notin Senders /\ w # App
      /\ pc[w] \notin Special /\ pc'[w] \notin Special
      /\ \A p \in Procs : p # w => pc'[p] = pc[p]
  BY <1>1, ConstantsOK DEF ConstantsOK, Local, Moves, Procs, Shape
<1>3. Shape'
  BY <1>1, StartsCount DEF Local, Shape
<1>a. pc[w] \notin CloseLabels \union EndingLabels /\ pc'[w] \notin CloseLabels \union EndingLabels
  BY <1>2 DEF Special
<1>4. Closing'
  BY <1>2, <1>a, StaysOutside DEF Local, SameEnd
<1>5. ~Ends(w) /\ ~Ends(w)' /\ \A v \in Workers : Ends(v)' <=> Ends(v)
  BY <1>2, <1>a, StaysOutside DEF Local, SameEnd
<1>6. Ending1'
  BY <1>5 DEF Ending1, Local, SameEnd
<1>7. Counted'
  <2>1. Busy' = Busy /\ Callers' = Callers
    BY <1>2 DEF Busy, Callers, Special, Procs
  <2>2. FinalRef' = FinalRef
    BY DEF FinalRef, Local, SameEnd, Closed
  <2>3. QED
    BY <1>3, <2>1, <2>2, SameInside DEF Local
<1>8. Notified'
  <2>1. refs >= 1 /\ refs' >= 1 /\ refs \in Nat /\ refs' \in Nat
    BY <1>2, Alive, StartsCount, Sizes DEF Local, Special
  <2>2. QED
    BY <1>5, <2>1 DEF Notified, EndNotifiedOnce, Local, SameEnd
<1>9. QED
  BY <1>3, <1>4, <1>6, <1>7, <1>8

\* Most steps of the handlers are such steps.
LEMMA InputIsLocal ==
  ASSUME RefsInv, NEW w \in Workers,
         \/ InCheck(w) \/ InTake(w) \/ InWrite(w) \/ ReadNext(w) \/ ReadIssue(w)
         \/ ReadAgain(w) \/ ReadDone(w) \/ ResumeLoop(w)
  PROVE  Local(w)
<1> USE DEF Local, Moves, SameEnd, Special, CloseLabels, EndingLabels, Goto
<1>1. AfterReads(w) \in {"post", "rs_loop", "r_dec"}
  BY DEF AfterReads
<1>2. CASE InCheck(w)
  BY <1>2 DEF InCheck, Starts, connVars, ioVars, appVars
<1>3. CASE InTake(w)
  BY <1>3 DEF InTake, Starts, connVars, ioVars, appVars
<1>4. CASE InWrite(w)
  BY <1>4 DEF InWrite, Starts, ioVars, appVars
<1>5. CASE ReadNext(w)
  BY <1>1, <1>5 DEF ReadNext, Starts, connVars, ioVars, appVars
<1>6. CASE ReadIssue(w)
  <2> DEFINE t == IssueType(w)
             o == IF t = "Read" THEN nNextReadOrder + 1 ELSE 0
  <2>1. Moves(w)
    BY <1>1, <1>6 DEF ReadIssue
  <2>2. SameEnd
    BY <1>6 DEF ReadIssue
  <2>3. UNCHANGED <<closing, notes, iocp, kwrites>>
    BY <1>6 DEF ReadIssue, appVars
  <2>4. ReadResult(t, o).type \in Reading
    BY DEF ReadResult, Packet, IssueType, Reading
  <2>5. \/ UNCHANGED <<refs, kreads, queued>>
        \/ refs' = refs + 1 /\ UNCHANGED kreads /\ Enqueues(w, ReadResult(t, o))
        \/ refs' = refs + 1 /\ UNCHANGED queued /\ kreads' = Append(kreads, [type |-> t, order |-> o])
    BY <1>6 DEF ReadIssue, Enqueues
  <2>6. Starts(w)
    BY <2>3, <2>4, <2>5 DEF Starts
  <2>7. QED
    BY <2>1, <2>2, <2>3, <2>6
<1>7. CASE ReadAgain(w)
  BY <1>7 DEF ReadAgain, Starts, connVars, ioVars, appVars
<1>8. CASE ReadDone(w)
  BY <1>8 DEF ReadDone, Starts, connVars, ioVars, appVars
<1>9. CASE ResumeLoop(w)
  BY <1>9 DEF ResumeLoop, Starts, ioVars, appVars
<1>10. QED
  BY <1>2, <1>3, <1>4, <1>5, <1>6, <1>7, <1>8, <1>9

LEMMA OutputIsLocal ==
  ASSUME RefsInv, NEW w \in Workers,
         \/ OutEnter(w) \/ OutLoop(w) \/ OutTake(w) \/ OutData(w) \/ OutSignal(w) \/ OutRequeue(w)
         \/ OutRecheck(w) \/ OutStream(w)
  PROVE  Local(w)
<1> USE DEF Local, Moves, SameEnd, Special, CloseLabels, EndingLabels, Goto
<1>1. CASE OutEnter(w) \/ OutLoop(w) \/ OutTake(w) \/ OutSignal(w) \/ OutRequeue(w) \/ OutRecheck(w)
  <2>1. CASE OutEnter(w)
    BY <2>1 DEF OutEnter, Starts, connVars, ioVars, appVars
  <2>2. CASE OutLoop(w)
    BY <2>2 DEF OutLoop, Starts, connVars, ioVars, appVars
  <2>3. CASE OutTake(w)
    BY <2>3 DEF OutTake, Starts, connVars, ioVars, appVars
  <2>4. CASE OutSignal(w)
    BY <2>4 DEF OutSignal, Starts, connVars, ioVars, appVars
  <2>5. CASE OutRequeue(w)
    BY <2>5 DEF OutRequeue, Starts, connVars, ioVars, appVars
  <2>6. CASE OutRecheck(w)
    BY <2>6 DEF OutRecheck, Starts, connVars, ioVars, appVars
  <2>7. QED
    BY <1>1, <2>1, <2>2, <2>3, <2>4, <2>5, <2>6
<1>2. ASSUME NEW o, DoWrite(w, o), UNCHANGED <<iocp, kreads, queued>>
      PROVE  Starts(w) /\ SameEnd
  BY <1>2 DEF DoWrite, Starts
<1>3. CASE OutData(w)
  BY <1>2, <1>3 DEF OutData, appVars
<1>4. CASE OutStream(w)
  <2>1. Moves(w) /\ UNCHANGED <<closing, notes, iocp, kreads, queued>>
    BY <1>4 DEF OutStream, appVars
  <2>2. Starts(w) /\ SameEnd
    <3>1. CASE DoWrite(w, cur[w].order)
      BY <1>2, <2>1, <3>1
    <3>2. CASE ~DoWrite(w, cur[w].order)
      BY <1>4, <2>1, <3>2 DEF OutStream, Starts
    <3>3. QED
      BY <3>1, <3>2
  <2>3. QED
    BY <2>1, <2>2
<1>5. QED
  BY <1>1, <1>3, <1>4

LEMMA StartIsLocal ==
  ASSUME RefsInv, NEW w \in Workers, Start(w), pc'[w] # "close"
  PROVE  Local(w)
<1> USE DEF Local, Moves, SameEnd, Special, CloseLabels, EndingLabels, Goto
<1>1. pc[w] = "start" /\ Starts(w) /\ UNCHANGED notes
  BY DEF Start, Starts, ioVars, appVars
<1>2. pc = [p \in Procs |-> pc[p]] /\ w \in Procs
  BY DEF RefsInv, Shape, Procs
<1>3. CASE StartInitialSetup(w)
  BY <1>1, <1>3 DEF StartInitialSetup
<1>4. CASE StartZeroRead(w)
  BY <1>1, <1>4 DEF StartZeroRead
<1>5. CASE StartRead(w)
  <2>1. ~CallClose(w, "ok", "r_dec")
    BY <1>2 DEF CallClose
  <2>2. QED
    BY <1>1, <1>5, <2>1 DEF StartRead
<1>6. CASE StartWriteRequest(w)
  BY <1>1, <1>6 DEF StartWriteRequest
<1>7. CASE StartWrite(w)
  BY <1>1, <1>7 DEF StartWrite
<1>8. CASE StartResume(w)
  BY <1>1, <1>8 DEF StartResume
<1>9. QED
  BY <1>3, <1>4, <1>5, <1>6, <1>7, <1>8 DEF Start

LEMMA PostIsLocal ==
  ASSUME RefsInv, NEW w \in Workers,
         \/ Post(w)
         \/ PostEnding(w) /\ pc'[w] # "close"
         \/ (FireEnter(w) \/ FireExit(w)) /\ pc[w] \notin Special
  PROVE  Local(w)
<1> USE DEF Local, Moves, SameEnd, Special, CloseLabels, EndingLabels, Goto
<1>1. pc = [p \in Procs |-> pc[p]] /\ w \in Procs
  BY DEF RefsInv, Shape, Procs
<1>2. \A h : Ending(h) \in {"release", "end"}
  BY DEF Ending
<1>3. CASE Post(w)
  BY <1>2, <1>3 DEF Post, Starts, ioVars, appVars
<1>4. CASE PostEnding(w) /\ pc'[w] # "close"
  <2>1. ~CallClose(w, "ok", "sd_wait")
    BY <1>1, <1>4 DEF CallClose
  <2>2. QED
    BY <1>2, <1>4, <2>1 DEF PostEnding, Starts, ioVars, appVars
<1>5. CASE FireEnter(w) /\ pc[w] \notin Special
  BY <1>5 DEF FireEnter, Starts, connVars, ioVars
<1>6. CASE FireExit(w) /\ pc[w] \notin Special
  BY <1>2, <1>6 DEF FireExit, Starts, ioVars
<1>7. QED
  BY <1>3, <1>4, <1>5, <1>6

-----------------------------------------------------------------------------
(* The steps that change who is inside, the final reference or what the    *)
(* user has been told.                                                     *)

LEMMA Recount ==
  ASSUME RefsInv, Shape', IsFiniteSet(Queued(Reading)'), refs' \in Nat,
         refs' - refs = (FinalRef' - FinalRef) + (Items' - Items)
                        + (Cardinality(Busy') - Cardinality(Busy))
                        + (Cardinality(Callers') - Cardinality(Callers))
  PROVE  Counted'
<1>1. /\ refs \in Nat /\ Items \in Nat /\ FinalRef \in Nat
      /\ Cardinality(Busy) \in Nat /\ Cardinality(Callers) \in Nat
      /\ refs = FinalRef + Items + Cardinality(Busy) + Cardinality(Callers)
  BY Sizes
<1>2. Items' \in Nat /\ FinalRef' \in Nat
  <2>1. Len(iocp') \in Nat /\ Len(kreads') \in Nat /\ Len(kwrites') \in Nat
    BY SeqLength DEF Shape
  <2>2. Cardinality(Queued(Reading))' \in Nat
    BY FS_CardinalityType
  <2>3. QED
    BY <2>1, <2>2 DEF Items, FinalRef
<1>3. Cardinality(Busy') \in Nat /\ Cardinality(Callers') \in Nat
  BY InsideFinite
<1>4. refs' = FinalRef' + Items' + Cardinality(Busy') + Cardinality(Callers')
  BY <1>1, <1>2, <1>3
<1>5. QED
  BY <1>4, CountedByItems

\* A thread that is the first to enter, or that leaves.
LEMMA OneMoreInside ==
  ASSUME NEW S, NEW T, NEW x, IsFiniteSet(S), x \notin S, T = S \union {x}
  PROVE  Cardinality(T) = Cardinality(S) + 1 /\ Cardinality(S) \in Nat
BY FS_AddElement, FS_CardinalityType

LEMMA OneLessInside ==
  ASSUME NEW S, NEW T, NEW x, IsFiniteSet(S), x \in S, T = S \ {x}
  PROVE  Cardinality(T) = Cardinality(S) - 1 /\ Cardinality(S) \in Nat
BY FS_RemoveElement, FS_CardinalityType

\* The items are the same when no packet or operation comes or goes.
LEMMA SameItems ==
  ASSUME RefsInv, UNCHANGED <<iocp, kreads, kwrites, queued>>
  PROVE  /\ IsSeq(iocp') /\ IsSeq(kreads') /\ IsSeq(kwrites')
         /\ QueueShape' /\ IsFiniteSet(Queued(Reading)') /\ Items' = Items
<1>1. QueueShape /\ IsFiniteSet(Queued(Reading)) /\ IsSeq(iocp) /\ IsSeq(kreads) /\ IsSeq(kwrites)
  BY DEF RefsInv, Shape, Counted
<1>2. QED
  BY <1>1, SameQueues DEF Items

\* A worker enters Close, from a handler or because it ends the connection, or
\* finds that it has counted the writes down to zero.
LEMMA EnterKeeps ==
  ASSUME RefsInv, NEW w \in Workers, NEW k \in {"close", "dec_zero"}, NEW c, pc[w] \notin Special,
         ClosingRecord(c), ~c.first, closing' = [closing EXCEPT ![w] = c], Goto(w, k),
         UNCHANGED <<refs, iocp, kreads, kwrites, queued, notes>>,
         "Closed" \in flags' <=> "Closed" \in flags,
         \/ c.ret \in DecReturns \union {"release"} /\ SameEnd
         \/ c.ret = "sd_wait" /\ "ShutdownProcessed" \notin flags /\ "ShutdownProcessed" \in flags'
  PROVE  RefsInv'
<1>1. /\ w \in Procs /\ w \notin Senders /\ w # App
      /\ pc'[w] = k /\ closing'[w] = c
      /\ \A p \in Procs : p # w => pc'[p] = pc[p] /\ closing'[p] = closing[p]
  BY ConstantsOK DEF ConstantsOK, Procs, RefsInv, Shape, Goto
<1>2. Shape'
  BY SameItems DEF RefsInv, Shape, Goto
<1>3. ~closing[w].first
  BY <1>1 DEF RefsInv, Closing, Special, CloseLabels, FirstLabels
<1>4. Closing'
  <2>1. c.ret \in CloseReturns \union DecReturns
    BY DEF CloseReturns, DecReturns
  <2>2. QED
    BY <1>1, <1>3, <2>1 DEF RefsInv, Closing, Closed, Special, CloseLabels, Procs
<1>5. /\ ~Ends(w) /\ (Ends(w)' <=> c.ret = "sd_wait")
      /\ \A v \in Workers : v # w => (Ends(v)' <=> Ends(v))
  BY <1>1 DEF Ends, After, Special, CloseLabels, EndingLabels, DecReturns, Procs
<1>6. Ending1'
  BY <1>5 DEF RefsInv, Ending1, SameEnd, DecReturns
<1>7. Counted'
  <2>1. Busy' = Busy /\ Callers' = Callers
    BY <1>1 DEF Busy, Callers, Special, Procs
  <2>2. FinalRef' = FinalRef
    BY <1>1, <1>3 DEF FinalRef, Closed
  <2>3. QED
    <3>1. refs' \in Nat /\ Items' = Items /\ IsFiniteSet(Queued(Reading)')
      BY SameItems, Sizes
    <3>2. QED
      BY <1>2, <2>1, <2>2, <3>1, Recount, Sizes
<1>8. Notified'
  BY <1>5 DEF RefsInv, Notified, EndNotifiedOnce, SameEnd, DecReturns
<1>9. QED
  BY <1>2, <1>4, <1>6, <1>7, <1>8 DEF RefsInv

LEMMA CallKeeps ==
  ASSUME RefsInv, NEW w \in Workers, NEW h, NEW l, pc[w] \notin Special, CallClose(w, h, l),
         UNCHANGED <<refs, iocp, kreads, kwrites, queued, notes>>,
         "Closed" \in flags' <=> "Closed" \in flags,
         \/ l \in {"r_dec", "release"} /\ SameEnd
         \/ l = "sd_wait" /\ "ShutdownProcessed" \notin flags /\ "ShutdownProcessed" \in flags'
  PROVE  RefsInv'
<1> DEFINE c == [NoClose EXCEPT !.hr = h, !.ret = l]
<1>1. ClosingRecord(c) /\ ~c.first /\ c.ret = l
  BY NewCall
<1>2. closing' = [closing EXCEPT ![w] = c] /\ Goto(w, "close")
  BY DEF CallClose
<1>3. l \in DecReturns \union {"release"} \/ l = "sd_wait"
  BY DEF DecReturns
<1> HIDE DEF c
<1>4. QED
  BY <1>1, <1>2, <1>3, EnterKeeps

\* A step that ends with a decrement of nOutgoingWrites.
LEMMA DecrementKeeps ==
  ASSUME RefsInv, NEW w \in Workers, NEW l \in DecReturns, pc[w] \notin Special,
         DecrementOutgoingWrites(w, l), UNCHANGED <<connVars, iocp, kreads, kwrites, queued, notes>>
  PROVE  RefsInv'
<1>1. UNCHANGED <<flags, refs>> /\ SameEnd
  BY DEF connVars, SameEnd
<1>2. CASE Goto(w, l) /\ UNCHANGED closing
  <2>1. Local(w)
    BY <1>1, <1>2 DEF Local, Moves, Starts, Goto, DecReturns, Special, CloseLabels, EndingLabels
  <2>2. QED
    BY <2>1, LocalKeeps
<1>3. CASE closing' = [closing EXCEPT ![w] = [NoClose EXCEPT !.ret = l]] /\ Goto(w, "dec_zero")
  <2> DEFINE c == [NoClose EXCEPT !.ret = l]
  <2>1. ClosingRecord(c) /\ ~c.first /\ c.ret = l
    BY NewCall
  <2> HIDE DEF c
  <2>2. QED
    BY <1>1, <1>3, <2>1, EnterKeeps DEF c
<1>4. QED
  BY <1>2, <1>3 DEF DecrementOutgoingWrites

LEMMA OutputDecrements ==
  ASSUME RefsInv, NEW w \in Workers, OutDrop(w) \/ OutNext(w) \/ OutExit(w) \/ WriteDone(w)
  PROVE  RefsInv'
<1> USE DEF Special, CloseLabels, EndingLabels, DecReturns
<1>1. CASE OutDrop(w)
  BY <1>1, DecrementKeeps DEF OutDrop, ioVars, appVars
<1>2. CASE OutNext(w)
  BY <1>2, DecrementKeeps DEF OutNext, ioVars, appVars
<1>3. CASE OutExit(w)
  <2> DEFINE l == CASE cur[w].type = "Read" -> (IF hr[w] = "ok" THEN "r_again" ELSE "r_dec")
                    [] cur[w].type = "Write" -> "w_dec"
                    [] OTHER -> "post"
  <2>1. l \in DecReturns
    OBVIOUS
  <2>2. /\ DecrementOutgoingWrites(w, l) /\ pc[w] \notin Special
        /\ UNCHANGED <<connVars, iocp, kreads, kwrites, queued, notes>>
    BY <1>3 DEF OutExit, ioVars, appVars
  <2> HIDE DEF l
  <2>3. QED
    BY <2>1, <2>2, DecrementKeeps
<1>4. CASE WriteDone(w)
  BY <1>4, DecrementKeeps DEF WriteDone, ioVars, appVars
<1>5. QED
  BY <1>1, <1>2, <1>3, <1>4

LEMMA StartKeeps ==
  ASSUME RefsInv, NEW w \in Workers, Start(w)
  PROVE  RefsInv'
<1>1. CASE pc'[w] # "close"
  BY <1>1, StartIsLocal, LocalKeeps
<1>2. CASE pc'[w] = "close"
  <2>1. pc = [p \in Procs |-> pc[p]] /\ w \in Procs
    BY DEF RefsInv, Shape, Procs
  <2>2. CallClose(w, "ok", "r_dec") /\ flags' = flags \union {"Graceful"}
    <3>1. CASE StartRead(w)
      BY <1>2, <2>1, <3>1 DEF StartRead, Goto
    <3>2. CASE StartInitialSetup(w) \/ StartZeroRead(w) \/ StartWriteRequest(w) \/ StartWrite(w) \/ StartResume(w)
      BY <1>2, <2>1, <3>2 DEF StartInitialSetup, StartZeroRead, StartWriteRequest, StartWrite,
                              StartResume, Goto
    <3>3. QED
      BY <3>1, <3>2 DEF Start
  <2>3. pc[w] \notin Special /\ UNCHANGED <<refs, iocp, kreads, kwrites, queued, notes>>
    BY DEF Start, Special, CloseLabels, EndingLabels, ioVars, appVars
  <2>4. SameEnd
    BY <2>2 DEF SameEnd
  <2>5. QED
    BY <2>2, <2>3, <2>4, CallKeeps DEF SameEnd
<1>3. QED
  BY <1>1, <1>2

LEMMA PostEndingKeeps ==
  ASSUME RefsInv, NEW w \in Workers, PostEnding(w)
  PROVE  RefsInv'
<1>1. CASE pc'[w] # "close"
  BY <1>1, PostIsLocal, LocalKeeps
<1>2. CASE pc'[w] = "close"
  <2>1. pc = [p \in Procs |-> pc[p]] /\ w \in Procs
    BY DEF RefsInv, Shape, Procs
  <2>2. /\ CallClose(w, "ok", "sd_wait")
        /\ "ShutdownProcessed" \notin flags /\ flags' = flags \union {"ShutdownProcessed"}
    BY <1>2, <2>1 DEF PostEnding, Goto, Ending
  <2>3. pc[w] \notin Special /\ UNCHANGED <<refs, iocp, kreads, kwrites, queued, notes>>
    BY DEF PostEnding, Special, CloseLabels, EndingLabels, ioVars, appVars
  <2>4. QED
    BY <2>2, <2>3, CallKeeps
<1>3. QED
  BY <1>1, <1>2

LEMMA EndPacketKeeps ==
  ASSUME RefsInv, NEW w \in Workers, EndPacket(w)
  PROVE  RefsInv'
<1>1. \E h : CallClose(w, h, "release")
  BY DEF EndPacket
<1>2. pc[w] \notin Special /\ UNCHANGED <<refs, iocp, kreads, kwrites, queued, notes>>
  BY DEF EndPacket, Special, CloseLabels, EndingLabels, ioVars, appVars
<1>3. SameEnd
  BY DEF EndPacket, SameEnd
<1>4. QED
  BY <1>1, <1>2, <1>3, CallKeeps DEF SameEnd

-----------------------------------------------------------------------------
(* The steps of Close, by a worker or the application.                     *)

\* A step of a Close that goes on: nobody enters or leaves.
LEMMA SameThreads ==
  ASSUME RefsInv, NEW p \in Workers \union {App}, NEW l, pc[p] # "idle", l # "idle",
         pc' = [pc EXCEPT ![p] = l]
  PROVE  /\ Busy' = Busy /\ Callers' = Callers
         /\ p \in Procs /\ p \notin Senders /\ pc'[p] = l
         /\ \A q \in Procs : q # p => pc'[q] = pc[q]
<1>1. /\ p \in Procs /\ p \notin Senders /\ pc'[p] = l
      /\ \A q \in Procs : q # p => pc'[q] = pc[q]
  BY ConstantsOK DEF ConstantsOK, Procs, RefsInv, Shape
<1>2. QED
  BY <1>1 DEF Busy, Callers, Procs

LEMMA CloseMarkKeeps ==
  ASSUME RefsInv, NEW p \in Workers \union {App}, CloseMark(p)
  PROVE  RefsInv'
<1> DEFINE l == IF Closed THEN "close_test" ELSE "close_code"
<1>1. /\ pc[p] = "close" /\ pc' = [pc EXCEPT ![p] = l] /\ Closed'
      /\ "ShutdownProcessed" \in flags' <=> "ShutdownProcessed" \in flags
      /\ UNCHANGED <<refs, iocp, kreads, kwrites, queued, notes>>
  BY DEF CloseMark, Goto, Closed, ioVars, appVars
<1>2. /\ Busy' = Busy /\ Callers' = Callers
      /\ p \in Procs /\ p \notin Senders /\ pc'[p] = l
      /\ \A q \in Procs : q # p => pc'[q] = pc[q]
  BY <1>1, SameThreads
<1>3. /\ closing'[p].first = ~Closed /\ closing'[p].ret = closing[p].ret
      /\ ClosingRecord(closing'[p])
      /\ \A q \in Procs : q # p => closing'[q] = closing[q]
  <2>1. closing[p] = [hr |-> closing[p].hr, ret |-> closing[p].ret,
                      first |-> closing[p].first, hard |-> closing[p].hard,
                      abort |-> closing[p].abort]
    BY <1>2 DEF RefsInv, Closing, ClosingRecord
  <2>2. closing = [q \in Procs |-> closing[q]]
    BY DEF RefsInv, Shape
  <2>3. QED
    BY <1>2, <2>1, <2>2 DEF CloseMark, ClosingRecord, Closed
<1>4. ~closing[p].first /\ (~Closed => \A q \in Procs : ~closing[q].first)
  BY <1>1, <1>2 DEF RefsInv, Closing, FirstLabels
<1>5. Shape'
  BY <1>1, SameItems DEF RefsInv, Shape, CloseMark
<1>6. Closing'
  <2>1. l \in {"close_code", "close_test"} /\ (~Closed => l = "close_code")
    OBVIOUS
  <2>2. \A q \in Procs : /\ closing'[q].first => pc'[q] \in FirstLabels
                         /\ pc'[q] = "close_rel" => closing'[q].first
    BY <1>2, <1>3, <2>1 DEF RefsInv, Closing, FirstLabels
  <2>3. \A q, r \in Procs : closing'[q].first /\ closing'[r].first => q = r
    BY <1>3, <1>4 DEF RefsInv, Closing
  <2>4. \A q \in Procs : ClosingRecord(closing'[q])
    BY <1>3 DEF RefsInv, Closing
  <2>5. \A q \in Procs : closing'[q].ret = closing[q].ret
    BY <1>3
  <2>6. \A q \in Procs : pc'[q] = pc[q] \/ q = p
    BY <1>2
  <2>7. /\ pc[p] \in CloseLabels /\ pc'[p] \in CloseLabels
        /\ App \in Procs /\ Senders \subseteq Procs /\ Workers \subseteq Procs
    BY <1>1, <1>2, <2>1 DEF CloseLabels, Procs
  <2>8. QED
    BY <1>1, <1>2, <2>2, <2>3, <2>4, <2>5, <2>6, <2>7 DEF RefsInv, Closing
<1>7. \A w \in Workers : Ends(w)' <=> Ends(w)
  <2>1. \A w \in Workers : w \in Procs /\ (w = p => pc[w] \in CloseLabels /\ pc'[w] \in CloseLabels)
                          /\ closing'[w].ret = closing[w].ret
    BY <1>1, <1>2, <1>3 DEF CloseLabels, Procs
  <2>2. QED
    BY <1>2, <2>1 DEF Ends, After
<1>8. Ending1'
  BY <1>1, <1>7 DEF RefsInv, Ending1
<1>9. Counted'
  <2>1. FinalRef' = FinalRef
    BY <1>1, <1>2, <1>3, <1>4 DEF FinalRef
  <2>2. Items' = Items /\ IsFiniteSet(Queued(Reading)')
    BY <1>1, SameItems
  <2>3. refs' = refs /\ refs \in Nat
    BY <1>1, Sizes
  <2>4. QED
    BY <1>2, <1>5, <2>1, <2>2, <2>3, Recount, Sizes
<1>10. Notified'
  BY <1>1, <1>7 DEF RefsInv, Notified, EndNotifiedOnce
<1>11. QED
  BY <1>5, <1>6, <1>8, <1>9, <1>10 DEF RefsInv

\* A step to a later label of the call.
LEMMA ClosingGoesOn ==
  ASSUME RefsInv, NEW p \in Workers \union {App}, NEW l \in FirstLabels,
         pc[p] \in CloseLabels \ {"close", "close_rel"}, pc' = [pc EXCEPT ![p] = l],
         NEW a, closing' = closing \/ closing' = [closing EXCEPT ![p].abort = a],
         l = "close_rel" => closing[p].first,
         UNCHANGED <<refs, iocp, kreads, kwrites, queued, notes, flags>>
  PROVE  RefsInv'
<1>0. pc[p] # "idle" /\ l # "idle" /\ pc[p] \in CloseLabels /\ l \in CloseLabels
  BY DEF CloseLabels, FirstLabels
<1>1. /\ Busy' = Busy /\ Callers' = Callers
      /\ p \in Procs /\ p \notin Senders /\ pc'[p] = l
      /\ \A q \in Procs : q # p => pc'[q] = pc[q]
  BY <1>0, SameThreads
<1>2. \A q \in Procs : /\ closing'[q].first = closing[q].first /\ closing'[q].ret = closing[q].ret
                       /\ ClosingRecord(closing'[q])
  <2>1. closing = [q \in Procs |-> closing[q]] /\ \A q \in Procs : ClosingRecord(closing[q])
    BY DEF RefsInv, Shape, Closing
  <2>2. CASE closing' = closing
    BY <2>1, <2>2
  <2>3. CASE closing' = [closing EXCEPT ![p].abort = a]
    <3>1. closing[p] = [hr |-> closing[p].hr, ret |-> closing[p].ret, first |-> closing[p].first,
                        hard |-> closing[p].hard, abort |-> closing[p].abort]
      BY <1>1, <2>1 DEF ClosingRecord
    <3>2. closing'[p] = [closing[p] EXCEPT !.abort = a] /\ \A q \in Procs : q # p => closing'[q] = closing[q]
      BY <1>1, <2>1, <2>3
    <3>3. /\ closing'[p].first = closing[p].first /\ closing'[p].ret = closing[p].ret
          /\ ClosingRecord(closing'[p])
      BY <1>1, <2>1, <3>1, <3>2 DEF ClosingRecord
    <3>4. QED
      BY <2>1, <3>2, <3>3
  <2>4. QED
    BY <2>2, <2>3
<1>3. Shape'
  BY SameItems DEF RefsInv, Shape
<1>4. Closing'
  <2>1. Closed' <=> Closed
    BY DEF Closed
  <2>2. \A q \in Procs : /\ closing'[q].first => pc'[q] \in FirstLabels
                         /\ pc'[q] = "close_rel" => closing'[q].first
    BY <1>1, <1>2 DEF RefsInv, Closing
  <2>3. App \in Procs /\ Senders \subseteq Procs /\ Workers \subseteq Procs
    BY DEF Procs
  <2>4. QED
    BY <1>0, <1>1, <1>2, <2>1, <2>2, <2>3 DEF RefsInv, Closing
<1>5. \A w \in Workers : Ends(w)' <=> Ends(w)
  BY <1>0, <1>1, <1>2 DEF Ends, After, Procs
<1>6. Ending1'
  BY <1>5 DEF RefsInv, Ending1
<1>7. Counted'
  <2>1. FinalRef' = FinalRef
    BY <1>2 DEF FinalRef, Closed
  <2>2. Items' = Items /\ IsFiniteSet(Queued(Reading)')
    BY SameItems
  <2>3. QED
    BY <1>1, <1>3, <2>1, <2>2, Recount, Sizes
<1>8. Notified'
  BY <1>5 DEF RefsInv, Notified, EndNotifiedOnce
<1>9. QED
  BY <1>3, <1>4, <1>6, <1>7, <1>8 DEF RefsInv

\* The end of the call; the first closer has dropped the final reference.
LEMMA ReturnKeeps ==
  ASSUME RefsInv, NEW p \in Workers \union {App}, pc[p] \in CloseLabels, Return(p),
         refs' = IF closing[p].first THEN refs - 1 ELSE refs,
         UNCHANGED <<iocp, kreads, kwrites, queued, notes, flags>>
  PROVE  RefsInv'
<1> DEFINE l == closing[p].ret
<1>1. /\ pc[p] \in CloseLabels /\ pc[p] # "idle" /\ pc' = [pc EXCEPT ![p] = l]
      /\ closing' = [closing EXCEPT ![p] = NoClose]
      /\ refs' = IF closing[p].first THEN refs - 1 ELSE refs
      /\ UNCHANGED <<iocp, kreads, kwrites, queued, notes, flags>>
  BY DEF Return, Goto, CloseLabels
<1>2. /\ l \in CloseReturns \union DecReturns \union {"app_rel"}
      /\ l \notin CloseLabels /\ l # "idle"
      /\ p = App => l = "app_rel"
  BY <1>1 DEF RefsInv, Closing, CloseLabels, CloseReturns, DecReturns
<1>3. /\ Busy' = Busy /\ Callers' = Callers
      /\ p \in Procs /\ p \notin Senders /\ pc'[p] = l
      /\ \A q \in Procs : q # p => pc'[q] = pc[q]
  BY <1>1, <1>2, SameThreads
<1>4. ~closing'[p].first /\ ClosingRecord(closing'[p]) /\ \A q \in Procs : q # p => closing'[q] = closing[q]
  BY <1>1, <1>3 DEF RefsInv, Shape, NoClose, ClosingRecord
<1>5. Shape'
  BY <1>1, SameItems DEF RefsInv, Shape
<1>6. Closing'
  <2>1. App \in Procs /\ Senders \subseteq Procs /\ Workers \subseteq Procs /\ (Closed' <=> Closed)
    BY <1>1 DEF Procs, Closed
  <2>2. \A q \in Procs : closing'[q].first => q # p /\ closing[q].first
    BY <1>3, <1>4
  <2>3. pc'[p] # "close_rel"
    BY <1>2, <1>3 DEF CloseLabels
  <2>4. QED
    BY <1>1, <1>2, <1>3, <1>4, <2>1, <2>2, <2>3 DEF RefsInv, Closing
<1>7. \A w \in Workers : Ends(w)' <=> Ends(w)
  BY <1>1, <1>2, <1>3, <1>4 DEF Ends, After, Procs
<1>8. Ending1'
  BY <1>1, <1>7 DEF RefsInv, Ending1
<1>9. /\ refs \in Nat /\ refs >= 1
      /\ closing[p].first => FinalRef = 1 /\ FinalRef' = 0 /\ refs >= 2
      /\ ~closing[p].first => FinalRef' = FinalRef
  <2>1. refs \in Nat /\ refs >= FinalRef + 1
    <3>1. Busy # {} \/ Callers # {}
      BY <1>1 DEF Busy, Callers
    <3>2. Cardinality(Busy) # 0 \/ Cardinality(Callers) # 0
      BY <3>1, InsideFinite, FS_EmptySet
    <3>3. QED
      BY <3>2, Sizes
  <2>2. closing[p].first => Closed /\ FinalRef = 1 /\ \A q \in Procs : ~closing'[q].first
    BY <1>3, <1>4 DEF RefsInv, Closing, FinalRef
  <2>3. closing[p].first => FinalRef' = 0
    BY <1>1, <2>2 DEF FinalRef, Closed
  <2>4. ~closing[p].first => FinalRef' = FinalRef
    BY <1>1, <1>3, <1>4 DEF FinalRef, Closed
  <2>5. FinalRef \in Nat
    BY DEF FinalRef
  <2>6. QED
    BY <2>1, <2>2, <2>3, <2>4, <2>5
<1>10. Counted'
  <2>1. Items' = Items /\ IsFiniteSet(Queued(Reading)')
    BY <1>1, SameItems
  <2>2. refs' \in Nat /\ refs' - refs = FinalRef' - FinalRef
    BY <1>1, <1>9 DEF FinalRef
  <2>3. QED
    BY <1>3, <1>5, <2>1, <2>2, Recount, Sizes
<1>11. Notified'
  <2>1. refs # 0 /\ refs' # 0
    BY <1>1, <1>9
  <2>2. QED
    BY <1>1, <1>7, <2>1 DEF RefsInv, Notified, EndNotifiedOnce
<1>12. QED
  BY <1>5, <1>6, <1>8, <1>10, <1>11 DEF RefsInv

LEMMA CloseKeeps ==
  ASSUME RefsInv, NEW p \in Workers \union {App}, CloseStep(p) \/ DecClosed(p)
  PROVE  RefsInv'
<1> USE DEF CloseLabels, FirstLabels
<1>1. p \in Procs /\ (pc[p] = "dec_zero" => ~closing[p].first)
  BY DEF RefsInv, Closing, Procs
<1>2. ASSUME UNCHANGED <<connVars, ioVars, queued, appVars>>
      PROVE  UNCHANGED <<refs, iocp, kreads, kwrites, queued, notes, flags>>
  BY <1>2 DEF connVars, ioVars, appVars
<1>3. ASSUME pc[p] \in {"close_test", "shut_link"}, FinishClose(p),
             UNCHANGED <<refs, iocp, kreads, kwrites, queued, notes, flags>>
      PROVE  RefsInv'
  <2>1. CASE closing[p].first
    BY <1>3, <2>1, ClosingGoesOn DEF FinishClose, Goto
  <2>2. CASE ~closing[p].first
    BY <1>3, <2>2, ReturnKeeps DEF FinishClose
  <2>3. QED
    BY <2>1, <2>2
<1>4. CASE CloseMark(p)
  BY <1>4, CloseMarkKeeps
<1>5. CASE CloseCode(p)
  BY <1>5, ClosingGoesOn DEF CloseCode, Goto, ioVars, appVars
<1>6. CASE CloseTest(p)
  <2>1. CASE Goto(p, "shut_code") /\ UNCHANGED closing
    BY <1>2, <1>6, <2>1, ClosingGoesOn DEF CloseTest, Goto
  <2>2. CASE FinishClose(p)
    BY <1>2, <1>3, <1>6, <2>2 DEF CloseTest
  <2>3. QED
    BY <1>6, <2>1, <2>2 DEF CloseTest
<1>7. CASE DecClosed(p)
  <2>1. CASE Goto(p, "shut_code") /\ UNCHANGED closing
    BY <1>2, <1>7, <2>1, ClosingGoesOn DEF DecClosed, Goto
  <2>2. CASE Return(p)
    BY <1>1, <1>2, <1>7, <2>2, ReturnKeeps DEF DecClosed
  <2>3. QED
    BY <1>7, <2>1, <2>2 DEF DecClosed
<1>8. CASE ShutCode(p)
  BY <1>2, <1>8, ClosingGoesOn DEF ShutCode, Goto
<1>9. CASE ShutLink(p)
  BY <1>3, <1>9 DEF ShutLink, ioVars, appVars
<1>10. CASE CloseRelease(p)
  <2>1. closing[p].first
    BY <1>1, <1>10 DEF CloseRelease, RefsInv, Closing
  <2>2. QED
    BY <1>10, <2>1, ReturnKeeps DEF CloseRelease, ioVars, appVars
<1>11. QED
  BY <1>4, <1>5, <1>6, <1>7, <1>8, <1>9, <1>10 DEF CloseStep

-----------------------------------------------------------------------------
(* Taking a packet and giving its reference back.                          *)

LEMMA DispatchKeeps ==
  ASSUME RefsInv, NEW w \in Workers, Dispatch(w)
  PROVE  RefsInv'
<1>1. /\ pc[w] = "idle" /\ pc' = [pc EXCEPT ![w] = "start"]
      /\ iocp # <<>> /\ iocp' = Tail(iocp)
      /\ UNCHANGED <<refs, kreads, kwrites, queued, notes, flags, closing>>
  BY DEF Dispatch, Goto, connVars, appVars
<1>2. /\ w \in Procs /\ w \notin Senders /\ w # App /\ pc'[w] = "start"
      /\ \A q \in Procs : q # w => pc'[q] = pc[q]
  BY <1>1, ConstantsOK DEF ConstantsOK, Procs, RefsInv, Shape
<1>3. /\ IsSeq(iocp') /\ Len(iocp') = Len(iocp) - 1
      /\ QueueShape' /\ IsFiniteSet(Queued(Reading)') /\ Queued(Reading)' = Queued(Reading)
  BY <1>1, TailShrinks, SameQueues DEF RefsInv, Shape, Counted
<1>4. Shape'
  BY <1>1, <1>3 DEF RefsInv, Shape
<1>a. pc[w] \notin CloseLabels \union EndingLabels /\ pc'[w] \notin CloseLabels \union EndingLabels
  BY <1>1, <1>2 DEF CloseLabels, EndingLabels
<1>5. Closing'
  BY <1>1, <1>2, <1>a, StaysOutside
<1>6. \A v \in Workers : Ends(v)' <=> Ends(v)
  BY <1>1, <1>2, <1>a, StaysOutside
<1>7. Ending1'
  BY <1>1, <1>6 DEF RefsInv, Ending1
<1>8. Counted'
  <2>1. Busy' = Busy \union {w} /\ w \notin Busy /\ Callers' = Callers
    BY <1>1, <1>2 DEF Busy, Callers, Procs
  <2>2. Cardinality(Busy') = Cardinality(Busy) + 1
    BY <2>1, InsideFinite, OneMoreInside
  <2>3. Items' = Items - 1
    BY <1>1, <1>3, Sizes DEF Items
  <2>4. FinalRef' = FinalRef
    BY <1>1 DEF FinalRef, Closed
  <2>5. /\ refs' = refs /\ refs \in Nat /\ Items \in Nat /\ FinalRef \in Nat
        /\ Cardinality(Busy) \in Nat /\ Cardinality(Callers) \in Nat
    BY <1>1, Sizes
  <2>6. refs' - refs = (FinalRef' - FinalRef) + (Items' - Items)
                       + (Cardinality(Busy') - Cardinality(Busy))
                       + (Cardinality(Callers') - Cardinality(Callers))
    BY <2>1, <2>2, <2>3, <2>4, <2>5
  <2>7. QED
    BY <1>3, <1>4, <2>5, <2>6, Recount
<1>9. Notified'
  BY <1>1, <1>6 DEF RefsInv, Notified, EndNotifiedOnce
<1>10. QED
  BY <1>4, <1>5, <1>7, <1>8, <1>9 DEF RefsInv

LEMMA NotesAppend == Append(<<"disconnect">>, "destroy") = <<"disconnect", "destroy">>
<1> DEFINE S == {"disconnect", "destroy"}
           s == <<"disconnect">>
           t == <<"disconnect", "destroy">>
           a == Append(s, "destroy")
<1>1. s \in Seq(S) /\ Len(s) = 1
  OBVIOUS
<1>2. t \in Seq(S) /\ Len(t) = 2 /\ t[1] = "disconnect" /\ t[2] = "destroy"
  OBVIOUS
<1>3. a \in Seq(S) /\ Len(a) = 2 /\ a[1] = "disconnect" /\ a[2] = "destroy"
  BY <1>1, AppendProperties
<1> HIDE DEF S, t, a
<1>4. Len(a) = Len(t) /\ \A i \in 1..Len(a) : a[i] = t[i] 
  BY <1>2, <1>3
<1>5. a = t
  BY <1>2, <1>3, <1>4, SeqEqual
<1>6. QED
  BY <1>5 DEF a, t

\* Giving back a reference notifies the destruction when it was the last.
LEMMA ReleaseNotifies ==
  ASSUME RefsInv, Release, refs >= 1, UNCHANGED flags,
         \A v \in Workers : Ends(v)' <=> Ends(v)
  PROVE  Notified' /\ refs' = refs - 1 /\ refs' \in Nat
<1>1. refs \in Nat /\ refs' = refs - 1 /\ refs' \in Nat
  BY Sizes DEF Release
<1>2. CASE refs = 1
  <2>1. notes' = Append(notes, "destroy") /\ refs' = 0
    BY <1>1, <1>2 DEF Release
  <2>2. notes = <<>> \/ notes = <<"disconnect">>
    BY <1>2 DEF RefsInv, Notified, EndNotifiedOnce
  <2>3. CASE notes = <<>>
    <3>1. notes' = <<"destroy">>
      BY <2>1, <2>3
    <3>2. <<"destroy">> # <<"disconnect">> /\ <<"destroy">> # <<"disconnect", "destroy">>
      OBVIOUS
    <3>3. QED
      BY <1>1, <2>1, <3>1, <3>2 DEF Notified, EndNotifiedOnce
  <2>4. CASE notes = <<"disconnect">>
    <3>1. notes' = <<"disconnect", "destroy">>
      BY <2>1, <2>4, NotesAppend
    <3>2. QED
      BY <1>1, <2>1, <2>4, <3>1 DEF RefsInv, Notified, EndNotifiedOnce
  <2>5. QED
    BY <2>2, <2>3, <2>4
<1>3. CASE refs # 1
  BY <1>1, <1>3 DEF Release, RefsInv, Notified, EndNotifiedOnce
<1>4. QED
  BY <1>1, <1>2, <1>3

LEMMA ReleaseConnKeeps ==
  ASSUME RefsInv, NEW w \in Workers, ReleaseConn(w)
  PROVE  RefsInv'
<1> DEFINE l == IF queued[w] = <<>> THEN "idle" ELSE "start"
<1>1. /\ pc[w] = "release" /\ pc' = [pc EXCEPT ![w] = l] /\ Release
      /\ UNCHANGED <<iocp, kreads, kwrites, flags, closing>>
  BY DEF ReleaseConn, Goto, ioVars
<1>2. /\ w \in Procs /\ w \notin Senders /\ w # App /\ pc'[w] = l
      /\ \A q \in Procs : q # w => pc'[q] = pc[q]
  BY <1>1, ConstantsOK DEF ConstantsOK, Procs, RefsInv, Shape
<1>a. pc[w] \notin CloseLabels \union EndingLabels /\ pc'[w] \notin CloseLabels \union EndingLabels
  BY <1>1, <1>2 DEF CloseLabels, EndingLabels
<1>3. \A v \in Workers : Ends(v)' <=> Ends(v)
  BY <1>1, <1>2, <1>a, StaysOutside
<1>4. refs >= 1
  BY <1>1, Alive
<1>5. Notified' /\ refs' = refs - 1 /\ refs' \in Nat
  BY <1>1, <1>3, <1>4, ReleaseNotifies
<1>6. Closing'
  BY <1>1, <1>2, <1>a, StaysOutside
<1>7. Ending1'
  BY <1>1, <1>3 DEF RefsInv, Ending1
<1>8. FinalRef' = FinalRef
  BY <1>1 DEF FinalRef, Closed
<1>9. CASE queued[w] = <<>>
  <2>1. UNCHANGED queued
    BY <1>9 DEF ReleaseConn
  <2>2. /\ IsSeq(iocp') /\ IsSeq(kreads') /\ IsSeq(kwrites')
        /\ QueueShape' /\ IsFiniteSet(Queued(Reading)') /\ Items' = Items
    BY <1>1, <2>1, SameItems
  <2>3. Shape'
    BY <1>1, <2>2 DEF RefsInv, Shape
  <2>4. Busy' = Busy \ {w} /\ w \in Busy /\ Callers' = Callers
    BY <1>1, <1>2, <1>9 DEF Busy, Callers, Procs
  <2>5. Cardinality(Busy') = Cardinality(Busy) - 1
    BY <2>4, InsideFinite, OneLessInside
  <2>6. Counted'
    BY <1>5, <1>8, <2>2, <2>3, <2>4, <2>5, Recount, Sizes
  <2>7. QED
    BY <1>5, <1>6, <1>7, <2>3, <2>6 DEF RefsInv
<1>10. CASE queued[w] # <<>>
  <2>1. Dequeues(w)
    BY <1>10 DEF ReleaseConn, Dequeues
  <2>2. /\ QueueShape' /\ IsFiniteSet(Queued(Reading)')
        /\ Cardinality(Queued(Reading))' = Cardinality(Queued(Reading)) - 1
    BY <1>10, <2>1, QueuedShrinks DEF RefsInv, Shape, Counted
  <2>3. Items' = Items - 1
    BY <1>1, <2>2, Sizes DEF Items
  <2>4. Shape'
    BY <1>1, <2>2 DEF RefsInv, Shape
  <2>5. Busy' = Busy /\ Callers' = Callers
    BY <1>1, <1>2, <1>10 DEF Busy, Callers, Procs
  <2>6. Counted'
    BY <1>5, <1>8, <2>2, <2>3, <2>4, <2>5, Recount, Sizes
  <2>7. QED
    BY <1>5, <1>6, <1>7, <2>4, <2>6 DEF RefsInv
<1>11. QED
  BY <1>9, <1>10

-----------------------------------------------------------------------------
(* Reporting the end.                                                      *)

LEMMA EndingKeeps ==
  ASSUME RefsInv, NEW w \in Workers,
         EndingWait(w) \/ ((FireEnter(w) \/ FireExit(w)) /\ pc[w] \in Special)
  PROVE  RefsInv'
<1>1. \A h : Ending(h) \in {"release", "end"}
  BY DEF Ending
<1>2. /\ pc[w] \in EndingLabels
      /\ \E l \in EndingLabels \union {"release", "end"} : pc' = [pc EXCEPT ![w] = l]
      /\ UNCHANGED <<refs, iocp, kreads, kwrites, queued, notes, flags, closing>>
  <2>1. CASE EndingWait(w)
    BY <1>1, <2>1 DEF EndingWait, EndingLabels, Goto, connVars, ioVars, appVars
  <2>2. CASE FireEnter(w) /\ pc[w] \in Special
    BY <2>2 DEF FireEnter, EndingLabels, Special, CloseLabels, Goto, connVars, ioVars
  <2>3. CASE FireExit(w) /\ pc[w] \in Special
    BY <2>3 DEF FireExit, EndingLabels, Special, CloseLabels, Goto, ioVars
  <2>4. QED
    BY <2>1, <2>2, <2>3
<1>3. PICK l \in EndingLabels \union {"release", "end"} : pc' = [pc EXCEPT ![w] = l]
  BY <1>2
<1>4. pc[w] # "idle" /\ l # "idle" /\ pc[w] \notin CloseLabels /\ l \notin CloseLabels
  BY <1>2 DEF EndingLabels, CloseLabels
<1>5. /\ Busy' = Busy /\ Callers' = Callers
      /\ w \in Procs /\ w \notin Senders /\ pc'[w] = l
      /\ \A q \in Procs : q # w => pc'[q] = pc[q]
  BY <1>3, <1>4, SameThreads
<1>6. Shape'
  BY <1>2, <1>3, SameItems DEF RefsInv, Shape
<1>7. Closing'
  <2>1. w # App
    BY ConstantsOK DEF ConstantsOK
  <2>2. QED
    BY <1>2, <1>4, <1>5, <2>1, StaysOutside DEF Closed
<1>8. Ends(w) /\ \A v \in Workers : Ends(v)' => Ends(v)
  BY <1>2, <1>4, <1>5 DEF Ends, After, CloseLabels, Procs
<1>9. Ending1'
  BY <1>2, <1>8 DEF RefsInv, Ending1
<1>10. Counted'
  <2>1. FinalRef' = FinalRef
    BY <1>2 DEF FinalRef, Closed
  <2>2. Items' = Items /\ IsFiniteSet(Queued(Reading)')
    BY <1>2, SameItems
  <2>3. QED
    BY <1>2, <1>5, <1>6, <2>1, <2>2, Recount, Sizes
<1>11. Notified'
  BY <1>2, <1>8 DEF RefsInv, Notified, EndNotifiedOnce
<1>12. QED
  BY <1>6, <1>7, <1>9, <1>10, <1>11 DEF RefsInv

LEMMA EndingNotifyKeeps ==
  ASSUME RefsInv, NEW w \in Workers, EndingNotify(w)
  PROVE  RefsInv'
<1> DEFINE l == Ending(hr[w])
<1>1. /\ pc[w] = "sd_disc" /\ pc' = [pc EXCEPT ![w] = l] /\ l \in {"release", "end"}
      /\ notes' = Append(notes, "disconnect")
      /\ UNCHANGED <<refs, iocp, kreads, kwrites, queued, flags, closing>>
  BY DEF EndingNotify, Ending, Goto, connVars, ioVars
<1>2. /\ Busy' = Busy /\ Callers' = Callers
      /\ w \in Procs /\ w \notin Senders /\ pc'[w] = l
      /\ \A q \in Procs : q # w => pc'[q] = pc[q]
  BY <1>1, SameThreads
<1>3. Shape'
  BY <1>1, SameItems DEF RefsInv, Shape
<1>a. pc[w] \notin CloseLabels /\ pc'[w] \notin CloseLabels
  BY <1>1, <1>2 DEF CloseLabels
<1>4. Closing'
  <2>1. w # App
    BY ConstantsOK DEF ConstantsOK
  <2>2. QED
    BY <1>1, <1>2, <1>a, <2>1, StaysOutside
<1>5. Ends(w) /\ ~Ends(w)' /\ \A v \in Workers : v # w => (Ends(v)' <=> Ends(v))
  <2>1. w # App
    BY ConstantsOK DEF ConstantsOK
  <2>2. pc[w] \in EndingLabels /\ pc'[w] \notin EndingLabels
    BY <1>1, <1>2 DEF EndingLabels
  <2>3. QED
    BY <1>1, <1>2, <1>a, <2>1, <2>2, StaysOutside
<1>6. Ending1'
  BY <1>1, <1>5 DEF RefsInv, Ending1
<1>7. Counted'
  <2>1. FinalRef' = FinalRef
    BY <1>1 DEF FinalRef, Closed
  <2>2. Items' = Items /\ IsFiniteSet(Queued(Reading)')
    BY <1>1, SameItems
  <2>3. QED
    BY <1>1, <1>2, <1>3, <2>1, <2>2, Recount, Sizes
<1>8. Notified'
  <2>1. refs # 0 /\ refs' = refs
    BY <1>1, Alive
  <2>2. notes = <<>>
    BY <1>5, <2>1 DEF RefsInv, Notified, EndNotifiedOnce
  <2>3. notes' = <<"disconnect">>
    BY <1>1, <2>2
  <2>4. <<"disconnect">> # <<"destroy">> /\ <<"disconnect">> # <<"disconnect", "destroy">>
    OBVIOUS
  <2>5. \A v \in Workers : ~Ends(v)'
    BY <1>5, <1>6 DEF RefsInv, Ending1
  <2>6. "ShutdownProcessed" \in flags'
    BY <1>1, <1>5 DEF RefsInv, Ending1
  <2>7. QED
    BY <2>1, <2>3, <2>4, <2>5, <2>6 DEF Notified, EndNotifiedOnce
<1>9. QED
  BY <1>3, <1>4, <1>6, <1>7, <1>8 DEF RefsInv

-----------------------------------------------------------------------------
(* The system and the peer.                                                *)

LEMMA CompletionKeeps ==
  ASSUME RefsInv, ReadCompletes \/ WriteCompletes
  PROVE  RefsInv'
<1>1. UNCHANGED <<refs, queued, pc, notes, flags, closing>>
  BY DEF ReadCompletes, WriteCompletes, connVars, procVars, appVars
<1>2. QueueShape' /\ IsFiniteSet(Queued(Reading)') /\ Queued(Reading)' = Queued(Reading)
  BY <1>1, SameQueues DEF RefsInv, Shape, Counted
<1>3. IsSeq(iocp') /\ IsSeq(kreads') /\ IsSeq(kwrites') /\ Items' = Items
  <2>1. \E k : iocp' = Append(iocp, k)
    BY DEF ReadCompletes, WriteCompletes
  <2>2. IsSeq(iocp') /\ Len(iocp') = Len(iocp) + 1
    BY <2>1, AppendGrows DEF RefsInv, Shape
  <2>3. CASE ReadCompletes
    <3>1. IsSeq(kreads') /\ Len(kreads') = Len(kreads) - 1 /\ UNCHANGED kwrites
      BY <2>3, TailShrinks DEF ReadCompletes, RefsInv, Shape
    <3>2. QED
      BY <1>2, <2>2, <3>1, Sizes DEF Items, RefsInv, Shape
  <2>4. CASE WriteCompletes
    <3>1. IsSeq(kwrites') /\ Len(kwrites') = Len(kwrites) - 1 /\ UNCHANGED kreads
      BY <2>4, TailShrinks DEF WriteCompletes, RefsInv, Shape
    <3>2. QED
      BY <1>2, <2>2, <3>1, Sizes DEF Items, RefsInv, Shape
  <2>5. QED
    BY <2>3, <2>4
<1>4. Shape'
  BY <1>1, <1>2, <1>3 DEF RefsInv, Shape
<1>5. Closing'
  BY <1>1 DEF RefsInv, Closing, Closed
<1>6. \A v \in Workers : Ends(v)' <=> Ends(v)
  BY <1>1 DEF Ends, After
<1>7. Ending1'
  BY <1>1, <1>6 DEF RefsInv, Ending1
<1>8. Counted'
  <2>1. FinalRef' = FinalRef /\ Busy' = Busy /\ Callers' = Callers
    BY <1>1 DEF FinalRef, Closed, Busy, Callers
  <2>2. QED
    BY <1>1, <1>2, <1>3, <1>4, <2>1, Recount, Sizes
<1>9. Notified'
  BY <1>1, <1>6 DEF RefsInv, Notified, EndNotifiedOnce
<1>10. QED
  BY <1>4, <1>5, <1>7, <1>8, <1>9 DEF RefsInv

\* The peer, a pause and a stuttering step change nothing of this.
LEMMA OutsideKeeps ==
  ASSUME RefsInv, UNCHANGED <<refs, iocp, kreads, kwrites, queued, pc, notes, closing>>, SameEnd
  PROVE  RefsInv'
<1>1. Shape'
  BY SameItems DEF RefsInv, Shape
<1>2. Closing'
  BY DEF RefsInv, Closing, Closed, SameEnd
<1>3. \A v \in Workers : Ends(v)' <=> Ends(v)
  BY DEF Ends, After
<1>4. Ending1'
  BY <1>3 DEF RefsInv, Ending1, SameEnd
<1>5. Counted'
  <2>1. FinalRef' = FinalRef /\ Busy' = Busy /\ Callers' = Callers
    BY DEF FinalRef, Closed, Busy, Callers, SameEnd
  <2>2. QED
    BY <1>1, <2>1, SameItems, Recount, Sizes
<1>6. Notified'
  BY <1>3 DEF RefsInv, Notified, EndNotifiedOnce, SameEnd
<1>7. QED
  BY <1>1, <1>2, <1>4, <1>5, <1>6 DEF RefsInv

-----------------------------------------------------------------------------
(* The users of the connection.                                            *)

LEMMA SendBeginKeeps ==
  ASSUME RefsInv, NEW s \in Senders, SendBegin(s)
  PROVE  RefsInv'
<1>1. /\ pc[s] = "idle" /\ pc' = [pc EXCEPT ![s] = "posting"]
      /\ refs # 0 /\ refs' = refs + 1
      /\ UNCHANGED <<iocp, kreads, kwrites, queued, notes, flags, closing>>
  BY DEF SendBegin, Destroyed, Goto, ioVars, appVars
<1>2. /\ s \in Procs /\ s \notin Workers /\ s # App /\ pc'[s] = "posting"
      /\ \A q \in Procs : q # s => pc'[q] = pc[q]
  BY <1>1, ConstantsOK DEF ConstantsOK, Procs, RefsInv, Shape
<1>3. Shape'
  BY <1>1, SameItems DEF RefsInv, Shape
<1>a. pc[s] \notin CloseLabels /\ pc'[s] \notin CloseLabels
  BY <1>1, <1>2 DEF CloseLabels
<1>4. Closing'
  BY <1>1, <1>2, <1>a, StaysOutside
<1>5. \A v \in Workers : Ends(v)' <=> Ends(v)
  BY <1>1, <1>2, <1>a, StaysOutside
<1>6. Ending1'
  BY <1>1, <1>5 DEF RefsInv, Ending1
<1>7. Counted'
  <2>1. Callers' = Callers \union {s} /\ s \notin Callers /\ Busy' = Busy
    BY <1>1, <1>2 DEF Busy, Callers, Procs
  <2>2. Cardinality(Callers') = Cardinality(Callers) + 1
    BY <2>1, InsideFinite, OneMoreInside
  <2>3. FinalRef' = FinalRef
    BY <1>1 DEF FinalRef, Closed
  <2>4. Items' = Items /\ IsFiniteSet(Queued(Reading)')
    BY <1>1, SameItems
  <2>5. QED
    BY <1>1, <1>3, <2>1, <2>2, <2>3, <2>4, Recount, Sizes
<1>8. Notified'
  BY <1>1, <1>5, Sizes DEF RefsInv, Notified, EndNotifiedOnce
<1>9. QED
  BY <1>3, <1>4, <1>6, <1>7, <1>8 DEF RefsInv

LEMMA SendPostKeeps ==
  ASSUME RefsInv, NEW s \in Senders, SendPost(s)
  PROVE  RefsInv'
<1>1. /\ pc[s] = "posting" /\ pc' = [pc EXCEPT ![s] = "idle"]
      /\ \E k : iocp' = Append(iocp, k)
      /\ UNCHANGED <<refs, kreads, kwrites, queued, notes, flags, closing>>
  BY DEF SendPost, Goto, connVars, appVars
<1>2. /\ s \in Procs /\ s \notin Workers /\ s # App /\ pc'[s] = "idle"
      /\ \A q \in Procs : q # s => pc'[q] = pc[q]
  BY <1>1, ConstantsOK DEF ConstantsOK, Procs, RefsInv, Shape
<1>3. /\ IsSeq(iocp') /\ Len(iocp') = Len(iocp) + 1
      /\ QueueShape' /\ IsFiniteSet(Queued(Reading)') /\ Queued(Reading)' = Queued(Reading)
  BY <1>1, AppendGrows, SameQueues DEF RefsInv, Shape, Counted
<1>4. Shape'
  BY <1>1, <1>3 DEF RefsInv, Shape
<1>a. pc[s] \notin CloseLabels /\ pc'[s] \notin CloseLabels
  BY <1>1, <1>2 DEF CloseLabels
<1>5. Closing'
  BY <1>1, <1>2, <1>a, StaysOutside
<1>6. \A v \in Workers : Ends(v)' <=> Ends(v)
  BY <1>1, <1>2, <1>a, StaysOutside
<1>7. Ending1'
  BY <1>1, <1>6 DEF RefsInv, Ending1
<1>8. Counted'
  <2>1. Callers' = Callers \ {s} /\ s \in Callers /\ Busy' = Busy
    BY <1>1, <1>2 DEF Busy, Callers, Procs
  <2>2. Cardinality(Callers') = Cardinality(Callers) - 1
    BY <2>1, InsideFinite, OneLessInside
  <2>3. FinalRef' = FinalRef
    BY <1>1 DEF FinalRef, Closed
  <2>4. Items' = Items + 1
    BY <1>1, <1>3, Sizes DEF Items
  <2>5. QED
    BY <1>1, <1>3, <1>4, <2>1, <2>2, <2>3, <2>4, Recount, Sizes
<1>9. Notified'
  BY <1>1, <1>6 DEF RefsInv, Notified, EndNotifiedOnce
<1>10. QED
  BY <1>4, <1>5, <1>7, <1>8, <1>9 DEF RefsInv

LEMMA ResumeKeeps ==
  ASSUME RefsInv, NEW f \in Pausable, Resume(f)
  PROVE  RefsInv'
<1>1. /\ refs # 0 /\ refs' = refs + 1
      /\ \E k : iocp' = Append(iocp, k)
      /\ UNCHANGED <<kreads, kwrites, queued, notes, pc, closing>>
  BY DEF Resume, Destroyed, procVars, appVars
<1>2. SameEnd
  BY ConstantsOK DEF ConstantsOK, Resume, SameEnd
<1>3. /\ IsSeq(iocp') /\ Len(iocp') = Len(iocp) + 1
      /\ QueueShape' /\ IsFiniteSet(Queued(Reading)') /\ Queued(Reading)' = Queued(Reading)
  BY <1>1, AppendGrows, SameQueues DEF RefsInv, Shape, Counted
<1>4. Shape'
  BY <1>1, <1>3 DEF RefsInv, Shape
<1>5. Closing'
  BY <1>1, <1>2 DEF RefsInv, Closing, Closed, SameEnd
<1>6. \A v \in Workers : Ends(v)' <=> Ends(v)
  BY <1>1 DEF Ends, After
<1>7. Ending1'
  BY <1>2, <1>6 DEF RefsInv, Ending1, SameEnd
<1>8. Counted'
  <2>1. Callers' = Callers /\ Busy' = Busy
    BY <1>1 DEF Busy, Callers
  <2>2. FinalRef' = FinalRef
    BY <1>1, <1>2 DEF FinalRef, Closed, SameEnd
  <2>3. Items' = Items + 1
    BY <1>1, <1>3, Sizes DEF Items
  <2>4. QED
    BY <1>1, <1>3, <1>4, <2>1, <2>2, <2>3, Recount, Sizes
<1>9. Notified'
  BY <1>1, <1>2, <1>6, Sizes DEF RefsInv, Notified, EndNotifiedOnce, SameEnd
<1>10. QED
  BY <1>4, <1>5, <1>7, <1>8, <1>9 DEF RefsInv

LEMMA AppCloseKeeps ==
  ASSUME RefsInv, AppClose
  PROVE  RefsInv'
<1>1. /\ pc[App] = "idle" /\ pc' = [pc EXCEPT ![App] = "close"]
      /\ refs # 0 /\ refs' = refs + 1
      /\ \E h : closing' = [closing EXCEPT ![App] = [NoClose EXCEPT !.hr = h, !.ret = "app_rel"]]
      /\ UNCHANGED <<iocp, kreads, kwrites, queued, notes, flags>>
  BY DEF AppClose, CallClose, Destroyed, Goto, ioVars, appVars
<1>2. /\ App \in Procs /\ App \notin Workers /\ App \notin Senders /\ pc'[App] = "close"
      /\ \A q \in Procs : q # App => pc'[q] = pc[q] /\ closing'[q] = closing[q]
      /\ closing'[App].ret = "app_rel" /\ ~closing'[App].first /\ ClosingRecord(closing'[App])
  <2>1. /\ App \in Procs /\ App \notin Workers /\ App \notin Senders
        /\ pc = [q \in Procs |-> pc[q]] /\ closing = [q \in Procs |-> closing[q]]
    BY ConstantsOK DEF ConstantsOK, Procs, RefsInv, Shape
  <2>2. PICK h : closing' = [closing EXCEPT ![App] = [NoClose EXCEPT !.hr = h, !.ret = "app_rel"]]
    BY <1>1
  <2> DEFINE c == [NoClose EXCEPT !.hr = h, !.ret = "app_rel"]
  <2>3. c.ret = "app_rel" /\ ~c.first /\ ClosingRecord(c)
    BY NewCall
  <2>4. closing' = [closing EXCEPT ![App] = c]
    BY <2>2
  <2> HIDE DEF c
  <2>5. QED
    BY <1>1, <2>1, <2>3, <2>4
<1>3. Shape'
  BY <1>1, SameItems DEF RefsInv, Shape
<1>4. ~closing[App].first
  BY <1>1, <1>2 DEF RefsInv, Closing, FirstLabels
<1>5. Closing'
  <2>1. /\ Senders \subseteq Procs /\ Workers \subseteq Procs /\ Closed' = Closed
        /\ "close" \in CloseLabels
    BY <1>1 DEF Procs, Closed, CloseLabels
  <2>2. \A q \in Procs : q # App => pc'[q] = pc[q] /\ closing'[q] = closing[q]
    BY <1>2
  <2>3. /\ \A s \in Senders : pc'[s] \in {"idle", "posting"}
        /\ \A w \in Workers : pc'[w] \in CloseLabels => closing'[w].ret \in CloseReturns \union DecReturns
    BY <1>2, <2>1, <2>2 DEF RefsInv, Closing
  <2>4. \A q \in Procs : /\ ClosingRecord(closing'[q])
                         /\ closing'[q].first => Closed /\ pc'[q] \in FirstLabels
                         /\ pc'[q] = "close_rel" => closing'[q].first
    BY <1>2, <2>2 DEF RefsInv, Closing
  <2>5. \A q, r \in Procs : closing'[q].first /\ closing'[r].first => q = r
    BY <1>2, <2>2 DEF RefsInv, Closing
  <2>6. QED
    BY <1>2, <2>1, <2>3, <2>4, <2>5 DEF Closing
<1>6. \A v \in Workers : Ends(v)' <=> Ends(v)
  <2>1. \A v \in Workers : pc'[v] = pc[v] /\ closing'[v] = closing[v]
    BY <1>2 DEF Procs
  <2>2. QED
    BY <2>1 DEF Ends, After
<1>7. Ending1'
  BY <1>1, <1>6 DEF RefsInv, Ending1
<1>8. Counted'
  <2>1. Callers' = Callers \union {App} /\ App \notin Callers /\ Busy' = Busy
    BY <1>1, <1>2 DEF Busy, Callers, Procs
  <2>2. Cardinality(Callers') = Cardinality(Callers) + 1
    BY <2>1, InsideFinite, OneMoreInside
  <2>3. FinalRef' = FinalRef
    BY <1>1, <1>2, <1>4 DEF FinalRef, Closed
  <2>4. Items' = Items /\ IsFiniteSet(Queued(Reading)')
    BY <1>1, SameItems
  <2>5. QED
    BY <1>1, <1>3, <2>1, <2>2, <2>3, <2>4, Recount, Sizes
<1>9. Notified'
  BY <1>1, <1>6, Sizes DEF RefsInv, Notified, EndNotifiedOnce
<1>10. QED
  BY <1>3, <1>5, <1>7, <1>8, <1>9 DEF RefsInv

LEMMA AppReleaseKeeps ==
  ASSUME RefsInv, AppRelease
  PROVE  RefsInv'
<1>1. /\ pc[App] = "app_rel" /\ pc' = [pc EXCEPT ![App] = "idle"] /\ Release
      /\ UNCHANGED <<iocp, kreads, kwrites, queued, flags, closing>>
  BY DEF AppRelease, Goto, ioVars
<1>2. /\ App \in Procs /\ App \notin Workers /\ App \notin Senders /\ pc'[App] = "idle"
      /\ \A q \in Procs : q # App => pc'[q] = pc[q]
  BY <1>1, ConstantsOK DEF ConstantsOK, Procs, RefsInv, Shape
<1>a. pc[App] \notin CloseLabels /\ pc'[App] \notin CloseLabels
  BY <1>1, <1>2 DEF CloseLabels
<1>3. \A v \in Workers : Ends(v)' <=> Ends(v)
  BY <1>1, <1>2, <1>a, StaysOutside
<1>4. refs >= 1
  BY <1>1, Alive
<1>5. Notified' /\ refs' = refs - 1 /\ refs' \in Nat
  BY <1>1, <1>3, <1>4, ReleaseNotifies
<1>6. Shape'
  BY <1>1, SameItems DEF RefsInv, Shape
<1>7. Closing'
  BY <1>1, <1>2, <1>a, StaysOutside
<1>8. Ending1'
  BY <1>1, <1>3 DEF RefsInv, Ending1
<1>9. Counted'
  <2>1. Callers' = Callers \ {App} /\ App \in Callers /\ Busy' = Busy
    BY <1>1, <1>2 DEF Busy, Callers, Procs
  <2>2. Cardinality(Callers') = Cardinality(Callers) - 1
    BY <2>1, InsideFinite, OneLessInside
  <2>3. FinalRef' = FinalRef
    BY <1>1 DEF FinalRef, Closed
  <2>4. Items' = Items /\ IsFiniteSet(Queued(Reading)')
    BY <1>1, SameItems
  <2>5. QED
    BY <1>5, <1>6, <2>1, <2>2, <2>3, <2>4, Recount, Sizes
<1>10. QED
  BY <1>5, <1>6, <1>7, <1>8, <1>9 DEF RefsInv

-----------------------------------------------------------------------------
(* The invariant and the theorems.                                         *)

LEMMA RefsInit == Init => RefsInv
<1> SUFFICES ASSUME Init PROVE RefsInv
  OBVIOUS
<1> USE DEF Init
<1>1. /\ \A w \in Workers : queued[w] = <<>> /\ pc[w] = "idle"
      /\ \A p \in Procs : pc[p] = "idle" /\ closing[p] = NoClose
      /\ Workers \subseteq Procs /\ Senders \subseteq Procs /\ App \in Procs
  BY DEF Procs
<1>2. IsSeq(iocp) /\ Len(iocp) = 1
  <2>1. iocp \in Seq({Packet("InitialSetup", 0, 0, "ok")})
    OBVIOUS
  <2>2. QED
    BY <2>1 DEF IsSeq
<1>3. QueueShape
  BY <1>1, EmptyIsSeq, SeqLength DEF QueueShape, ReadQueue
<1>4. Shape
  BY <1>2, <1>3, EmptyIsSeq DEF Shape
<1>5. Closing
  <2>1. ClosingRecord(NoClose) /\ ~NoClose.first
    BY DEF ClosingRecord, NoClose
  <2>2. "idle" \notin CloseLabels /\ "close_rel" # "idle"
    BY DEF CloseLabels
  <2> HIDE DEF Init
  <2>3. QED
    BY <1>1, <2>1, <2>2 DEF Closing
<1>6. \A w \in Workers : ~Ends(w)
  BY <1>1 DEF Ends, After, EndingLabels, CloseLabels
<1>7. Ending1
  BY <1>6 DEF Ending1
<1>8. Counted
  <2>1. Queued(Reading) = {}
    BY <1>1 DEF Queued, OfType
  <2>2. Busy = {} /\ Callers = {}
    BY <1>1 DEF Busy, Callers
  <2>3. FinalRef = 1
    BY <1>1 DEF FinalRef, Closed, NoClose
  <2>4. IsFiniteSet({}) /\ Cardinality({}) = 0
    BY FS_EmptySet
  <2>5. Len(kreads) = 0 /\ Len(kwrites) = 0
    BY EmptyIsSeq
  <2>6. refs = FinalRef + Len(iocp) + Len(kreads) + Len(kwrites)
          + Cardinality(Queued(Reading)) + Cardinality(Busy) + Cardinality(Callers)
    BY <1>2, <2>1, <2>2, <2>3, <2>4, <2>5
  <2>7. QED
    BY <2>1, <2>4, <2>6 DEF Counted, RefsExact, FinalRef, Callers
<1>9. Notified
  BY <1>6 DEF Notified, EndNotifiedOnce
<1>10. QED
  BY <1>4, <1>5, <1>7, <1>8, <1>9 DEF RefsInv

LEMMA HandleKeeps ==
  ASSUME RefsInv, NEW w \in Workers, Handle(w)
  PROVE  RefsInv'
<1>1. CASE Start(w)
  BY <1>1, StartKeeps
<1>2. CASE CloseStep(w) \/ DecClosed(w)
  BY <1>2, CloseKeeps
<1>3. CASE \/ InCheck(w) \/ InTake(w) \/ InWrite(w) \/ ReadNext(w) \/ ReadIssue(w)
           \/ ReadAgain(w) \/ ReadDone(w) \/ ResumeLoop(w)
  BY <1>3, InputIsLocal, LocalKeeps
<1>4. CASE \/ OutEnter(w) \/ OutLoop(w) \/ OutTake(w) \/ OutData(w) \/ OutSignal(w) \/ OutRequeue(w)
           \/ OutRecheck(w) \/ OutStream(w) \/ OutDrop(w) \/ OutNext(w) \/ OutExit(w) \/ WriteDone(w)
  BY <1>4, OutputIsLocal, LocalKeeps, OutputDecrements
<1>5. CASE Post(w)
  BY <1>5, PostIsLocal, LocalKeeps
<1>6. CASE PostEnding(w)
  BY <1>6, PostEndingKeeps
<1>7. CASE FireEnter(w) \/ FireExit(w)
  BY <1>7, PostIsLocal, LocalKeeps, EndingKeeps
<1>8. CASE EndingWait(w) \/ EndingNotify(w)
  BY <1>8, EndingKeeps, EndingNotifyKeeps
<1>9. CASE EndPacket(w) \/ ReleaseConn(w)
  BY <1>9, EndPacketKeeps, ReleaseConnKeeps
<1>10. QED
  BY <1>1, <1>2, <1>3, <1>4, <1>5, <1>6, <1>7, <1>8, <1>9 DEF Handle

LEMMA RefsStep == RefsInv /\ [Next]_vars => RefsInv'
<1> SUFFICES ASSUME RefsInv, [Next]_vars PROVE RefsInv'
  OBVIOUS
<1>1. CASE \E w \in Workers : Worker(w)
  BY <1>1, DispatchKeeps, HandleKeeps DEF Worker
<1>2. CASE \E s \in Senders : SendBegin(s) \/ SendPost(s)
  BY <1>2, SendBeginKeeps, SendPostKeeps
<1>3. CASE \E f \in Pausable : Pause(f)
  <2>1. SameEnd
    BY <1>3, ConstantsOK DEF ConstantsOK, Pause, SameEnd
  <2>2. UNCHANGED <<refs, iocp, kreads, kwrites, queued, pc, notes, closing>>
    BY <1>3 DEF Pause, ioVars, procVars
  <2>3. QED
    BY <2>1, <2>2, OutsideKeeps
<1>4. CASE \E f \in Pausable : Resume(f)
  BY <1>4, ResumeKeeps
<1>5. CASE AppClose
  BY <1>5, AppCloseKeeps
<1>6. CASE AppStep
  BY <1>6, CloseKeeps, AppReleaseKeeps DEF AppStep
<1>7. CASE ReadCompletes \/ WriteCompletes
  BY <1>7, CompletionKeeps
<1>8. CASE PeerSends \/ PeerCloses \/ UNCHANGED vars
  <2>1. UNCHANGED <<refs, iocp, kreads, kwrites, queued, pc, notes, closing, flags>>
    BY <1>8 DEF PeerSends, PeerCloses, vars, connVars, ioVars, procVars, appVars
  <2>2. QED
    BY <2>1, OutsideKeeps DEF SameEnd
<1>9. QED
  BY <1>1, <1>2, <1>3, <1>4, <1>5, <1>6, <1>7, <1>8 DEF Next

\* Every reachable state of the connection satisfies the invariant above: who
\* is where in the handlers, in Close and at the end, and what each is owed.
THEOREM RefsInvariant == Spec => []RefsInv
<1>1. QED
  BY RefsInit, RefsStep, PTL DEF Spec

\* However the workers, the senders, the application and the completions
\* interleave, the reference count is exactly what is owed (AddRef and Release
\* of SendMsg, DoRead, DoWrite, OnDispatcherPacket and Close).
THEOREM ReferencesAreExact == Spec => []RefsExact
<1>1. RefsInv => RefsExact
  BY DEF RefsInv, Counted
<1>2. QED
  BY <1>1, RefsInvariant, PTL

\* The user is told of the disconnection and of the destruction once each, and
\* of the disconnection first (FLAG_ShutdownProcessed, the final reference).
THEOREM EndIsNotifiedOnce == Spec => []EndNotifiedOnce
<1>1. RefsInv => EndNotifiedOnce
  BY DEF RefsInv, Notified
<1>2. QED
  BY <1>1, RefsInvariant, PTL

\* A destroyed connection is out of reach: no packet of it is in the completion
\* port, no operation is pending, no thread is inside and none ever enters, so
\* the destructor never runs while the object is used.
Unreachable ==
  /\ iocp = <<>> /\ kreads = <<>> /\ kwrites = <<>>
  /\ \A w \in Workers : pc[w] = "idle" /\ queued[w] = <<>>
  /\ \A p \in Senders \union {App} : pc[p] = "idle"

THEOREM DestroyedIsUnreachable == Spec => [](Destroyed => Unreachable)
<1>1. ASSUME RefsInv, Destroyed PROVE Unreachable
  <2>1. /\ Len(iocp) = 0 /\ Len(kreads) = 0 /\ Len(kwrites) = 0
        /\ Cardinality(Queued(Reading)) = 0 /\ Cardinality(Busy) = 0 /\ Cardinality(Callers) = 0
    BY <1>1, Sizes DEF Destroyed, Items
  <2>2. \A s : IsSeq(s) /\ Len(s) = 0 => s = <<>>
    BY EmptySeq DEF IsSeq
  <2>3. iocp = <<>> /\ kreads = <<>> /\ kwrites = <<>>
    BY <1>1, <2>1, <2>2 DEF RefsInv, Shape
  <2>4. Busy = {} /\ Callers = {} /\ Queued(Reading) = {}
    BY <1>1, <2>1, InsideFinite, FS_EmptySet DEF RefsInv, Counted
  <2>5. \A w \in Workers : queued[w] = <<>>
    <3>1. Queued(Reading) = ReadPairs(queued) /\ \A w \in Workers : ReadQueue(queued[w])
      BY <1>1 DEF Queued, ReadPairs, RefsInv, Shape, QueueShape
    <3>2. \A x : x \in ReadPairs(queued) <=>
                 \E w \in Workers : \E i \in 1..Len(queued[w]) : x = <<w, i>>
      BY <3>1, QueuedPairs
    <3>3. \A w \in Workers : \A i \in 1..Len(queued[w]) : FALSE
      BY <2>4, <3>1, <3>2
    <3>4. \A w \in Workers : Len(queued[w]) \in Nat /\ IsSeq(queued[w])
      BY <3>1, SeqLength DEF ReadQueue
    <3>5. QED
      BY <2>2, <3>3, <3>4
  <2>6. QED
    BY <2>3, <2>4, <2>5 DEF Unreachable, Busy, Callers
<1>2. QED
  BY <1>1, RefsInvariant, PTL

-----------------------------------------------------------------------------
(* The outstanding reads and writes.                                       *)

Writing == {"WriteRequest", "Write"}
PacketTypes == {"InitialSetup", "ZeroRead", "Read", "WriteRequest", "Write", "Resume"}

IsPacket(x) == x = [type |-> x.type, order |-> x.order, data |-> x.data, hr |-> x.hr]

PacketShape ==
  /\ cur = [p \in Procs |-> cur[p]]
  /\ \A p \in Procs : IsPacket(cur[p])
  /\ \A i \in DOMAIN iocp : IsPacket(iocp[i]) /\ iocp[i].type \in PacketTypes
  /\ \A w \in Workers : \A i \in DOMAIN queued[w] : IsPacket(queued[w][i])
  /\ \A i \in DOMAIN kreads : kreads[i].type \in Reading
  /\ IsSeq(pendingWrites)

\* Which packets are handled at a label.
FlowAt(l, t) ==
  /\ l = "idle" => t = "none"
  /\ l = "start" => t \in PacketTypes
  /\ l \in {"in_check", "r_again"} => t = "Read"
  /\ l = "r_dec" => t \in Reading
  /\ l \in {"rd", "rd_io"} => t \in {"InitialSetup", "ZeroRead", "Read", "Resume"}
  /\ l = "rs_loop" => t = "Resume"
  /\ l \in {"in_loop", "in_write"} => t \in {"Read", "Resume"}
  /\ l \in {"out_enter", "out_loop", "out_deq", "out_data", "out_sig", "out_req", "out_recheck",
            "out_strm", "out_drop", "out_next", "out_exit"} =>
       t \in {"Read", "WriteRequest", "Write", "Resume"}
  /\ l = "w_dec" => t = "Write"
  /\ l # "posting"

Flow == \A w \in Workers : FlowAt(After(w), cur[w].type)

-----------------------------------------------------------------------------
(* What is counted.                                                        *)

One(b) == IF b THEN 1 ELSE 0

ReadItems  == Len(kreads) + Cardinality(OfType(iocp, Reading)) + Cardinality(Queued(Reading))
WriteItems == Len(pendingWrites) + Len(kwrites) + Cardinality(OfType(iocp, Writing))

Readers  == {w \in Busy : cur[w].type \in Reading /\ ~Posted(w)}
Askers   == Starting({"WriteRequest"})
Writers  == {w \in Workers : cur[w].type = "Write" /\ ~Posted(w)}
Chainers == {w \in Workers : InOutgoing(w)}
Holders  == {w \in Workers : Holding(w)}

ReadWeight(w)  == One(w \in Readers)
WriteWeight(w) == One(w \in Askers) + One(w \in Writers) + One(w \in Chainers) + One(w \in Holders)

OutInv ==
  /\ PacketShape
  /\ Flow
  /\ IsFiniteSet(OfType(iocp, Reading)) /\ IsFiniteSet(OfType(iocp, Writing))
  /\ OutstandingExact

-----------------------------------------------------------------------------
(* Sets and sequences.                                                     *)

LEMMA OneIsNat == \A b : One(b) \in {0, 1}
BY DEF One

\* Only w enters or leaves the set.
LEMMA CardinalityByOne ==
  ASSUME NEW S, NEW T, NEW w, IsFiniteSet(S), \A v : v # w => (v \in S <=> v \in T)
  PROVE  /\ IsFiniteSet(T)
         /\ Cardinality(S) \in Nat /\ Cardinality(T) \in Nat
         /\ Cardinality(T) - Cardinality(S) = One(w \in T) - One(w \in S)
<1>1. Cardinality(S) \in Nat
  BY FS_CardinalityType
<1>2. CASE w \in S /\ w \notin T
  <2>1. T = S \ {w}
    BY <1>2
  <2>2. QED
    <3>1. IsFiniteSet(T) /\ Cardinality(T) = Cardinality(S) - 1
      BY <1>2, <2>1, FS_RemoveElement
    <3>2. Cardinality(T) \in Nat
      BY <3>1, FS_CardinalityType
    <3>3. QED
      BY <1>1, <1>2, <3>1, <3>2 DEF One
<1>3. CASE w \notin S /\ w \in T
  <2>1. T = S \union {w}
    BY <1>3
  <2>2. QED
    BY <1>1, <1>3, <2>1, FS_AddElement DEF One
<1>4. CASE w \in S <=> w \in T
  <2>1. T = S
    BY <1>4
  <2>2. QED
    BY <1>1, <2>1 DEF One
<1>5. QED
  BY <1>2, <1>3, <1>4

LEMMA OfTypeFinite ==
  ASSUME NEW s, NEW T, IsSeq(s)
  PROVE  IsFiniteSet(OfType(s, T)) /\ Cardinality(OfType(s, T)) \in Nat
<1>1. OfType(s, T) \subseteq 1..Len(s) /\ Len(s) \in Nat
  BY SeqLength DEF OfType
<1>2. IsFiniteSet(1..Len(s))
  BY <1>1, FS_Interval
<1>3. IsFiniteSet(OfType(s, T))
  BY <1>1, <1>2, FS_Subset
<1>4. QED
  BY <1>3, FS_CardinalityType

LEMMA OfTypeAppend ==
  ASSUME NEW s, NEW T, NEW k, IsSeq(s)
  PROVE  Cardinality(OfType(Append(s, k), T)) = Cardinality(OfType(s, T)) + One(k.type \in T)
<1> DEFINE n == Len(s) + 1
           r == Append(s, k)
<1>1. /\ IsSeq(r) /\ DOMAIN s = 1..Len(s) /\ DOMAIN r = 1..n /\ Len(s) \in Nat
      /\ \A i \in 1..Len(s) : r[i] = s[i]
      /\ r[n] = k
  BY AppendGrows
<1>2. n \notin OfType(s, T) /\ (n \in OfType(r, T) <=> k.type \in T)
  BY <1>1 DEF OfType
<1>3. \A i : i # n => (i \in OfType(s, T) <=> i \in OfType(r, T))
  BY <1>1 DEF OfType
<1>4. Cardinality(OfType(r, T)) - Cardinality(OfType(s, T)) = One(n \in OfType(r, T)) - One(n \in OfType(s, T))
  BY <1>3, OfTypeFinite, CardinalityByOne
<1>5. Cardinality(OfType(r, T)) \in Nat /\ Cardinality(OfType(s, T)) \in Nat
  BY <1>1, OfTypeFinite
<1>6. QED
  BY <1>2, <1>4, <1>5 DEF One

LEMMA OfTypeTail ==
  ASSUME NEW s, NEW T, IsSeq(s), s # <<>>
  PROVE  Cardinality(OfType(Tail(s), T)) = Cardinality(OfType(s, T)) - One(Head(s).type \in T)
<1> DEFINE r == Tail(s)
           A == OfType(r, T)
           B == OfType(s, T) \ {1}
           f == [i \in A |-> i + 1]
<1>1. /\ IsSeq(r) /\ DOMAIN s = 1..Len(s) /\ DOMAIN r = 1..(Len(s) - 1) /\ Len(s) \in Nat \ {0}
      /\ \A i \in 1..(Len(s) - 1) : r[i] = s[i + 1]
      /\ Head(s) = s[1]
  BY TailShrinks
<1>2. \A i \in A : i \in Nat /\ i + 1 \in B
  BY <1>1 DEF OfType
<1>3. \A j \in B : j - 1 \in A /\ j \in Nat
  BY <1>1 DEF OfType
<1>4. f \in Bijection(A, B)
  <2>1. f \in [A -> B]
    BY <1>2
  <2>2. \A i, j \in A : f[i] = f[j] => i = j
    BY <1>2
  <2>3. \A j \in B : \E i \in A : f[i] = j
    <3>1. SUFFICES ASSUME NEW j \in B PROVE f[j - 1] = j /\ j - 1 \in A
      OBVIOUS
    <3>2. QED
      BY <1>3
  <2>4. QED
    BY <2>1, <2>2, <2>3 DEF Bijection, Injection, Surjection, IsInjective
<1>5. Cardinality(A) = Cardinality(B)
  BY <1>1, <1>4, OfTypeFinite, FS_Bijection DEF ExistsBijection
<1>6. IsFiniteSet(OfType(s, T)) /\ Cardinality(OfType(s, T)) \in Nat
  BY OfTypeFinite
<1>7. Cardinality(B) = Cardinality(OfType(s, T)) - One(1 \in OfType(s, T))
  BY <1>6, FS_RemoveElement DEF One
<1>8. 1 \in OfType(s, T) <=> Head(s).type \in T
  BY <1>1 DEF OfType
<1>9. QED
  BY <1>5, <1>7, <1>8 DEF One

LEMMA QueueSortedLength ==
  ASSUME NEW s, NEW x, IsSeq(s)
  PROVE  IsSeq(QueueSorted(s, x)) /\ Len(QueueSorted(s, x)) = Len(s) + 1
<1> DEFINE J == {j \in DOMAIN s : s[j].order < x.order}
           b == Cardinality(J)
<1>1. Len(s) \in Nat /\ J \subseteq 1..Len(s)
  BY SeqLength
<1>2. b \in 0..Len(s)
  <2> Len(s) \in Nat
    BY <1>1
  <2>1. IsFiniteSet(1..Len(s)) /\ Cardinality(1..Len(s)) = Len(s)
    BY FS_Interval
  <2>2. IsFiniteSet(J) /\ b <= Len(s)
    BY <1>1, <2>1, FS_Subset
  <2>3. b \in Nat
    BY <2>2, FS_CardinalityType
  <2>4. QED
    BY <1>1, <2>2, <2>3
<1> HIDE DEF b
<1>3. PICK S : s \in Seq(S)
  BY DEF IsSeq
<1> DEFINE U == S \union {x}
           head == SubSeq(s, 1, b)
           tail == SubSeq(s, b + 1, Len(s))
<1>4. s \in Seq(U) /\ <<x>> \in Seq(U) /\ Len(<<x>>) = 1
  BY <1>3
<1>5. head \in Seq(U) /\ Len(head) = b
  BY <1>1, <1>2, <1>4
<1>6. tail \in Seq(U) /\ Len(tail) = Len(s) - b
  BY <1>1, <1>2, <1>4
<1> HIDE DEF U, head, tail
<1>7. head \o <<x>> \in Seq(U) /\ Len(head \o <<x>>) = b + 1
  BY <1>4, <1>5, ConcatProperties
<1> DEFINE front == head \o <<x>>
<1> HIDE DEF front
<1>8. front \o tail \in Seq(U) /\ Len(front \o tail) = Len(s) + 1
  <2>1. front \in Seq(U) /\ Len(front) = b + 1
    BY <1>7 DEF front
  <2>2. front \o tail \in Seq(U) /\ Len(front \o tail) = Len(front) + Len(tail)
    BY <1>6, <2>1, ConcatProperties
  <2>3. QED
    BY <1>1, <1>2, <1>6, <2>1, <2>2
<1>9. QueueSorted(s, x) = front \o tail
  BY DEF QueueSorted, b, head, tail, front
<1>10. QED
  BY <1>8, <1>9 DEF IsSeq

-----------------------------------------------------------------------------
(* How much a worker counts, by its label and the type of its packet.      *)

PostedAt(l)   == l \in {"post", "post2", "post_fire", "firing", "sd_wait", "sd_fire", "sd_firing",
                        "sd_disc", "end", "release"}
HoldingAt(l)  == l \in {"out_data", "out_sig", "out_req", "out_strm", "out_drop", "out_next"}
OutgoingAt(l) == HoldingAt(l) \/ l \in {"out_loop", "out_deq", "out_recheck", "out_exit"}

ReadWeightAt(l, t)  == One(l # "idle" /\ t \in Reading /\ ~PostedAt(l))
WriteWeightAt(l, t) == One(l = "start" /\ t = "WriteRequest") + One(t = "Write" /\ ~PostedAt(l))
                         + One(OutgoingAt(l)) + One(HoldingAt(l))

LEMMA WeightsAt ==
  RefsInv => \A w \in Workers :
    /\ ReadWeight(w) = ReadWeightAt(After(w), cur[w].type)
    /\ WriteWeight(w) = WriteWeightAt(After(w), cur[w].type)
<1> SUFFICES ASSUME RefsInv, NEW w \in Workers
             PROVE  /\ ReadWeight(w) = ReadWeightAt(After(w), cur[w].type)
                    /\ WriteWeight(w) = WriteWeightAt(After(w), cur[w].type)
  OBVIOUS
<1>1. /\ pc[w] \in CloseLabels => After(w) \in CloseReturns \union DecReturns
      /\ pc[w] \notin CloseLabels => After(w) = pc[w]
  BY DEF RefsInv, Closing, After
<1>2. /\ pc[w] = "idle" <=> After(w) = "idle"
      /\ pc[w] = "start" <=> After(w) = "start"
      /\ Holding(w) <=> HoldingAt(After(w))
      /\ InOutgoing(w) <=> OutgoingAt(After(w))
  BY <1>1 DEF Holding, HoldingAt, InOutgoing, OutgoingAt, CloseLabels, CloseReturns, DecReturns
<1>3. Posted(w) <=> PostedAt(After(w))
  BY DEF Posted, PostedAt
<1>4. (w \in Readers) <=> (After(w) # "idle" /\ cur[w].type \in Reading /\ ~PostedAt(After(w)))
  BY <1>2, <1>3 DEF Readers, Busy
<1>5. /\ (w \in Askers) <=> (After(w) = "start" /\ cur[w].type = "WriteRequest")
      /\ (w \in Writers) <=> (cur[w].type = "Write" /\ ~PostedAt(After(w)))
      /\ (w \in Chainers) <=> OutgoingAt(After(w))
      /\ (w \in Holders) <=> HoldingAt(After(w))
  BY <1>2, <1>3 DEF Askers, Starting, Writers, Chainers, Holders
<1>6. ReadWeight(w) = ReadWeightAt(After(w), cur[w].type)
  BY <1>4 DEF ReadWeight, ReadWeightAt, One
<1>7. WriteWeight(w) = WriteWeightAt(After(w), cur[w].type)
  BY <1>5 DEF WriteWeight, WriteWeightAt, One
<1>8. QED
  BY <1>6, <1>7

LEMMA WeightsAtNext ==
  RefsInv' => \A w \in Workers :
    /\ ReadWeight(w)' = ReadWeightAt(After(w)', cur'[w].type)
    /\ WriteWeight(w)' = WriteWeightAt(After(w)', cur'[w].type)
<1>1. (RefsInv => \A w \in Workers :
         /\ ReadWeight(w) = ReadWeightAt(After(w), cur[w].type)
         /\ WriteWeight(w) = WriteWeightAt(After(w), cur[w].type))'
  BY WeightsAt, PTL
<1>2. QED
  BY <1>1

LEMMA WeightsAreNat ==
  \A l, t : ReadWeightAt(l, t) \in Nat /\ WriteWeightAt(l, t) \in Nat
BY DEF ReadWeightAt, WriteWeightAt, One

\* The counters in terms of the items and the sets of workers.
LEMMA CountersExact ==
  ASSUME RefsInv, OutInv
  PROVE  /\ ReadItems \in Nat /\ WriteItems \in Nat
         /\ IsFiniteSet(Readers) /\ IsFiniteSet(Askers) /\ IsFiniteSet(Writers)
         /\ IsFiniteSet(Chainers) /\ IsFiniteSet(Holders)
         /\ nIncomingReads \in Nat /\ nIncomingReads = ReadItems + Cardinality(Readers)
         /\ nOutgoingWrites \in Nat
         /\ nOutgoingWrites = WriteItems + Cardinality(Askers) + Cardinality(Writers)
                                + Cardinality(Chainers) + Cardinality(Holders)
<1>1. /\ Len(kreads) \in Nat /\ Len(kwrites) \in Nat /\ Len(pendingWrites) \in Nat
      /\ Cardinality(OfType(iocp, Reading)) \in Nat /\ Cardinality(OfType(iocp, Writing)) \in Nat
      /\ Cardinality(Queued(Reading)) \in Nat
  BY Sizes, SeqLength, OfTypeFinite DEF OutInv, PacketShape, RefsInv, Shape
<1>2. \A S : S \subseteq Workers => IsFiniteSet(S) /\ Cardinality(S) \in Nat
  BY ConstantsOK, FS_Subset, FS_CardinalityType DEF ConstantsOK
<1>3. /\ Readers \subseteq Workers /\ Askers \subseteq Workers /\ Writers \subseteq Workers
      /\ Chainers \subseteq Workers /\ Holders \subseteq Workers
  BY DEF Readers, Busy, Askers, Starting, Writers, Chainers, Holders
<1>4. /\ IsFiniteSet(Readers) /\ Cardinality(Readers) \in Nat
      /\ IsFiniteSet(Askers) /\ Cardinality(Askers) \in Nat
      /\ IsFiniteSet(Writers) /\ Cardinality(Writers) \in Nat
      /\ IsFiniteSet(Chainers) /\ Cardinality(Chainers) \in Nat
      /\ IsFiniteSet(Holders) /\ Cardinality(Holders) \in Nat
  BY <1>2, <1>3
<1>5. nIncomingReads = Len(kreads) + Cardinality(OfType(iocp, Reading)) + Cardinality(Queued(Reading))
                         + Cardinality(Readers)
  BY DEF OutInv, OutstandingExact, Readers
<1>6. nOutgoingWrites = Len(pendingWrites) + Len(kwrites) + Cardinality(OfType(iocp, Writing))
                          + Cardinality(Askers) + Cardinality(Writers) + Cardinality(Chainers)
                          + Cardinality(Holders)
  BY DEF OutInv, OutstandingExact, Askers, Writers, Chainers, Holders, Writing
<1>7. ReadItems \in Nat /\ WriteItems \in Nat
  BY <1>1 DEF ReadItems, WriteItems
<1>8. nIncomingReads = ReadItems + Cardinality(Readers)
  BY <1>5 DEF ReadItems
<1>9. nOutgoingWrites = WriteItems + Cardinality(Askers) + Cardinality(Writers)
                          + Cardinality(Chainers) + Cardinality(Holders)
  BY <1>1, <1>4, <1>6 DEF WriteItems
<1>10. QED
  BY <1>4, <1>7, <1>8, <1>9

-----------------------------------------------------------------------------
(* A step in which at most one worker moves keeps the counters exact if    *)
(* they change by what it and the items change.                            *)

OthersStay(w) ==
  \A v \in Workers : v # w => pc'[v] = pc[v] /\ cur'[v] = cur[v] /\ closing'[v] = closing[v]

LEMMA Balance ==
  ASSUME RefsInv, RefsInv', OutInv, NEW w, OthersStay(w), PacketShape',
         w \in Workers => FlowAt(After(w)', cur'[w].type),
         nIncomingReads' = nIncomingReads + (ReadItems' - ReadItems) + (ReadWeight(w)' - ReadWeight(w)),
         nOutgoingWrites' = nOutgoingWrites + (WriteItems' - WriteItems)
                                            + (WriteWeight(w)' - WriteWeight(w))
  PROVE  OutInv'
<1>1. \A v \in Workers : v # w =>
        /\ After(v)' = After(v) /\ cur'[v] = cur[v] /\ pc'[v] = pc[v]
        /\ Posted(v)' = Posted(v) /\ Holding(v)' = Holding(v) /\ InOutgoing(v)' = InOutgoing(v)
  BY DEF OthersStay, After, Posted, Holding, InOutgoing
<1>2. Flow'
  BY <1>1 DEF Flow, OutInv
<1>3. /\ \A v : v # w => (v \in Readers <=> v \in Readers')
      /\ \A v : v # w => (v \in Askers <=> v \in Askers')
      /\ \A v : v # w => (v \in Writers <=> v \in Writers')
      /\ \A v : v # w => (v \in Chainers <=> v \in Chainers')
      /\ \A v : v # w => (v \in Holders <=> v \in Holders')
  BY <1>1 DEF Readers, Busy, Askers, Starting, Writers, Chainers, Holders
<1>4. /\ ReadItems \in Nat /\ WriteItems \in Nat
      /\ IsFiniteSet(Readers) /\ IsFiniteSet(Askers) /\ IsFiniteSet(Writers)
      /\ IsFiniteSet(Chainers) /\ IsFiniteSet(Holders)
      /\ nIncomingReads = ReadItems + Cardinality(Readers)
      /\ nOutgoingWrites = WriteItems + Cardinality(Askers) + Cardinality(Writers)
                             + Cardinality(Chainers) + Cardinality(Holders)
  BY CountersExact
<1>5. /\ Len(kreads') \in Nat /\ Len(kwrites') \in Nat /\ Len(pendingWrites') \in Nat
      /\ IsFiniteSet(OfType(iocp', Reading)) /\ Cardinality(OfType(iocp', Reading)) \in Nat
      /\ IsFiniteSet(OfType(iocp', Writing)) /\ Cardinality(OfType(iocp', Writing)) \in Nat
      /\ Cardinality(Queued(Reading)') \in Nat
  BY SeqLength, OfTypeFinite, FS_CardinalityType DEF RefsInv, Shape, Counted, PacketShape
<1>6. /\ ReadItems' = Len(kreads') + Cardinality(OfType(iocp', Reading)) + Cardinality(Queued(Reading)')
      /\ WriteItems' = Len(pendingWrites') + Len(kwrites') + Cardinality(OfType(iocp', Writing))
      /\ ReadItems' \in Nat /\ WriteItems' \in Nat
  BY <1>5 DEF ReadItems, WriteItems, OfType
<1>7. /\ Cardinality(Readers) \in Nat /\ Cardinality(Readers') \in Nat
      /\ Cardinality(Readers') - Cardinality(Readers) = One(w \in Readers') - One(w \in Readers)
  BY <1>3, <1>4, CardinalityByOne
<1>8. /\ Cardinality(Askers) \in Nat /\ Cardinality(Askers') \in Nat
      /\ Cardinality(Askers') - Cardinality(Askers) = One(w \in Askers') - One(w \in Askers)
  BY <1>3, <1>4, CardinalityByOne
<1>9. /\ Cardinality(Writers) \in Nat /\ Cardinality(Writers') \in Nat
      /\ Cardinality(Writers') - Cardinality(Writers) = One(w \in Writers') - One(w \in Writers)
  BY <1>3, <1>4, CardinalityByOne
<1>10. /\ Cardinality(Chainers) \in Nat /\ Cardinality(Chainers') \in Nat
       /\ Cardinality(Chainers') - Cardinality(Chainers) = One(w \in Chainers') - One(w \in Chainers)
  BY <1>3, <1>4, CardinalityByOne
<1>11. /\ Cardinality(Holders) \in Nat /\ Cardinality(Holders') \in Nat
       /\ Cardinality(Holders') - Cardinality(Holders) = One(w \in Holders') - One(w \in Holders)
  BY <1>3, <1>4, CardinalityByOne
<1>12. nIncomingReads' = ReadItems' + Cardinality(Readers')
  <2>1. PICK i, j, c, d, x, y :
          /\ i = ReadItems /\ j = ReadItems' /\ c = Cardinality(Readers) /\ d = Cardinality(Readers')
          /\ x = ReadWeight(w) /\ y = ReadWeight(w)'
    OBVIOUS
  <2>2. x = One(w \in Readers) /\ y = One(w \in Readers')
    BY <2>1 DEF ReadWeight, One
  <2>3. x \in Nat /\ y \in Nat /\ i \in Nat /\ j \in Nat /\ c \in Nat /\ d \in Nat
    BY <1>4, <1>6, <1>7, <2>1, <2>2 DEF One
  <2>4. d - c = y - x
    BY <1>7, <2>1, <2>2
  <2>5. nIncomingReads' = (i + c) + (j - i) + (y - x)
    BY <1>4, <2>1
  <2>6. nIncomingReads' = j + d
    BY <2>3, <2>4, <2>5
  <2>7. QED
    BY <2>1, <2>6
<1>13. nOutgoingWrites' = WriteItems' + Cardinality(Askers') + Cardinality(Writers')
                            + Cardinality(Chainers') + Cardinality(Holders')
  <2>1. PICK i, j, x, y :
          i = WriteItems /\ j = WriteItems' /\ x = WriteWeight(w) /\ y = WriteWeight(w)'
    OBVIOUS
  <2>2. PICK a, b, c, d :
          /\ a = Cardinality(Askers) /\ b = Cardinality(Writers)
          /\ c = Cardinality(Chainers) /\ d = Cardinality(Holders)
    OBVIOUS
  <2>3. PICK a1, b1, c1, d1 :
          /\ a1 = Cardinality(Askers') /\ b1 = Cardinality(Writers')
          /\ c1 = Cardinality(Chainers') /\ d1 = Cardinality(Holders')
    OBVIOUS
  <2>4. PICK p, q, r, s :
          /\ p = One(w \in Askers) /\ q = One(w \in Writers)
          /\ r = One(w \in Chainers) /\ s = One(w \in Holders)
    OBVIOUS
  <2>5. PICK p1, q1, r1, s1 :
          /\ p1 = One(w \in Askers') /\ q1 = One(w \in Writers')
          /\ r1 = One(w \in Chainers') /\ s1 = One(w \in Holders')
    OBVIOUS
  <2>6. /\ p \in Nat /\ q \in Nat /\ r \in Nat /\ s \in Nat
        /\ p1 \in Nat /\ q1 \in Nat /\ r1 \in Nat /\ s1 \in Nat
    BY <2>4, <2>5 DEF One
  <2>7. /\ a \in Nat /\ b \in Nat /\ c \in Nat /\ d \in Nat /\ i \in Nat
        /\ a1 \in Nat /\ b1 \in Nat /\ c1 \in Nat /\ d1 \in Nat /\ j \in Nat
    BY <1>4, <1>6, <1>8, <1>9, <1>10, <1>11, <2>1, <2>2, <2>3
  <2>8. x = p + q + r + s /\ y = p1 + q1 + r1 + s1
    BY <2>1, <2>4, <2>5 DEF WriteWeight
  <2>9. a1 - a = p1 - p /\ b1 - b = q1 - q /\ c1 - c = r1 - r /\ d1 - d = s1 - s
    BY <1>8, <1>9, <1>10, <1>11, <2>2, <2>3, <2>4, <2>5
  <2>10. nOutgoingWrites' = (i + a + b + c + d) + (j - i) + (y - x)
    BY <1>4, <2>1, <2>2
  <2>11. nOutgoingWrites' = j + a1 + b1 + c1 + d1
    BY <2>6, <2>7, <2>8, <2>9, <2>10
  <2>12. QED
    BY <2>1, <2>3, <2>11
<1>14. OutstandingExact'
  <2>1. /\ Starting({"WriteRequest"})' = Askers'
        /\ {v \in Busy : cur[v].type \in Reading /\ ~Posted(v)}' = Readers'
        /\ {v \in Workers : cur[v].type = "Write" /\ ~Posted(v)}' = Writers'
        /\ {v \in Workers : InOutgoing(v)}' = Chainers'
        /\ {v \in Workers : Holding(v)}' = Holders'
    BY DEF Askers, Readers, Writers, Chainers, Holders
  <2>2. /\ nIncomingReads' = Len(kreads') + Cardinality(OfType(iocp', Reading))
                               + Cardinality(Queued(Reading)') + Cardinality(Readers')
        /\ nOutgoingWrites' = Len(pendingWrites') + Len(kwrites')
                                + Cardinality(OfType(iocp', Writing)) + Cardinality(Askers')
                                + Cardinality(Writers') + Cardinality(Chainers') + Cardinality(Holders')
    BY <1>5, <1>6, <1>7, <1>8, <1>9, <1>10, <1>11, <1>12, <1>13
  <2>3. /\ OfType(iocp, Reading)' = OfType(iocp', Reading)
        /\ OfType(iocp, {"WriteRequest", "Write"})' = OfType(iocp', Writing)
    BY DEF OfType, Reading, Writing
  <2>4. QED
    BY <2>1, <2>2, <2>3 DEF OutstandingExact
<1>15. QED
  BY <1>2, <1>5, <1>14 DEF OutInv, OfType, Writing

-----------------------------------------------------------------------------
(* Steps of one worker, by the label it leaves and the label it goes on at. *)

Steps(w, k, l) ==
  /\ OthersStay(w)
  /\ After(w) = k /\ After(w)' = l
  /\ cur'[w].type = cur[w].type

\* The worker weighs the same at both labels, and may handle its packet there.
SameWeight(k, l, t) ==
  /\ FlowAt(l, t)
  /\ ReadWeightAt(l, t) = ReadWeightAt(k, t)
  /\ WriteWeightAt(l, t) = WriteWeightAt(k, t)

itemVars == <<iocp, kreads, kwrites, pendingWrites, queued>>

\* The worker goes from label k with a packet of type u to label l with type t.
LEMMA WalkKeeps ==
  ASSUME RefsInv, RefsInv', OutInv, NEW w \in Workers, OthersStay(w), PacketShape',
         NEW k, NEW u, After(w) = k, cur[w].type = u,
         NEW l, NEW t, After(w)' = l, cur'[w].type = t, FlowAt(l, t),
         NEW dr \in Int, NEW dw \in Int,
         ReadItems' = ReadItems + dr, WriteItems' = WriteItems + dw,
         nIncomingReads' = nIncomingReads + dr + (ReadWeightAt(l, t) - ReadWeightAt(k, u)),
         nOutgoingWrites' = nOutgoingWrites + dw + (WriteWeightAt(l, t) - WriteWeightAt(k, u))
  PROVE  OutInv'
<1>1. /\ ReadWeight(w) = ReadWeightAt(k, u) /\ ReadWeight(w)' = ReadWeightAt(l, t)
      /\ WriteWeight(w) = WriteWeightAt(k, u) /\ WriteWeight(w)' = WriteWeightAt(l, t)
  BY WeightsAt, WeightsAtNext
<1>2. /\ ReadWeightAt(l, t) \in Nat /\ ReadWeightAt(k, u) \in Nat
      /\ WriteWeightAt(l, t) \in Nat /\ WriteWeightAt(k, u) \in Nat
  BY WeightsAreNat
<1>3. ReadItems \in Nat /\ WriteItems \in Nat /\ nIncomingReads \in Nat /\ nOutgoingWrites \in Nat
  BY CountersExact
<1>4. ReadItems' - ReadItems = dr /\ WriteItems' - WriteItems = dw
  BY <1>3
<1>5. /\ nIncomingReads' = nIncomingReads + (ReadItems' - ReadItems) + (ReadWeight(w)' - ReadWeight(w))
      /\ nOutgoingWrites' = nOutgoingWrites + (WriteItems' - WriteItems)
                                            + (WriteWeight(w)' - WriteWeight(w))
  BY <1>1, <1>4
<1>6. FlowAt(After(w)', cur'[w].type)
  OBVIOUS
<1>7. QED
  BY <1>5, <1>6, Balance

LEMMA SameItemsOut ==
  ASSUME UNCHANGED itemVars
  PROVE  ReadItems' = ReadItems /\ WriteItems' = WriteItems
BY DEF itemVars, ReadItems, WriteItems, OfType, Queued

LEMMA SamePackets ==
  ASSUME PacketShape, UNCHANGED <<itemVars, cur>>
  PROVE  PacketShape'
BY DEF PacketShape, itemVars

\* Nothing that is counted comes or goes.
LEMMA QuietKeeps ==
  ASSUME RefsInv, RefsInv', OutInv, NEW w \in Workers, NEW k, NEW l, Steps(w, k, l),
         SameWeight(k, l, cur[w].type), PacketShape',
         UNCHANGED <<itemVars, nIncomingReads, nOutgoingWrites>>
  PROVE  OutInv'
<1> DEFINE t == cur[w].type
<1>1. /\ ReadWeightAt(l, t) \in Nat /\ ReadWeightAt(k, t) \in Nat
      /\ WriteWeightAt(l, t) \in Nat /\ WriteWeightAt(k, t) \in Nat
  BY WeightsAreNat
<1>2. ReadItems \in Nat /\ WriteItems \in Nat /\ nIncomingReads \in Nat /\ nOutgoingWrites \in Nat
  BY CountersExact
<1>3. ReadItems' = ReadItems + 0 /\ WriteItems' = WriteItems + 0
  BY <1>2, SameItemsOut
<1>4. /\ nIncomingReads' = nIncomingReads + 0 + (ReadWeightAt(l, t) - ReadWeightAt(k, t))
      /\ nOutgoingWrites' = nOutgoingWrites + 0 + (WriteWeightAt(l, t) - WriteWeightAt(k, t))
  BY <1>1, <1>2 DEF SameWeight
<1>5. /\ OthersStay(w) /\ After(w) = k /\ After(w)' = l /\ cur'[w].type = t /\ FlowAt(l, t)
  BY DEF Steps, SameWeight
<1> HIDE DEF t
<1>6. QED
  BY <1>3, <1>4, <1>5, WalkKeeps DEF t

\* A step from one label to another outside Close.
LEMMA GotoSteps ==
  ASSUME RefsInv, NEW w \in Workers, NEW l, l \notin CloseLabels, pc[w] \notin CloseLabels,
         Goto(w, l), UNCHANGED <<cur, closing>>
  PROVE  Steps(w, pc[w], l)
<1>1. pc = [p \in Procs |-> pc[p]] /\ w \in Procs /\ Workers \subseteq Procs
  BY DEF RefsInv, Shape, Procs
<1>2. pc'[w] = l /\ \A v \in Workers : v # w => pc'[v] = pc[v]
  BY <1>1 DEF Goto
<1>3. QED
  BY <1>2 DEF Steps, OthersStay, After, CloseLabels

\* The label a worker is at, and what it may be handling there.
LEMMA FlowHere ==
  ASSUME OutInv, NEW w \in Workers, pc[w] \notin CloseLabels
  PROVE  After(w) = pc[w] /\ FlowAt(pc[w], cur[w].type)
BY DEF OutInv, Flow, After, CloseLabels

\* A worker goes on at another label and nothing that is counted changes.
LEMMA PassKeeps ==
  ASSUME RefsInv, RefsInv', OutInv, NEW w \in Workers, NEW l,
         pc[w] \notin CloseLabels, l \notin CloseLabels, Goto(w, l),
         UNCHANGED <<cur, closing, itemVars, nIncomingReads, nOutgoingWrites>>,
         SameWeight(pc[w], l, cur[w].type)
  PROVE  OutInv'
<1>1. Steps(w, pc[w], l)
  BY GotoSteps
<1>2. PacketShape'
  BY SamePackets DEF OutInv
<1>3. QED
  BY <1>1, <1>2, QuietKeeps

LEMMA InputPasses ==
  ASSUME RefsInv, RefsInv', OutInv, NEW w \in Workers,
         InCheck(w) \/ InWrite(w) \/ ReadNext(w) \/ ReadAgain(w) \/ ResumeLoop(w)
  PROVE  OutInv'
<1> DEFINE t == cur[w].type
<1> USE DEF SameWeight, ReadWeightAt, WriteWeightAt, FlowAt, PostedAt, HoldingAt, OutgoingAt, One,
        CloseLabels, Reading, itemVars, writeVars, ioVars
<1>1. CASE InCheck(w)
  <2>1. \E l \in {"r_dec", "in_loop"} : Goto(w, l)
    BY <1>1 DEF InCheck
  <2>2. pc[w] = "in_check" /\ UNCHANGED <<cur, closing, itemVars, nIncomingReads, nOutgoingWrites>>
    BY <1>1 DEF InCheck, readVars
  <2>3. FlowAt("in_check", t)
    BY <2>2, FlowHere
  <2>4. \A l \in {"r_dec", "in_loop"} : SameWeight("in_check", l, t) /\ l \notin CloseLabels
    BY <2>3
  <2>5. QED
    BY <2>1, <2>2, <2>4, PassKeeps
<1>2. CASE InWrite(w)
  <2>1. pc[w] = "in_write" /\ Goto(w, "in_loop")
        /\ UNCHANGED <<cur, closing, itemVars, nIncomingReads, nOutgoingWrites>>
    BY <1>2 DEF InWrite
  <2>2. FlowAt("in_write", t)
    BY <2>1, FlowHere
  <2>3. SameWeight("in_write", "in_loop", t)
    BY <2>2
  <2>4. QED
    BY <2>1, <2>3, PassKeeps
<1>3. CASE ReadNext(w)
  <2>1. pc[w] = "rd" /\ UNCHANGED <<cur, closing, itemVars, nIncomingReads, nOutgoingWrites>>
    BY <1>3 DEF ReadNext, readVars
  <2>2. \E l \in {AfterReads(w), "rd_io"} : Goto(w, l)
    BY <1>3 DEF ReadNext
  <2>3. FlowAt("rd", t)
    BY <2>1, FlowHere
  <2>4. \A l \in {AfterReads(w), "rd_io"} : SameWeight("rd", l, t) /\ l \notin CloseLabels
    BY <2>3 DEF AfterReads
  <2>5. QED
    BY <2>1, <2>2, <2>4, PassKeeps
<1>4. CASE ReadAgain(w)
  <2>1. pc[w] = "r_again" /\ UNCHANGED <<cur, closing, itemVars, nIncomingReads, nOutgoingWrites>>
    BY <1>4 DEF ReadAgain, readVars
  <2>2. \E l \in {"r_dec", "rd"} : Goto(w, l)
    BY <1>4 DEF ReadAgain
  <2>3. FlowAt("r_again", t)
    BY <2>1, FlowHere
  <2>4. \A l \in {"r_dec", "rd"} : SameWeight("r_again", l, t) /\ l \notin CloseLabels
    BY <2>3
  <2>5. QED
    BY <2>1, <2>2, <2>4, PassKeeps
<1>5. CASE ResumeLoop(w)
  <2>1. pc[w] = "rs_loop" /\ UNCHANGED <<cur, closing, itemVars, nIncomingReads, nOutgoingWrites>>
    BY <1>5 DEF ResumeLoop, readVars
  <2>2. \E l \in {"rd", "post", "in_loop", "out_enter"} : Goto(w, l)
    BY <1>5 DEF ResumeLoop
  <2>3. FlowAt("rs_loop", t)
    BY <2>1, FlowHere
  <2>4. \A l \in {"rd", "post", "in_loop", "out_enter"} : SameWeight("rs_loop", l, t) /\ l \notin CloseLabels
    BY <2>3
  <2>5. QED
    BY <2>1, <2>2, <2>4, PassKeeps
<1>6. QED
  BY <1>1, <1>2, <1>3, <1>4, <1>5

LEMMA OutputPasses ==
  ASSUME RefsInv, RefsInv', OutInv, NEW w \in Workers, OutLoop(w) \/ OutSignal(w) \/ OutRecheck(w)
  PROVE  OutInv'
<1> DEFINE t == cur[w].type
<1> USE DEF SameWeight, ReadWeightAt, WriteWeightAt, FlowAt, PostedAt, HoldingAt, OutgoingAt, One,
        CloseLabels, itemVars, readVars, ioVars
<1>1. CASE OutLoop(w)
  <2>1. pc[w] = "out_loop" /\ UNCHANGED <<cur, closing, itemVars, nIncomingReads, nOutgoingWrites>>
    BY <1>1 DEF OutLoop, writeVars
  <2>2. \E l \in {"out_deq", "out_exit"} : Goto(w, l)
    BY <1>1 DEF OutLoop
  <2>3. FlowAt("out_loop", t)
    BY <2>1, FlowHere
  <2>4. \A l \in {"out_deq", "out_exit"} : SameWeight("out_loop", l, t) /\ l \notin CloseLabels
    BY <2>3
  <2>5. QED
    BY <2>1, <2>2, <2>4, PassKeeps
<1>2. CASE OutSignal(w)
  <2>1. pc[w] = "out_sig" /\ UNCHANGED <<cur, closing, itemVars, nIncomingReads, nOutgoingWrites>>
    BY <1>2 DEF OutSignal, writeVars
  <2>2. \E l \in {"out_next", "out_req"} : Goto(w, l)
    BY <1>2 DEF OutSignal
  <2>3. FlowAt("out_sig", t)
    BY <2>1, FlowHere
  <2>4. \A l \in {"out_next", "out_req"} : SameWeight("out_sig", l, t) /\ l \notin CloseLabels
    BY <2>3
  <2>5. QED
    BY <2>1, <2>2, <2>4, PassKeeps
<1>3. CASE OutRecheck(w)
  <2>1. pc[w] = "out_recheck" /\ UNCHANGED <<cur, closing, itemVars, nIncomingReads, nOutgoingWrites>>
    BY <1>3 DEF OutRecheck, writeVars
  <2>2. \E l \in {"out_exit", "out_loop"} : Goto(w, l)
    BY <1>3 DEF OutRecheck
  <2>3. FlowAt("out_recheck", t)
    BY <2>1, FlowHere
  <2>4. \A l \in {"out_exit", "out_loop"} : SameWeight("out_recheck", l, t) /\ l \notin CloseLabels
    BY <2>3
  <2>5. QED
    BY <2>1, <2>2, <2>4, PassKeeps
<1>4. QED
  BY <1>1, <1>2, <1>3

\* After the handler nothing is counted any more.
LEMMA PostPasses ==
  ASSUME RefsInv, RefsInv', OutInv, NEW w \in Workers,
         \/ Post(w) \/ FireEnter(w) \/ FireExit(w) \/ EndingWait(w) \/ EndingNotify(w)
         \/ PostEnding(w) /\ pc'[w] # "close"
  PROVE  OutInv'
<1> USE DEF PostedAt, CloseLabels
<1>1. \A h : Ending(h) \in {"release", "end"}
  BY DEF Ending
<1>2. UNCHANGED <<cur, itemVars, nIncomingReads, nOutgoingWrites>>
  BY DEF Post, FireEnter, FireExit, EndingWait, EndingNotify, PostEnding, itemVars, readVars,
         writeVars, ioVars
<1>3. UNCHANGED closing
  <2>1. PostEnding(w) /\ pc'[w] # "close" => UNCHANGED closing
    <3>1. pc = [p \in Procs |-> pc[p]] /\ w \in Procs
      BY DEF RefsInv, Shape, Procs
    <3>2. CallClose(w, "ok", "sd_wait") => pc'[w] = "close"
      BY <3>1 DEF CallClose, Goto
    <3>3. QED
      BY <3>2 DEF PostEnding
  <2>2. QED
    BY <2>1 DEF Post, FireEnter, FireExit, EndingWait, EndingNotify
<1>4. /\ PostedAt(pc[w])
      /\ \E l : PostedAt(l) /\ Goto(w, l)
  <2>1. PostEnding(w) /\ pc'[w] # "close" => PostedAt(pc[w]) /\ \E l : PostedAt(l) /\ Goto(w, l)
    <3>1. pc = [p \in Procs |-> pc[p]] /\ w \in Procs
      BY DEF RefsInv, Shape, Procs
    <3>2. CallClose(w, "ok", "sd_wait") => pc'[w] = "close"
      BY <3>1 DEF CallClose, Goto
    <3>3. QED
      BY <1>1, <3>2 DEF PostEnding
  <2>2. Post(w) => PostedAt(pc[w]) /\ \E l : PostedAt(l) /\ Goto(w, l)
    BY <1>1 DEF Post
  <2>3. FireEnter(w) => PostedAt(pc[w]) /\ \E l : PostedAt(l) /\ Goto(w, l)
    BY <1>1 DEF FireEnter
  <2>4. FireExit(w) => PostedAt(pc[w]) /\ \E l : PostedAt(l) /\ Goto(w, l)
    BY <1>1 DEF FireExit
  <2>5. EndingWait(w) => PostedAt(pc[w]) /\ \E l : PostedAt(l) /\ Goto(w, l)
    BY <1>1 DEF EndingWait
  <2>6. EndingNotify(w) => PostedAt(pc[w]) /\ \E l : PostedAt(l) /\ Goto(w, l)
    BY <1>1 DEF EndingNotify
  <2>7. QED
    BY <2>1, <2>2, <2>3, <2>4, <2>5, <2>6
<1>5. \A k, l, t : PostedAt(k) /\ PostedAt(l) => SameWeight(k, l, t) /\ l \notin CloseLabels
  BY DEF SameWeight, FlowAt, ReadWeightAt, WriteWeightAt, HoldingAt, OutgoingAt, One
<1>6. QED
  BY <1>2, <1>3, <1>4, <1>5, PassKeeps

\* Inside a Close, or once it has counted down to zero, a worker counts what it
\* will count when it returns.
LEMMA ClosePasses ==
  ASSUME RefsInv, RefsInv', OutInv, NEW w \in Workers, CloseStep(w) \/ DecClosed(w)
  PROVE  OutInv'
<1> USE DEF CloseLabels
<1>1. /\ pc = [p \in Procs |-> pc[p]] /\ closing = [p \in Procs |-> closing[p]]
      /\ w \in Procs /\ Workers \subseteq Procs /\ ClosingRecord(closing[w])
      /\ pc[w] \in CloseLabels => closing[w].ret \in CloseReturns \union DecReturns
  BY DEF RefsInv, Shape, Closing, Procs
<1>3. ASSUME pc[w] \in CloseLabels, Return(w), UNCHANGED cur
      PROVE  OthersStay(w) /\ After(w)' = closing[w].ret
  BY <1>1, <1>3 DEF Return, Goto, After, OthersStay, CloseReturns, DecReturns
<1>4. ASSUME pc[w] \in CloseLabels, NEW l \in CloseLabels, Goto(w, l), UNCHANGED cur,
             NEW a, \/ UNCHANGED closing
                    \/ closing' = [closing EXCEPT ![w].abort = a]
      PROVE  OthersStay(w) /\ After(w)' = closing[w].ret
  BY <1>1, <1>4 DEF Goto, After, OthersStay, ClosingRecord
<1>5. ASSUME pc[w] \in CloseLabels, FinishClose(w), UNCHANGED cur
      PROVE  OthersStay(w) /\ After(w)' = closing[w].ret
  BY <1>3, <1>4, <1>5 DEF FinishClose
<1>6. /\ UNCHANGED <<cur, itemVars, nIncomingReads, nOutgoingWrites>>
      /\ pc[w] \in CloseLabels
  BY DEF CloseStep, CloseMark, CloseCode, CloseTest, DecClosed, ShutCode, ShutLink, CloseRelease,
         itemVars, readVars, writeVars, ioVars
<1>7. OthersStay(w) /\ After(w)' = closing[w].ret
  <2>1. CASE CloseMark(w)
    <3>1. closing'[w].ret = closing[w].ret /\ pc'[w] \in CloseLabels
      BY <1>1, <2>1 DEF CloseMark, Goto, ClosingRecord
    <3>2. OthersStay(w)
      BY <1>1, <1>6, <2>1 DEF CloseMark, Goto, OthersStay
    <3>3. QED
      BY <3>1, <3>2 DEF After
  <2>2. CASE CloseCode(w)
    BY <1>4, <1>6, <2>2 DEF CloseCode
  <2>3. CASE CloseTest(w)
    BY <1>4, <1>5, <1>6, <2>3 DEF CloseTest
  <2>4. CASE DecClosed(w)
    BY <1>3, <1>4, <1>6, <2>4 DEF DecClosed
  <2>5. CASE ShutCode(w)
    BY <1>4, <1>6, <2>5 DEF ShutCode
  <2>6. CASE ShutLink(w)
    BY <1>5, <1>6, <2>6 DEF ShutLink
  <2>7. CASE CloseRelease(w)
    BY <1>3, <1>6, <2>7 DEF CloseRelease
  <2>8. QED
    BY <2>1, <2>2, <2>3, <2>4, <2>5, <2>6, <2>7 DEF CloseStep
<1>8. After(w) = closing[w].ret
  BY <1>6 DEF After
<1>9. Steps(w, After(w), After(w))
  BY <1>6, <1>7, <1>8 DEF Steps
<1>10. SameWeight(After(w), After(w), cur[w].type)
  BY DEF SameWeight, OutInv, Flow
<1>11. PacketShape'
  BY <1>6, SamePackets DEF OutInv
<1>12. QED
  BY <1>6, <1>9, <1>10, <1>11, QuietKeeps

\* A worker begins a Close and will go on at label l.
LEMMA CallPasses ==
  ASSUME RefsInv, RefsInv', OutInv, NEW w \in Workers, NEW h, NEW l,
         pc[w] \notin CloseLabels, CallClose(w, h, l),
         UNCHANGED <<cur, itemVars, nIncomingReads, nOutgoingWrites>>,
         SameWeight(pc[w], l, cur[w].type)
  PROVE  OutInv'
<1>1. /\ pc = [p \in Procs |-> pc[p]] /\ closing = [p \in Procs |-> closing[p]]
      /\ w \in Procs /\ Workers \subseteq Procs
  BY DEF RefsInv, Shape, Procs
<1>2. /\ pc'[w] = "close" /\ closing'[w].ret = l
      /\ OthersStay(w)
  BY <1>1 DEF CallClose, Goto, OthersStay, NoClose
<1>3. Steps(w, pc[w], l)
  BY <1>2 DEF Steps, After, CloseLabels
<1>4. PacketShape'
  BY SamePackets DEF OutInv
<1>5. QED
  BY <1>3, <1>4, QuietKeeps

LEMMA EndPasses ==
  ASSUME RefsInv, RefsInv', OutInv, NEW w \in Workers,
         \/ EndPacket(w)
         \/ PostEnding(w) /\ pc'[w] = "close"
  PROVE  OutInv'
<1>1. UNCHANGED <<cur, itemVars, nIncomingReads, nOutgoingWrites>>
  BY DEF EndPacket, PostEnding, itemVars, readVars, writeVars, ioVars
<1>2. /\ PostedAt(pc[w]) /\ pc[w] \notin CloseLabels
      /\ \E h, l : PostedAt(l) /\ CallClose(w, h, l)
  <2>1. CASE EndPacket(w)
    <3>1. CallClose(w, IF hr[w] = "net" THEN "ok" ELSE "err", "release") /\ pc[w] = "end"
      BY <2>1 DEF EndPacket
    <3>2. QED
      BY <3>1 DEF PostedAt, CloseLabels
  <2>2. CASE PostEnding(w) /\ pc'[w] = "close"
    <3>1. pc = [p \in Procs |-> pc[p]] /\ w \in Procs
      BY DEF RefsInv, Shape, Procs
    <3>2. ~Goto(w, Ending(hr[w]))
      BY <2>2, <3>1 DEF Goto, Ending
    <3>3. CallClose(w, "ok", "sd_wait") /\ pc[w] = "post2"
      BY <2>2, <3>2 DEF PostEnding
    <3>4. QED
      BY <3>3 DEF PostedAt, CloseLabels
  <2>3. QED
    BY <2>1, <2>2
<1>3. \A k, l, t : PostedAt(k) /\ PostedAt(l) => SameWeight(k, l, t)
  BY DEF PostedAt, SameWeight, FlowAt, ReadWeightAt, WriteWeightAt, HoldingAt, OutgoingAt, One
<1>4. QED
  BY <1>1, <1>2, <1>3, CallPasses

\* The beginning of a handler, when it queues nothing.
LEMMA StartPasses ==
  ASSUME RefsInv, RefsInv', OutInv, NEW w \in Workers, Start(w), ~StartWriteRequest(w)
  PROVE  OutInv'
<1> DEFINE t == cur[w].type
<1> USE DEF SameWeight, ReadWeightAt, WriteWeightAt, FlowAt, PostedAt, HoldingAt, OutgoingAt, One,
        CloseLabels, Reading
<1>1. pc[w] = "start" /\ pc[w] \notin CloseLabels
  BY DEF Start
<1>2. UNCHANGED <<cur, itemVars, nIncomingReads, nOutgoingWrites>>
  BY DEF Start, StartInitialSetup, StartZeroRead, StartRead, StartWrite, StartResume, itemVars,
         readVars, writeVars, ioVars
<1>3. CASE StartRead(w) /\ CallClose(w, "ok", "r_dec")
  <2>1. SameWeight("start", "r_dec", t)
    BY <1>3 DEF StartRead
  <2>2. QED
    BY <1>1, <1>2, <1>3, <2>1, CallPasses
<1>4. ASSUME UNCHANGED closing, NEW l, Goto(w, l), SameWeight("start", l, t), l \notin CloseLabels
      PROVE  OutInv'
  BY <1>1, <1>2, <1>4, PassKeeps
<1>5. CASE StartInitialSetup(w)
  <2>1. UNCHANGED closing /\ Goto(w, "rd") /\ SameWeight("start", "rd", t)
    BY <1>5 DEF StartInitialSetup
  <2>2. QED
    BY <1>4, <2>1
<1>6. CASE StartZeroRead(w)
  <2>1. UNCHANGED closing /\ \E l \in {"rd", "r_dec"} : Goto(w, l)
    BY <1>6 DEF StartZeroRead
  <2>2. \A l \in {"rd", "r_dec"} : SameWeight("start", l, t)
    BY <1>6 DEF StartZeroRead
  <2>3. QED
    BY <1>4, <2>1, <2>2
<1>7. CASE StartRead(w) /\ ~CallClose(w, "ok", "r_dec")
  <2>1. UNCHANGED closing /\ \E l \in {"in_check", "r_dec"} : Goto(w, l)
    BY <1>7 DEF StartRead
  <2>2. \A l \in {"in_check", "r_dec"} : SameWeight("start", l, t)
    BY <1>7 DEF StartRead
  <2>3. QED
    BY <1>4, <2>1, <2>2
<1>8. CASE StartWrite(w)
  <2>1. UNCHANGED closing /\ \E l \in {"out_enter", "w_dec"} : Goto(w, l)
    BY <1>8 DEF StartWrite
  <2>2. \A l \in {"out_enter", "w_dec"} : SameWeight("start", l, t)
    BY <1>8 DEF StartWrite
  <2>3. QED
    BY <1>4, <2>1, <2>2
<1>9. CASE StartResume(w)
  <2>1. UNCHANGED closing /\ Goto(w, "rs_loop") /\ SameWeight("start", "rs_loop", t)
    BY <1>9 DEF StartResume
  <2>2. QED
    BY <1>4, <2>1
<1>10. QED
  BY <1>3, <1>5, <1>6, <1>7, <1>8, <1>9 DEF Start

-----------------------------------------------------------------------------
(* Steps that raise or lower a counter because the worker itself begins or  *)
(* ceases to be counted.                                                    *)

LEMMA CountKeeps ==
  ASSUME RefsInv, RefsInv', OutInv, NEW w \in Workers, NEW l, Steps(w, pc[w], l),
         UNCHANGED <<cur, itemVars>>, FlowAt(l, cur[w].type),
         nIncomingReads' = nIncomingReads
           + (ReadWeightAt(l, cur[w].type) - ReadWeightAt(pc[w], cur[w].type)),
         nOutgoingWrites' = nOutgoingWrites
           + (WriteWeightAt(l, cur[w].type) - WriteWeightAt(pc[w], cur[w].type))
  PROVE  OutInv'
<1>2. PacketShape'
  BY SamePackets DEF OutInv
<1>3. ReadItems \in Nat /\ WriteItems \in Nat /\ nIncomingReads \in Nat /\ nOutgoingWrites \in Nat
  BY CountersExact
<1>4. ReadItems' = ReadItems + 0 /\ WriteItems' = WriteItems + 0
  BY <1>3, SameItemsOut
<1>5. nIncomingReads + 0 = nIncomingReads /\ nOutgoingWrites + 0 = nOutgoingWrites
  BY <1>3
<1>6. QED
  BY <1>2, <1>4, <1>5, WalkKeeps DEF Steps

LEMMA ReadDonePasses ==
  ASSUME RefsInv, RefsInv', OutInv, NEW w \in Workers, ReadDone(w)
  PROVE  OutInv'
<1> DEFINE t == cur[w].type
<1>1. pc[w] = "r_dec" /\ Goto(w, "post") /\ UNCHANGED <<cur, closing, itemVars>>
      /\ nIncomingReads' = nIncomingReads - 1 /\ nOutgoingWrites' = nOutgoingWrites
  BY DEF ReadDone, itemVars, writeVars, ioVars
<1>2. FlowAt("r_dec", t) /\ pc[w] \notin CloseLabels
  BY <1>1, FlowHere DEF CloseLabels
<1>3. /\ ReadWeightAt("r_dec", t) = 1 /\ ReadWeightAt("post", t) = 0
      /\ WriteWeightAt("r_dec", t) = 0 /\ WriteWeightAt("post", t) = 0
      /\ FlowAt("post", t)
  BY <1>2 DEF FlowAt, ReadWeightAt, WriteWeightAt, PostedAt, HoldingAt, OutgoingAt, One, Reading
<1>4. nIncomingReads \in Nat /\ nOutgoingWrites \in Nat
  BY CountersExact
<1>5. /\ nIncomingReads' = nIncomingReads + (ReadWeightAt("post", t) - ReadWeightAt(pc[w], t))
      /\ nOutgoingWrites' = nOutgoingWrites + (WriteWeightAt("post", t) - WriteWeightAt(pc[w], t))
  BY <1>1, <1>3, <1>4
<1>6. "post" \notin CloseLabels
  BY DEF CloseLabels
<1>7. QED
  BY <1>1, <1>2, <1>3, <1>5, <1>6, GotoSteps, CountKeeps

\* A step of the output part from label k to l that changes the count of writes by d.
LEMMA OutCounts ==
  ASSUME RefsInv, RefsInv', OutInv, NEW w \in Workers, NEW l, NEW d \in Int,
         Steps(w, pc[w], l), UNCHANGED <<cur, itemVars, nIncomingReads>>,
         nOutgoingWrites' = nOutgoingWrites + d,
         FlowAt(l, cur[w].type),
         ReadWeightAt(l, cur[w].type) = ReadWeightAt(pc[w], cur[w].type),
         WriteWeightAt(l, cur[w].type) - WriteWeightAt(pc[w], cur[w].type) = d
  PROVE  OutInv'
<1>1. nIncomingReads \in Nat /\ ReadWeightAt(pc[w], cur[w].type) \in Nat
  BY CountersExact, WeightsAreNat
<1>2. nIncomingReads' = nIncomingReads
        + (ReadWeightAt(l, cur[w].type) - ReadWeightAt(pc[w], cur[w].type))
  BY <1>1
<1>3. QED
  BY <1>2, CountKeeps

LEMMA DecrementSteps ==
  ASSUME RefsInv, OutInv, NEW w \in Workers, NEW l \in DecReturns, pc[w] \notin CloseLabels,
         DecrementOutgoingWrites(w, l), UNCHANGED cur
  PROVE  Steps(w, pc[w], l) /\ nOutgoingWrites' = nOutgoingWrites + (-1)
<1>1. nOutgoingWrites' = nOutgoingWrites + (-1)
  BY CountersExact DEF DecrementOutgoingWrites
<1>2. CASE Goto(w, l) /\ UNCHANGED closing
  BY <1>1, <1>2, GotoSteps DEF DecReturns, CloseLabels
<1>3. CASE closing' = [closing EXCEPT ![w] = [NoClose EXCEPT !.ret = l]] /\ Goto(w, "dec_zero")
  <2>1. /\ pc = [p \in Procs |-> pc[p]] /\ closing = [p \in Procs |-> closing[p]]
        /\ w \in Procs /\ Workers \subseteq Procs
    BY DEF RefsInv, Shape, Procs
  <2>2. pc'[w] = "dec_zero" /\ closing'[w].ret = l /\ OthersStay(w)
    BY <1>3, <2>1 DEF Goto, OthersStay, NoClose
  <2>3. QED
    BY <1>1, <2>2 DEF Steps, After, CloseLabels
<1>4. QED
  BY <1>2, <1>3 DEF DecrementOutgoingWrites

LEMMA OutputCounts ==
  ASSUME RefsInv, RefsInv', OutInv, NEW w \in Workers,
         OutEnter(w) \/ OutDrop(w) \/ OutNext(w) \/ OutExit(w) \/ WriteDone(w)
  PROVE  OutInv'
<1> DEFINE t == cur[w].type
<1>0. nOutgoingWrites \in Nat
  BY CountersExact
<1> USE DEF ReadWeightAt, WriteWeightAt, FlowAt, PostedAt, HoldingAt, OutgoingAt, One, CloseLabels, DecReturns, Reading
<1>1. UNCHANGED <<cur, itemVars, nIncomingReads>>
  BY DEF OutEnter, OutDrop, OutNext, OutExit, WriteDone, itemVars, readVars, ioVars
<1>2. CASE OutEnter(w)
  <2>1. pc[w] = "out_enter" /\ Goto(w, "out_loop") /\ nOutgoingWrites' = nOutgoingWrites + 1
    BY <1>2 DEF OutEnter
  <2>2. FlowAt("out_enter", t)
    BY <2>1, FlowHere
  <2>3. /\ FlowAt("out_loop", t) /\ ReadWeightAt("out_loop", t) = ReadWeightAt("out_enter", t)
        /\ WriteWeightAt("out_loop", t) - WriteWeightAt("out_enter", t) = 1
    BY <2>2
  <2>4. Steps(w, pc[w], "out_loop")
    BY <1>1, <1>2, <2>1, GotoSteps DEF OutEnter
  <2>5. QED
    BY <1>1, <2>1, <2>3, <2>4, OutCounts
<1>3. CASE OutDrop(w)
  <2>0. pc[w] = "out_drop" /\ DecrementOutgoingWrites(w, "out_loop") /\ "out_loop" \in DecReturns
    BY <1>3 DEF OutDrop
  <2>1. pc[w] = "out_drop" /\ Steps(w, pc[w], "out_loop") /\ nOutgoingWrites' = nOutgoingWrites + (-1)
    BY <1>1, <2>0, DecrementSteps
  <2>2. FlowAt("out_drop", t)
    BY <2>1, FlowHere
  <2>3. /\ FlowAt("out_loop", t) /\ ReadWeightAt("out_loop", t) = ReadWeightAt("out_drop", t)
        /\ WriteWeightAt("out_loop", t) - WriteWeightAt("out_drop", t) = -1
    BY <2>2
  <2>4. QED
    BY <1>1, <2>1, <2>3, OutCounts
<1>4. CASE OutNext(w)
  <2>0. pc[w] = "out_next" /\ DecrementOutgoingWrites(w, "out_loop") /\ "out_loop" \in DecReturns
    BY <1>4 DEF OutNext
  <2>1. pc[w] = "out_next" /\ Steps(w, pc[w], "out_loop") /\ nOutgoingWrites' = nOutgoingWrites + (-1)
    BY <1>1, <2>0, DecrementSteps
  <2>2. FlowAt("out_next", t)
    BY <2>1, FlowHere
  <2>3. /\ FlowAt("out_loop", t) /\ ReadWeightAt("out_loop", t) = ReadWeightAt("out_next", t)
        /\ WriteWeightAt("out_loop", t) - WriteWeightAt("out_next", t) = -1
    BY <2>2
  <2>4. QED
    BY <1>1, <2>1, <2>3, OutCounts
<1>5. CASE OutExit(w)
  <2> DEFINE l == CASE t = "Read" -> (IF hr[w] = "ok" THEN "r_again" ELSE "r_dec")
                    [] t = "Write" -> "w_dec"
                    [] OTHER -> "post"
  <2>0. pc[w] = "out_exit" /\ DecrementOutgoingWrites(w, l) /\ l \in DecReturns
    BY <1>5 DEF OutExit
  <2>1. pc[w] = "out_exit" /\ Steps(w, pc[w], l) /\ nOutgoingWrites' = nOutgoingWrites + (-1)
    BY <1>1, <2>0, DecrementSteps
  <2>2. FlowAt("out_exit", t)
    BY <2>1, FlowHere
  <2>3. /\ FlowAt(l, t) /\ ReadWeightAt(l, t) = ReadWeightAt("out_exit", t)
        /\ WriteWeightAt(l, t) - WriteWeightAt("out_exit", t) = -1
        /\ l \notin CloseLabels
    BY <2>2
  <2> HIDE DEF l
  <2>4. QED
    BY <1>1, <2>1, <2>3, OutCounts
<1>6. CASE WriteDone(w)
  <2>0. pc[w] = "w_dec" /\ DecrementOutgoingWrites(w, "post") /\ "post" \in DecReturns
    BY <1>6 DEF WriteDone
  <2>1. pc[w] = "w_dec" /\ Steps(w, pc[w], "post") /\ nOutgoingWrites' = nOutgoingWrites + (-1)
    BY <1>1, <2>0, DecrementSteps
  <2>2. FlowAt("w_dec", t)
    BY <2>1, FlowHere
  <2>3. /\ FlowAt("post", t) /\ ReadWeightAt("post", t) = ReadWeightAt("w_dec", t)
        /\ WriteWeightAt("post", t) - WriteWeightAt("w_dec", t) = -1
    BY <2>2
  <2>4. QED
    BY <1>1, <2>1, <2>3, OutCounts
<1>7. QED
  BY <1>2, <1>3, <1>4, <1>5, <1>6

-----------------------------------------------------------------------------
(* Steps that move a packet.                                                *)

\* The worker's own packet gets another order or other data.
LEMMA SetOrder ==
  ASSUME RefsInv, OutInv, NEW w \in Workers, NEW o, NEW d, NEW l,
         cur' = [cur EXCEPT ![w].order = o, ![w].data = d] \/ cur' = [cur EXCEPT ![w].order = o],
         pc[w] \notin CloseLabels, l \notin CloseLabels, Goto(w, l), UNCHANGED closing
  PROVE  /\ Steps(w, pc[w], l)
         /\ cur' = [p \in Procs |-> cur'[p]] /\ \A p \in Procs : IsPacket(cur'[p])
<1>1. /\ pc = [p \in Procs |-> pc[p]] /\ w \in Procs /\ Workers \subseteq Procs
      /\ cur = [p \in Procs |-> cur[p]] /\ \A p \in Procs : IsPacket(cur[p])
  BY DEF RefsInv, Shape, Procs, OutInv, PacketShape
<1>2. pc'[w] = l /\ \A v \in Workers : v # w => pc'[v] = pc[v]
  BY <1>1 DEF Goto
<1>3. /\ cur' = [p \in Procs |-> cur'[p]]
      /\ \A p \in Procs : p # w => cur'[p] = cur[p]
      /\ cur'[w] = [cur[w] EXCEPT !.order = o, !.data = d] \/ cur'[w] = [cur[w] EXCEPT !.order = o]
  BY <1>1
<1>4. cur'[w].type = cur[w].type /\ IsPacket(cur'[w])
  BY <1>1, <1>3 DEF IsPacket
<1>5. QED
  BY <1>1, <1>2, <1>3, <1>4 DEF Steps, OthersStay, After, CloseLabels

LEMMA InTakePasses ==
  ASSUME RefsInv, RefsInv', OutInv, NEW w \in Workers, InTake(w)
  PROVE  OutInv'
<1> USE DEF SameWeight, ReadWeightAt, WriteWeightAt, FlowAt, PostedAt, HoldingAt, OutgoingAt, One,
        CloseLabels
<1>1. pc[w] = "in_loop" /\ UNCHANGED <<closing, itemVars, nIncomingReads, nOutgoingWrites>>
  BY DEF InTake, itemVars, writeVars, ioVars
<1>2. FlowAt("in_loop", cur[w].type)
  BY <1>1, FlowHere
<1>3. CASE Goto(w, "out_enter") /\ UNCHANGED cur
  <2>1. SameWeight("in_loop", "out_enter", cur[w].type)
    BY <1>2
  <2>2. QED
    BY <1>1, <1>3, <2>1, PassKeeps
<1>4. CASE Goto(w, "in_write") /\ cur' = [cur EXCEPT ![w].order = Head(readPackets).order,
                                                  ![w].data = Head(readPackets).data]
  <2>0. pc[w] \notin CloseLabels /\ "in_write" \notin CloseLabels
    BY <1>1
  <2> HIDE DEF CloseLabels
  <2>1. /\ Steps(w, pc[w], "in_write")
        /\ cur' = [p \in Procs |-> cur'[p]] /\ \A p \in Procs : IsPacket(cur'[p])
    BY <1>1, <1>4, <2>0, SetOrder
  <2>2. SameWeight("in_loop", "in_write", cur[w].type)
    BY <1>2
  <2>3. PacketShape'
    BY <1>1, <2>1 DEF PacketShape, OutInv, itemVars
  <2>4. QED
    BY <1>1, <2>1, <2>2, <2>3, QuietKeeps
<1>5. QED
  BY <1>3, <1>4 DEF InTake

LEMMA ItemsNat ==
  ASSUME RefsInv, OutInv
  PROVE  /\ Len(kreads) \in Nat /\ Len(kwrites) \in Nat /\ Len(pendingWrites) \in Nat
         /\ Cardinality(OfType(iocp, Reading)) \in Nat /\ Cardinality(OfType(iocp, Writing)) \in Nat
         /\ Cardinality(Queued(Reading)) \in Nat
         /\ ReadItems \in Nat /\ WriteItems \in Nat
         /\ nIncomingReads \in Nat /\ nOutgoingWrites \in Nat
<1>1. /\ Len(kreads) \in Nat /\ Len(kwrites) \in Nat /\ Len(pendingWrites) \in Nat
      /\ Cardinality(OfType(iocp, Reading)) \in Nat /\ Cardinality(OfType(iocp, Writing)) \in Nat
      /\ Cardinality(Queued(Reading)) \in Nat
  BY Sizes, SeqLength, OfTypeFinite DEF OutInv, PacketShape, RefsInv, Shape
<1>2. QED
  BY <1>1, CountersExact

\* A packet comes to or leaves the pending writes; the worker makes up for it.
LEMMA PendingKeeps ==
  ASSUME RefsInv, RefsInv', OutInv, NEW w \in Workers, NEW l, NEW d \in {-1, 1},
         Steps(w, pc[w], l), cur' = [p \in Procs |-> cur'[p]], \A p \in Procs : IsPacket(cur'[p]),
         UNCHANGED <<iocp, kreads, kwrites, queued, nIncomingReads, nOutgoingWrites>>,
         IsSeq(pendingWrites'), Len(pendingWrites') = Len(pendingWrites) + d,
         FlowAt(l, cur[w].type),
         ReadWeightAt(l, cur[w].type) = ReadWeightAt(pc[w], cur[w].type),
         WriteWeightAt(l, cur[w].type) - WriteWeightAt(pc[w], cur[w].type) = -d
  PROVE  OutInv'
<1> DEFINE t == cur[w].type
<1>1. PacketShape'
  BY DEF OutInv, PacketShape
<1>2. ReadItems' = ReadItems + 0
  <2>1. ReadItems' = ReadItems
    BY DEF ReadItems, OfType, Queued
  <2>2. QED
    BY <2>1, ItemsNat
<1>3. WriteItems' = WriteItems + d
  <2>1. OfType(iocp, Writing)' = OfType(iocp, Writing)
    BY DEF OfType
  <2>2. WriteItems' = (Len(pendingWrites) + d) + Len(kwrites) + Cardinality(OfType(iocp, Writing))
    BY <2>1 DEF WriteItems
  <2>3. PICK a, b, c : a = Len(pendingWrites) /\ b = Len(kwrites) /\ c = Cardinality(OfType(iocp, Writing))
    OBVIOUS
  <2>4. a \in Nat /\ b \in Nat /\ c \in Nat
    BY <2>3, ItemsNat
  <2>5. WriteItems = a + b + c /\ WriteItems' = (a + d) + b + c
    BY <2>2, <2>3 DEF WriteItems
  <2>6. QED
    BY <2>4, <2>5
<1>4. /\ ReadWeightAt(l, t) \in Nat /\ ReadWeightAt(pc[w], t) \in Nat
      /\ WriteWeightAt(l, t) \in Nat /\ WriteWeightAt(pc[w], t) \in Nat
  BY WeightsAreNat
<1>5. /\ nIncomingReads' = nIncomingReads + 0 + (ReadWeightAt(l, t) - ReadWeightAt(pc[w], t))
      /\ nOutgoingWrites' = nOutgoingWrites + d + (WriteWeightAt(l, t) - WriteWeightAt(pc[w], t))
  BY <1>4, ItemsNat
<1>6. OthersStay(w) /\ After(w) = pc[w] /\ After(w)' = l /\ cur'[w].type = t
  BY DEF Steps
<1> HIDE DEF t
<1>7. QED
  BY <1>1, <1>2, <1>3, <1>5, <1>6, WalkKeeps DEF t

LEMMA SameCur ==
  ASSUME OutInv, UNCHANGED cur
  PROVE  cur' = [p \in Procs |-> cur'[p]] /\ \A p \in Procs : IsPacket(cur'[p])
BY DEF OutInv, PacketShape

\* A write request is put in its place among the pending writes.
LEMMA RequestPasses ==
  ASSUME RefsInv, RefsInv', OutInv, NEW w \in Workers, Start(w), StartWriteRequest(w)
  PROVE  OutInv'
<1> DEFINE t == cur[w].type
<1>1. /\ pc[w] = "start" /\ t = "WriteRequest" /\ Goto(w, "out_enter")
      /\ UNCHANGED <<iocp, kreads, kwrites, queued, nIncomingReads, nOutgoingWrites, cur, closing>>
      /\ pendingWrites' = QueueSorted(pendingWrites, [order |-> cur[w].order])
  BY DEF Start, StartWriteRequest, ioVars, readVars
<1>2. pc[w] \notin CloseLabels /\ "out_enter" \notin CloseLabels
  BY <1>1 DEF CloseLabels
<1>3. Steps(w, pc[w], "out_enter")
  BY <1>1, <1>2, GotoSteps
<1>4. IsSeq(pendingWrites') /\ Len(pendingWrites') = Len(pendingWrites) + 1
  BY <1>1, QueueSortedLength DEF OutInv, PacketShape
<1>5. /\ FlowAt("out_enter", t) /\ ReadWeightAt("out_enter", t) = ReadWeightAt(pc[w], t)
      /\ WriteWeightAt("out_enter", t) - WriteWeightAt(pc[w], t) = -1
  BY <1>1 DEF FlowAt, ReadWeightAt, WriteWeightAt, PostedAt, HoldingAt, OutgoingAt, One, Reading
<1>6. QED
  BY <1>1, <1>3, <1>4, <1>5, SameCur, PendingKeeps

\* The worker takes a pending write, and holds it.
LEMMA OutTakePasses ==
  ASSUME RefsInv, RefsInv', OutInv, NEW w \in Workers, OutTake(w)
  PROVE  OutInv'
<1> DEFINE t == cur[w].type
<1>1. /\ pc[w] = "out_deq"
      /\ UNCHANGED <<iocp, kreads, kwrites, queued, nIncomingReads, nOutgoingWrites, closing>>
  BY DEF OutTake, ioVars, readVars
<1>2. pc[w] \notin CloseLabels /\ FlowAt("out_deq", t)
  BY <1>1, FlowHere DEF CloseLabels
<1>3. CASE HasOrder(pendingWrites, nNextWriteOrderToProcess)
  <2>1. /\ pendingWrites' = Tail(pendingWrites)
        /\ cur' = [cur EXCEPT ![w].order = Head(pendingWrites).order]
        /\ \E l \in {"out_sig", "out_strm", "out_data"} : Goto(w, l)
    BY <1>3 DEF OutTake
  <2>2. PICK l \in {"out_sig", "out_strm", "out_data"} : Goto(w, l)
    BY <2>1
  <2>3. l \notin CloseLabels
    BY DEF CloseLabels
  <2>4. /\ Steps(w, pc[w], l)
        /\ cur' = [p \in Procs |-> cur'[p]] /\ \A p \in Procs : IsPacket(cur'[p])
    BY <1>1, <1>2, <2>1, <2>2, <2>3, SetOrder
  <2>5. IsSeq(pendingWrites') /\ Len(pendingWrites') = Len(pendingWrites) + (-1)
    BY <1>3, <2>1, TailShrinks DEF HasOrder, OutInv, PacketShape
  <2>6. /\ FlowAt(l, t) /\ ReadWeightAt(l, t) = ReadWeightAt(pc[w], t)
        /\ WriteWeightAt(l, t) - WriteWeightAt(pc[w], t) = -(-1)
    BY <1>1, <1>2 DEF FlowAt, ReadWeightAt, WriteWeightAt, PostedAt, HoldingAt, OutgoingAt, One
  <2>7. QED
    BY <1>1, <2>4, <2>5, <2>6, PendingKeeps
<1>4. CASE ~HasOrder(pendingWrites, nNextWriteOrderToProcess)
  <2>1. Goto(w, "out_exit") /\ UNCHANGED <<pendingWrites, cur>>
    BY <1>4 DEF OutTake
  <2>2. SameWeight("out_deq", "out_exit", t) /\ "out_exit" \notin CloseLabels
    BY <1>2 DEF SameWeight, FlowAt, ReadWeightAt, WriteWeightAt, PostedAt, HoldingAt, OutgoingAt,
                One, CloseLabels
  <2>3. QED
    BY <1>1, <1>2, <2>1, <2>2, PassKeeps DEF itemVars
<1>5. QED
  BY <1>3, <1>4

\* The worker puts the write it holds back.
LEMMA OutRequeuePasses ==
  ASSUME RefsInv, RefsInv', OutInv, NEW w \in Workers, OutRequeue(w)
  PROVE  OutInv'
<1> DEFINE t == cur[w].type
<1>1. /\ pc[w] = "out_req" /\ \E l \in {"out_recheck", "out_loop"} : Goto(w, l)
      /\ UNCHANGED <<iocp, kreads, kwrites, queued, nIncomingReads, nOutgoingWrites, cur, closing>>
      /\ pendingWrites' = <<[order |-> cur[w].order]>> \o pendingWrites
  BY DEF OutRequeue, ioVars, readVars
<1>2. PICK l \in {"out_recheck", "out_loop"} : Goto(w, l)
  BY <1>1
<1>3. pc[w] \notin CloseLabels /\ l \notin CloseLabels /\ FlowAt("out_req", t)
  BY <1>1, FlowHere DEF CloseLabels
<1>4. Steps(w, pc[w], l)
  BY <1>1, <1>2, <1>3, GotoSteps
<1>5. IsSeq(pendingWrites') /\ Len(pendingWrites') = Len(pendingWrites) + 1
  <2>1. PICK S : pendingWrites \in Seq(S)
    BY DEF OutInv, PacketShape, IsSeq
  <2> DEFINE x == [order |-> cur[w].order]
             U == S \union {x}
  <2>2. pendingWrites \in Seq(U) /\ <<x>> \in Seq(U) /\ Len(<<x>>) = 1
    BY <2>1
  <2>3. /\ <<x>> \o pendingWrites \in Seq(U)
        /\ Len(<<x>> \o pendingWrites) = Len(<<x>>) + Len(pendingWrites)
    BY <2>2, ConcatProperties
  <2>4. QED
    BY <1>1, <2>2, <2>3, ItemsNat DEF IsSeq
<1>6. /\ FlowAt(l, t) /\ ReadWeightAt(l, t) = ReadWeightAt(pc[w], t)
      /\ WriteWeightAt(l, t) - WriteWeightAt(pc[w], t) = -1
  BY <1>1, <1>3 DEF FlowAt, ReadWeightAt, WriteWeightAt, PostedAt, HoldingAt, OutgoingAt, One
<1>7. QED
  BY <1>1, <1>4, <1>5, <1>6, SameCur, PendingKeeps

\* The worker goes on and starts a write, or takes none.
LEMMA WriteKeeps ==
  ASSUME RefsInv, RefsInv', OutInv, NEW w \in Workers, NEW l,
         pc[w] \notin CloseLabels, l \notin CloseLabels, Goto(w, l),
         UNCHANGED <<cur, closing, iocp, kreads, pendingWrites, queued, nIncomingReads>>,
         SameWeight(pc[w], l, cur[w].type),
         \/ UNCHANGED <<kwrites, nOutgoingWrites>>
         \/ \E o : kwrites' = Append(kwrites, o) /\ nOutgoingWrites' = nOutgoingWrites + 1
  PROVE  OutInv'
<1> DEFINE t == cur[w].type
<1>1. CASE UNCHANGED <<kwrites, nOutgoingWrites>>
  BY <1>1, PassKeeps DEF itemVars
<1>2. CASE \E o : kwrites' = Append(kwrites, o) /\ nOutgoingWrites' = nOutgoingWrites + 1
  <2>1. Len(kwrites') = Len(kwrites) + 1
    BY <1>2, AppendGrows DEF RefsInv, Shape
  <2>2. ReadItems' = ReadItems + 0
    <3>1. ReadItems' = ReadItems
      BY DEF ReadItems, OfType, Queued
    <3>2. QED
      BY <3>1, ItemsNat
  <2>3. WriteItems' = WriteItems + 1
    <3>1. OfType(iocp, Writing)' = OfType(iocp, Writing)
      BY DEF OfType
    <3>2. WriteItems' = Len(pendingWrites) + (Len(kwrites) + 1) + Cardinality(OfType(iocp, Writing))
      BY <2>1, <3>1 DEF WriteItems
    <3>3. PICK a, b, c : a = Len(pendingWrites) /\ b = Len(kwrites) /\ c = Cardinality(OfType(iocp, Writing))
      OBVIOUS
    <3>4. a \in Nat /\ b \in Nat /\ c \in Nat
      BY <3>3, ItemsNat
    <3>5. WriteItems = a + b + c /\ WriteItems' = a + (b + 1) + c
      BY <3>2, <3>3 DEF WriteItems
    <3>6. QED
      BY <3>4, <3>5
  <2>4. /\ ReadWeightAt(l, t) \in Nat /\ WriteWeightAt(l, t) \in Nat
        /\ ReadWeightAt(l, t) = ReadWeightAt(pc[w], t) /\ WriteWeightAt(l, t) = WriteWeightAt(pc[w], t)
    BY WeightsAreNat DEF SameWeight
  <2>5. /\ nIncomingReads' = nIncomingReads + 0 + (ReadWeightAt(l, t) - ReadWeightAt(pc[w], t))
        /\ nOutgoingWrites' = nOutgoingWrites + 1 + (WriteWeightAt(l, t) - WriteWeightAt(pc[w], t))
    BY <1>2, <2>4, ItemsNat
  <2>6. Steps(w, pc[w], l)
    BY GotoSteps
  <2>7. OthersStay(w) /\ After(w) = pc[w] /\ After(w)' = l /\ cur'[w].type = t /\ FlowAt(l, t)
    BY <2>6 DEF Steps, SameWeight
  <2>8. PacketShape'
    BY DEF PacketShape, OutInv
  <2> HIDE DEF t
  <2>9. QED
    BY <2>2, <2>3, <2>5, <2>7, <2>8, WalkKeeps DEF t
<1>3. QED
  BY <1>1, <1>2

LEMMA OutWritePasses ==
  ASSUME RefsInv, RefsInv', OutInv, NEW w \in Workers, OutData(w) \/ OutStream(w)
  PROVE  OutInv'
<1> DEFINE t == cur[w].type
           L == {"out_data", "out_strm"}
           N == {"out_strm", "out_next", "out_drop", "out_req"}
<1>1. /\ pc[w] \in L /\ \E l \in N : Goto(w, l)
      /\ UNCHANGED <<cur, closing, iocp, kreads, pendingWrites, queued, nIncomingReads>>
  <2>1. CASE OutData(w)
    BY <2>1 DEF OutData, readVars
  <2>2. CASE OutStream(w)
    BY <2>2 DEF OutStream, readVars
  <2>3. QED
    BY <2>1, <2>2
<1>2. \/ UNCHANGED <<kwrites, nOutgoingWrites>>
      \/ \E o : kwrites' = Append(kwrites, o) /\ nOutgoingWrites' = nOutgoingWrites + 1
  BY DEF OutData, OutStream, DoWrite
<1>3. PICK l \in N : Goto(w, l)
  BY <1>1
<1>4. pc[w] \notin CloseLabels /\ l \notin CloseLabels
  BY <1>1 DEF CloseLabels
<1>5. FlowAt(pc[w], t)
  BY <1>4, FlowHere
<1>6. SameWeight(pc[w], l, t)
  BY <1>1, <1>5
     DEF SameWeight, FlowAt, ReadWeightAt, WriteWeightAt, PostedAt, HoldingAt, OutgoingAt, One
<1>7. QED
  BY <1>1, <1>2, <1>3, <1>4, <1>6, WriteKeeps

\* A read is issued: it waits with the system, or in the worker's queue.
LEMMA ReadIssuePasses ==
  ASSUME RefsInv, RefsInv', OutInv, NEW w \in Workers, ReadIssue(w)
  PROVE  OutInv'
<1> DEFINE t == cur[w].type
           r == IssueType(w)
           o == IF r = "Read" THEN nNextReadOrder + 1 ELSE 0
<1>1. /\ pc[w] = "rd_io" /\ \E l \in {AfterReads(w), "rd"} : Goto(w, l)
      /\ UNCHANGED <<cur, closing, iocp, kwrites, pendingWrites, nOutgoingWrites>>
  BY DEF ReadIssue, writeVars
<1>2. PICK l \in {AfterReads(w), "rd"} : Goto(w, l)
  BY <1>1
<1>3. pc[w] \notin CloseLabels /\ l \notin CloseLabels
  BY <1>1 DEF CloseLabels, AfterReads
<1>4. FlowAt(pc[w], t)
  BY <1>3, FlowHere
<1>5. SameWeight(pc[w], l, t)
  BY <1>1, <1>4
     DEF AfterReads, SameWeight, FlowAt, ReadWeightAt, WriteWeightAt, PostedAt, HoldingAt,
                    OutgoingAt, One, Reading
<1>6. CASE UNCHANGED <<kreads, queued, nIncomingReads>>
  BY <1>1, <1>2, <1>3, <1>5, <1>6, PassKeeps DEF itemVars
<1>7. ASSUME nIncomingReads' = nIncomingReads + 1, PacketShape',
             Len(kreads') + Cardinality(Queued(Reading)') = Len(kreads) + Cardinality(Queued(Reading)) + 1,
             Len(kreads') \in Nat, Cardinality(Queued(Reading)') \in Nat
      PROVE  OutInv'
  <2>1. ReadItems' = ReadItems + 1
    <3>1. OfType(iocp, Reading)' = OfType(iocp, Reading)
      BY <1>1 DEF OfType
    <3>2. PICK a, b, c, a1, c1 :
            /\ a = Len(kreads) /\ b = Cardinality(OfType(iocp, Reading)) /\ c = Cardinality(Queued(Reading))
            /\ a1 = Len(kreads') /\ c1 = Cardinality(Queued(Reading)')
      OBVIOUS
    <3>3. a \in Nat /\ b \in Nat /\ c \in Nat /\ a1 \in Nat /\ c1 \in Nat
      BY <1>7, <3>2, ItemsNat
    <3>4. ReadItems = a + b + c /\ ReadItems' = a1 + b + c1
      BY <3>1, <3>2 DEF ReadItems
    <3>5. a1 + c1 = a + c + 1
      BY <1>7, <3>2
    <3>6. QED
      BY <3>3, <3>4, <3>5
  <2>2. WriteItems' = WriteItems + 0
    <3>1. WriteItems' = WriteItems
      BY <1>1 DEF WriteItems, OfType
    <3>2. QED
      BY <3>1, ItemsNat
  <2>3. /\ ReadWeightAt(l, t) \in Nat /\ WriteWeightAt(l, t) \in Nat
        /\ ReadWeightAt(l, t) = ReadWeightAt(pc[w], t) /\ WriteWeightAt(l, t) = WriteWeightAt(pc[w], t)
    BY <1>5, WeightsAreNat DEF SameWeight
  <2>4. /\ nIncomingReads' = nIncomingReads + 1 + (ReadWeightAt(l, t) - ReadWeightAt(pc[w], t))
        /\ nOutgoingWrites' = nOutgoingWrites + 0 + (WriteWeightAt(l, t) - WriteWeightAt(pc[w], t))
    BY <1>1, <1>7, <2>3, ItemsNat
  <2>5. Steps(w, pc[w], l)
    BY <1>1, <1>2, <1>3, GotoSteps
  <2>6. OthersStay(w) /\ After(w) = pc[w] /\ After(w)' = l /\ cur'[w].type = t /\ FlowAt(l, t)
    BY <1>5, <2>5 DEF Steps, SameWeight
  <2> HIDE DEF t
  <2>7. QED
    BY <1>7, <2>1, <2>2, <2>4, <2>6, WalkKeeps DEF t
<1>8. CASE nIncomingReads' = nIncomingReads + 1 /\ UNCHANGED queued
          /\ (\E k : kreads' = Append(kreads, k) /\ k.type \in Reading)
  <2>1. Len(kreads') = Len(kreads) + 1
    BY <1>8, AppendGrows DEF RefsInv, Shape
  <2>2. Queued(Reading)' = Queued(Reading)
    BY <1>8 DEF Queued, OfType
  <2>3. PacketShape'
    <3>1. PICK k : kreads' = Append(kreads, k) /\ k.type \in Reading
      BY <1>8
    <3>2. \A i \in DOMAIN Append(kreads, k) : Append(kreads, k)[i].type \in Reading
      BY <3>1, AppendGrows DEF OutInv, PacketShape, RefsInv, Shape
    <3>3. QED
      BY <1>1, <1>8, <3>1, <3>2 DEF PacketShape, OutInv
  <2>4. /\ Len(kreads') + Cardinality(Queued(Reading)') = Len(kreads) + Cardinality(Queued(Reading)) + 1
        /\ Len(kreads') \in Nat /\ Cardinality(Queued(Reading)') \in Nat
    BY <2>1, <2>2, ItemsNat
  <2>5. QED
    BY <1>7, <1>8, <2>3, <2>4
<1>9. CASE nIncomingReads' = nIncomingReads + 1 /\ UNCHANGED kreads /\ Enqueues(w, ReadResult(r, o))
  <2>1. ReadResult(r, o).type \in Reading /\ IsPacket(ReadResult(r, o))
    BY DEF ReadResult, Packet, IssueType, Reading, IsPacket
  <2>2. Cardinality(Queued(Reading)') = Cardinality(Queued(Reading)) + 1
    <3>1. Cardinality(Queued(Reading))' = Cardinality(Queued(Reading)) + 1
      BY <1>9, <2>1, QueuedGrows DEF RefsInv, Shape, Counted
    <3>2. QED
      BY <3>1
  <2>3. PacketShape'
    <3>1. /\ queued = [p \in Procs |-> queued[p]] /\ w \in Procs /\ Workers \subseteq Procs
          /\ IsSeq(queued[w])
      BY DEF RefsInv, Shape, QueueShape, ReadQueue, Procs
    <3>2. /\ queued'[w] = Append(queued[w], ReadResult(r, o))
          /\ \A v \in Workers : v # w => queued'[v] = queued[v]
      BY <1>9, <3>1 DEF Enqueues
    <3>3. \A i \in DOMAIN queued[w] : IsPacket(queued[w][i])
      BY DEF OutInv, PacketShape
    <3>4. \A i \in DOMAIN Append(queued[w], ReadResult(r, o)) :
             IsPacket(Append(queued[w], ReadResult(r, o))[i])
      BY <2>1, <3>1, <3>3, AppendGrows
    <3>5. \A v \in Workers : \A i \in DOMAIN queued'[v] : IsPacket(queued'[v][i])
      BY <3>2, <3>4 DEF OutInv, PacketShape
    <3>6. QED
      BY <1>1, <1>9, <3>5 DEF OutInv, PacketShape
  <2>4. /\ Len(kreads') + Cardinality(Queued(Reading)') = Len(kreads) + Cardinality(Queued(Reading)) + 1
        /\ Len(kreads') \in Nat /\ Cardinality(Queued(Reading)') \in Nat
    <3>1. PICK a, c : a = Len(kreads) /\ c = Cardinality(Queued(Reading)) /\ a \in Nat /\ c \in Nat
      BY ItemsNat
    <3>2. Len(kreads') = a /\ Cardinality(Queued(Reading)') = c + 1
      BY <1>9, <2>2, <3>1
    <3>3. QED
      BY <3>1, <3>2
  <2>5. QED
    BY <1>7, <1>9, <2>3, <2>4
<1>10. \/ UNCHANGED <<kreads, queued, nIncomingReads>>
       \/ nIncomingReads' = nIncomingReads + 1 /\ UNCHANGED kreads /\ Enqueues(w, ReadResult(r, o))
       \/ nIncomingReads' = nIncomingReads + 1 /\ UNCHANGED queued
          /\ (\E k : kreads' = Append(kreads, k) /\ k.type \in Reading)
  <2>1. [type |-> r, order |-> o].type \in Reading
    BY DEF IssueType, Reading
  <2>2. QED
    BY <2>1 DEF ReadIssue, Enqueues
<1>11. QED
  BY <1>6, <1>8, <1>9, <1>10

\* A worker takes a packet of the port, and counts for it from now on.
LEMMA DispatchPasses ==
  ASSUME RefsInv, RefsInv', OutInv, NEW w \in Workers, Dispatch(w)
  PROVE  OutInv'
<1> DEFINE k == Head(iocp)
           u == cur[w].type
<1>1. /\ pc[w] = "idle" /\ Goto(w, "start") /\ iocp # <<>> /\ iocp' = Tail(iocp)
      /\ cur' = [cur EXCEPT ![w] = k]
      /\ UNCHANGED <<kreads, kwrites, pendingWrites, queued, nIncomingReads, nOutgoingWrites, closing>>
  BY DEF Dispatch, readVars, writeVars
<1>2. /\ pc = [p \in Procs |-> pc[p]] /\ w \in Procs /\ Workers \subseteq Procs
      /\ cur = [p \in Procs |-> cur[p]] /\ \A p \in Procs : IsPacket(cur[p])
      /\ IsSeq(iocp)
      /\ \A i \in DOMAIN iocp : IsPacket(iocp[i]) /\ iocp[i].type \in PacketTypes
  BY DEF RefsInv, Shape, Procs, OutInv, PacketShape
<1>3. /\ IsSeq(iocp') /\ IsPacket(k) /\ k.type \in PacketTypes
      /\ \A i \in DOMAIN iocp' : IsPacket(iocp'[i]) /\ iocp'[i].type \in PacketTypes
  BY <1>1, <1>2, TailShrinks
<1>4. /\ cur'[w] = k /\ cur' = [p \in Procs |-> cur'[p]] /\ \A p \in Procs : IsPacket(cur'[p])
      /\ \A v \in Workers : v # w => cur'[v] = cur[v] /\ pc'[v] = pc[v]
      /\ pc'[w] = "start"
  BY <1>1, <1>2, <1>3 DEF Goto
<1>5. PacketShape'
  BY <1>1, <1>3, <1>4 DEF OutInv, PacketShape
<1>6. OthersStay(w) /\ After(w) = "idle" /\ After(w)' = "start" /\ cur'[w].type = k.type
  BY <1>1, <1>4 DEF OthersStay, After, CloseLabels
<1>7. FlowAt("start", k.type) /\ FlowAt("idle", u)
  BY <1>1, <1>3, FlowHere DEF FlowAt, CloseLabels
<1>8. /\ ReadWeightAt("idle", u) = 0 /\ WriteWeightAt("idle", u) = 0
      /\ ReadWeightAt("start", k.type) = One(k.type \in Reading)
      /\ WriteWeightAt("start", k.type) = One(k.type \in Writing)
  BY <1>3, <1>7
     DEF FlowAt, ReadWeightAt, WriteWeightAt, PostedAt, HoldingAt, OutgoingAt, One, Writing
<1>9. PICK x, y : x = One(k.type \in Reading) /\ y = One(k.type \in Writing) /\ x \in {0, 1} /\ y \in {0, 1}
  BY DEF One
<1>10. ReadItems' = ReadItems + (-x)
  <2>1. Cardinality(OfType(iocp', Reading)) = Cardinality(OfType(iocp, Reading)) - x
    BY <1>1, <1>2, <1>9, OfTypeTail
  <2>2. Queued(Reading)' = Queued(Reading) /\ OfType(iocp, Reading)' = OfType(iocp', Reading)
    BY <1>1 DEF Queued, OfType
  <2>3. PICK a, b, c : a = Len(kreads) /\ b = Cardinality(OfType(iocp, Reading))
                          /\ c = Cardinality(Queued(Reading))
    OBVIOUS
  <2>4. a \in Nat /\ b \in Nat /\ c \in Nat
    BY <2>3, ItemsNat
  <2>5. ReadItems = a + b + c /\ ReadItems' = a + (b - x) + c
    BY <1>1, <2>1, <2>2, <2>3 DEF ReadItems
  <2>6. QED
    BY <1>9, <2>4, <2>5
<1>11. WriteItems' = WriteItems + (-y)
  <2>1. Cardinality(OfType(iocp', Writing)) = Cardinality(OfType(iocp, Writing)) - y
    BY <1>1, <1>2, <1>9, OfTypeTail
  <2>2. OfType(iocp, Writing)' = OfType(iocp', Writing)
    BY DEF OfType
  <2>3. PICK a, b, c : a = Len(pendingWrites) /\ b = Len(kwrites) /\ c = Cardinality(OfType(iocp, Writing))
    OBVIOUS
  <2>4. a \in Nat /\ b \in Nat /\ c \in Nat
    BY <2>3, ItemsNat
  <2>5. WriteItems = a + b + c /\ WriteItems' = a + b + (c - y)
    BY <1>1, <2>1, <2>2, <2>3 DEF WriteItems
  <2>6. QED
    BY <1>9, <2>4, <2>5
<1>12. /\ nIncomingReads' = nIncomingReads + (-x) + (ReadWeightAt("start", k.type) - ReadWeightAt("idle", u))
       /\ nOutgoingWrites' = nOutgoingWrites + (-y)
                                + (WriteWeightAt("start", k.type) - WriteWeightAt("idle", u))
  BY <1>1, <1>8, <1>9, ItemsNat
<1>13. -x \in Int /\ -y \in Int
  BY <1>9
<1> HIDE DEF k, u
<1>14. QED
  BY <1>5, <1>6, <1>7, <1>10, <1>11, <1>12, <1>13, WalkKeeps DEF k, u

\* A worker is done with its packet, and takes the next of its queue if there is one.
LEMMA ReleasePasses ==
  ASSUME RefsInv, RefsInv', OutInv, NEW w \in Workers, ReleaseConn(w)
  PROVE  OutInv'
<1> DEFINE u == cur[w].type
<1>1. /\ pc[w] = "release"
      /\ UNCHANGED <<iocp, kreads, kwrites, pendingWrites, nIncomingReads, nOutgoingWrites, closing>>
  BY DEF ReleaseConn, readVars, writeVars, ioVars
<1>2. /\ pc = [p \in Procs |-> pc[p]] /\ w \in Procs /\ Workers \subseteq Procs
      /\ cur = [p \in Procs |-> cur[p]] /\ \A p \in Procs : IsPacket(cur[p])
      /\ QueueShape /\ IsFiniteSet(Queued(Reading))
  BY DEF RefsInv, Shape, Procs, OutInv, PacketShape, Counted
<1>3. ReadWeightAt("release", u) = 0 /\ WriteWeightAt("release", u) = 0
  BY DEF ReadWeightAt, WriteWeightAt, PostedAt, HoldingAt, OutgoingAt, One
<1>4. WriteItems' = WriteItems + 0
  <2>1. WriteItems' = WriteItems
    BY <1>1 DEF WriteItems, OfType
  <2>2. QED
    BY <2>1, ItemsNat
<1>5. ASSUME NEW l \in {"idle", "start"}, NEW k, IsPacket(k), Goto(w, l), cur' = [cur EXCEPT ![w] = k]
      PROVE  /\ OthersStay(w) /\ After(w) = "release" /\ After(w)' = l /\ cur'[w].type = k.type
             /\ cur' = [p \in Procs |-> cur'[p]] /\ \A p \in Procs : IsPacket(cur'[p])
  <2>1. /\ cur'[w] = k /\ cur' = [p \in Procs |-> cur'[p]] /\ \A p \in Procs : IsPacket(cur'[p])
        /\ \A v \in Workers : v # w => cur'[v] = cur[v] /\ pc'[v] = pc[v]
        /\ pc'[w] = l
    BY <1>2, <1>5 DEF Goto
  <2>2. QED
    BY <1>1, <2>1 DEF OthersStay, After, CloseLabels
<1>6. CASE queued[w] = <<>>
  <2>1. cur' = [cur EXCEPT ![w] = NoPacket] /\ Goto(w, "idle") /\ UNCHANGED queued
    BY <1>6 DEF ReleaseConn
  <2>2. IsPacket(NoPacket) /\ NoPacket.type = "none"
    BY DEF IsPacket, NoPacket
  <2>3. /\ OthersStay(w) /\ After(w) = "release" /\ After(w)' = "idle" /\ cur'[w].type = "none"
        /\ cur' = [p \in Procs |-> cur'[p]] /\ \A p \in Procs : IsPacket(cur'[p])
    BY <1>5, <2>1, <2>2
  <2>4. PacketShape'
    BY <1>1, <2>1, <2>3 DEF OutInv, PacketShape
  <2>5. ReadItems' = ReadItems + 0
    <3>1. ReadItems' = ReadItems
      BY <1>1, <2>1 DEF ReadItems, OfType, Queued
    <3>2. QED
      BY <3>1, ItemsNat
  <2>6. FlowAt("idle", "none") /\ ReadWeightAt("idle", "none") = 0 /\ WriteWeightAt("idle", "none") = 0
    BY DEF FlowAt, ReadWeightAt, WriteWeightAt, PostedAt, HoldingAt, OutgoingAt, One
  <2>7. /\ nIncomingReads' = nIncomingReads + 0 + (ReadWeightAt("idle", "none") - ReadWeightAt("release", u))
        /\ nOutgoingWrites' = nOutgoingWrites + 0
                                 + (WriteWeightAt("idle", "none") - WriteWeightAt("release", u))
    BY <1>1, <1>3, <2>6, ItemsNat
  <2> HIDE DEF u
  <2>8. QED
    BY <1>4, <2>3, <2>4, <2>5, <2>6, <2>7, WalkKeeps DEF u
<1>7. CASE queued[w] # <<>>
  <2> DEFINE k == Head(queued[w])
  <2>1. cur' = [cur EXCEPT ![w] = k] /\ Goto(w, "start") /\ Dequeues(w)
    BY <1>7 DEF ReleaseConn, Dequeues
  <2>2. /\ IsSeq(queued[w])
        /\ \A i \in DOMAIN queued[w] : IsPacket(queued[w][i]) /\ queued[w][i].type \in Reading
    BY <1>2 DEF QueueShape, ReadQueue, OutInv, PacketShape
  <2>3. IsPacket(k) /\ k.type \in Reading
    BY <1>7, <2>2, TailShrinks
  <2>4. /\ OthersStay(w) /\ After(w) = "release" /\ After(w)' = "start" /\ cur'[w].type = k.type
        /\ cur' = [p \in Procs |-> cur'[p]] /\ \A p \in Procs : IsPacket(cur'[p])
    BY <1>5, <2>1, <2>3
  <2>5. \A v \in Workers : \A i \in DOMAIN queued'[v] : IsPacket(queued'[v][i])
    <3>1. queued'[w] = Tail(queued[w]) /\ \A v \in Workers : v # w => queued'[v] = queued[v]
      BY <1>2, <2>1 DEF Dequeues, QueueShape
    <3>2. \A i \in DOMAIN Tail(queued[w]) : IsPacket(Tail(queued[w])[i])
      BY <1>7, <2>2, TailShrinks
    <3>3. QED
      BY <3>1, <3>2 DEF OutInv, PacketShape
  <2>6. PacketShape'
    BY <1>1, <2>4, <2>5 DEF OutInv, PacketShape
  <2>7. ReadItems' = ReadItems + (-1)
    <3>1. Cardinality(Queued(Reading))' = Cardinality(Queued(Reading)) - 1
      BY <1>2, <1>7, <2>1, QueuedShrinks
    <3>2. PICK a, b, c : a = Len(kreads) /\ b = Cardinality(OfType(iocp, Reading))
                            /\ c = Cardinality(Queued(Reading))
      OBVIOUS
    <3>3. a \in Nat /\ b \in Nat /\ c \in Nat
      BY <3>2, ItemsNat
    <3>4. OfType(iocp, Reading)' = OfType(iocp, Reading)
      BY <1>1 DEF OfType
    <3>5. ReadItems = a + b + c /\ ReadItems' = a + b + (c - 1)
      BY <1>1, <3>1, <3>2, <3>4 DEF ReadItems
    <3>6. QED
      BY <3>3, <3>5
  <2>8. /\ FlowAt("start", k.type)
        /\ ReadWeightAt("start", k.type) = 1 /\ WriteWeightAt("start", k.type) = 0
    BY <2>3 DEF FlowAt, ReadWeightAt, WriteWeightAt, PostedAt, HoldingAt, OutgoingAt, One, Reading,
                 PacketTypes
  <2>9. /\ nIncomingReads' = nIncomingReads + (-1)
                                + (ReadWeightAt("start", k.type) - ReadWeightAt("release", u))
        /\ nOutgoingWrites' = nOutgoingWrites + 0
                                 + (WriteWeightAt("start", k.type) - WriteWeightAt("release", u))
    BY <1>1, <1>3, <2>8, ItemsNat
  <2> HIDE DEF k, u
  <2>10. QED
    BY <1>4, <2>4, <2>6, <2>7, <2>8, <2>9, WalkKeeps DEF k, u
<1>8. QED
  BY <1>6, <1>7

-----------------------------------------------------------------------------
(* The senders, the application, the system and the peer.                   *)

LEMMA OthersBalance ==
  ASSUME RefsInv, RefsInv', OutInv, PacketShape',
         \A v \in Workers : pc'[v] = pc[v] /\ cur'[v] = cur[v] /\ closing'[v] = closing[v],
         NEW dr \in Int, NEW dw \in Int,
         ReadItems' = ReadItems + dr, WriteItems' = WriteItems + dw,
         nIncomingReads' = nIncomingReads + dr, nOutgoingWrites' = nOutgoingWrites + dw
  PROVE  OutInv'
<1>1. App \notin Workers
  BY ConstantsOK DEF ConstantsOK
<1>2. ReadWeight(App) = 0 /\ ReadWeight(App)' = 0
  BY <1>1 DEF ReadWeight, One, Readers, Busy
<1>3. WriteWeight(App) = 0 /\ WriteWeight(App)' = 0
  BY <1>1 DEF WriteWeight, One, Askers, Starting, Writers, Chainers, Holders
<1>4. ReadItems' - ReadItems = dr /\ WriteItems' - WriteItems = dw
  BY ItemsNat
<1>5. /\ nIncomingReads' = nIncomingReads + (ReadItems' - ReadItems) + (ReadWeight(App)' - ReadWeight(App))
      /\ nOutgoingWrites' = nOutgoingWrites + (WriteItems' - WriteItems)
                                            + (WriteWeight(App)' - WriteWeight(App))
  <2>1. /\ nIncomingReads + dr + (0 - 0) = nIncomingReads + dr
        /\ nOutgoingWrites + dw + (0 - 0) = nOutgoingWrites + dw
    BY ItemsNat
  <2>2. QED
    BY <1>2, <1>3, <1>4, <2>1
<1>6. OthersStay(App)
  BY DEF OthersStay
<1>7. QED
  BY <1>1, <1>5, <1>6, Balance

\* Nothing that is counted changes outside the workers either.
LEMMA OthersQuiet ==
  ASSUME RefsInv, RefsInv', OutInv, UNCHANGED <<itemVars, nIncomingReads, nOutgoingWrites>>,
         cur' = [p \in Procs |-> cur'[p]], \A p \in Procs : IsPacket(cur'[p]),
         \A v \in Workers : pc'[v] = pc[v] /\ cur'[v] = cur[v] /\ closing'[v] = closing[v]
  PROVE  OutInv'
<1>1. PacketShape'
  BY DEF PacketShape, OutInv, itemVars
<1>2. ReadItems' = ReadItems + 0 /\ WriteItems' = WriteItems + 0
  BY SameItemsOut, ItemsNat
<1>3. nIncomingReads' = nIncomingReads + 0 /\ nOutgoingWrites' = nOutgoingWrites + 0
  BY ItemsNat
<1>4. QED
  BY <1>1, <1>2, <1>3, OthersBalance

\* A packet is appended to the port.
LEMMA PortGrows ==
  ASSUME RefsInv, OutInv, NEW k, IsPacket(k), k.type \in PacketTypes, iocp' = Append(iocp, k)
  PROVE  /\ \A i \in DOMAIN iocp' : IsPacket(iocp'[i]) /\ iocp'[i].type \in PacketTypes
         /\ Cardinality(OfType(iocp, Reading)') = Cardinality(OfType(iocp, Reading)) + One(k.type \in Reading)
         /\ Cardinality(OfType(iocp, Writing)') = Cardinality(OfType(iocp, Writing)) + One(k.type \in Writing)
<1>1. IsSeq(iocp) /\ \A i \in DOMAIN iocp : IsPacket(iocp[i]) /\ iocp[i].type \in PacketTypes
  BY DEF RefsInv, Shape, OutInv, PacketShape
<1>2. \A i \in DOMAIN iocp' : IsPacket(iocp'[i]) /\ iocp'[i].type \in PacketTypes
  BY <1>1, AppendGrows
<1>3. OfType(iocp, Reading)' = OfType(Append(iocp, k), Reading)
      /\ OfType(iocp, Writing)' = OfType(Append(iocp, k), Writing)
  BY DEF OfType
<1>4. QED
  BY <1>1, <1>2, <1>3, OfTypeAppend

\* What a packet in the port stands for was with the system, or is counted anew.
Conserves(k, d) ==
  /\ Len(kreads') + One(k.type \in Reading) = Len(kreads) /\ Len(kreads') \in Nat
  /\ Len(kwrites') + One(k.type \in Writing) = Len(kwrites) + d /\ Len(kwrites') \in Nat
  /\ nOutgoingWrites' = nOutgoingWrites + d

\* A packet is posted; an operation it completes is no longer with the system.
LEMMA PostedKeeps ==
  ASSUME RefsInv, RefsInv', OutInv, NEW k, IsPacket(k), k.type \in PacketTypes, iocp' = Append(iocp, k),
         UNCHANGED <<queued, pendingWrites, nIncomingReads>>,
         cur' = [p \in Procs |-> cur'[p]], \A p \in Procs : IsPacket(cur'[p]),
         \A i \in DOMAIN kreads' : kreads'[i].type \in Reading,
         \A v \in Workers : pc'[v] = pc[v] /\ cur'[v] = cur[v] /\ closing'[v] = closing[v],
         NEW d \in {0, 1}, Conserves(k, d)
  PROVE  OutInv'
<1>1. PacketShape'
  BY PortGrows DEF PacketShape, OutInv
<1>2. PICK x, y : x = One(k.type \in Reading) /\ y = One(k.type \in Writing) /\ x \in {0, 1} /\ y \in {0, 1}
  BY DEF One
<1>3. ReadItems' = ReadItems + 0
  <2>1. PICK a, b, c, a1, b1 :
          /\ a = Len(kreads) /\ b = Cardinality(OfType(iocp, Reading)) /\ c = Cardinality(Queued(Reading))
          /\ a1 = Len(kreads') /\ b1 = Cardinality(OfType(iocp, Reading)')
    OBVIOUS
  <2>2. a \in Nat /\ b \in Nat /\ c \in Nat /\ a1 \in Nat
    BY <2>1, ItemsNat DEF Conserves
  <2>3. a1 + x = a /\ b1 = b + x
    BY <1>2, <2>1, PortGrows DEF Conserves
  <2>4. Queued(Reading)' = Queued(Reading)
    BY DEF Queued, OfType
  <2>5. ReadItems = a + b + c /\ ReadItems' = a1 + b1 + c
    BY <2>1, <2>4 DEF ReadItems
  <2>6. QED
    BY <1>2, <2>2, <2>3, <2>5
<1>4. WriteItems' = WriteItems + d
  <2>1. PICK a, b, c, b1, c1 :
          /\ a = Len(pendingWrites) /\ b = Len(kwrites) /\ c = Cardinality(OfType(iocp, Writing))
          /\ b1 = Len(kwrites') /\ c1 = Cardinality(OfType(iocp, Writing)')
    OBVIOUS
  <2>2. a \in Nat /\ b \in Nat /\ c \in Nat /\ b1 \in Nat
    BY <2>1, ItemsNat DEF Conserves
  <2>3. b1 + y = b + d /\ c1 = c + y
    BY <1>2, <2>1, PortGrows DEF Conserves
  <2>4. WriteItems = a + b + c /\ WriteItems' = a + b1 + c1
    BY <2>1 DEF WriteItems
  <2>5. QED
    BY <1>2, <2>2, <2>3, <2>4
<1>5. nIncomingReads' = nIncomingReads + 0
  BY ItemsNat
<1>6. QED
  BY <1>1, <1>3, <1>4, <1>5, OthersBalance DEF Conserves

\* A sender's thread is not a worker's.
LEMMA SendersAreOthers ==
  ASSUME RefsInv, OutInv, NEW s \in Senders, NEW l, NEW k, IsPacket(k),
         Goto(s, l), cur' = [cur EXCEPT ![s] = k], UNCHANGED closing
  PROVE  /\ \A v \in Workers : pc'[v] = pc[v] /\ cur'[v] = cur[v] /\ closing'[v] = closing[v]
         /\ cur' = [p \in Procs |-> cur'[p]] /\ \A p \in Procs : IsPacket(cur'[p])
<1>1. /\ pc = [p \in Procs |-> pc[p]] /\ s \in Procs /\ Workers \subseteq Procs
      /\ cur = [p \in Procs |-> cur[p]] /\ \A p \in Procs : IsPacket(cur[p])
      /\ s \notin Workers
  BY ConstantsOK DEF ConstantsOK, RefsInv, Shape, Procs, OutInv, PacketShape
<1>2. QED
  BY <1>1 DEF Goto

LEMMA SendPasses ==
  ASSUME RefsInv, RefsInv', OutInv, NEW s \in Senders, SendBegin(s) \/ SendPost(s)
  PROVE  OutInv'
<1>1. CASE SendBegin(s)
  <2> DEFINE k == [cur[s] EXCEPT !.order = nNextWriteOrder + 1]
  <2>1. IsPacket(cur[s])
    BY DEF OutInv, PacketShape, Procs
  <2>2. IsPacket(k)
    BY <2>1 DEF IsPacket
  <2>3. /\ Goto(s, "posting") /\ UNCHANGED closing /\ cur' = [cur EXCEPT ![s] = k]
        /\ UNCHANGED <<itemVars, nIncomingReads, nOutgoingWrites>>
    BY <1>1 DEF SendBegin, itemVars, readVars, ioVars
  <2> HIDE DEF k
  <2>4. QED
    BY <2>2, <2>3, SendersAreOthers, OthersQuiet
<1>2. CASE SendPost(s)
  <2> DEFINE k == Packet("WriteRequest", cur[s].order, 0, "ok")
  <2>1. IsPacket(k) /\ k.type = "WriteRequest" /\ IsPacket(NoPacket)
    BY DEF IsPacket, Packet, NoPacket
  <2>2. /\ Goto(s, "idle") /\ UNCHANGED closing /\ cur' = [cur EXCEPT ![s] = NoPacket]
        /\ iocp' = Append(iocp, k)
        /\ UNCHANGED <<queued, pendingWrites, nIncomingReads, kreads, kwrites>>
        /\ nOutgoingWrites' = nOutgoingWrites + 1
    BY <1>2 DEF SendPost, readVars
  <2> HIDE DEF k
  <2>3. k.type \in PacketTypes /\ One(k.type \in Reading) = 0 /\ One(k.type \in Writing) = 1
    BY <2>1 DEF PacketTypes, Reading, Writing, One
  <2>4. Conserves(k, 1)
    BY <2>2, <2>3, ItemsNat DEF Conserves
  <2>5. \A i \in DOMAIN kreads' : kreads'[i].type \in Reading
    BY <2>2 DEF OutInv, PacketShape
  <2>6. /\ \A v \in Workers : pc'[v] = pc[v] /\ cur'[v] = cur[v] /\ closing'[v] = closing[v]
        /\ cur' = [p \in Procs |-> cur'[p]] /\ \A p \in Procs : IsPacket(cur'[p])
    BY <2>1, <2>2, SendersAreOthers
  <2>7. QED
    BY <2>1, <2>2, <2>3, <2>4, <2>5, <2>6, PostedKeeps
<1>3. QED
  BY <1>1, <1>2

LEMMA AppPasses ==
  ASSUME RefsInv, RefsInv', OutInv, AppClose \/ AppStep
  PROVE  OutInv'
<1>1. /\ pc = [p \in Procs |-> pc[p]] /\ closing = [p \in Procs |-> closing[p]]
      /\ App \notin Workers /\ Workers \subseteq Procs /\ App \in Procs
  BY ConstantsOK DEF ConstantsOK, RefsInv, Shape, Procs
<1>2. UNCHANGED <<cur, itemVars, nIncomingReads, nOutgoingWrites>>
  BY DEF AppClose, AppStep, AppRelease, CloseStep, CloseMark, CloseCode, CloseTest, ShutCode,
         ShutLink, CloseRelease, itemVars, readVars, writeVars, ioVars
<1>3. \A v \in Workers : pc'[v] = pc[v] /\ closing'[v] = closing[v]
  BY <1>1 DEF AppClose, AppStep, AppRelease, CloseStep, CloseMark, CloseCode, CloseTest, ShutCode,
              ShutLink, CloseRelease, FinishClose, Return, CallClose, Goto
<1>4. QED
  BY <1>2, <1>3, SameCur, OthersQuiet

LEMMA PausePasses ==
  ASSUME RefsInv, RefsInv', OutInv, NEW f, Pause(f) \/ Resume(f)
  PROVE  OutInv'
<1>1. CASE Pause(f)
  <2>1. UNCHANGED <<cur, pc, closing, itemVars, nIncomingReads, nOutgoingWrites>>
    BY <1>1 DEF Pause, itemVars, readVars, writeVars, ioVars, procVars
  <2>2. QED
    BY <2>1, SameCur, OthersQuiet
<1>2. CASE Resume(f)
  <2> DEFINE k == Packet("Resume", IF f = "InPaused" THEN 1 ELSE 0, 0, "ok")
  <2>1. IsPacket(k) /\ k.type = "Resume"
    BY DEF IsPacket, Packet
  <2>2. /\ iocp' = Append(iocp, k)
        /\ UNCHANGED <<cur, pc, closing, queued, pendingWrites, nIncomingReads, nOutgoingWrites,
                       kreads, kwrites>>
    BY <1>2 DEF Resume, readVars, writeVars, procVars
  <2> HIDE DEF k
  <2>3. k.type \in PacketTypes /\ One(k.type \in Reading) = 0 /\ One(k.type \in Writing) = 0
    BY <2>1 DEF PacketTypes, Reading, Writing, One
  <2>4. Conserves(k, 0)
    BY <2>2, <2>3, ItemsNat DEF Conserves
  <2>5. \A i \in DOMAIN kreads' : kreads'[i].type \in Reading
    BY <2>2 DEF OutInv, PacketShape
  <2>6. QED
    BY <2>1, <2>2, <2>3, <2>4, <2>5, SameCur, PostedKeeps
<1>3. QED
  BY <1>1, <1>2

LEMMA CompletionPasses ==
  ASSUME RefsInv, RefsInv', OutInv, ReadCompletes \/ WriteCompletes
  PROVE  OutInv'
<1>1. UNCHANGED <<cur, pc, closing, queued, pendingWrites, nIncomingReads, nOutgoingWrites>>
  BY DEF ReadCompletes, WriteCompletes, readVars, writeVars, procVars
<1>2. IsSeq(kreads) /\ IsSeq(kwrites) /\ \A i \in DOMAIN kreads : kreads[i].type \in Reading
  BY DEF RefsInv, Shape, OutInv, PacketShape
<1>3. CASE ReadCompletes
  <2>1. kreads # <<>> /\ kreads' = Tail(kreads) /\ UNCHANGED kwrites
    BY <1>3 DEF ReadCompletes
  <2>2. /\ Head(kreads).type \in Reading
        /\ Len(kreads') + 1 = Len(kreads) /\ Len(kreads') \in Nat
        /\ \A i \in DOMAIN kreads' : kreads'[i].type \in Reading
    BY <1>2, <2>1, TailShrinks
  <2>3. PICK k : IsPacket(k) /\ k.type = Head(kreads).type /\ iocp' = Append(iocp, k)
    BY <1>3 DEF ReadCompletes, ReadResult, Packet, IsPacket
  <2>4. k.type \in PacketTypes /\ One(k.type \in Reading) = 1 /\ One(k.type \in Writing) = 0
    BY <2>2, <2>3 DEF PacketTypes, Reading, Writing, One
  <2>5. Conserves(k, 0)
    BY <1>1, <2>1, <2>2, <2>4, ItemsNat DEF Conserves
  <2>6. QED
    BY <1>1, <2>2, <2>3, <2>4, <2>5, SameCur, PostedKeeps
<1>4. CASE WriteCompletes
  <2>1. kwrites # <<>> /\ kwrites' = Tail(kwrites) /\ UNCHANGED kreads
    BY <1>4 DEF WriteCompletes
  <2>2. Len(kwrites') + 1 = Len(kwrites) /\ Len(kwrites') \in Nat
    BY <1>2, <2>1, TailShrinks
  <2>3. PICK k : IsPacket(k) /\ k.type = "Write" /\ iocp' = Append(iocp, k)
    BY <1>4 DEF WriteCompletes, Packet, IsPacket
  <2>4. k.type \in PacketTypes /\ One(k.type \in Reading) = 0 /\ One(k.type \in Writing) = 1
    BY <2>3 DEF PacketTypes, Reading, Writing, One
  <2>5. Conserves(k, 0)
    BY <1>1, <2>1, <2>2, <2>4, ItemsNat DEF Conserves
  <2>6. QED
    BY <1>1, <1>2, <2>1, <2>3, <2>4, <2>5, SameCur, PostedKeeps
<1>5. QED
  BY <1>3, <1>4

LEMMA PeerPasses ==
  ASSUME RefsInv, RefsInv', OutInv, PeerSends \/ PeerCloses \/ UNCHANGED vars
  PROVE  OutInv'
<1>1. UNCHANGED <<cur, pc, closing, itemVars, nIncomingReads, nOutgoingWrites>>
  BY DEF PeerSends, PeerCloses, vars, itemVars, readVars, writeVars, ioVars, procVars
<1>2. QED
  BY <1>1, SameCur, OthersQuiet

-----------------------------------------------------------------------------
(* All steps.                                                               *)

LEMMA HandlePasses ==
  ASSUME RefsInv, RefsInv', OutInv, NEW w \in Workers, Handle(w)
  PROVE  OutInv'
<1>1. CASE Start(w)
  BY <1>1, StartPasses, RequestPasses
<1>2. CASE CloseStep(w) \/ DecClosed(w)
  BY <1>2, ClosePasses
<1>3. CASE \/ InCheck(w) \/ InWrite(w) \/ ReadNext(w) \/ ReadAgain(w) \/ ResumeLoop(w)
          \/ InTake(w) \/ ReadIssue(w) \/ ReadDone(w)
  BY <1>3, InputPasses, InTakePasses, ReadIssuePasses, ReadDonePasses
<1>4. CASE \/ OutLoop(w) \/ OutSignal(w) \/ OutRecheck(w) \/ OutTake(w) \/ OutRequeue(w)
          \/ OutData(w) \/ OutStream(w)
          \/ OutEnter(w) \/ OutDrop(w) \/ OutNext(w) \/ OutExit(w) \/ WriteDone(w)
  BY <1>4, OutputPasses, OutTakePasses, OutRequeuePasses, OutWritePasses, OutputCounts
<1>5. CASE \/ Post(w) \/ PostEnding(w) \/ FireEnter(w) \/ FireExit(w) \/ EndingWait(w)
          \/ EndingNotify(w) \/ EndPacket(w)
  <2>1. CASE Post(w) \/ FireEnter(w) \/ FireExit(w) \/ EndingWait(w) \/ EndingNotify(w)
    BY <2>1, PostPasses
  <2>2. CASE EndPacket(w)
    BY <2>2, EndPasses
  <2>3. CASE PostEnding(w) /\ pc'[w] = "close"
    BY <2>3, EndPasses
  <2>4. CASE PostEnding(w) /\ pc'[w] # "close"
    BY <2>4, PostPasses
  <2>5. QED
    BY <1>5, <2>1, <2>2, <2>3, <2>4
<1>6. CASE ReleaseConn(w)
  BY <1>6, ReleasePasses
<1>7. QED
  BY <1>1, <1>2, <1>3, <1>4, <1>5, <1>6 DEF Handle

LEMMA OutStep ==
  ASSUME RefsInv, RefsInv', OutInv, [Next]_vars
  PROVE  OutInv'
<1>1. CASE \E w \in Workers : Worker(w)
  BY <1>1, DispatchPasses, HandlePasses DEF Worker
<1>2. CASE \E s \in Senders : SendBegin(s) \/ SendPost(s)
  BY <1>2, SendPasses
<1>3. CASE \E f \in Pausable : Pause(f) \/ Resume(f)
  BY <1>3, PausePasses
<1>4. CASE AppClose \/ AppStep
  BY <1>4, AppPasses
<1>5. CASE ReadCompletes \/ WriteCompletes
  BY <1>5, CompletionPasses
<1>6. CASE PeerSends \/ PeerCloses \/ UNCHANGED vars
  BY <1>6, PeerPasses
<1>7. QED
  BY <1>1, <1>2, <1>3, <1>4, <1>5, <1>6 DEF Next

\* At first only the initial packet is there, and no worker is at work.
LEMMA OutInit == Init => OutInv
<1> SUFFICES ASSUME Init PROVE OutInv
  OBVIOUS
<1> USE DEF Init
<1>1. /\ iocp = <<Packet("InitialSetup", 0, 0, "ok")>> /\ kreads = <<>> /\ kwrites = <<>>
      /\ pendingWrites = <<>> /\ nIncomingReads = 0 /\ nOutgoingWrites = 0
      /\ \A w \in Workers : pc[w] = "idle" /\ cur[w] = NoPacket /\ queued[w] = <<>>
  BY DEF Procs
<1>2. PacketShape
  <2>1. IsPacket(NoPacket) /\ IsPacket(iocp[1]) /\ iocp[1].type \in PacketTypes /\ DOMAIN iocp = {1}
    BY DEF IsPacket, NoPacket, Packet, PacketTypes
  <2>2. cur = [p \in Procs |-> cur[p]] /\ \A p \in Procs : IsPacket(cur[p])
    BY <2>1
  <2>3. IsSeq(pendingWrites)
    BY EmptyIsSeq
  <2>4. QED
    BY <1>1, <2>1, <2>2, <2>3 DEF PacketShape
<1>3. Flow
  BY <1>1 DEF Flow, FlowAt, After, NoPacket, CloseLabels
<1>4. /\ OfType(iocp, Reading) = {} /\ OfType(iocp, Writing) = {}
      /\ Queued(Reading) = {}
  BY <1>1 DEF OfType, Queued, Packet, Reading, Writing
<1>5. /\ Readers = {} /\ Askers = {} /\ Writers = {} /\ Chainers = {} /\ Holders = {}
  BY <1>1 DEF Readers, Busy, Askers, Starting, Writers, Chainers, Holders, InOutgoing, Holding,
              After, CloseLabels, NoPacket
<1> HIDE DEF Init
<1>6. OutstandingExact
  <2>1. /\ Len(kreads) = 0 /\ Len(kwrites) = 0 /\ Len(pendingWrites) = 0
        /\ Cardinality(OfType(iocp, Reading)) = 0 /\ Cardinality(OfType(iocp, Writing)) = 0
        /\ Cardinality(Queued(Reading)) = 0
        /\ Cardinality(Readers) = 0 /\ Cardinality(Askers) = 0 /\ Cardinality(Writers) = 0
        /\ Cardinality(Chainers) = 0 /\ Cardinality(Holders) = 0
    BY <1>1, <1>4, <1>5, EmptyIsSeq, FS_EmptySet
  <2>2. nIncomingReads = Len(kreads) + Cardinality(OfType(iocp, Reading)) + Cardinality(Queued(Reading))
                           + Cardinality(Readers)
    BY <1>1, <2>1
  <2>3. nOutgoingWrites = Len(pendingWrites) + Len(kwrites) + Cardinality(OfType(iocp, Writing))
                            + Cardinality(Askers) + Cardinality(Writers) + Cardinality(Chainers)
                            + Cardinality(Holders)
    BY <1>1, <2>1
  <2>4. QED
    BY <2>2, <2>3 DEF OutstandingExact, Readers, Askers, Writers, Chainers, Holders, Writing
<1>7. IsFiniteSet({})
  BY FS_EmptySet
<1>8. QED
  BY <1>2, <1>3, <1>4, <1>6, <1>7 DEF OutInv

\* The counters, the shapes of the packets and the labels they are handled at.
THEOREM OutstandingInvariant == Spec => []OutInv
<1>1. RefsInv /\ RefsInv' /\ OutInv /\ [Next]_vars => OutInv'
  BY OutStep
<1>2. QED
  BY <1>1, OutInit, RefsInvariant, PTL DEF Spec

\* Whatever completes when and however the workers interleave, nIncomingReads
\* and nOutgoingWrites count exactly the reads and writes that are outstanding
\* (HandleIncomingPackets, DoRead, DoWrite, DecrementOutgoingWrites), so they
\* never fall below zero and reach it only when nothing is left.
THEOREM OutstandingIsExact == Spec => []OutstandingExact
<1>1. OutInv => OutstandingExact
  BY DEF OutInv
<1>2. QED
  BY <1>1, OutstandingInvariant, PTL
=============================================================================
