--------------------------- MODULE IpcOrderProofs ---------------------------
(***************************************************************************)
(* Proofs about the order of what an IPC connection sends and receives, on *)
(* the counters of IpcConnectionProofs, for any number of workers and any  *)
(* limits: writes are sent in order (SentInOrder), after-write signals     *)
(* come after the writes they follow (SignalAfterWrites), received data    *)
(* reaches the buffer in order and without a gap (ReceivedInOrder), and    *)
(* the state has its types (TypeOK).                                       *)
(*                                                                         *)
(* Writes and reads are followed as tokens with an order number: each is   *)
(* in one place (pending, in the completion port, with the system, in a    *)
(* queue, in the hands of a thread), its order has not had its turn, and   *)
(* at most one thread holds the order whose turn it is.                    *)
(***************************************************************************)
EXTENDS IpcConnectionProofs

-----------------------------------------------------------------------------
(* The writes.                                                             *)

\* What a thread does with a write: the type of the packet whose handler it
\* begins, or its label.
HoldRoles  == {"out_data", "out_sig", "out_req", "out_strm", "out_drop", "out_next"}
CarryRoles == HoldRoles \union {"posting", "WriteRequest"}
WriteRoles == CarryRoles \union {"Write"}

RoleAt(l, t) ==
  IF l = "start" THEN (IF t \in Writing THEN t ELSE "none")
  ELSE IF l \in HoldRoles \union {"posting"} THEN l ELSE "none"
Role(p) == RoleAt(pc[p], cur[p].type)

Requests == OfType(iocp, {"WriteRequest"})

WriteNumbers ==
  /\ nNextWriteOrder \in Nat
  /\ nNextWriteOrderToProcess \in 1..(nNextWriteOrder + 1)
  /\ IsSeq(kind) /\ Len(kind) = nNextWriteOrder
  /\ IsSeq(sent)

\* A write that is not done with has an order whose turn is still to come, and
\* who has taken one from the pending writes holds the order whose turn it is.
WriteTurns ==
  /\ \A p \in Procs : Role(p) \in CarryRoles =>
       cur[p].order \in nNextWriteOrderToProcess..nNextWriteOrder
  /\ \A p \in Procs : Role(p) \in HoldRoles => cur[p].order = nNextWriteOrderToProcess
  /\ \A i \in Requests : iocp[i].order \in nNextWriteOrderToProcess..nNextWriteOrder
  /\ \A i \in DOMAIN pendingWrites :
       pendingWrites[i].order \in nNextWriteOrderToProcess..nNextWriteOrder

\* It is in one place only.
WriteOnce ==
  /\ \A p, q \in Procs :
       Role(p) \in CarryRoles /\ Role(q) \in CarryRoles /\ cur[p].order = cur[q].order => p = q
  /\ \A i, j \in Requests : iocp[i].order = iocp[j].order => i = j
  /\ \A i, j \in DOMAIN pendingWrites : pendingWrites[i].order = pendingWrites[j].order => i = j
  /\ \A p \in Procs : Role(p) \in CarryRoles =>
       /\ \A i \in Requests : iocp[i].order # cur[p].order
       /\ \A i \in DOMAIN pendingWrites : pendingWrites[i].order # cur[p].order
  /\ \A i \in Requests : \A j \in DOMAIN pendingWrites : iocp[i].order # pendingWrites[j].order

KindAt(r, k) ==
  /\ r = "out_sig" => k = "signal"
  /\ r \in {"out_strm", "out_drop"} => k = "stream"
  /\ r = "out_data" => k # "signal" /\ k # "stream"

WriteKinds == \A p \in Procs : KindAt(Role(p), kind[cur[p].order])

WriteQueue == WriteNumbers /\ WriteTurns /\ WriteOnce /\ WriteKinds

\* The write of order o has been handled, its turn is about to end.
Handled(o) == \E p \in Procs : Role(p) = "out_next" /\ cur[p].order = o

PeerAlive == link = "up" /\ peer # "reset"
WasSent(o) == \E i \in DOMAIN sent : sent[i] = o

WriteSent ==
  /\ \A i \in DOMAIN sent :
       /\ sent[i] \in 1..nNextWriteOrderToProcess /\ sent[i] <= nNextWriteOrder
       /\ sent[i] = nNextWriteOrderToProcess => kind[sent[i]] = "stream" \/ Handled(sent[i])
  /\ \A i, j \in DOMAIN sent :
       i < j => (sent[i] < sent[j] \/ (sent[i] = sent[j] /\ kind[sent[i]] = "stream"))
  /\ PeerAlive =>
       /\ \A o \in 1..(nNextWriteOrderToProcess - 1) : kind[o] = "data" => WasSent(o)
       /\ \A p \in Procs : Role(p) = "out_next" /\ kind[cur[p].order] = "data" => WasSent(cur[p].order)

\* The orders of the writes that are with the system or whose completion has
\* not been handled.
Flying(n) ==
  \/ \E i \in DOMAIN kwrites : kwrites[i] = n
  \/ \E i \in OfType(iocp, {"Write"}) : iocp[i].order = n
  \/ \E w \in Workers : Role(w) = "Write" /\ cur[w].order = n

SignalFired ==
  /\ \A o \in fired :
       /\ o \in 1..nNextWriteOrderToProcess /\ o <= nNextWriteOrder
       /\ o = nNextWriteOrderToProcess => Handled(o)
  /\ \A o \in fired : \A n : Flying(n) => n > o

Sending == {p \in Workers : Role(p) = "Write"}

BytesExact == nOutgoingBytes = Len(kwrites) + Cardinality(OfType(iocp, {"Write"})) + Cardinality(Sending)

WriteInv == WriteQueue /\ WriteSent /\ SignalFired /\ BytesExact

-----------------------------------------------------------------------------
OthersWrite(w) == \A p \in Procs : p # w => Role(p)' = Role(p) /\ cur'[p].order = cur[p].order

LEMMA RolesMove ==
  ASSUME Shape, PacketShape, NEW w \in Procs, NEW l, NEW k,
         Goto(w, l), cur' = [cur EXCEPT ![w] = k]
  PROVE  OthersWrite(w) /\ Role(w)' = RoleAt(l, k.type) /\ cur'[w] = k
BY DEF Shape, PacketShape, Goto, OthersWrite, Role

LEMMA RolesGo ==
  ASSUME Shape, PacketShape, NEW w \in Procs, NEW l, Goto(w, l), UNCHANGED cur
  PROVE  OthersWrite(w) /\ Role(w)' = RoleAt(l, cur[w].type) /\ cur'[w] = cur[w]
BY DEF Shape, PacketShape, Goto, OthersWrite, Role

\* r is s with one element more, x, after the first b.
InsertedAt(r, s, x, b) ==
  /\ IsSeq(r) /\ IsSeq(s) /\ Len(s) \in Nat /\ b \in 0..Len(s)
  /\ DOMAIN s = 1..Len(s) /\ DOMAIN r = 1..(Len(s) + 1) /\ Len(r) = Len(s) + 1
  /\ \A i \in 1..b : r[i] = s[i]
  /\ r[b + 1] = x
  /\ \A i \in (b + 1)..Len(s) : r[i + 1] = s[i]
Inserted(r, s, x) == \E b \in 0..Len(s) : InsertedAt(r, s, x, b)

LEMMA AppendInserts ==
  ASSUME NEW s, NEW x, IsSeq(s)
  PROVE  Inserted(Append(s, x), s, x)
<1>1. InsertedAt(Append(s, x), s, x, Len(s))
  BY AppendGrows DEF InsertedAt
<1>2. QED
  BY <1>1, AppendGrows DEF Inserted

LEMMA TailInserts ==
  ASSUME NEW s, IsSeq(s), s # <<>>
  PROVE  Inserted(s, Tail(s), Head(s))
<1>1. IsSeq(Tail(s)) /\ Len(Tail(s)) \in Nat /\ Len(s) = Len(Tail(s)) + 1
  BY TailShrinks
<1>2. InsertedAt(s, Tail(s), Head(s), 0)
  BY <1>1, TailShrinks DEF InsertedAt
<1>3. QED
  BY <1>1, <1>2 DEF Inserted

LEMMA SortedInserts ==
  ASSUME NEW s, NEW x, IsSeq(s)
  PROVE  Inserted(QueueSorted(s, x), s, x)
<1> DEFINE J == {j \in DOMAIN s : s[j].order < x.order}
           b == Cardinality(J)
<1>1. Len(s) \in Nat /\ J \subseteq 1..Len(s) /\ DOMAIN s = 1..Len(s)
  BY SeqLength
<1>2. b \in 0..Len(s)
  <2> Len(s) \in Nat
    BY <1>1
  <2>1. IsFiniteSet(1..Len(s)) /\ Cardinality(1..Len(s)) = Len(s)
    BY FS_Interval
  <2>2. IsFiniteSet(J) /\ b <= Len(s)
    BY <1>1, <2>1, FS_Subset
  <2>3. b \in Nat
    BY <2>2, FS_CardinalityType
  <2>4. QED
    BY <1>1, <2>2, <2>3
<1> HIDE DEF b
<1>3. PICK S : s \in Seq(S)
  BY DEF IsSeq
<1> DEFINE U == S \union {x}
           head == SubSeq(s, 1, b)
           tail == SubSeq(s, b + 1, Len(s))
<1> HIDE DEF head, tail, U
<1>4. s \in Seq(U) /\ <<x>> \in Seq(U) /\ Len(<<x>>) = 1 /\ <<x>>[1] = x
  BY <1>3 DEF U
<1>5. head \in Seq(U) /\ Len(head) = b /\ \A i \in 1..b : head[i] = s[i]
  BY <1>1, <1>2, <1>4 DEF head
<1>6. tail \in Seq(U) /\ Len(tail) = Len(s) - b /\ \A i \in 1..(Len(s) - b) : tail[i] = s[b + i]
  <2>1. \A i \in (b + 1)..Len(s) : s[i] \in U
    BY <1>1, <1>2, <1>4
  <2>2. b + 1 \in Int /\ Len(s) \in Int /\ Len(s) - (b + 1) + 1 = Len(s) - b
    BY <1>1, <1>2
  <2>3. /\ tail \in Seq(U)
        /\ Len(tail) = IF b + 1 <= Len(s) THEN Len(s) - (b + 1) + 1 ELSE 0
        /\ \A i \in 1..(Len(s) - (b + 1) + 1) : tail[i] = s[(b + 1) + i - 1]
    BY <2>1, <2>2, SubSeqProperties DEF tail
  <2>4. \A i \in 1..(Len(s) - b) : (b + 1) + i - 1 = b + i
    BY <1>1, <1>2
  <2>5. Len(tail) = Len(s) - b
    <3>1. Len(tail) = IF b + 1 <= Len(s) THEN Len(s) - (b + 1) + 1 ELSE 0
      BY <2>3
    <3>2. Len(s) \in Nat /\ b \in Nat /\ b <= Len(s)
      BY <1>1, <1>2
    <3>3. QED
      BY <3>1, <3>2
  <2>6. \A i \in 1..(Len(s) - b) : tail[i] = s[(b + 1) + i - 1]
    BY <2>2, <2>3
  <2>7. QED
    BY <2>3, <2>4, <2>5, <2>6
<1> DEFINE front == head \o <<x>>
<1>7. front \in Seq(U) /\ Len(front) = b + 1 /\ (\A i \in 1..b : front[i] = s[i]) /\ front[b + 1] = x
  BY <1>2, <1>4, <1>5, ConcatProperties
<1> HIDE DEF front
<1> DEFINE r == front \o tail
<1>8. /\ r \in Seq(U) /\ Len(r) = Len(front) + Len(tail)
      /\ \A i \in 1..Len(r) : r[i] = IF i <= Len(front) THEN front[i] ELSE tail[i - Len(front)]
  <2>1. /\ r \in Seq(U) /\ Len(r) = Len(front) + Len(tail)
        /\ \A i \in 1..(Len(front) + Len(tail)) :
             r[i] = IF i <= Len(front) THEN front[i] ELSE tail[i - Len(front)]
    BY <1>6, <1>7, ConcatProperties
  <2>2. QED
    BY <2>1
<1> HIDE DEF r
<1>9. Len(r) = Len(s) + 1 /\ DOMAIN r = 1..(Len(s) + 1) /\ IsSeq(r)
  BY <1>1, <1>2, <1>6, <1>7, <1>8 DEF IsSeq
<1>10. /\ \A i \in 1..b : r[i] = s[i]
       /\ r[b + 1] = x
  BY <1>1, <1>2, <1>7, <1>8, <1>9
<1>11. ASSUME NEW i \in (b + 1)..Len(s)
       PROVE  r[i + 1] = s[i]
  <2>1. i + 1 \in 1..Len(r) /\ ~(i + 1 <= b + 1) /\ i - b \in 1..(Len(s) - b) /\ b + (i - b) = i
    BY <1>1, <1>2, <1>9
  <2>2. r[i + 1] = tail[(i + 1) - (b + 1)]
    BY <1>7, <1>8, <2>1
  <2>3. (i + 1) - (b + 1) = i - b
    BY <1>1, <1>2
  <2>4. QED
    BY <1>6, <2>1, <2>2, <2>3
<1>12. InsertedAt(r, s, x, b)
  BY <1>1, <1>2, <1>9, <1>10, <1>11 DEF InsertedAt
<1>13. QueueSorted(s, x) = r
  BY DEF QueueSorted, b, head, tail, front, r
<1>14. QED
  BY <1>2, <1>12, <1>13 DEF Inserted

LEMMA FirstInserts ==
  ASSUME NEW s, NEW x, IsSeq(s)
  PROVE  Inserted(<<x>> \o s, s, x)
<1>1. PICK S : s \in Seq(S)
  BY DEF IsSeq
<1> DEFINE U == S \union {x}
           f == <<x>>
           r == f \o s
<1>2. s \in Seq(U) /\ f \in Seq(U) /\ Len(f) = 1 /\ f[1] = x /\ Len(s) \in Nat
  BY <1>1
<1> HIDE DEF U, f
<1>3. /\ r \in Seq(U) /\ Len(r) = 1 + Len(s)
      /\ \A i \in 1..(1 + Len(s)) : r[i] = IF i <= 1 THEN x ELSE s[i - 1]
  <2>1. /\ r \in Seq(U) /\ Len(r) = Len(f) + Len(s)
        /\ \A i \in 1..(Len(f) + Len(s)) : r[i] = IF i <= Len(f) THEN f[i] ELSE s[i - Len(f)]
    BY <1>2, ConcatProperties
  <2>2. QED
    BY <1>2, <2>1
<1> HIDE DEF r
<1>4. DOMAIN r = 1..(Len(s) + 1) /\ DOMAIN s = 1..Len(s) /\ Len(r) = Len(s) + 1 /\ IsSeq(r)
  BY <1>2, <1>3 DEF IsSeq
<1>5. r[1] = x /\ \A i \in 1..Len(s) : r[i + 1] = s[i]
  BY <1>2, <1>3
<1>6. InsertedAt(r, s, x, 0)
  BY <1>2, <1>4, <1>5 DEF InsertedAt
<1>7. QED
  BY <1>2, <1>6 DEF Inserted, r, f

\* The elements of s are those of r but one, each in a place of its own.
Extends(r, s, x, f, k) ==
  /\ k \in DOMAIN r /\ r[k] = x
  /\ \A i \in DOMAIN s : f[i] \in DOMAIN r /\ f[i] # k /\ r[f[i]] = s[i]
  /\ \A i, j \in DOMAIN s : f[i] = f[j] => i = j
  /\ \A m \in DOMAIN r : m # k => \E i \in DOMAIN s : f[i] = m

LEMMA InsertedExtends ==
  ASSUME NEW r, NEW s, NEW x, Inserted(r, s, x)
  PROVE  \E f, k : Extends(r, s, x, f, k)
<1>1. PICK b \in 0..Len(s) : InsertedAt(r, s, x, b)
  BY DEF Inserted
<1> DEFINE f == [i \in DOMAIN s |-> IF i <= b THEN i ELSE i + 1]
<1>2. Len(s) \in Nat /\ DOMAIN s = 1..Len(s) /\ DOMAIN r = 1..(Len(s) + 1) /\ b + 1 \in DOMAIN r
  BY <1>1 DEF InsertedAt
<1>3. \A i \in DOMAIN s : f[i] \in DOMAIN r /\ f[i] # b + 1 /\ r[f[i]] = s[i]
  BY <1>1, <1>2 DEF InsertedAt
<1>4. \A i, j \in DOMAIN s : f[i] = f[j] => i = j
  BY <1>2
<1>5. ASSUME NEW m \in DOMAIN r, m # b + 1
      PROVE  \E i \in DOMAIN s : f[i] = m
  <2>1. CASE m <= b
    BY <1>2, <2>1
  <2>2. CASE ~(m <= b)
    <3>1. m - 1 \in DOMAIN s /\ f[m - 1] = m
      BY <1>2, <1>5, <2>2
    <3>2. QED
      BY <3>1
  <2>3. QED
    BY <2>1, <2>2
<1>6. Extends(r, s, x, f, b + 1)
  BY <1>1, <1>2, <1>3, <1>4, <1>5 DEF Extends, InsertedAt
<1>7. QED
  BY <1>6

Distinct(s) == \A i, j \in DOMAIN s : s[i].order = s[j].order => i = j
DistinctOf(s, T) == \A i, j \in OfType(s, T) : s[i].order = s[j].order => i = j

LEMMA InsertedOrders ==
  ASSUME NEW r, NEW s, NEW x, Inserted(r, s, x)
  PROVE  /\ \A i \in DOMAIN s : \E k \in DOMAIN r : r[k] = s[i]
         /\ \E k \in DOMAIN r : r[k] = x
         /\ \A k \in DOMAIN r : r[k] = x \/ \E i \in DOMAIN s : r[k] = s[i]
         /\ Distinct(r) <=> Distinct(s) /\ \A i \in DOMAIN s : s[i].order # x.order
<1>1. PICK f, k : Extends(r, s, x, f, k)
  BY InsertedExtends
<1>2. QED
  BY <1>1 DEF Extends, Distinct

LEMMA InsertedOfType ==
  ASSUME NEW r, NEW s, NEW x, NEW T, Inserted(r, s, x)
  PROVE  /\ \A i \in OfType(s, T) : \E k \in OfType(r, T) : r[k] = s[i]
         /\ x.type \in T => \E k \in OfType(r, T) : r[k] = x
         /\ \A k \in OfType(r, T) : (r[k] = x /\ x.type \in T) \/ \E i \in OfType(s, T) : r[k] = s[i]
         /\ DistinctOf(r, T) <=>
              DistinctOf(s, T) /\ (x.type \in T => \A i \in OfType(s, T) : s[i].order # x.order)
<1>1. PICK f, k : Extends(r, s, x, f, k)
  BY InsertedExtends
<1>2. QED
  BY <1>1 DEF Extends, DistinctOf, OfType

-----------------------------------------------------------------------------
(* What a step leaves as it is.                                            *)

\* No packet of type t comes to the port or leaves it.
KeepsType(t) ==
  \/ UNCHANGED iocp
  \/ \E k : k.type # t /\ iocp' = Append(iocp, k)
  \/ iocp # <<>> /\ Head(iocp).type # t /\ iocp' = Tail(iocp)

LEMMA PortOrders ==
  ASSUME IsSeq(iocp), NEW t, KeepsType(t)
  PROVE  /\ \A i \in OfType(iocp', {t}) : \E j \in OfType(iocp, {t}) : iocp[j] = iocp'[i]
         /\ DistinctOf(iocp, {t}) => DistinctOf(iocp', {t})
         /\ Cardinality(OfType(iocp', {t})) = Cardinality(OfType(iocp, {t}))
<1>1. CASE UNCHANGED iocp
  BY <1>1
<1>2. ASSUME NEW k, k.type # t, iocp' = Append(iocp, k)
      PROVE  /\ \A i \in OfType(iocp', {t}) : \E j \in OfType(iocp, {t}) : iocp[j] = iocp'[i]
             /\ DistinctOf(iocp, {t}) => DistinctOf(iocp', {t})
             /\ Cardinality(OfType(iocp', {t})) = Cardinality(OfType(iocp, {t}))
  <2>1. Inserted(iocp', iocp, k) /\ k.type \notin {t}
    BY <1>2, AppendInserts
  <2>2. Cardinality(OfType(iocp', {t})) = Cardinality(OfType(iocp, {t})) + 0
    BY <1>2, <2>1, OfTypeAppend DEF One
  <2>3. Cardinality(OfType(iocp, {t})) \in Nat
    BY OfTypeFinite
  <2>4. \A i \in OfType(iocp', {t}) : \E j \in OfType(iocp, {t}) : iocp[j] = iocp'[i]
    BY <2>1, InsertedOfType
  <2>5. DistinctOf(iocp, {t}) => DistinctOf(iocp', {t})
    BY <2>1, InsertedOfType
  <2>6. Cardinality(OfType(iocp', {t})) = Cardinality(OfType(iocp, {t}))
    BY <2>2, <2>3
  <2>7. QED
    BY <2>4, <2>5, <2>6
<1>3. CASE iocp # <<>> /\ Head(iocp).type # t /\ iocp' = Tail(iocp)
  <2>1. Inserted(iocp, iocp', Head(iocp)) /\ Head(iocp).type \notin {t}
    BY <1>3, TailInserts
  <2>2. Cardinality(OfType(iocp', {t})) = Cardinality(OfType(iocp, {t})) - 0
    BY <1>3, <2>1, OfTypeTail DEF One
  <2>3. Cardinality(OfType(iocp, {t})) \in Nat
    BY OfTypeFinite
  <2>4. \A i \in OfType(iocp', {t}) : \E j \in OfType(iocp, {t}) : iocp[j] = iocp'[i]
    BY <2>1, InsertedOfType
  <2>5. DistinctOf(iocp, {t}) => DistinctOf(iocp', {t})
    BY <2>1, InsertedOfType
  <2>6. Cardinality(OfType(iocp', {t})) = Cardinality(OfType(iocp, {t}))
    BY <2>2, <2>3
  <2>7. QED
    BY <2>4, <2>5, <2>6
<1>4. QED
  BY <1>1, <1>2, <1>3 DEF KeepsType

\* A thread that does one of R before or after the step does the same with the
\* same write.
SameAs(p) == Role(p)' = Role(p) /\ cur'[p].order = cur[p].order
SameRoles(R) == \A p \in Procs : Role(p) \in R \/ Role(p)' \in R => SameAs(p)

LEMMA QueueQuiet ==
  ASSUME IsSeq(iocp), WriteQueue, SameRoles(CarryRoles), KeepsType("WriteRequest"),
         UNCHANGED <<nNextWriteOrder, nNextWriteOrderToProcess, pendingWrites, kind, sent>>
  PROVE  WriteQueue'
<1>1. \A p \in Procs : /\ Role(p)' \in CarryRoles => Role(p) \in CarryRoles /\ SameAs(p)
                       /\ Role(p)' \in HoldRoles => Role(p) \in HoldRoles /\ SameAs(p)
  BY DEF SameRoles, CarryRoles, SameAs
<1>2. /\ \A i \in Requests' : \E j \in Requests : iocp[j] = iocp'[i]
      /\ DistinctOf(iocp, {"WriteRequest"}) => DistinctOf(iocp', {"WriteRequest"})
  BY PortOrders DEF Requests, OfType
<1>3. WriteNumbers'
  BY DEF WriteQueue, WriteNumbers
<1>4. WriteTurns'
  BY <1>1, <1>2 DEF WriteQueue, WriteTurns, SameAs
<1>5. WriteOnce'
  <2>1. \A i, j \in Requests' : iocp'[i].order = iocp'[j].order => i = j
    BY <1>2 DEF WriteQueue, WriteOnce, DistinctOf, Requests, OfType
  <2>2. QED
    BY <1>1, <1>2, <2>1 DEF WriteQueue, WriteOnce, SameAs
<1>6. WriteKinds'
  BY <1>1 DEF WriteQueue, WriteKinds, KindAt, HoldRoles, SameAs
<1>7. QED
  BY <1>3, <1>4, <1>5, <1>6 DEF WriteQueue

\* More orders may be given, the writes keep their kinds.
KindsStay ==
  /\ nNextWriteOrder' \in Nat /\ nNextWriteOrder' >= nNextWriteOrder
  /\ \A o \in 1..nNextWriteOrder : kind'[o] = kind[o]

LEMMA SentQuiet ==
  ASSUME WriteQueue, WriteSent, SameRoles({"out_next"}), KindsStay,
         UNCHANGED <<nNextWriteOrderToProcess, sent>>, PeerAlive' => PeerAlive
  PROVE  WriteSent'
<1>1. /\ nNextWriteOrder \in Nat /\ nNextWriteOrderToProcess \in 1..(nNextWriteOrder + 1)
      /\ \A i \in DOMAIN sent : sent[i] \in 1..nNextWriteOrder /\ kind'[sent[i]] = kind[sent[i]]
  BY DEF WriteQueue, WriteNumbers, WriteSent, KindsStay
<1>2. \A p \in Procs : Role(p)' = "out_next" =>
        Role(p) = "out_next" /\ cur'[p].order = cur[p].order /\ kind'[cur[p].order] = kind[cur[p].order]
  <2>1. \A p \in Procs : Role(p) = "out_next" => cur[p].order \in 1..nNextWriteOrder
    BY <1>1 DEF WriteQueue, WriteTurns, CarryRoles, HoldRoles
  <2>2. QED
    BY <2>1 DEF SameRoles, SameAs, KindsStay
<1>3. \A o : (Handled(o) => Handled(o)') /\ (WasSent(o)' <=> WasSent(o))
  BY DEF SameRoles, SameAs, Handled, WasSent
<1>4. \A i \in DOMAIN sent' :
        /\ sent'[i] \in 1..nNextWriteOrderToProcess' /\ sent'[i] <= nNextWriteOrder'
        /\ sent'[i] = nNextWriteOrderToProcess' => kind'[sent'[i]] = "stream" \/ Handled(sent[i])'
  BY <1>1, <1>3 DEF WriteSent, KindsStay
<1>5. \A i, j \in DOMAIN sent' :
        i < j => (sent'[i] < sent'[j] \/ (sent'[i] = sent'[j] /\ kind'[sent'[i]] = "stream"))
  BY <1>1 DEF WriteSent
<1>6. PeerAlive' =>
       /\ \A o \in 1..(nNextWriteOrderToProcess - 1) : kind'[o] = "data" => WasSent(o)'
       /\ \A p \in Procs : Role(p)' = "out_next" /\ kind'[cur'[p].order] = "data" => WasSent(cur[p].order)'
  BY <1>1, <1>2, <1>3 DEF WriteSent, KindsStay
<1>7. QED
  BY <1>4, <1>5, <1>6 DEF WriteSent

LEMMA FiredQuiet ==
  ASSUME SignalFired, SameRoles({"out_next"}), KindsStay, nNextWriteOrder \in Nat,
         UNCHANGED <<nNextWriteOrderToProcess, fired>>, \A n : Flying(n)' => Flying(n)
  PROVE  SignalFired'
<1>1. \A o : Handled(o) => Handled(o)'
  BY DEF SameRoles, SameAs, Handled
<1>2. QED
  BY <1>1 DEF SignalFired, KindsStay

LEMMA BytesQuiet ==
  ASSUME IsSeq(iocp), BytesExact, SameRoles({"Write"}), KeepsType("Write"),
         UNCHANGED <<kwrites, nOutgoingBytes>>
  PROVE  BytesExact'
<1>1. Cardinality(OfType(iocp', {"Write"})) = Cardinality(OfType(iocp, {"Write"}))
  BY PortOrders
<1>2. Sending' = Sending
  BY DEF Sending, SameRoles, SameAs, Procs
<1>3. OfType(iocp, {"Write"})' = OfType(iocp', {"Write"})
  BY DEF OfType
<1>4. QED
  BY <1>1, <1>2, <1>3 DEF BytesExact

LEMMA FlyingQuiet ==
  ASSUME IsSeq(iocp), SameRoles({"Write"}), KeepsType("Write"), UNCHANGED kwrites
  PROVE  \A n : Flying(n)' => Flying(n)
<1>1. \A i \in OfType(iocp', {"Write"}) : \E j \in OfType(iocp, {"Write"}) : iocp[j] = iocp'[i]
  BY PortOrders
<1>2. \A w \in Workers : Role(w)' = "Write" => Role(w) = "Write" /\ cur'[w].order = cur[w].order
  BY DEF SameRoles, SameAs, Procs
<1>3. QED
  BY <1>1, <1>2 DEF Flying, OfType

\* A write goes from one place to another before its turn; nothing is sent.
LEMMA QueueKeeps ==
  ASSUME RefsInv, WriteInv, WriteQueue', SameRoles({"out_next", "Write"}), KeepsType("Write"), KindsStay,
         UNCHANGED <<nNextWriteOrderToProcess, kwrites, sent, fired, nOutgoingBytes>>,
         PeerAlive' => PeerAlive
  PROVE  WriteInv'
<1>1. SameRoles({"out_next"}) /\ SameRoles({"Write"})
  BY DEF SameRoles
<1>2. IsSeq(iocp) /\ nNextWriteOrder \in Nat
  BY DEF RefsInv, Shape, WriteInv, WriteQueue, WriteNumbers
<1>3. WriteSent'
  BY <1>1, SentQuiet DEF WriteInv
<1>4. SignalFired'
  <2>1. \A n : Flying(n)' => Flying(n)
    BY <1>1, <1>2, FlyingQuiet
  <2>2. QED
    BY <1>1, <1>2, <2>1, FiredQuiet DEF WriteInv
<1>5. BytesExact'
  BY <1>1, <1>2, BytesQuiet DEF WriteInv
<1>6. QED
  BY <1>3, <1>4, <1>5 DEF WriteInv

\* A step that has nothing to do with the writes.
writeQuiet == <<nNextWriteOrder, nNextWriteOrderToProcess, kwrites, pendingWrites, kind, sent, fired,
                nOutgoingBytes>>

LEMMA WritesQuiet ==
  ASSUME RefsInv, WriteInv, SameRoles(WriteRoles), KeepsType("WriteRequest"), KeepsType("Write"),
         UNCHANGED writeQuiet, PeerAlive' => PeerAlive
  PROVE  WriteInv'
<1>1. SameRoles(CarryRoles) /\ SameRoles({"out_next", "Write"})
  BY DEF SameRoles, WriteRoles, CarryRoles, HoldRoles
<1>2. UNCHANGED <<nNextWriteOrder, nNextWriteOrderToProcess, kwrites, pendingWrites, kind, sent, fired,
                  nOutgoingBytes>>
  BY DEF writeQuiet
<1>3. WriteQueue'
  BY <1>1, <1>2, QueueQuiet DEF RefsInv, Shape, WriteInv
<1>4. KindsStay
  BY <1>2 DEF KindsStay, WriteInv, WriteQueue, WriteNumbers
<1>5. QED
  BY <1>1, <1>2, <1>3, <1>4, QueueKeeps

-----------------------------------------------------------------------------
(* A write on its way to its turn: from the send call through the port and *)
(* a worker to the pending writes, and from there to a worker.             *)

LEMMA OthersSame ==
  ASSUME NEW w \in Procs, NEW R, OthersWrite(w), Role(w) \notin R, Role(w)' \notin R
  PROVE  SameRoles(R)
BY DEF SameRoles, SameAs, OthersWrite

LEMMA SendBeginQueues ==
  ASSUME RefsInv, OutInv, WriteInv, NEW s \in Senders, SendBegin(s)
  PROVE  WriteInv'
<1> DEFINE o == nNextWriteOrder + 1
<1>1. s \in Procs /\ Shape /\ PacketShape
  BY DEF Procs, RefsInv, OutInv
<1>2. /\ pc[s] = "idle" /\ Goto(s, "posting") /\ cur' = [cur EXCEPT ![s].order = o]
      /\ nNextWriteOrder' = o
      /\ \E k \in Kinds : kind' = Append(kind, k)
      /\ UNCHANGED <<link, peer, nNextWriteOrderToProcess, pendingWrites, sent, fired, nOutgoingBytes,
                     iocp, kwrites>>
  BY DEF SendBegin, ioVars
<1>3. OthersWrite(s) /\ Role(s)' = "posting" /\ cur'[s].order = o /\ Role(s) = "none"
  BY <1>1, <1>2 DEF OthersWrite, Shape, PacketShape, IsPacket, Goto, Role, RoleAt, HoldRoles
<1>4. /\ nNextWriteOrder \in Nat /\ nNextWriteOrderToProcess \in 1..o
      /\ IsSeq(kind) /\ Len(kind) = nNextWriteOrder
  BY DEF WriteInv, WriteQueue, WriteNumbers
<1>5. /\ IsSeq(kind') /\ Len(kind') = o
      /\ \A i \in 1..nNextWriteOrder : kind'[i] = kind[i]
  BY <1>2, <1>4, AppendGrows
<1>6. KindsStay
  BY <1>2, <1>4, <1>5 DEF KindsStay
<1>7. \A p \in Procs : p # s => Role(p)' = Role(p) /\ cur'[p].order = cur[p].order
  BY <1>3 DEF OthersWrite
<1>8. Requests' = Requests
  BY <1>2 DEF Requests, OfType
<1>9. WriteNumbers'
  BY <1>2, <1>4, <1>5 DEF WriteInv, WriteQueue, WriteNumbers
<1>10. WriteTurns'
  <2>1. "posting" \notin HoldRoles
    BY DEF HoldRoles
  <2>2. WriteTurns
    BY DEF WriteInv, WriteQueue
  <2>3. QED
    BY <1>2, <1>3, <1>4, <1>7, <1>8, <2>1, <2>2 DEF WriteTurns
<1>11. WriteOnce'
  <2>1. WriteOnce /\ WriteTurns
    BY DEF WriteInv, WriteQueue
  <2>2. \A n \in nNextWriteOrderToProcess..nNextWriteOrder : n # o
    BY <1>4
  <2>3. QED
    BY <1>2, <1>3, <1>7, <1>8, <2>1, <2>2 DEF WriteTurns, WriteOnce
<1>12. WriteKinds'
  <2>1. WriteKinds /\ WriteTurns
    BY DEF WriteInv, WriteQueue
  <2>2. \A p \in Procs : Role(p) \in HoldRoles => kind'[cur[p].order] = kind[cur[p].order]
    BY <1>4, <1>5, <2>1 DEF WriteTurns, CarryRoles
  <2>3. \A p \in Procs : Role(p)' \in HoldRoles =>
          Role(p)' = Role(p) /\ cur'[p].order = cur[p].order /\ kind'[cur'[p].order] = kind[cur[p].order]
    BY <1>3, <1>7, <2>2 DEF HoldRoles
  <2>4. QED
    BY <2>1, <2>3 DEF WriteKinds, KindAt, HoldRoles
<1>13. WriteQueue'
  BY <1>9, <1>10, <1>11, <1>12 DEF WriteQueue
<1>14. SameRoles({"out_next", "Write"})
  BY <1>1, <1>3, OthersSame
<1>15. KeepsType("Write") /\ (PeerAlive' => PeerAlive)
  BY <1>2 DEF KeepsType, PeerAlive
<1>16. QED
  BY <1>2, <1>6, <1>13, <1>14, <1>15, QueueKeeps

\* The thread w hands its write over to the port.
LEMMA SendPostQueues ==
  ASSUME RefsInv, OutInv, WriteInv, NEW s \in Senders, SendPost(s)
  PROVE  WriteInv'
<1> DEFINE x == Packet("WriteRequest", cur[s].order, 0, "ok")
<1>1. s \in Procs /\ Shape /\ PacketShape
  BY DEF Procs, RefsInv, OutInv
<1>2. /\ pc[s] = "posting" /\ Goto(s, "idle") /\ cur' = [cur EXCEPT ![s] = NoPacket]
      /\ iocp' = Append(iocp, x)
      /\ UNCHANGED <<link, peer, nNextWriteOrder, nNextWriteOrderToProcess, pendingWrites, kind, sent,
                     fired, nOutgoingBytes, kwrites>>
  BY DEF SendPost, connVars
<1>3. OthersWrite(s) /\ Role(s)' = "none" /\ Role(s) = "posting"
  BY <1>1, <1>2 DEF OthersWrite, Shape, PacketShape, Goto, Role, RoleAt, HoldRoles
<1>4. x.type = "WriteRequest" /\ x.order = cur[s].order
  BY DEF Packet
<1> HIDE DEF x
<1>5. Inserted(iocp', iocp, x)
  BY <1>1, <1>2, AppendInserts DEF Shape
<1>6. KeepsType("Write")
  BY <1>2, <1>4 DEF KeepsType
<1>7. WriteQueue'
  <2>1. WriteNumbers /\ WriteTurns /\ WriteOnce /\ WriteKinds
    BY DEF WriteInv, WriteQueue
  <2>2. /\ \A i \in Requests' : iocp'[i] = x \/ \E j \in Requests : iocp'[i] = iocp[j]
        /\ DistinctOf(iocp', {"WriteRequest"}) <=>
             DistinctOf(iocp, {"WriteRequest"}) /\ \A i \in Requests : iocp[i].order # cur[s].order
    BY <1>4, <1>5, InsertedOfType DEF Requests, OfType
  <2>3. Role(s) \in CarryRoles /\ Role(s)' \notin CarryRoles
    BY <1>3 DEF CarryRoles, HoldRoles
  <2>4. WriteNumbers'
    BY <1>2, <2>1 DEF WriteNumbers
  <2>5. \A p \in Procs : Role(p)' \in CarryRoles =>
          p # s /\ Role(p) \in CarryRoles /\ Role(p)' = Role(p) /\ cur'[p].order = cur[p].order
    BY <1>3, <2>3 DEF OthersWrite
  <2>6. HoldRoles \subseteq CarryRoles
    BY DEF CarryRoles
  <2>7. WriteTurns'
    BY <1>1, <1>2, <1>4, <2>1, <2>2, <2>3, <2>5, <2>6 DEF WriteTurns
  <2>8. \A i, j \in Requests' : iocp'[i].order = iocp'[j].order => i = j
    BY <1>1, <2>1, <2>2, <2>3 DEF WriteOnce, DistinctOf, Requests, OfType
  <2>9. ASSUME NEW p \in Procs, Role(p)' \in CarryRoles
        PROVE  /\ \A i \in Requests' : iocp'[i].order # cur'[p].order
               /\ \A i \in DOMAIN pendingWrites' : pendingWrites'[i].order # cur'[p].order
    <3>1. p # s /\ Role(p) \in CarryRoles /\ cur'[p].order = cur[p].order
      BY <2>5, <2>9
    <3>2. /\ \A i \in Requests : iocp[i].order # cur[p].order
          /\ \A i \in DOMAIN pendingWrites : pendingWrites[i].order # cur[p].order
      BY <2>1, <3>1 DEF WriteOnce
    <3>3. cur[p].order # cur[s].order
      BY <1>1, <2>1, <2>3, <3>1 DEF WriteOnce
    <3>4. QED
      BY <1>2, <1>4, <2>2, <3>1, <3>2, <3>3
  <2>10. \A i \in Requests' : \A j \in DOMAIN pendingWrites' : iocp'[i].order # pendingWrites'[j].order
    <3>1. \A i \in Requests : \A j \in DOMAIN pendingWrites : iocp[i].order # pendingWrites[j].order
      BY <2>1 DEF WriteOnce
    <3>2. \A j \in DOMAIN pendingWrites : pendingWrites[j].order # cur[s].order
      BY <1>1, <2>1, <2>3 DEF WriteOnce
    <3>3. QED
      BY <1>2, <1>4, <2>2, <3>1, <3>2
  <2>11. WriteOnce'
    BY <1>2, <2>1, <2>5, <2>8, <2>9, <2>10 DEF WriteOnce
  <2>12. WriteKinds'
    BY <1>2, <2>1, <2>5 DEF WriteKinds, KindAt, CarryRoles, HoldRoles
  <2>13. QED
    BY <2>4, <2>7, <2>11, <2>12 DEF WriteQueue
<1>8. SameRoles({"out_next", "Write"})
  BY <1>1, <1>3, OthersSame
<1>9. KindsStay /\ (PeerAlive' => PeerAlive)
  BY <1>2 DEF KindsStay, PeerAlive, WriteInv, WriteQueue, WriteNumbers
<1>10. QED
  BY <1>2, <1>6, <1>7, <1>8, <1>9, QueueKeeps

\* An idle worker takes a write from the port.
LEMMA DispatchQueues ==
  ASSUME RefsInv, OutInv, WriteInv, NEW w \in Workers, Dispatch(w)
  PROVE  WriteInv'
<1> DEFINE x == Head(iocp)
<1>1. w \in Procs /\ Shape /\ PacketShape
  BY DEF Procs, RefsInv, OutInv
<1>2. /\ pc[w] = "idle" /\ Goto(w, "start") /\ cur' = [cur EXCEPT ![w] = x]
      /\ iocp # <<>> /\ iocp' = Tail(iocp)
      /\ UNCHANGED <<link, peer, nNextWriteOrder, nNextWriteOrderToProcess, pendingWrites, kind, sent,
                     fired, nOutgoingBytes, kwrites>>
  BY DEF Dispatch, connVars, writeVars
<1>3. /\ OthersWrite(w) /\ Role(w) = "none" /\ cur'[w] = x
      /\ Role(w)' = IF x.type \in Writing THEN x.type ELSE "none"
  BY <1>1, <1>2, RolesMove DEF Role, RoleAt, HoldRoles
<1> HIDE DEF x
<1>4. Inserted(iocp, iocp', x)
  BY <1>1, <1>2, TailInserts DEF Shape, x
<1>5. KindsStay /\ (PeerAlive' => PeerAlive)
  BY <1>2 DEF KindsStay, PeerAlive, WriteInv, WriteQueue, WriteNumbers
<1>6. CASE x.type = "WriteRequest"
  <2>1. WriteNumbers /\ WriteTurns /\ WriteOnce /\ WriteKinds
    BY DEF WriteInv, WriteQueue
  <2>2. /\ \A i \in Requests' : \E j \in Requests : iocp'[i] = iocp[j]
        /\ \E j \in Requests : iocp[j] = x
        /\ DistinctOf(iocp', {"WriteRequest"}) /\ \A i \in Requests' : iocp'[i].order # x.order
    <3>1. DistinctOf(iocp, {"WriteRequest"})
      BY <2>1 DEF WriteOnce, DistinctOf, Requests
    <3>2. QED
      BY <1>4, <1>6, <3>1, InsertedOfType DEF Requests, OfType
  <2>3. Role(w)' = "WriteRequest" /\ Role(w)' \in CarryRoles /\ Role(w)' \notin HoldRoles
    BY <1>3, <1>6 DEF CarryRoles, HoldRoles, Writing
  <2>4. WriteNumbers'
    BY <1>2, <2>1 DEF WriteNumbers
  <2>5. \A p \in Procs : p # w => Role(p)' = Role(p) /\ cur'[p].order = cur[p].order
    BY <1>3 DEF OthersWrite
  <2>6. WriteTurns'
    BY <1>2, <1>3, <2>1, <2>2, <2>3, <2>5 DEF WriteTurns
  <2>7. \A i, j \in Requests' : iocp'[i].order = iocp'[j].order => i = j
    BY <2>2 DEF DistinctOf, Requests, OfType
  <2>8. \A p, q \in Procs :
          Role(p)' \in CarryRoles /\ Role(q)' \in CarryRoles /\ cur'[p].order = cur'[q].order => p = q
    BY <1>3, <2>1, <2>2, <2>5 DEF WriteOnce
  <2>9. ASSUME NEW p \in Procs, Role(p)' \in CarryRoles
        PROVE  /\ \A i \in Requests' : iocp'[i].order # cur'[p].order
               /\ \A i \in DOMAIN pendingWrites' : pendingWrites'[i].order # cur'[p].order
    <3>1. CASE p = w
      <4>1. PICK j \in Requests : iocp[j] = x
        BY <2>2
      <4>2. \A i \in DOMAIN pendingWrites : pendingWrites[i].order # x.order
        BY <2>1, <4>1 DEF WriteOnce
      <4>3. QED
        BY <1>2, <1>3, <2>2, <3>1, <4>2
    <3>2. CASE p # w
      <4>1. Role(p) \in CarryRoles /\ cur'[p].order = cur[p].order
        BY <2>5, <2>9, <3>2
      <4>2. \A i \in Requests : iocp[i].order # cur[p].order
        BY <2>1, <4>1 DEF WriteOnce
      <4>3. \A i \in DOMAIN pendingWrites : pendingWrites[i].order # cur[p].order
        BY <2>1, <4>1 DEF WriteOnce
      <4>4. QED
        BY <1>2, <2>2, <4>1, <4>2, <4>3
    <3>3. QED
      BY <3>1, <3>2
  <2>10. \A i \in Requests' : \A j \in DOMAIN pendingWrites' : iocp'[i].order # pendingWrites'[j].order
    <3>1. \A i \in Requests : \A j \in DOMAIN pendingWrites : iocp[i].order # pendingWrites[j].order
      BY <2>1 DEF WriteOnce
    <3>2. QED
      BY <1>2, <2>2, <3>1
  <2>11. WriteOnce'
    BY <1>2, <2>1, <2>7, <2>8, <2>9, <2>10 DEF WriteOnce
  <2>12. WriteKinds'
    BY <1>2, <2>1, <2>3, <2>5 DEF WriteKinds, KindAt
  <2>13. WriteQueue'
    BY <2>4, <2>6, <2>11, <2>12 DEF WriteQueue
  <2>14. SameRoles({"out_next", "Write"})
    BY <1>1, <1>3, <2>3, OthersSame
  <2>15. KeepsType("Write")
    BY <1>2, <1>6 DEF KeepsType, x
  <2>16. QED
    BY <1>2, <1>5, <2>13, <2>14, <2>15, QueueKeeps
<1>7. CASE x.type = "Write"
  <2>1. Role(w)' = "Write"
    BY <1>3, <1>7 DEF Writing
  <2>2. SameRoles(CarryRoles) /\ SameRoles({"out_next"})
    BY <1>1, <1>3, <2>1, OthersSame DEF CarryRoles, HoldRoles
  <2>3. KeepsType("WriteRequest")
    BY <1>2, <1>7 DEF KeepsType, x
  <2>4. WriteQueue'
    BY <1>1, <1>2, <2>2, <2>3, QueueQuiet DEF Shape, WriteInv
  <2>5. WriteSent'
    BY <1>2, <1>5, <2>2, SentQuiet DEF WriteInv
  <2>6. \A n : Flying(n)' => Flying(n)
    <3>1. /\ \A i \in OfType(iocp', {"Write"}) : \E j \in OfType(iocp, {"Write"}) : iocp[j] = iocp'[i]
          /\ \E j \in OfType(iocp, {"Write"}) : iocp[j] = x
      <4>1. x.type \in {"Write"}
        BY <1>7
      <4>2. \E j \in OfType(iocp, {"Write"}) : iocp[j] = x
        BY <1>4, <4>1, InsertedOfType
      <4>3. \A i \in OfType(iocp', {"Write"}) : \E j \in OfType(iocp, {"Write"}) : iocp[j] = iocp'[i]
        BY <1>4, InsertedOfType
      <4>4. QED
        BY <4>2, <4>3
    <3>2. \A v \in Workers : Role(v)' = "Write" =>
            cur'[v].order = x.order \/ (Role(v) = "Write" /\ cur'[v].order = cur[v].order)
      BY <1>3 DEF OthersWrite, Procs
    <3>3. QED
      BY <1>2, <3>1, <3>2 DEF Flying, OfType
  <2>7. SignalFired'
    BY <1>2, <1>5, <2>2, <2>6, FiredQuiet DEF WriteInv, WriteQueue, WriteNumbers
  <2>8. BytesExact'
    <3>1. Cardinality(OfType(iocp', {"Write"})) = Cardinality(OfType(iocp, {"Write"})) - 1
      BY <1>1, <1>2, <1>7, OfTypeTail DEF Shape, One, x
    <3>2. Cardinality(OfType(iocp, {"Write"})) \in Nat
      BY <1>1, OfTypeFinite DEF Shape
    <3>3. w \in Sending' /\ w \notin Sending /\ \A v : v # w => (v \in Sending <=> v \in Sending')
      BY <1>3, <2>1 DEF Sending, OthersWrite, Procs
    <3>4. IsFiniteSet(Sending)
      BY ConstantsOK, FS_Subset DEF ConstantsOK, Sending
    <3>5. Cardinality(Sending') = Cardinality(Sending) + 1 /\ Cardinality(Sending) \in Nat
      BY <3>3, <3>4, CardinalityByOne DEF One
    <3>6. Len(kwrites) \in Nat
      BY <1>1, SeqLength DEF Shape
    <3>7. nOutgoingBytes = Len(kwrites) + Cardinality(OfType(iocp, {"Write"})) + Cardinality(Sending)
      BY DEF WriteInv, BytesExact
    <3>8. nOutgoingBytes' = Len(kwrites') + Cardinality(OfType(iocp', {"Write"})) + Cardinality(Sending')
      BY <1>2, <3>1, <3>2, <3>5, <3>6, <3>7
    <3>9. QED
      BY <3>8 DEF BytesExact, OfType
  <2>9. QED
    BY <2>4, <2>5, <2>7, <2>8 DEF WriteInv
<1>8. CASE x.type \notin Writing
  <2>1. SameRoles(WriteRoles)
    BY <1>1, <1>3, <1>8, OthersSame DEF WriteRoles, CarryRoles, HoldRoles
  <2>2. KeepsType("WriteRequest") /\ KeepsType("Write")
    BY <1>2, <1>8 DEF KeepsType, x, Writing
  <2>3. QED
    BY <1>2, <1>5, <2>1, <2>2, WritesQuiet DEF writeQuiet
<1>9. QED
  BY <1>6, <1>7, <1>8 DEF Writing

\* A thread puts the write it carries among the pending ones.
LEMMA ShelveQueues ==
  ASSUME RefsInv, WriteInv, NEW w \in Procs, NEW x, x.order = cur[w].order,
         OthersWrite(w), UNCHANGED cur, Role(w) \in CarryRoles \ {"out_next"}, Role(w)' = "none",
         Inserted(pendingWrites', pendingWrites, x),
         UNCHANGED <<link, peer, nNextWriteOrder, nNextWriteOrderToProcess, iocp, kind, sent, fired,
                     nOutgoingBytes, kwrites>>
  PROVE  WriteInv'
<1>1. WriteNumbers /\ WriteTurns /\ WriteOnce /\ WriteKinds
  BY DEF WriteInv, WriteQueue
<1>2. Role(w) \in CarryRoles /\ Role(w)' \notin CarryRoles /\ HoldRoles \subseteq CarryRoles
  BY DEF CarryRoles, HoldRoles
<1>3. /\ \A i \in Requests : iocp[i].order # cur[w].order
      /\ \A i \in DOMAIN pendingWrites : pendingWrites[i].order # cur[w].order
      /\ \A p \in Procs : p # w /\ Role(p) \in CarryRoles => cur[p].order # cur[w].order
  BY <1>1, <1>2 DEF WriteOnce
<1>4. /\ \A i \in DOMAIN pendingWrites' :
           pendingWrites'[i] = x \/ \E j \in DOMAIN pendingWrites : pendingWrites'[i] = pendingWrites[j]
      /\ Distinct(pendingWrites')
  <2>1. Distinct(pendingWrites)
    BY <1>1 DEF WriteOnce, Distinct
  <2>2. QED
    BY <1>3, <2>1, InsertedOrders
<1>5. \A p \in Procs : Role(p)' \in CarryRoles =>
         p # w /\ Role(p) \in CarryRoles /\ Role(p)' = Role(p)
  BY <1>2 DEF OthersWrite
<1>6. Requests' = Requests
  BY DEF Requests, OfType
<1>7. WriteTurns'
  BY <1>1, <1>2, <1>4, <1>5, <1>6 DEF WriteTurns
<1>8. WriteOnce'
  <2>1. /\ \A p, q \in Procs :
             Role(p)' \in CarryRoles /\ Role(q)' \in CarryRoles /\ cur[p].order = cur[q].order => p = q
        /\ \A i, j \in Requests : iocp[i].order = iocp[j].order => i = j
    BY <1>1, <1>5 DEF WriteOnce
  <2>2. \A i, j \in DOMAIN pendingWrites' : pendingWrites'[i].order = pendingWrites'[j].order => i = j
    BY <1>4 DEF Distinct
  <2>3. ASSUME NEW p \in Procs, Role(p)' \in CarryRoles
        PROVE  /\ \A i \in Requests : iocp[i].order # cur[p].order
               /\ \A i \in DOMAIN pendingWrites' : pendingWrites'[i].order # cur[p].order
    <3>1. /\ \A i \in Requests : iocp[i].order # cur[p].order
          /\ \A i \in DOMAIN pendingWrites : pendingWrites[i].order # cur[p].order
      BY <1>1, <1>5, <2>3 DEF WriteOnce
    <3>2. QED
      BY <1>3, <1>4, <1>5, <2>3, <3>1
  <2>4. \A i \in Requests : \A j \in DOMAIN pendingWrites' : iocp[i].order # pendingWrites'[j].order
    <3>1. \A i \in Requests : \A j \in DOMAIN pendingWrites : iocp[i].order # pendingWrites[j].order
      BY <1>1 DEF WriteOnce
    <3>2. QED
      BY <1>3, <1>4, <3>1
  <2>5. QED
    BY <1>6, <2>1, <2>2, <2>3, <2>4 DEF WriteOnce
<1>9. WriteNumbers' /\ WriteKinds'
  BY <1>1, <1>5 DEF WriteNumbers, WriteKinds, KindAt, CarryRoles, HoldRoles
<1>10. WriteQueue'
  BY <1>7, <1>8, <1>9 DEF WriteQueue
<1>11. SameRoles({"out_next", "Write"})
  BY OthersSame DEF CarryRoles, HoldRoles
<1>12. KeepsType("Write") /\ KindsStay /\ (PeerAlive' => PeerAlive)
  BY <1>1 DEF KeepsType, KindsStay, PeerAlive, WriteNumbers
<1>13. QED
  BY <1>10, <1>11, <1>12, QueueKeeps

\* What a worker has taken from the port, sorted by order.
LEMMA RequestQueues ==
  ASSUME RefsInv, OutInv, WriteInv, NEW w \in Workers, Start(w), StartWriteRequest(w)
  PROVE  WriteInv'
<1> DEFINE x == [order |-> cur[w].order]
<1>1. w \in Procs /\ Shape /\ PacketShape
  BY DEF Procs, RefsInv, OutInv
<1>2. /\ pc[w] = "start" /\ Goto(w, "out_enter") /\ cur[w].type = "WriteRequest"
      /\ pendingWrites' = QueueSorted(pendingWrites, x)
      /\ UNCHANGED <<link, peer, nNextWriteOrder, nNextWriteOrderToProcess, iocp, kind, sent, cur,
                     fired, nOutgoingBytes, kwrites>>
  BY DEF Start, StartWriteRequest, ioVars
<1>3. OthersWrite(w) /\ Role(w) = "WriteRequest" /\ Role(w)' = "none"
  BY <1>1, <1>2, RolesGo DEF Role, RoleAt, HoldRoles, Writing
<1>4. x.order = cur[w].order
  OBVIOUS
<1> HIDE DEF x
<1>5. Inserted(pendingWrites', pendingWrites, x)
  BY <1>1, <1>2, SortedInserts DEF PacketShape
<1>6. Role(w) \in CarryRoles \ {"out_next"}
  BY <1>3 DEF CarryRoles
<1>7. QED
  BY <1>1, <1>2, <1>3, <1>4, <1>5, <1>6, ShelveQueues

\* QueueFirst of a signal or a stream.
LEMMA RequeueQueues ==
  ASSUME RefsInv, OutInv, WriteInv, NEW w \in Workers, OutRequeue(w)
  PROVE  WriteInv'
<1> DEFINE x == [order |-> cur[w].order]
<1>1. w \in Procs /\ Shape /\ PacketShape
  BY DEF Procs, RefsInv, OutInv
<1>2. /\ pc[w] = "out_req" /\ \E l \in {"out_recheck", "out_loop"} : Goto(w, l)
      /\ pendingWrites' = <<x>> \o pendingWrites
      /\ UNCHANGED <<link, peer, nNextWriteOrder, nNextWriteOrderToProcess, iocp, kind, sent, cur,
                     fired, nOutgoingBytes, kwrites>>
  BY DEF OutRequeue, connVars, ioVars
<1>3. OthersWrite(w) /\ Role(w) = "out_req" /\ Role(w)' = "none"
  BY <1>1, <1>2, RolesGo DEF Role, RoleAt, HoldRoles
<1>4. x.order = cur[w].order
  OBVIOUS
<1> HIDE DEF x
<1>5. Inserted(pendingWrites', pendingWrites, x)
  BY <1>1, <1>2, FirstInserts DEF PacketShape
<1>6. Role(w) \in CarryRoles \ {"out_next"}
  BY <1>3 DEF CarryRoles, HoldRoles
<1>7. QED
  BY <1>1, <1>2, <1>3, <1>4, <1>5, <1>6, ShelveQueues

\* A worker takes the write whose turn it is.
LEMMA OutTakeQueues ==
  ASSUME RefsInv, OutInv, WriteInv, NEW w \in Workers, OutTake(w)
  PROVE  WriteInv'
<1> DEFINE x == Head(pendingWrites)
           l == CASE kind[x.order] = "signal" -> "out_sig"
                  [] kind[x.order] = "stream" -> "out_strm"
                  [] OTHER -> "out_data"
<1>1. w \in Procs /\ Shape /\ PacketShape
  BY DEF Procs, RefsInv, OutInv
<1>2. /\ pc[w] = "out_deq"
      /\ UNCHANGED <<link, peer, nNextWriteOrder, nNextWriteOrderToProcess, iocp, kind, sent, fired,
                     nOutgoingBytes, kwrites>>
  BY DEF OutTake, connVars, ioVars
<1>3. WriteNumbers /\ WriteTurns /\ WriteOnce /\ WriteKinds
  BY DEF WriteInv, WriteQueue
<1>4. Role(w) = "none"
  BY <1>2 DEF Role, RoleAt, HoldRoles
<1>5. KeepsType("Write") /\ KeepsType("WriteRequest") /\ KindsStay /\ (PeerAlive' => PeerAlive)
  BY <1>2, <1>3 DEF KeepsType, KindsStay, PeerAlive, WriteNumbers
<1>6. CASE ~HasOrder(pendingWrites, nNextWriteOrderToProcess)
  <2>1. Goto(w, "out_exit") /\ UNCHANGED <<pendingWrites, cur>>
    BY <1>6 DEF OutTake
  <2>2. OthersWrite(w) /\ Role(w)' = "none"
    BY <1>1, <2>1, RolesGo DEF RoleAt, HoldRoles
  <2>3. SameRoles(WriteRoles)
    BY <1>1, <1>4, <2>2, OthersSame DEF WriteRoles, CarryRoles, HoldRoles
  <2>4. QED
    BY <1>2, <1>5, <2>1, <2>3, WritesQuiet DEF writeQuiet
<1>7. CASE HasOrder(pendingWrites, nNextWriteOrderToProcess)
  <2>1. /\ pendingWrites # <<>> /\ pendingWrites' = Tail(pendingWrites)
        /\ cur' = [cur EXCEPT ![w].order = x.order] /\ Goto(w, l)
        /\ x.order = nNextWriteOrderToProcess
    BY <1>7 DEF OutTake, HasOrder
  <2>2. l \in {"out_sig", "out_strm", "out_data"} /\ KindAt(l, kind[x.order])
    BY DEF KindAt
  <2> HIDE DEF l
  <2>3. OthersWrite(w) /\ Role(w)' = l /\ cur'[w].order = x.order
    BY <1>1, <2>1, <2>2 DEF OthersWrite, Shape, PacketShape, IsPacket, Goto, Role, RoleAt, HoldRoles
  <2> HIDE DEF x
  <2>4. Inserted(pendingWrites, pendingWrites', x)
    BY <1>1, <2>1, TailInserts DEF PacketShape, x
  <2>5. l \in CarryRoles /\ l \in HoldRoles
    BY <2>2 DEF CarryRoles, HoldRoles
  <2>6. /\ \A i \in DOMAIN pendingWrites' :
             pendingWrites'[i].order # x.order /\ \E j \in DOMAIN pendingWrites : pendingWrites'[i] = pendingWrites[j]
        /\ \E j \in DOMAIN pendingWrites : pendingWrites[j] = x
        /\ Distinct(pendingWrites')
    <3>1. Distinct(pendingWrites)
      BY <1>3 DEF WriteOnce, Distinct
    <3>2. Distinct(pendingWrites') /\ \A i \in DOMAIN pendingWrites' : pendingWrites'[i].order # x.order
      BY <2>4, <3>1, InsertedOrders
    <3>3. \A i \in DOMAIN pendingWrites' : \E j \in DOMAIN pendingWrites : pendingWrites[j] = pendingWrites'[i]
      BY <2>4, InsertedOrders
    <3>4. \E j \in DOMAIN pendingWrites : pendingWrites[j] = x
      BY <2>4, InsertedOrders
    <3>5. QED
      BY <3>2, <3>3, <3>4
  <2>7. PICK j \in DOMAIN pendingWrites : pendingWrites[j] = x
    BY <2>6
  <2>8. /\ \A i \in Requests : iocp[i].order # x.order
        /\ \A p \in Procs : Role(p) \in CarryRoles => cur[p].order # x.order
        /\ x.order \in nNextWriteOrderToProcess..nNextWriteOrder
    BY <1>3, <2>7 DEF WriteOnce, WriteTurns
  <2>9. \A p \in Procs : p # w => Role(p)' = Role(p) /\ cur'[p].order = cur[p].order
    BY <2>3 DEF OthersWrite
  <2>10. Requests' = Requests
    BY <1>2 DEF Requests, OfType
  <2>11. WriteTurns'
    BY <1>2, <1>3, <2>1, <2>3, <2>6, <2>8, <2>9, <2>10 DEF WriteTurns
  <2>12. WriteOnce'
    <3>1. /\ \A p, q \in Procs :
               Role(p)' \in CarryRoles /\ Role(q)' \in CarryRoles /\ cur'[p].order = cur'[q].order => p = q
          /\ \A i, k \in Requests : iocp[i].order = iocp[k].order => i = k
      BY <1>3, <2>3, <2>8, <2>9 DEF WriteOnce
    <3>2. \A i, k \in DOMAIN pendingWrites' : pendingWrites'[i].order = pendingWrites'[k].order => i = k
      BY <2>6 DEF Distinct
    <3>3. ASSUME NEW p \in Procs, Role(p)' \in CarryRoles
          PROVE  /\ \A i \in Requests : iocp[i].order # cur'[p].order
                 /\ \A i \in DOMAIN pendingWrites' : pendingWrites'[i].order # cur'[p].order
      <4>1. CASE p = w
        BY <2>3, <2>6, <2>8, <4>1
      <4>2. CASE p # w
        <5>1. Role(p) \in CarryRoles /\ cur'[p].order = cur[p].order
          BY <2>9, <3>3, <4>2
        <5>2. /\ \A i \in Requests : iocp[i].order # cur[p].order
              /\ \A i \in DOMAIN pendingWrites : pendingWrites[i].order # cur[p].order
          BY <1>3, <5>1 DEF WriteOnce
        <5>3. QED
          BY <2>6, <5>1, <5>2
      <4>3. QED
        BY <4>1, <4>2
    <3>4. \A i \in Requests : \A k \in DOMAIN pendingWrites' : iocp[i].order # pendingWrites'[k].order
      <4>1. \A i \in Requests : \A k \in DOMAIN pendingWrites : iocp[i].order # pendingWrites[k].order
        BY <1>3 DEF WriteOnce
      <4>2. QED
        BY <2>6, <4>1
    <3>5. QED
      BY <1>2, <2>10, <3>1, <3>2, <3>3, <3>4 DEF WriteOnce
  <2>13. WriteNumbers' /\ WriteKinds'
    BY <1>2, <1>3, <2>2, <2>3, <2>9 DEF WriteNumbers, WriteKinds
  <2>14. WriteQueue'
    BY <2>11, <2>12, <2>13 DEF WriteQueue
  <2>15. SameRoles({"out_next", "Write"})
    BY <1>1, <1>4, <2>2, <2>3, OthersSame
  <2>16. QED
    BY <1>2, <1>5, <2>14, <2>15, QueueKeeps
<1>8. QED
  BY <1>6, <1>7

-----------------------------------------------------------------------------
(* The worker whose turn it is.                                            *)

\* Nobody else has the write.
LEMMA NobodyElse ==
  ASSUME WriteQueue, NEW w \in Procs, Role(w) \in HoldRoles, Role(w) # "out_next"
  PROVE  /\ cur[w].order = nNextWriteOrderToProcess
         /\ nNextWriteOrderToProcess \in 1..nNextWriteOrder
         /\ ~Handled(nNextWriteOrderToProcess)
<1>1. /\ cur[w].order = nNextWriteOrderToProcess
      /\ nNextWriteOrderToProcess \in nNextWriteOrderToProcess..nNextWriteOrder
      /\ Role(w) \in CarryRoles /\ "out_next" \in CarryRoles
  BY DEF WriteQueue, WriteTurns, CarryRoles, HoldRoles
<1>2. nNextWriteOrder \in Nat /\ nNextWriteOrderToProcess \in 1..(nNextWriteOrder + 1)
  BY DEF WriteQueue, WriteNumbers
<1>3. nNextWriteOrderToProcess \in 1..nNextWriteOrder
  BY <1>1, <1>2
<1>4. \A p \in Procs : Role(p) = "out_next" => cur[p].order # cur[w].order
  BY <1>1 DEF WriteQueue, WriteOnce
<1>5. QED
  BY <1>1, <1>3, <1>4 DEF Handled

LEMMA HoldQueue ==
  ASSUME WriteQueue, NEW w \in Procs, OthersWrite(w), Role(w) \in HoldRoles, Role(w)' \in HoldRoles,
         cur'[w].order = cur[w].order, KindAt(Role(w)', kind[cur[w].order]), IsSeq(sent'),
         UNCHANGED <<nNextWriteOrder, nNextWriteOrderToProcess, pendingWrites, iocp, kind>>
  PROVE  WriteQueue'
<1>1. HoldRoles \subseteq CarryRoles /\ Requests' = Requests
  BY DEF CarryRoles, Requests, OfType
<1>2. \A p \in Procs : cur'[p].order = cur[p].order /\ (p # w => Role(p)' = Role(p))
  BY DEF OthersWrite
<1>3. WriteNumbers' /\ WriteTurns' /\ WriteKinds'
  BY <1>1, <1>2 DEF WriteQueue, WriteNumbers, WriteTurns, WriteKinds
<1>4. \A p \in Procs : Role(p)' \in CarryRoles <=> Role(p) \in CarryRoles
  BY <1>1, <1>2
<1>5. WriteOnce'
  BY <1>1, <1>2, <1>4 DEF WriteQueue, WriteOnce
<1>6. QED
  BY <1>3, <1>5 DEF WriteQueue

\* The holder may send a packet of its write.
LEMMA HoldSent ==
  ASSUME WriteQueue, WriteSent, NEW w \in Procs, OthersWrite(w),
         Role(w) \in HoldRoles, Role(w) # "out_next", cur'[w].order = cur[w].order,
         UNCHANGED <<nNextWriteOrder, nNextWriteOrderToProcess, kind>>,
         \/ /\ UNCHANGED sent
            /\ PeerAlive' => PeerAlive /\ (Role(w)' = "out_next" => kind[cur[w].order] # "data")
         \/ /\ sent' = Append(sent, cur[w].order)
            /\ PeerAlive' => PeerAlive
            /\ kind[cur[w].order] = "stream" \/ Role(w)' = "out_next"
  PROVE  WriteSent'
<1> DEFINE n == nNextWriteOrderToProcess
<1>1. cur[w].order = n /\ n \in 1..nNextWriteOrder /\ nNextWriteOrder \in Nat /\ ~Handled(n) /\ IsSeq(sent)
  BY NobodyElse DEF WriteQueue, WriteNumbers
<1>2. \A p \in Procs : cur'[p].order = cur[p].order /\ (p # w => Role(p)' = Role(p))
  BY DEF OthersWrite
<1>3. \A i \in DOMAIN sent : sent[i] \in 1..n /\ (sent[i] = n => kind[sent[i]] = "stream")
  BY <1>1 DEF WriteSent
<1>4. /\ \A i, j \in DOMAIN sent :
           i < j => (sent[i] < sent[j] \/ (sent[i] = sent[j] /\ kind[sent[i]] = "stream"))
      /\ PeerAlive =>
           /\ \A o \in 1..(n - 1) : kind[o] = "data" => WasSent(o)
           /\ \A p \in Procs : Role(p) = "out_next" /\ kind[cur[p].order] = "data" => WasSent(cur[p].order)
  BY DEF WriteSent
<1>5. CASE /\ UNCHANGED sent
           /\ PeerAlive' => PeerAlive /\ (Role(w)' = "out_next" => kind[cur[w].order] # "data")
  <2>1. \A o : WasSent(o)' <=> WasSent(o)
    BY <1>5 DEF WasSent
  <2>2. PeerAlive' =>
          \A p \in Procs : Role(p)' = "out_next" /\ kind[cur[p].order] = "data" => WasSent(cur[p].order)
    BY <1>2, <1>4, <1>5
  <2>3. \A i \in DOMAIN sent : sent[i] <= nNextWriteOrder
    BY <1>1, <1>3
  <2>4. QED
    BY <1>2, <1>3, <1>4, <1>5, <2>1, <2>2, <2>3 DEF WriteSent, WasSent
<1>6. CASE /\ sent' = Append(sent, cur[w].order)
           /\ PeerAlive' => PeerAlive
           /\ kind[cur[w].order] = "stream" \/ Role(w)' = "out_next"
  <2> DEFINE m == Len(sent) + 1
  <2>1. /\ DOMAIN sent = 1..Len(sent) /\ DOMAIN sent' = 1..m /\ Len(sent) \in Nat
        /\ \A i \in 1..Len(sent) : sent'[i] = sent[i]
        /\ sent'[m] = n
    BY <1>1, <1>6, AppendGrows
  <2> HIDE DEF m
  <2>2. \A i \in 1..m : i # m => i \in DOMAIN sent /\ sent'[i] = sent[i]
    BY <2>1 DEF m
  <2>3. \A i, j \in 1..m : i < j => i \in DOMAIN sent
    BY <2>1 DEF m
  <2>4. m \in 1..m
    BY <2>1 DEF m
  <2>5. \A o : WasSent(o) => WasSent(o)'
    BY <2>1, <2>2 DEF WasSent, m
  <2>6. WasSent(n)'
    BY <2>1, <2>4 DEF WasSent
  <2>7. kind[n] = "stream" \/ Handled(n)'
    BY <1>1, <1>2, <1>6 DEF Handled
  <2>8. ASSUME NEW i \in DOMAIN sent'
        PROVE  /\ sent'[i] \in 1..n /\ sent'[i] <= nNextWriteOrder
               /\ sent'[i] = n => kind[n] = "stream" \/ Handled(n)'
    <3>1. sent'[i] \in 1..n
      BY <1>1, <1>3, <2>1, <2>2, <2>8
    <3>2. QED
      BY <1>1, <2>7, <3>1
  <2>9. ASSUME NEW i \in DOMAIN sent', NEW j \in DOMAIN sent', i < j
        PROVE  sent'[i] < sent'[j] \/ (sent'[i] = sent'[j] /\ kind[sent'[i]] = "stream")
    <3>1. i \in DOMAIN sent /\ sent'[i] = sent[i]
      BY <2>1, <2>3, <2>9
    <3>2. CASE j = m
      <4>1. sent[i] \in 1..n /\ (sent[i] = n => kind[sent[i]] = "stream") /\ sent'[j] = n
        BY <1>3, <2>1, <3>1, <3>2
      <4>2. QED
        BY <1>1, <3>1, <4>1
    <3>3. CASE j # m
      BY <1>4, <2>1, <2>2, <2>9, <3>1, <3>3
    <3>4. QED
      BY <3>2, <3>3
  <2>10. PeerAlive' =>
           /\ \A o \in 1..(n - 1) : kind[o] = "data" => WasSent(o)'
           /\ \A p \in Procs : Role(p)' = "out_next" /\ kind[cur[p].order] = "data" =>
                p = w \/ WasSent(cur[p].order)
    BY <1>2, <1>4, <1>6, <2>5
  <2>11. PeerAlive' =>
           \A p \in Procs : Role(p)' = "out_next" /\ kind[cur[p].order] = "data" =>
             \E i \in DOMAIN sent' : sent'[i] = cur[p].order
    BY <1>1, <2>5, <2>6, <2>10 DEF WasSent
  <2>12. QED
    BY <1>2, <2>8, <2>9, <2>10, <2>11 DEF WriteSent, WasSent, Handled
<1>7. QED
  BY <1>5, <1>6

LEMMA HoldFired ==
  ASSUME WriteQueue, SignalFired, NEW w \in Procs, OthersWrite(w),
         Role(w) \in HoldRoles, Role(w) # "out_next", cur'[w].order = cur[w].order,
         UNCHANGED <<nNextWriteOrder, nNextWriteOrderToProcess>>,
         \/ UNCHANGED fired /\ \A n : Flying(n)' => Flying(n) \/ n = cur[w].order
         \/ fired' = fired \union {cur[w].order} /\ Role(w)' = "out_next" /\ \A n : ~Flying(n)'
  PROVE  SignalFired'
<1> DEFINE t == nNextWriteOrderToProcess
<1>1. cur[w].order = t /\ t \in 1..nNextWriteOrder /\ nNextWriteOrder \in Nat /\ ~Handled(t)
  BY NobodyElse DEF WriteQueue, WriteNumbers
<1>2. \A o \in fired : o \in 1..(t - 1)
  BY <1>1 DEF SignalFired
<1>3. CASE UNCHANGED fired /\ \A n : Flying(n)' => Flying(n) \/ n = cur[w].order
  <2>1. \A o \in fired' : o \in 1..t /\ o <= nNextWriteOrder /\ o # t
    BY <1>1, <1>2, <1>3
  <2>2. \A o \in fired' : \A n : Flying(n)' => n > o
    BY <1>1, <1>2, <1>3 DEF SignalFired
  <2>3. QED
    BY <2>1, <2>2 DEF SignalFired
<1>4. CASE fired' = fired \union {cur[w].order} /\ Role(w)' = "out_next" /\ \A n : ~Flying(n)'
  <2>1. Handled(t)'
    BY <1>1, <1>4 DEF Handled
  <2>2. \A o \in fired' : o \in 1..t /\ o <= nNextWriteOrder
    BY <1>1, <1>2, <1>4
  <2>3. \A o \in fired' : o = t => Handled(o)'
    BY <2>1
  <2>4. QED
    BY <1>4, <2>2, <2>3 DEF SignalFired
<1>5. QED
  BY <1>3, <1>4

LEMMA SendingFinite == IsFiniteSet(Sending) /\ Cardinality(Sending) \in Nat
<1>1. IsFiniteSet(Sending)
  BY ConstantsOK, FS_Subset DEF ConstantsOK, Sending
<1>2. QED
  BY <1>1, FS_CardinalityType

\* With no byte outstanding no write is with the system or on its way back.
LEMMA NothingFlies ==
  ASSUME RefsInv, BytesExact, nOutgoingBytes = 0
  PROVE  \A n : ~Flying(n)
<1> DEFINE P == OfType(iocp, {"Write"})
<1>1. IsSeq(kwrites) /\ IsSeq(iocp)
  BY DEF RefsInv, Shape
<1>2. /\ Len(kwrites) \in Nat /\ DOMAIN kwrites = 1..Len(kwrites)
      /\ IsFiniteSet(P) /\ Cardinality(P) \in Nat
      /\ IsFiniteSet(Sending) /\ Cardinality(Sending) \in Nat
  BY <1>1, SeqLength, OfTypeFinite, SendingFinite
<1>3. Len(kwrites) = 0 /\ Cardinality(P) = 0 /\ Cardinality(Sending) = 0
  BY <1>2 DEF BytesExact
<1>4. P = {} /\ Sending = {}
  BY <1>2, <1>3, FS_EmptySet
<1>5. DOMAIN kwrites = {}
  BY <1>2, <1>3
<1>6. QED
  BY <1>4, <1>5 DEF Flying, Sending

\* What the worker that holds a write does: the write goes on in its hands, or a
\* packet of it is given to the socket, or its signal is called back.
Passes(w) ==
  /\ UNCHANGED <<kwrites, sent, fired, nOutgoingBytes>>
  /\ PeerAlive /\ Role(w)' = "out_next" => kind[cur[w].order] # "data"
Writes(w) ==
  /\ kwrites' = Append(kwrites, cur[w].order) /\ sent' = Append(sent, cur[w].order)
  /\ nOutgoingBytes' = nOutgoingBytes + 1 /\ UNCHANGED fired
  /\ kind[cur[w].order] = "stream" \/ Role(w)' = "out_next"
WritesNow(w) ==
  /\ sent' = Append(sent, cur[w].order) /\ UNCHANGED <<kwrites, fired, nOutgoingBytes>>
  /\ kind[cur[w].order] = "stream" \/ Role(w)' = "out_next"
Fires(w) ==
  /\ nOutgoingBytes = 0 /\ fired' = fired \union {cur[w].order} /\ Role(w)' = "out_next"
  /\ kind[cur[w].order] = "signal" /\ UNCHANGED <<kwrites, sent, nOutgoingBytes>>

LEMMA HoldWrites ==
  ASSUME RefsInv, WriteInv, NEW w \in Procs, OthersWrite(w), UNCHANGED cur,
         Role(w) \in HoldRoles, Role(w) # "out_next", Role(w)' \in HoldRoles,
         KindAt(Role(w)', kind[cur[w].order]),
         UNCHANGED <<nNextWriteOrder, nNextWriteOrderToProcess, pendingWrites, iocp, kind, link,
         peer>>,
         Passes(w) \/ Writes(w) \/ WritesNow(w) \/ Fires(w)
  PROVE  WriteInv'
<1>1. /\ IsSeq(iocp) /\ IsSeq(kwrites) /\ IsSeq(sent)
      /\ WriteQueue /\ WriteSent /\ SignalFired /\ BytesExact
  BY DEF RefsInv, Shape, WriteInv, WriteQueue, WriteNumbers
<1>2. IsSeq(sent')
  <2>1. UNCHANGED sent \/ \E k : sent' = Append(sent, k)
    BY DEF Passes, Writes, WritesNow, Fires
  <2>2. \A k : IsSeq(Append(sent, k))
    BY <1>1, AppendGrows
  <2>3. QED
    BY <1>1, <2>1, <2>2
<1>3. WriteQueue'
  BY <1>1, <1>2, HoldQueue
<1>4. PeerAlive' <=> PeerAlive
  BY DEF PeerAlive
<1>5. WriteSent'
  <2>1. CASE Passes(w) \/ Fires(w)
    <3>1. UNCHANGED sent /\ (PeerAlive => (Role(w)' = "out_next" => kind[cur[w].order] # "data"))
      BY <2>1 DEF Passes, Fires
    <3>2. QED
      BY <1>1, <1>4, <3>1, HoldSent
  <2>2. CASE Writes(w) \/ WritesNow(w)
    <3>1. sent' = Append(sent, cur[w].order) /\ (kind[cur[w].order] = "stream" \/ Role(w)' = "out_next")
      BY <2>2 DEF Writes, WritesNow
    <3>2. QED
      BY <1>1, <1>4, <3>1, HoldSent
  <2>3. QED
    BY <2>1, <2>2
<1>6. SameRoles({"Write"})
  BY OthersSame DEF HoldRoles
<1>7. KeepsType("Write")
  BY DEF KeepsType
<1>8. CASE Writes(w)
  <2>1. /\ DOMAIN kwrites = 1..Len(kwrites) /\ DOMAIN kwrites' = 1..(Len(kwrites) + 1)
        /\ Len(kwrites) \in Nat /\ Len(kwrites') = Len(kwrites) + 1
        /\ \A i \in 1..Len(kwrites) : kwrites'[i] = kwrites[i]
        /\ kwrites'[Len(kwrites) + 1] = cur[w].order
    BY <1>1, <1>8, AppendGrows DEF Writes
  <2>2. \A i \in DOMAIN kwrites' : kwrites'[i] = cur[w].order \/ \E j \in DOMAIN kwrites : kwrites[j] = kwrites'[i]
    BY <2>1
  <2>3. \A v \in Workers : Role(v)' = "Write" => Role(v) = "Write"
    BY <1>6 DEF SameRoles, SameAs, Procs
  <2>4. OfType(iocp, {"Write"})' = OfType(iocp, {"Write"})
    BY DEF OfType
  <2>5. \A n : Flying(n)' => Flying(n) \/ n = cur[w].order
    BY <2>2, <2>3, <2>4 DEF Flying
  <2>6. SignalFired'
    BY <1>1, <1>8, <2>5, HoldFired DEF Writes
  <2>7. Sending' = Sending
    BY <1>6 DEF Sending, SameRoles, SameAs, Procs
  <2>8. Cardinality(OfType(iocp, {"Write"})) \in Nat /\ Cardinality(Sending) \in Nat
    BY <1>1, OfTypeFinite, SendingFinite
  <2>9. nOutgoingBytes' = nOutgoingBytes + 1
    BY <1>8 DEF Writes
  <2>10. BytesExact'
    BY <1>1, <2>1, <2>4, <2>7, <2>8, <2>9 DEF BytesExact
  <2>11. QED
    BY <1>3, <1>5, <2>6, <2>10 DEF WriteInv
<1>9. CASE ~Writes(w)
  <2>1. UNCHANGED <<kwrites, nOutgoingBytes>>
    BY <1>9 DEF Passes, WritesNow, Fires
  <2>2. BytesExact'
    BY <1>1, <1>6, <1>7, <2>1, BytesQuiet
  <2>3. \A n : Flying(n)' => Flying(n)
    BY <1>1, <1>6, <1>7, <2>1, FlyingQuiet
  <2>4. CASE Fires(w)
    <3>1. \A n : ~Flying(n)
      BY <1>1, <2>4, NothingFlies DEF Fires
    <3>2. SignalFired'
      BY <1>1, <2>3, <2>4, <3>1, HoldFired DEF Fires
    <3>3. QED
      BY <1>3, <1>5, <2>2, <3>2 DEF WriteInv
  <2>5. CASE ~Fires(w)
    <3>1. UNCHANGED fired
      BY <1>9, <2>5 DEF Passes, WritesNow
    <3>2. SignalFired'
      BY <1>1, <2>3, <3>1, HoldFired
    <3>3. QED
      BY <1>3, <1>5, <2>2, <3>2 DEF WriteInv
  <2>6. QED
    BY <2>4, <2>5
<1>10. QED
  BY <1>8, <1>9

LEMMA OutDataWrites ==
  ASSUME RefsInv, OutInv, WriteInv, NEW w \in Workers, OutData(w)
  PROVE  WriteInv'
<1>1. w \in Procs /\ Shape /\ PacketShape
  BY DEF Procs, RefsInv, OutInv
<1>2. /\ pc[w] = "out_data" /\ Goto(w, "out_next") /\ DoWrite(w, cur[w].order)
      /\ UNCHANGED <<link, peer, nNextWriteOrder, nNextWriteOrderToProcess, pendingWrites, iocp, kind,
                     fired, cur>>
  BY DEF OutData
<1>3. OthersWrite(w) /\ Role(w) = "out_data" /\ Role(w)' = "out_next"
  BY <1>1, <1>2, RolesGo DEF Role, RoleAt, HoldRoles
<1>4. Passes(w) \/ Writes(w) \/ WritesNow(w)
  <2>1. CASE PeerAlive
    BY <1>2, <1>3, <2>1 DEF DoWrite, PeerAlive, Writes, WritesNow
  <2>2. CASE ~PeerAlive
    BY <1>2, <1>3, <2>2 DEF DoWrite, PeerAlive, Passes
  <2>3. QED
    BY <2>1, <2>2
<1>5. Role(w) \in HoldRoles /\ Role(w)' \in HoldRoles /\ Role(w) # "out_next"
      /\ KindAt(Role(w)', kind[cur[w].order])
  BY <1>3 DEF HoldRoles, KindAt
<1>6. QED
  BY <1>1, <1>2, <1>3, <1>4, <1>5, HoldWrites

LEMMA OutSignalWrites ==
  ASSUME RefsInv, OutInv, WriteInv, NEW w \in Workers, OutSignal(w)
  PROVE  WriteInv'
<1>1. w \in Procs /\ Shape /\ PacketShape
  BY DEF Procs, RefsInv, OutInv
<1>2. /\ pc[w] = "out_sig" 
      /\ UNCHANGED <<link, peer, nNextWriteOrder, nNextWriteOrderToProcess, pendingWrites, iocp, kind,
                     kwrites, sent, nOutgoingBytes, cur>>
      /\ \/ nOutgoingBytes = 0 /\ fired' = fired \union {cur[w].order} /\ Goto(w, "out_next")
         \/ UNCHANGED fired /\ Goto(w, "out_req")
  BY DEF OutSignal, connVars, ioVars
<1>3. PICK l \in {"out_next", "out_req"} :
        /\ Goto(w, l)
        /\ \/ nOutgoingBytes = 0 /\ fired' = fired \union {cur[w].order} /\ l = "out_next"
           \/ UNCHANGED fired /\ l = "out_req"
  BY <1>2
<1>4. OthersWrite(w) /\ Role(w) = "out_sig" /\ Role(w)' = l
  BY <1>1, <1>2, <1>3, RolesGo DEF Role, RoleAt, HoldRoles
<1>5. kind[cur[w].order] = "signal"
  BY <1>1, <1>4 DEF WriteInv, WriteQueue, WriteKinds, KindAt
<1>6. Passes(w) \/ Fires(w)
  BY <1>2, <1>3, <1>4, <1>5 DEF Passes, Fires
<1>7. /\ Role(w) \in HoldRoles /\ Role(w)' \in HoldRoles /\ Role(w) # "out_next"
      /\ KindAt(Role(w)', kind[cur[w].order])
  BY <1>3, <1>4 DEF HoldRoles, KindAt
<1>8. QED
  BY <1>1, <1>2, <1>4, <1>6, <1>7, HoldWrites

LEMMA OutStreamWrites ==
  ASSUME RefsInv, OutInv, WriteInv, NEW w \in Workers, OutStream(w)
  PROVE  WriteInv'
<1> DEFINE L == {"out_strm", "out_next", "out_drop", "out_req"}
<1>1. w \in Procs /\ Shape /\ PacketShape
  BY DEF Procs, RefsInv, OutInv
<1>2. /\ pc[w] = "out_strm"
      /\ UNCHANGED <<link, peer, nNextWriteOrder, nNextWriteOrderToProcess, pendingWrites, iocp, kind,
                     fired, cur>>
      /\ DoWrite(w, cur[w].order) \/ UNCHANGED <<sent, kwrites, nOutgoingBytes>>
      /\ \E l \in L : Goto(w, l)
  BY DEF OutStream
<1>3. PICK l \in L : Goto(w, l)
  BY <1>2
<1>4. OthersWrite(w) /\ Role(w) = "out_strm" /\ Role(w)' = l
  BY <1>1, <1>2, <1>3, RolesGo DEF Role, RoleAt, HoldRoles
<1>5. kind[cur[w].order] = "stream"
  BY <1>1, <1>4 DEF WriteInv, WriteQueue, WriteKinds, KindAt
<1>6. Passes(w) \/ Writes(w) \/ WritesNow(w)
  <2>1. CASE DoWrite(w, cur[w].order)
    BY <1>2, <1>5, <2>1 DEF DoWrite, Passes, Writes, WritesNow
  <2>2. CASE UNCHANGED <<sent, kwrites, nOutgoingBytes>>
    BY <1>2, <1>5, <2>2 DEF Passes
  <2>3. QED
    BY <1>2, <2>1, <2>2
<1>7. /\ Role(w) \in HoldRoles /\ Role(w)' \in HoldRoles /\ Role(w) # "out_next"
      /\ KindAt(Role(w)', kind[cur[w].order])
  BY <1>3, <1>4, <1>5 DEF HoldRoles, KindAt
<1>8. QED
  BY <1>1, <1>2, <1>4, <1>6, <1>7, HoldWrites

\* The worker's write leaves its hands.
LEMMA QueueDrops ==
  ASSUME WriteQueue, NEW w \in Procs, OthersWrite(w), Role(w)' \notin CarryRoles,
         UNCHANGED <<nNextWriteOrder, nNextWriteOrderToProcess, pendingWrites, iocp, kind, sent>>
  PROVE  WriteQueue'
<1>1. \A p \in Procs : Role(p)' \in CarryRoles =>
        Role(p) \in CarryRoles /\ Role(p)' = Role(p) /\ cur'[p].order = cur[p].order
  BY DEF OthersWrite
<1>2. HoldRoles \subseteq CarryRoles /\ Requests' = Requests
  BY DEF CarryRoles, Requests, OfType
<1>3. WriteNumbers' /\ WriteTurns'
  BY <1>1, <1>2 DEF WriteQueue, WriteNumbers, WriteTurns
<1>4. WriteOnce'
  BY <1>1, <1>2 DEF WriteQueue, WriteOnce
<1>5. WriteKinds'
  BY <1>1 DEF WriteQueue, WriteKinds, KindAt, CarryRoles, HoldRoles
<1>6. QED
  BY <1>3, <1>4, <1>5 DEF WriteQueue

\* The link only goes down.
LEMMA LinkGoesDown ==
  /\ \A b : ShutdownLink(b) => (link' = "up" => link = "up")
  /\ Release => (link' = "up" => link = "up")
BY DEF ShutdownLink, Release

\* Who counts a write down goes on, or looks first whether it closes.
LEMMA DecrementMoves ==
  ASSUME NEW w, NEW l, DecrementOutgoingWrites(w, l)
  PROVE  \E m \in {l, "dec_zero"} : Goto(w, m)
BY DEF DecrementOutgoingWrites

LEMMA OutDropWrites ==
  ASSUME RefsInv, OutInv, WriteInv, NEW w \in Workers, OutDrop(w)
  PROVE  WriteInv'
<1>1. w \in Procs /\ Shape /\ PacketShape
  BY DEF Procs, RefsInv, OutInv
<1>2. /\ pc[w] = "out_drop" /\ (\E m \in {"out_loop", "dec_zero"} : Goto(w, m))
      /\ UNCHANGED <<link, peer, nNextWriteOrder, nNextWriteOrderToProcess, pendingWrites, iocp, kind, sent,
                     fired, kwrites, nOutgoingBytes, cur>>
  BY DecrementMoves DEF OutDrop, connVars, ioVars
<1>3. OthersWrite(w) /\ Role(w) = "out_drop" /\ Role(w)' = "none"
  BY <1>1, <1>2, RolesGo DEF Role, RoleAt, HoldRoles
<1>4. WriteQueue'
  BY <1>1, <1>2, <1>3, QueueDrops DEF CarryRoles, HoldRoles, WriteInv
<1>5. SameRoles({"out_next", "Write"})
  BY <1>1, <1>3, OthersSame
<1>6. KeepsType("Write") /\ KindsStay /\ (PeerAlive' => PeerAlive)
  BY <1>2 DEF KeepsType, KindsStay, PeerAlive, WriteInv, WriteQueue, WriteNumbers
<1>7. QED
  BY <1>2, <1>4, <1>5, <1>6, QueueKeeps

\* The next order's turn comes.
LEMMA OutNextWrites ==
  ASSUME RefsInv, OutInv, WriteInv, NEW w \in Workers, OutNext(w)
  PROVE  WriteInv'
<1> DEFINE t == nNextWriteOrderToProcess
           N == nNextWriteOrder
<1>1. w \in Procs /\ Shape /\ PacketShape
  BY DEF Procs, RefsInv, OutInv
<1>2. /\ pc[w] = "out_next" /\ (\E m \in {"out_loop", "dec_zero"} : Goto(w, m))
      /\ nNextWriteOrderToProcess' = t + 1
      /\ UNCHANGED <<link, peer, nNextWriteOrder, pendingWrites, iocp, kind, sent, fired, kwrites,
                     nOutgoingBytes, cur>>
  BY DecrementMoves DEF OutNext, connVars, ioVars
<1>3. OthersWrite(w) /\ Role(w) = "out_next" /\ Role(w)' = "none"
  BY <1>1, <1>2, RolesGo DEF Role, RoleAt, HoldRoles
<1>4. WriteNumbers /\ WriteTurns /\ WriteOnce /\ WriteKinds /\ WriteSent /\ SignalFired /\ BytesExact
  BY DEF WriteInv, WriteQueue
<1>5. /\ HoldRoles \subseteq CarryRoles /\ Role(w) \in HoldRoles /\ "none" \notin CarryRoles
      /\ "out_next" \in HoldRoles
  BY <1>3 DEF CarryRoles, HoldRoles
<1>6. cur[w].order = t /\ N \in Nat /\ t \in 1..N
  <2>1. cur[w].order = t /\ cur[w].order \in t..N
    BY <1>1, <1>4, <1>5 DEF WriteTurns
  <2>2. N \in Nat /\ t \in 1..(N + 1)
    BY <1>4 DEF WriteNumbers
  <2>3. QED
    BY <2>1, <2>2
<1>7. \A n \in t..N : n # t => n \in (t + 1)..N
  BY <1>6
<1>8. \A p \in Procs : Role(p)' \in CarryRoles =>
        /\ Role(p) \in CarryRoles /\ Role(p)' = Role(p)
        /\ cur[p].order \in t..N /\ cur[p].order # t /\ Role(p) \notin HoldRoles
  <2>1. \A p \in Procs : Role(p)' \in CarryRoles => p # w /\ Role(p)' = Role(p) /\ Role(p) \in CarryRoles
    BY <1>3, <1>5 DEF OthersWrite
  <2>2. \A p \in Procs : p # w /\ Role(p) \in CarryRoles => cur[p].order # t
    BY <1>1, <1>4, <1>5, <1>6 DEF WriteOnce
  <2>3. QED
    BY <1>4, <2>1, <2>2 DEF WriteTurns
<1>9. /\ \A i \in Requests : iocp[i].order \in t..N /\ iocp[i].order # t
      /\ \A i \in DOMAIN pendingWrites : pendingWrites[i].order \in t..N /\ pendingWrites[i].order # t
  BY <1>1, <1>4, <1>5, <1>6 DEF WriteTurns, WriteOnce
<1>10. Requests' = Requests
  BY <1>2 DEF Requests, OfType
<1>11. WriteTurns'
  <2>1. /\ \A p \in Procs : Role(p)' \in CarryRoles => cur[p].order \in (t + 1)..N
        /\ \A p \in Procs : Role(p)' \in HoldRoles => FALSE
        /\ \A i \in Requests : iocp[i].order \in (t + 1)..N
        /\ \A i \in DOMAIN pendingWrites : pendingWrites[i].order \in (t + 1)..N
    BY <1>5, <1>7, <1>8, <1>9
  <2>2. QED
    BY <1>2, <1>10, <2>1 DEF WriteTurns
<1>12. WriteOnce'
  BY <1>2, <1>4, <1>8, <1>10 DEF WriteOnce
<1>13. WriteNumbers'
  BY <1>2, <1>4, <1>6 DEF WriteNumbers
<1>14. WriteKinds'
  <2>1. \A p \in Procs : Role(p)' \notin HoldRoles
    BY <1>5, <1>8
  <2>2. QED
    BY <2>1 DEF WriteKinds, KindAt, HoldRoles
<1>15. PeerAlive' => PeerAlive
  BY <1>2 DEF PeerAlive
<1>16. WriteSent'
  <2>1. \A i \in DOMAIN sent : sent[i] \in 1..t /\ sent[i] <= N
    BY <1>4 DEF WriteSent
  <2>2. \A i \in DOMAIN sent : sent[i] \in 1..(t + 1) /\ sent[i] <= N /\ sent[i] # t + 1
    BY <1>6, <2>1
  <2>3. \A p \in Procs : Role(p)' # "out_next"
    BY <1>5, <1>8
  <2>4. PeerAlive' => \A o \in 1..(t - 1) : kind[o] = "data" => WasSent(o)
    BY <1>4, <1>15 DEF WriteSent
  <2>5. PeerAlive' => (kind[t] = "data" => WasSent(t))
    BY <1>1, <1>3, <1>4, <1>6, <1>15 DEF WriteSent
  <2>6. (t + 1) - 1 = t /\ \A o \in 1..t : o = t \/ o \in 1..(t - 1)
    BY <1>6
  <2>7. PeerAlive' => \A o \in 1..((t + 1) - 1) : kind[o] = "data" => WasSent(o)
    BY <2>4, <2>5, <2>6
  <2>8. \A o : WasSent(o)' <=> WasSent(o)
    BY <1>2 DEF WasSent
  <2>9. \A i, j \in DOMAIN sent :
          i < j => (sent[i] < sent[j] \/ (sent[i] = sent[j] /\ kind[sent[i]] = "stream"))
    BY <1>4 DEF WriteSent
  <2>10. PeerAlive' => \A o \in 1..((t + 1) - 1) : kind[o] = "data" => WasSent(o)'
    BY <2>7, <2>8
  <2>11. QED
    BY <1>2, <2>2, <2>3, <2>9, <2>10 DEF WriteSent
<1>17. SignalFired'
  <2>1. SameRoles({"Write"})
    BY <1>1, <1>3, OthersSame
  <2>2. KeepsType("Write") /\ IsSeq(iocp)
    BY <1>1, <1>2 DEF KeepsType, Shape
  <2>3. \A n : Flying(n)' => Flying(n)
    BY <1>2, <2>1, <2>2, FlyingQuiet
  <2>4. \A o \in fired : o \in 1..t /\ o <= N /\ o \in 1..(t + 1) /\ o # t + 1
    BY <1>4, <1>6 DEF SignalFired
  <2>5. QED
    BY <1>2, <1>4, <2>3, <2>4 DEF SignalFired
<1>18. BytesExact'
  <2>1. SameRoles({"Write"})
    BY <1>1, <1>3, OthersSame
  <2>2. KeepsType("Write") /\ IsSeq(iocp)
    BY <1>1, <1>2 DEF KeepsType, Shape
  <2>3. QED
    BY <1>2, <1>4, <2>1, <2>2, BytesQuiet
<1>19. QED
  BY <1>11, <1>12, <1>13, <1>14, <1>16, <1>17, <1>18 DEF WriteInv, WriteQueue

\* A completion is handled.
LEMMA StartWriteWrites ==
  ASSUME RefsInv, OutInv, WriteInv, NEW w \in Workers, Start(w), StartWrite(w)
  PROVE  WriteInv'
<1>1. w \in Procs /\ Shape /\ PacketShape
  BY DEF Procs, RefsInv, OutInv
<1>2. /\ pc[w] = "start" /\ cur[w].type = "Write" /\ nOutgoingBytes' = nOutgoingBytes - 1
      /\ \E l \in {"out_enter", "w_dec"} : Goto(w, l)
      /\ UNCHANGED <<link, peer, nNextWriteOrder, nNextWriteOrderToProcess, pendingWrites, iocp, kind,
                     sent, fired, kwrites, cur>>
  BY DEF Start, StartWrite, ioVars
<1>3. OthersWrite(w) /\ Role(w) = "Write" /\ Role(w)' = "none"
  BY <1>1, <1>2, RolesGo DEF Role, RoleAt, HoldRoles, Writing
<1>4. SameRoles(CarryRoles) /\ SameRoles({"out_next"})
  BY <1>1, <1>3, OthersSame DEF CarryRoles, HoldRoles
<1>5. KeepsType("WriteRequest") /\ KindsStay /\ (PeerAlive' => PeerAlive)
  BY <1>2 DEF KeepsType, KindsStay, PeerAlive, WriteInv, WriteQueue, WriteNumbers
<1>6. WriteQueue'
  BY <1>1, <1>2, <1>4, <1>5, QueueQuiet DEF Shape, WriteInv
<1>7. WriteSent'
  BY <1>2, <1>4, <1>5, SentQuiet DEF WriteInv
<1>8. \A v \in Workers : Role(v)' = "Write" => v # w /\ Role(v) = "Write"
  BY <1>3 DEF OthersWrite, Procs
<1>9. \A n : Flying(n)' => Flying(n)
  BY <1>2, <1>8 DEF Flying, OfType
<1>10. SignalFired'
  BY <1>2, <1>4, <1>5, <1>9, FiredQuiet DEF WriteInv, WriteQueue, WriteNumbers
<1>11. BytesExact'
  <2>1. w \in Sending /\ w \notin Sending' /\ \A v : v # w => (v \in Sending <=> v \in Sending')
    BY <1>3 DEF Sending, OthersWrite, Procs
  <2>2. Cardinality(Sending') = Cardinality(Sending) - 1 /\ Cardinality(Sending) \in Nat
    BY <2>1, SendingFinite, CardinalityByOne DEF One
  <2>3. Len(kwrites) \in Nat /\ Cardinality(OfType(iocp, {"Write"})) \in Nat
    BY <1>1, SeqLength, OfTypeFinite DEF Shape
  <2>4. OfType(iocp, {"Write"})' = OfType(iocp, {"Write"})
    BY <1>2 DEF OfType
  <2>5. nOutgoingBytes = Len(kwrites) + Cardinality(OfType(iocp, {"Write"})) + Cardinality(Sending)
    BY DEF WriteInv, BytesExact
  <2>6. nOutgoingBytes' = Len(kwrites) + Cardinality(OfType(iocp, {"Write"})) + Cardinality(Sending')
    BY <1>2, <2>2, <2>3, <2>5
  <2>7. QED
    BY <1>2, <2>4, <2>6 DEF BytesExact
<1>12. QED
  BY <1>6, <1>7, <1>10, <1>11 DEF WriteInv

\* The system completes a write.
LEMMA WriteCompletesWrites ==
  ASSUME RefsInv, OutInv, WriteInv, WriteCompletes
  PROVE  WriteInv'
<1>1. Shape /\ PacketShape /\ IsSeq(kwrites) /\ IsSeq(iocp)
  BY DEF RefsInv, OutInv, Shape
<1>2. /\ kwrites # <<>> /\ kwrites' = Tail(kwrites)
      /\ \E res : iocp' = Append(iocp, Packet("Write", Head(kwrites), 0, res))
      /\ UNCHANGED <<link, peer, nNextWriteOrder, nNextWriteOrderToProcess, pendingWrites, kind,
                     sent, fired, nOutgoingBytes, pc, cur>>
  BY DEF WriteCompletes, connVars, writeVars, procVars
<1>3. PICK res : iocp' = Append(iocp, Packet("Write", Head(kwrites), 0, res))
  BY <1>2
<1> DEFINE x == Packet("Write", Head(kwrites), 0, res)
<1>4. x.type = "Write" /\ x.order = Head(kwrites)
  BY DEF Packet
<1> HIDE DEF x
<1>5. \A p \in Procs : SameAs(p)
  BY <1>2 DEF SameAs, Role
<1>6. KeepsType("WriteRequest") /\ KindsStay /\ (PeerAlive' => PeerAlive)
  BY <1>2, <1>3, <1>4 DEF KeepsType, KindsStay, PeerAlive, WriteInv, WriteQueue, WriteNumbers, x
<1>7. SameRoles(CarryRoles) /\ SameRoles({"out_next"})
  BY <1>5 DEF SameRoles
<1>8. WriteQueue'
  BY <1>1, <1>2, <1>6, <1>7, QueueQuiet DEF WriteInv
<1>9. WriteSent'
  BY <1>2, <1>6, <1>7, SentQuiet DEF WriteInv
<1>10. /\ Inserted(iocp', iocp, x) /\ DOMAIN kwrites' \subseteq 1..Len(kwrites')
       /\ Len(kwrites) \in Nat /\ Len(kwrites') = Len(kwrites) - 1 /\ DOMAIN kwrites = 1..Len(kwrites)
       /\ \A i \in DOMAIN kwrites' : \E j \in DOMAIN kwrites : kwrites[j] = kwrites'[i]
       /\ \E j \in DOMAIN kwrites : kwrites[j] = Head(kwrites)
  <2>1. Inserted(iocp', iocp, x)
    BY <1>1, <1>3, AppendInserts DEF x
  <2>2. Inserted(kwrites, kwrites', Head(kwrites))
    BY <1>1, <1>2, TailInserts
  <2>3. /\ \A i \in DOMAIN kwrites' : \E j \in DOMAIN kwrites : kwrites[j] = kwrites'[i]
        /\ \E j \in DOMAIN kwrites : kwrites[j] = Head(kwrites)
    BY <2>2, InsertedOrders
  <2>4. /\ Len(kwrites) \in Nat /\ Len(kwrites') \in Nat /\ Len(kwrites) = Len(kwrites') + 1
        /\ DOMAIN kwrites = 1..Len(kwrites) /\ DOMAIN kwrites' = 1..Len(kwrites')
    BY <2>2 DEF Inserted, InsertedAt
  <2>5. QED
    BY <2>1, <2>3, <2>4
<1>11. \A n : Flying(n)' => Flying(n)
  <2>1. \A i \in OfType(iocp', {"Write"}) : iocp'[i] = x \/ \E j \in OfType(iocp, {"Write"}) : iocp'[i] = iocp[j]
    <3>1. Inserted(iocp', iocp, x)
      BY <1>10
    <3>2. QED
      BY <3>1, InsertedOfType
  <2>2. \A v \in Workers : Role(v)' = "Write" => Role(v) = "Write" /\ cur'[v].order = cur[v].order
    BY <1>5 DEF SameAs, Procs
  <2>3. OfType(iocp, {"Write"})' = OfType(iocp', {"Write"})
    BY DEF OfType
  <2>4. QED
    BY <1>4, <1>10, <2>1, <2>2, <2>3 DEF Flying
<1>12. SignalFired'
  BY <1>2, <1>6, <1>7, <1>11, FiredQuiet DEF WriteInv, WriteQueue, WriteNumbers
<1>13. BytesExact'
  <2>1. Cardinality(OfType(iocp', {"Write"})) = Cardinality(OfType(iocp, {"Write"})) + 1
    BY <1>1, <1>3, <1>4, OfTypeAppend DEF One, x
  <2>2. Sending' = Sending
    BY <1>5 DEF Sending, SameAs, Procs
  <2>3. Cardinality(OfType(iocp, {"Write"})) \in Nat /\ Cardinality(Sending) \in Nat
    BY <1>1, OfTypeFinite, SendingFinite
  <2>4. OfType(iocp, {"Write"})' = OfType(iocp', {"Write"})
    BY DEF OfType
  <2>5. nOutgoingBytes = Len(kwrites) + Cardinality(OfType(iocp, {"Write"})) + Cardinality(Sending)
    BY DEF WriteInv, BytesExact
  <2>6. nOutgoingBytes = Len(kwrites') + Cardinality(OfType(iocp', {"Write"})) + Cardinality(Sending)
    BY <1>10, <2>1, <2>3, <2>5
  <2>7. QED
    BY <1>2, <2>2, <2>4, <2>6 DEF BytesExact
<1>14. QED
  BY <1>8, <1>9, <1>12, <1>13 DEF WriteInv

-----------------------------------------------------------------------------
(* Steps that have nothing to do with the writes.                          *)

Marked == HoldRoles \union {"start", "posting"}

LEMMA QuietStep ==
  ASSUME RefsInv, WriteInv, NEW p \in Procs, OthersWrite(p), Role(p) \notin WriteRoles,
         Role(p)' \notin WriteRoles, UNCHANGED writeQuiet, UNCHANGED <<iocp, peer>>,
         link' = "up" => link = "up"
  PROVE  WriteInv'
<1>1. SameRoles(WriteRoles)
  BY OthersSame
<1>2. KeepsType("WriteRequest") /\ KeepsType("Write") /\ (PeerAlive' => PeerAlive)
  BY DEF KeepsType, PeerAlive
<1>3. QED
  BY <1>1, <1>2, WritesQuiet

LEMMA PlainStep ==
  ASSUME RefsInv, OutInv, WriteInv, NEW p \in Procs, NEW l, pc[p] \notin Marked, l \notin Marked,
         Goto(p, l), UNCHANGED cur, UNCHANGED writeQuiet, UNCHANGED <<iocp, peer>>,
         link' = "up" => link = "up"
  PROVE  WriteInv'
<1>1. Shape /\ PacketShape
  BY DEF RefsInv, OutInv
<1>2. OthersWrite(p) /\ Role(p) = "none" /\ Role(p)' = "none"
  BY <1>1, RolesGo DEF Role, RoleAt, Marked
<1>3. "none" \notin WriteRoles
  BY DEF WriteRoles, CarryRoles, HoldRoles
<1>4. QED
  BY <1>2, <1>3, QuietStep

LEMMA InputWrites ==
  ASSUME RefsInv, OutInv, WriteInv, NEW w \in Workers,
         \/ InCheck(w) \/ InWrite(w) \/ ReadNext(w) \/ ReadIssue(w) \/ ReadAgain(w) \/ ReadDone(w)
         \/ ResumeLoop(w)
  PROVE  WriteInv'
<1> DEFINE L == {"in_check", "in_loop", "in_write", "rd", "rd_io", "r_again", "r_dec", "rs_loop", "post",
                 "out_enter"}
<1>1. AfterReads(w) \in L
  BY DEF AfterReads
<1> HIDE DEF AfterReads
<1>2. /\ pc[w] \in L /\ (\E l \in L : Goto(w, l)) /\ UNCHANGED cur
      /\ UNCHANGED writeQuiet /\ UNCHANGED <<iocp, peer, link>>
  <2> USE <1>1 DEF writeQuiet
  <2>1. CASE InCheck(w)
    BY <2>1 DEF InCheck, connVars, writeVars, ioVars
  <2>2. CASE InWrite(w)
    BY <2>2 DEF InWrite, writeVars, ioVars
  <2>3. CASE ReadNext(w)
    BY <2>3 DEF ReadNext, connVars, writeVars, ioVars
  <2>4. CASE ReadIssue(w)
    BY <2>4 DEF ReadIssue, writeVars
  <2>5. CASE ReadAgain(w)
    BY <2>5 DEF ReadAgain, connVars, writeVars, ioVars
  <2>6. CASE ReadDone(w)
    BY <2>6 DEF ReadDone, connVars, writeVars, ioVars
  <2>7. CASE ResumeLoop(w)
    BY <2>7 DEF ResumeLoop, writeVars, ioVars
  <2>8. QED
    BY <2>1, <2>2, <2>3, <2>4, <2>5, <2>6, <2>7
<1>3. L \intersect Marked = {}
  BY DEF Marked, HoldRoles
<1>4. w \in Procs
  BY DEF Procs
<1> HIDE DEF L
<1>5. QED
  BY <1>2, <1>3, <1>4, PlainStep

LEMMA InTakeWrites ==
  ASSUME RefsInv, OutInv, WriteInv, NEW w \in Workers, InTake(w)
  PROVE  WriteInv'
<1>1. w \in Procs /\ Shape /\ PacketShape
  BY DEF Procs, RefsInv, OutInv
<1>2. /\ pc[w] = "in_loop" /\ (\E l \in {"in_write", "out_enter"} : Goto(w, l))
      /\ UNCHANGED writeQuiet /\ UNCHANGED <<iocp, peer, link>>
      /\ \A p \in Procs : p # w => cur'[p] = cur[p]
  BY <1>1 DEF InTake, connVars, writeVars, ioVars, writeQuiet, PacketShape
<1>3. OthersWrite(w) /\ Role(w) = "none" /\ Role(w)' = "none"
  BY <1>1, <1>2 DEF OthersWrite, Shape, Goto, Role, RoleAt, HoldRoles
<1>4. "none" \notin WriteRoles
  BY DEF WriteRoles, CarryRoles, HoldRoles
<1>5. QED
  BY <1>1, <1>2, <1>3, <1>4, QuietStep

LEMMA OutputWrites ==
  ASSUME RefsInv, OutInv, WriteInv, NEW w \in Workers,
         OutEnter(w) \/ OutLoop(w) \/ OutRecheck(w) \/ OutExit(w) \/ WriteDone(w)
  PROVE  WriteInv'
<1> DEFINE L == {"out_enter", "out_loop", "out_deq", "out_exit", "out_recheck", "w_dec", "r_again",
                 "r_dec", "post", "dec_zero"}
<1>1. /\ pc[w] \in L /\ (\E l \in L : Goto(w, l)) /\ UNCHANGED cur
      /\ UNCHANGED writeQuiet /\ UNCHANGED <<iocp, peer, link>>
  <2> USE DEF writeQuiet
  <2>1. CASE OutEnter(w)
    BY <2>1 DEF OutEnter, connVars, ioVars
  <2>2. CASE OutLoop(w)
    BY <2>2 DEF OutLoop, connVars, writeVars, ioVars
  <2>3. CASE OutRecheck(w)
    BY <2>3 DEF OutRecheck, connVars, writeVars, ioVars
  <2>4. CASE OutExit(w)
    BY <2>4, DecrementMoves DEF OutExit, connVars, ioVars
  <2>5. CASE WriteDone(w)
    BY <2>5, DecrementMoves DEF WriteDone, connVars, ioVars
  <2>6. QED
    BY <2>1, <2>2, <2>3, <2>4, <2>5
<1>2. L \intersect Marked = {}
  BY DEF Marked, HoldRoles
<1>3. w \in Procs
  BY DEF Procs
<1> HIDE DEF L
<1>4. QED
  BY <1>1, <1>2, <1>3, PlainStep

LEMMA PostWrites ==
  ASSUME RefsInv, OutInv, WriteInv, NEW w \in Workers,
         \/ Post(w) \/ PostEnding(w) \/ FireEnter(w) \/ FireExit(w) \/ EndingWait(w)
         \/ EndingNotify(w) \/ EndPacket(w)
  PROVE  WriteInv'
<1> DEFINE L == {"post", "post2", "post_fire", "firing", "sd_wait", "sd_fire", "sd_firing", "sd_disc",
                 "end", "release", "close"}
<1>1. \A h : Ending(h) \in L
  BY DEF Ending
<1>2. /\ pc[w] \in L /\ (\E l \in L : Goto(w, l)) /\ UNCHANGED cur
      /\ UNCHANGED writeQuiet /\ UNCHANGED <<iocp, peer, link>>
  <2> USE <1>1 DEF writeQuiet
  <2>1. CASE Post(w)
    BY <2>1 DEF Post, writeVars, ioVars
  <2>2. CASE PostEnding(w)
    BY <2>2 DEF PostEnding, CallClose, writeVars, ioVars
  <2>3. CASE FireEnter(w)
    BY <2>3 DEF FireEnter, connVars, writeVars, ioVars
  <2>4. CASE FireExit(w)
    BY <2>4 DEF FireExit, writeVars, ioVars
  <2>5. CASE EndingWait(w)
    BY <2>5 DEF EndingWait, connVars, writeVars, ioVars
  <2>6. CASE EndingNotify(w)
    BY <2>6 DEF EndingNotify, connVars, writeVars, ioVars
  <2>7. CASE EndPacket(w)
    BY <2>7 DEF EndPacket, CallClose, writeVars, ioVars
  <2>8. QED
    BY <2>1, <2>2, <2>3, <2>4, <2>5, <2>6, <2>7
<1>3. L \intersect Marked = {}
  BY DEF Marked, HoldRoles
<1>4. w \in Procs
  BY DEF Procs
<1> HIDE DEF L
<1>5. QED
  BY <1>2, <1>3, <1>4, PlainStep

LEMMA CloseWrites ==
  ASSUME RefsInv, OutInv, WriteInv, NEW p \in Workers \union {App}, CloseStep(p) \/ DecClosed(p)
  PROVE  WriteInv'
<1> DEFINE L == CloseLabels \union {"app_rel"} \union CloseReturns \union DecReturns
<1>1. pc[p] \in CloseLabels => closing[p].ret \in L
  BY DEF RefsInv, Closing
<1>2. CloseLabels \subseteq L
  OBVIOUS
<1>3. L \intersect Marked = {}
  BY DEF Marked, HoldRoles, CloseLabels, CloseReturns, DecReturns
<1> HIDE DEF L
<1>4. {"close", "close_code", "close_test", "shut_code", "shut_link", "close_rel", "dec_zero"} \subseteq L
  BY <1>2 DEF CloseLabels
<1>5. /\ pc[p] \in L /\ (\E l \in L : Goto(p, l)) /\ UNCHANGED cur
      /\ UNCHANGED writeQuiet /\ UNCHANGED <<iocp, peer>> /\ (link' = "up" => link = "up")
  <2> USE DEF writeQuiet, writeVars, ioVars
  <2>1. CASE CloseMark(p)
    BY <1>4, <2>1 DEF CloseMark
  <2>2. CASE CloseCode(p)
    BY <1>4, <2>2 DEF CloseCode
  <2>3. CASE CloseTest(p)
    BY <1>1, <1>4, <2>3 DEF CloseTest, FinishClose, Return, CloseLabels, connVars
  <2>4. CASE ShutCode(p)
    BY <1>4, <2>4 DEF ShutCode, connVars
  <2>5. CASE ShutLink(p)
    BY <1>1, <1>4, <2>5, LinkGoesDown DEF ShutLink, FinishClose, Return, CloseLabels
  <2>6. CASE CloseRelease(p)
    BY <1>1, <1>4, <2>6 DEF CloseRelease, Return, CloseLabels
  <2>7. CASE DecClosed(p)
    BY <1>1, <1>4, <2>7 DEF DecClosed, Return, CloseLabels, connVars
  <2>8. QED
    BY <2>1, <2>2, <2>3, <2>4, <2>5, <2>6, <2>7 DEF CloseStep
<1>6. p \in Procs
  BY DEF Procs
<1>7. QED
  BY <1>3, <1>5, <1>6, PlainStep

LEMMA StartWrites ==
  ASSUME RefsInv, OutInv, WriteInv, NEW w \in Workers, Start(w)
  PROVE  WriteInv'
<1>1. CASE StartWriteRequest(w) \/ StartWrite(w)
  BY <1>1, RequestQueues, StartWriteWrites
<1>2. CASE StartInitialSetup(w) \/ StartZeroRead(w) \/ StartRead(w) \/ StartResume(w)
  <2> DEFINE L == {"rd", "r_dec", "in_check", "close", "rs_loop"}
  <2>1. w \in Procs /\ Shape /\ PacketShape
    BY DEF Procs, RefsInv, OutInv
  <2>2. pc[w] = "start" /\ UNCHANGED cur /\ UNCHANGED <<iocp, kwrites, peer, link>>
    BY DEF Start, ioVars
  <2>3. cur[w].type \notin Writing /\ (\E l \in L : Goto(w, l)) /\ UNCHANGED writeVars
    BY <1>2 DEF StartInitialSetup, StartZeroRead, StartRead, StartResume, CallClose, Writing
  <2>4. L \intersect Marked = {}
    BY DEF Marked, HoldRoles
  <2>5. PICK l \in L : Goto(w, l)
    BY <2>3
  <2>6. OthersWrite(w) /\ Role(w) = "none" /\ Role(w)' = "none"
    BY <2>1, <2>2, <2>3, <2>4, <2>5, RolesGo DEF Role, RoleAt, Marked
  <2>7. "none" \notin WriteRoles
    BY DEF WriteRoles, CarryRoles, HoldRoles
  <2>8. UNCHANGED writeQuiet
    BY <2>2, <2>3 DEF writeQuiet, writeVars
  <2>9. QED
    BY <2>1, <2>2, <2>6, <2>7, <2>8, QuietStep
<1>3. QED
  BY <1>1, <1>2 DEF Start

\* A worker drops its packet; only reads wait in its queue.
LEMMA ReleaseWrites ==
  ASSUME RefsInv, OutInv, WriteInv, NEW w \in Workers, ReleaseConn(w)
  PROVE  WriteInv'
<1>1. w \in Procs /\ Shape /\ PacketShape
  BY DEF Procs, RefsInv, OutInv
<1>2. /\ pc[w] = "release" /\ UNCHANGED writeQuiet /\ UNCHANGED <<iocp, peer>>
      /\ (link' = "up" => link = "up")
  BY LinkGoesDown DEF ReleaseConn, writeVars, ioVars, writeQuiet
<1>3. CASE queued[w] = <<>>
  <2>1. Goto(w, "idle") /\ cur' = [cur EXCEPT ![w] = NoPacket]
    BY <1>3 DEF ReleaseConn
  <2>2. OthersWrite(w) /\ Role(w)' = RoleAt("idle", NoPacket.type)
    BY <1>1, <2>1, RolesMove
  <2>3. Role(w) = "none" /\ RoleAt("idle", NoPacket.type) = "none"
    BY <1>2 DEF Role, RoleAt, HoldRoles
  <2>4. QED
    BY <1>1, <1>2, <2>2, <2>3, QuietStep DEF WriteRoles, CarryRoles, HoldRoles
<1>4. CASE queued[w] # <<>>
  <2> DEFINE x == Head(queued[w])
  <2>1. Goto(w, "start") /\ cur' = [cur EXCEPT ![w] = x]
    BY <1>4 DEF ReleaseConn
  <2>2. x.type \in Reading
    <3>1. IsSeq(queued[w]) /\ \A i \in DOMAIN queued[w] : queued[w][i].type \in Reading
      BY <1>1 DEF Shape, QueueShape, ReadQueue
    <3>2. 1 \in DOMAIN queued[w] /\ x = queued[w][1]
      BY <1>4, <3>1, TailShrinks
    <3>3. QED
      BY <3>1, <3>2
  <2> HIDE DEF x
  <2>3. OthersWrite(w) /\ Role(w) = "none" /\ Role(w)' = "none"
    BY <1>1, <1>2, <2>1, <2>2, RolesMove DEF Role, RoleAt, HoldRoles, Reading, Writing
  <2>4. QED
    BY <1>1, <1>2, <2>3, QuietStep DEF WriteRoles, CarryRoles, HoldRoles
<1>5. QED
  BY <1>3, <1>4

LEMMA AppWrites ==
  ASSUME RefsInv, OutInv, WriteInv, AppClose \/ AppStep
  PROVE  WriteInv'
<1>1. App \in Procs
  BY DEF Procs
<1>2. CASE AppClose \/ AppRelease
  <2> DEFINE L == {"idle", "close", "app_rel"}
  <2>1. /\ pc[App] \in L /\ (\E l \in L : Goto(App, l)) /\ UNCHANGED cur
        /\ UNCHANGED writeQuiet /\ UNCHANGED <<iocp, peer>> /\ (link' = "up" => link = "up")
    <3>1. CASE AppClose
      BY <3>1 DEF AppClose, CallClose, writeVars, ioVars, writeQuiet
    <3>2. CASE AppRelease
      BY <3>2, LinkGoesDown DEF AppRelease, writeVars, ioVars, writeQuiet
    <3>3. QED
      BY <1>2, <3>1, <3>2
  <2>2. L \intersect Marked = {}
    BY DEF Marked, HoldRoles
  <2> HIDE DEF L
  <2>3. QED
    BY <1>1, <2>1, <2>2, PlainStep
<1>3. QED
  BY <1>1, <1>2, CloseWrites DEF AppStep

\* A step of no thread: only the port or the peer changes.
LEMMA OutsideWrites ==
  ASSUME RefsInv, OutInv, WriteInv,
         (\E f \in Pausable : Pause(f) \/ Resume(f)) \/ ReadCompletes \/ PeerSends \/ PeerCloses
           \/ UNCHANGED vars
  PROVE  WriteInv'
<1>1. UNCHANGED writeQuiet /\ UNCHANGED <<pc, cur, link>> /\ (peer' = peer \/ peer = "open")
  <2> USE DEF writeQuiet, writeVars, ioVars, procVars, connVars
  <2>1. CASE \E f \in Pausable : Pause(f) \/ Resume(f)
    BY <2>1 DEF Pause, Resume
  <2>2. CASE ReadCompletes
    BY <2>2 DEF ReadCompletes
  <2>3. CASE PeerSends \/ PeerCloses
    BY <2>3 DEF PeerSends, PeerCloses
  <2>4. CASE UNCHANGED vars
    BY <2>4 DEF vars
  <2>5. QED
    BY <2>1, <2>2, <2>3, <2>4
<1>2. \/ UNCHANGED iocp
      \/ \E k : k.type \notin Writing /\ iocp' = Append(iocp, k)
  <2>1. CASE \E f \in Pausable : Pause(f) \/ Resume(f)
    BY <2>1 DEF Pause, Resume, ioVars, Packet, Writing
  <2>2. CASE ReadCompletes
    <3> DEFINE k == Head(kreads)
    <3>1. k.type \in Reading
      <4>1. 1 \in DOMAIN kreads /\ k = kreads[1]
        BY <2>2, TailShrinks DEF ReadCompletes, RefsInv, Shape
      <4>2. QED
        BY <4>1 DEF OutInv, PacketShape
    <3>2. \E r : r.type = k.type /\ iocp' = Append(iocp, r)
      BY <2>2 DEF ReadCompletes, ReadResult, Packet
    <3> HIDE DEF k
    <3>3. QED
      BY <3>1, <3>2 DEF Reading, Writing
  <2>3. CASE PeerSends \/ PeerCloses \/ UNCHANGED vars
    BY <2>3 DEF PeerSends, PeerCloses, vars, ioVars
  <2>4. QED
    BY <2>1, <2>2, <2>3
<1>3. KeepsType("WriteRequest") /\ KeepsType("Write")
  BY <1>2 DEF KeepsType, Writing
<1>4. SameRoles(WriteRoles)
  BY <1>1 DEF SameRoles, SameAs, Role
<1>5. PeerAlive' => PeerAlive
  BY <1>1 DEF PeerAlive
<1>6. QED
  BY <1>1, <1>3, <1>4, <1>5, WritesQuiet

LEMMA HandleWrites ==
  ASSUME RefsInv, OutInv, WriteInv, NEW w \in Workers, Handle(w)
  PROVE  WriteInv'
<1>1. w \in Procs
  BY DEF Procs
<1>2. CASE Start(w) \/ ReleaseConn(w)
  BY <1>2, StartWrites, ReleaseWrites
<1>3. CASE CloseStep(w) \/ DecClosed(w)
  BY <1>3, CloseWrites
<1>4. CASE \/ InCheck(w) \/ InTake(w) \/ InWrite(w) \/ ReadNext(w) \/ ReadIssue(w)
           \/ ReadAgain(w) \/ ReadDone(w) \/ ResumeLoop(w)
  BY <1>4, InputWrites, InTakeWrites
<1>5. CASE \/ OutEnter(w) \/ OutLoop(w) \/ OutTake(w) \/ OutData(w) \/ OutSignal(w) \/ OutRequeue(w)
           \/ OutRecheck(w) \/ OutStream(w) \/ OutDrop(w) \/ OutNext(w) \/ OutExit(w) \/ WriteDone(w)
  BY <1>5, OutputWrites, OutTakeQueues, RequeueQueues, OutDataWrites, OutSignalWrites,
     OutStreamWrites,
     OutDropWrites, OutNextWrites
<1>6. CASE \/ Post(w) \/ PostEnding(w) \/ FireEnter(w) \/ FireExit(w) \/ EndingWait(w)
           \/ EndingNotify(w) \/ EndPacket(w)
  BY <1>6, PostWrites
<1>7. QED
  BY <1>2, <1>3, <1>4, <1>5, <1>6 DEF Handle

LEMMA WriteStep ==
  ASSUME RefsInv, OutInv, WriteInv, [Next]_vars
  PROVE  WriteInv'
<1>1. CASE \E w \in Workers : Worker(w)
  BY <1>1, DispatchQueues, HandleWrites DEF Worker
<1>2. CASE \E s \in Senders : SendBegin(s) \/ SendPost(s)
  BY <1>2, SendBeginQueues, SendPostQueues
<1>3. CASE AppClose \/ AppStep
  BY <1>3, AppWrites
<1>4. CASE WriteCompletes
  BY <1>4, WriteCompletesWrites
<1>5. CASE \/ \E f \in Pausable : Pause(f) \/ Resume(f)
           \/ ReadCompletes \/ PeerSends \/ PeerCloses \/ UNCHANGED vars
  BY <1>5, OutsideWrites
<1>6. QED
  BY <1>1, <1>2, <1>3, <1>4, <1>5 DEF Next

LEMMA WriteInit == Init => WriteInv
<1> SUFFICES ASSUME Init PROVE WriteInv
  OBVIOUS
<1>1. /\ iocp = <<Packet("InitialSetup", 0, 0, "ok")>> /\ kwrites = <<>> /\ pendingWrites = <<>>
      /\ nNextWriteOrder = 0 /\ nNextWriteOrderToProcess = 1 /\ nOutgoingBytes = 0
      /\ kind = <<>> /\ sent = <<>> /\ fired = {}
      /\ \A p \in Procs : pc[p] = "idle"
  BY DEF Init
<1>2. \A p \in Procs : Role(p) = "none"
  BY <1>1 DEF Role, RoleAt, HoldRoles
<1>3. /\ DOMAIN iocp = {1} /\ iocp[1].type = "InitialSetup"
      /\ Requests = {} /\ OfType(iocp, {"Write"}) = {}
  BY <1>1 DEF Requests, OfType, Packet
<1>4. DOMAIN pendingWrites = {} /\ DOMAIN sent = {} /\ DOMAIN kwrites = {} /\ "none" \notin WriteRoles
  BY <1>1 DEF WriteRoles, CarryRoles, HoldRoles
<1>5. WriteNumbers
  BY <1>1, EmptyIsSeq DEF WriteNumbers
<1>6. WriteTurns /\ WriteOnce /\ WriteKinds
  BY <1>2, <1>3, <1>4
     DEF WriteTurns, WriteOnce, WriteKinds, KindAt, WriteRoles, CarryRoles, HoldRoles
<1>7. WriteSent
  BY <1>1, <1>2, <1>4 DEF WriteSent
<1>8. SignalFired
  BY <1>1 DEF SignalFired
<1>9. BytesExact
  <2>1. Sending = {}
    BY <1>2 DEF Sending, Procs
  <2>2. Cardinality(Sending) = 0 /\ Cardinality(OfType(iocp, {"Write"})) = 0
    BY <1>3, <2>1, FS_EmptySet
  <2>3. Len(kwrites) = 0 /\ nOutgoingBytes = 0
    BY <1>1, EmptyIsSeq
  <2>4. QED
    BY <2>2, <2>3 DEF BytesExact
<1>10. QED
  BY <1>5, <1>6, <1>7, <1>8, <1>9 DEF WriteInv, WriteQueue

\* Every write is in one place, with an order whose turn is to come, and what
\* was given to the socket or called back was in turn.
THEOREM WriteInvariant == Spec => []WriteInv
<1>1. RefsInv /\ OutInv /\ WriteInv /\ [Next]_vars => WriteInv'
  BY WriteStep
<1>2. QED
  BY <1>1, WriteInit, RefsInvariant, OutstandingInvariant, PTL DEF Spec

\* However many workers handle the write requests and the completed writes, and
\* in whatever order, the socket gets the writes in the order their numbers were
\* taken (HandleOutgoingPackets: the pending writes are sorted, and only the one
\* whose turn it is goes on).
THEOREM WritesAreSentInOrder == Spec => []SentInOrder
<1>1. WriteInv => SentInOrder
  BY DEF WriteInv, WriteSent, SentInOrder, PeerAlive, WasSent
<1>2. QED
  BY <1>1, WriteInvariant, PTL

\* An after-write signal is called back when every write before it has completed
\* (HandleOutgoingPackets runs it only when nOutgoingBytes is zero, and puts it
\* back among the pending writes otherwise).
THEOREM SignalsFollowWrites == Spec => []SignalAfterWrites
<1>1. ASSUME WriteInv, NEW o \in fired
      PROVE  /\ \A i \in DOMAIN kwrites : kwrites[i] > o
             /\ \A i \in OfType(iocp, {"Write"}) : iocp[i].order > o
             /\ \A w \in Starting({"Write"}) : cur[w].order > o
             /\ \A i \in DOMAIN pendingWrites : pendingWrites[i].order > o
  <2>1. \A n : Flying(n) => n > o
    BY <1>1 DEF WriteInv, SignalFired
  <2>2. \A w \in Starting({"Write"}) : w \in Workers /\ Role(w) = "Write"
    BY DEF Starting, Role, RoleAt, Writing
  <2>3. /\ \A i \in DOMAIN kwrites : kwrites[i] > o
        /\ \A i \in OfType(iocp, {"Write"}) : iocp[i].order > o
        /\ \A w \in Starting({"Write"}) : cur[w].order > o
    BY <2>1, <2>2 DEF Flying
  <2>4. \A i \in DOMAIN pendingWrites : pendingWrites[i].order > o
    <3> DEFINE t == nNextWriteOrderToProcess
    <3>1. /\ t \in 1..(nNextWriteOrder + 1) /\ nNextWriteOrder \in Nat
          /\ o \in 1..t /\ (o = t => Handled(o))
          /\ \A i \in DOMAIN pendingWrites : pendingWrites[i].order \in t..nNextWriteOrder
      BY <1>1 DEF WriteInv, WriteQueue, WriteNumbers, SignalFired, WriteTurns
    <3>2. Handled(t) => \A i \in DOMAIN pendingWrites : pendingWrites[i].order # t
      BY <1>1 DEF WriteInv, WriteQueue, WriteOnce, Handled, CarryRoles, HoldRoles
    <3>3. QED
      BY <3>1, <3>2
  <2>5. QED
    BY <2>3, <2>4
<1>2. WriteInv => SignalAfterWrites
  BY <1>1 DEF SignalAfterWrites
<1>3. QED
  BY <1>2, WriteInvariant, PTL

-----------------------------------------------------------------------------
(* The reads.  A completed read that brought data is a token; it is always *)
(* in one place: on its way in the port or in a worker's queue, in the     *)
(* hands of a worker, or among the read packets that wait for their turn.  *)

Bears(x)    == x.type = "Read" /\ x.hr = "ok" /\ x.data > 0
Tok(x)      == <<x.order, x.data>>
Bearing(s)  == {i \in DOMAIN s : Bears(s[i])}
Borne(s)    == {Tok(s[i]) : i \in Bearing(s)}
Stored(s)   == {Tok(s[i]) : i \in DOMAIN s}
BearDistinct(s) == \A i, j \in Bearing(s) : s[i].order = s[j].order => i = j

InHand(w)   == pc[w] = "in_write" \/ (pc[w] = "start" /\ Bears(cur[w]))
HandToks(w) == {t \in {Tok(cur[w])} : InHand(w)}

PlaceKinds == {"hand", "queue", "port", "store"}
Toks(k, w) ==
  IF k = "hand" THEN HandToks(w)
  ELSE IF k = "queue" THEN Borne(queued[w])
  ELSE IF k = "port" THEN Borne(iocp) ELSE Stored(readPackets)
SamePlace(j, v, k, w) == j = k /\ (j \in {"hand", "queue"} => v = w)

\* Its data is that of its order, whose turn is still to come.
Fits(t) == t[1] = t[2] /\ t[1] \in nNextReadOrderToProcess..consumed

ReadNumbers ==
  /\ nNextReadOrderToProcess \in Nat \ {0} /\ consumed \in Nat /\ arrived \in Nat
  /\ consumed <= arrived
  /\ nNextReadOrderToProcess <= consumed + 1
  /\ IsSeq(readPackets)
  /\ IsSeq(received) /\ Len(received) = nNextReadOrderToProcess - 1
  /\ ReceivedInOrder

ReadFits == \A k \in PlaceKinds, w \in Workers : \A t \in Toks(k, w) : Fits(t)

ReadOnce ==
  \A j, k \in PlaceKinds, v, w \in Workers :
    \A t \in Toks(j, v) : t \in Toks(k, w) => SamePlace(j, v, k, w)

ReadDistinct ==
  /\ \A w \in Workers : BearDistinct(iocp) /\ BearDistinct(queued[w])
  /\ Distinct(readPackets)

ReadTurn == \A w \in Workers : pc[w] = "in_write" => cur[w].order = nNextReadOrderToProcess

ReadPlaces == ReadFits /\ ReadOnce /\ ReadDistinct /\ ReadTurn

\* The reads that the system holds are in order, and as long as data can come
\* they are the next ones, without a gap.
Reads == OfType(kreads, {"Read"})
Flowing == PeerAlive /\ (consumed < arrived \/ peer = "open")

ReadFeed ==
  /\ nNextReadOrder \in Nat
  /\ \A i \in Reads : kreads[i].order \in 1..nNextReadOrder
  /\ \A i, j \in Reads : i < j => kreads[i].order < kreads[j].order
  /\ Flowing =>
       /\ consumed <= nNextReadOrder
       /\ \A i \in Reads : kreads[i].order > consumed
       /\ \A o \in (consumed + 1)..nNextReadOrder : \E i \in Reads : kreads[i].order = o

ReadInv == ReadNumbers /\ ReadPlaces /\ ReadFeed

-----------------------------------------------------------------------------
LEMMA InsertedBears ==
  ASSUME NEW r, NEW s, NEW x, Inserted(r, s, x)
  PROVE  /\ Borne(r) = Borne(s) \union {t \in {Tok(x)} : Bears(x)}
         /\ BearDistinct(r) <=>
              BearDistinct(s) /\ (Bears(x) => \A i \in Bearing(s) : s[i].order # x.order)
<1>1. PICK f, k : Extends(r, s, x, f, k)
  BY InsertedExtends
<1>2. /\ Bears(x) <=> k \in Bearing(r)
      /\ \A i \in Bearing(s) : f[i] \in Bearing(r) /\ f[i] # k /\ r[f[i]] = s[i]
      /\ \A m \in Bearing(r) : m # k => \E i \in Bearing(s) : f[i] = m
      /\ \A i, j \in Bearing(s) : f[i] = f[j] => i = j
      /\ r[k] = x
  BY <1>1 DEF Extends, Bearing
<1>3. BearDistinct(r) <=>
        BearDistinct(s) /\ (Bears(x) => \A i \in Bearing(s) : s[i].order # x.order)
  BY <1>2 DEF BearDistinct
<1>4. ASSUME NEW t
      PROVE  t \in Borne(r) <=> t \in Borne(s) \/ (Bears(x) /\ t = Tok(x))
  <2>1. t \in Borne(r) <=> \E m \in Bearing(r) : t = Tok(r[m])
    BY DEF Borne
  <2>2. t \in Borne(s) <=> \E i \in Bearing(s) : t = Tok(s[i])
    BY DEF Borne
  <2>3. QED
    BY <1>2, <2>1, <2>2
<1>5. QED
  BY <1>3, <1>4

LEMMA InsertedStored ==
  ASSUME NEW r, NEW s, NEW x, Inserted(r, s, x)
  PROVE  Stored(r) = Stored(s) \union {Tok(x)}
<1>1. /\ \A i \in DOMAIN s : \E k \in DOMAIN r : r[k] = s[i]
      /\ \E k \in DOMAIN r : r[k] = x
      /\ \A k \in DOMAIN r : r[k] = x \/ \E i \in DOMAIN s : r[k] = s[i]
  BY InsertedOrders
<1>2. ASSUME NEW t
      PROVE  t \in Stored(r) <=> t \in Stored(s) \/ t = Tok(x)
  <2>1. t \in Stored(r) <=> \E m \in DOMAIN r : t = Tok(r[m])
    BY DEF Stored
  <2>2. t \in Stored(s) <=> \E i \in DOMAIN s : t = Tok(s[i])
    BY DEF Stored
  <2>3. QED
    BY <1>1, <2>1, <2>2
<1>3. QED
  BY <1>2

\* The token taken out of a sequence is not in the rest of it.
LEMMA BorneOut ==
  ASSUME NEW r, NEW s, NEW x, Inserted(r, s, x), BearDistinct(r), Bears(x)
  PROVE  Borne(s) \subseteq Borne(r) \ {Tok(x)} /\ Tok(x) \in Borne(r) /\ BearDistinct(s)
<1>1. BearDistinct(s) /\ \A i \in Bearing(s) : s[i].order # x.order
  BY InsertedBears
<1>2. Borne(r) = Borne(s) \union {Tok(x)}
  BY InsertedBears
<1>3. Tok(x) \notin Borne(s)
  BY <1>1 DEF Borne, Tok
<1>4. QED
  BY <1>1, <1>2, <1>3

LEMMA StoredOut ==
  ASSUME NEW r, NEW s, NEW x, Inserted(r, s, x), Distinct(r)
  PROVE  Stored(s) \subseteq Stored(r) \ {Tok(x)} /\ Tok(x) \in Stored(r) /\ Distinct(s)
<1>1. Distinct(s) /\ \A i \in DOMAIN s : s[i].order # x.order
  BY InsertedOrders
<1>2. Stored(r) = Stored(s) \union {Tok(x)}
  BY InsertedStored
<1>3. Tok(x) \notin Stored(s)
  BY <1>1 DEF Stored, Tok
<1>4. QED
  BY <1>1, <1>2, <1>3

\* A new one that is not there yet leaves the orders distinct.
LEMMA BorneIn ==
  ASSUME NEW r, NEW s, NEW x, Inserted(r, s, x), BearDistinct(s), Bears(x),
         \A t \in Borne(s) : t[1] # x.order
  PROVE  Borne(r) = Borne(s) \union {Tok(x)} /\ BearDistinct(r)
<1>1. \A i \in Bearing(s) : Tok(s[i]) \in Borne(s) /\ Tok(s[i])[1] = s[i].order
  BY DEF Borne, Tok
<1>2. \A i \in Bearing(s) : s[i].order # x.order
  BY <1>1
<1>3. QED
  BY <1>2, InsertedBears

LEMMA StoredIn ==
  ASSUME NEW r, NEW s, NEW x, Inserted(r, s, x), Distinct(s), \A t \in Stored(s) : t[1] # x.order
  PROVE  Stored(r) = Stored(s) \union {Tok(x)} /\ Distinct(r)
<1>1. \A i \in DOMAIN s : Tok(s[i]) \in Stored(s) /\ Tok(s[i])[1] = s[i].order
  BY DEF Stored, Tok
<1>2. \A i \in DOMAIN s : s[i].order # x.order
  BY <1>1
<1>3. QED
  BY <1>2, InsertedOrders, InsertedStored

\* No token comes to a sequence.
KeepsBears(r, s) ==
  \/ r = s
  \/ \E x : ~Bears(x) /\ Inserted(r, s, x)
  \/ \E x : Inserted(s, r, x)

LEMMA BearsKept ==
  ASSUME NEW r, NEW s, KeepsBears(r, s)
  PROVE  Borne(r) \subseteq Borne(s) /\ (BearDistinct(s) => BearDistinct(r))
<1>1. CASE r = s
  BY <1>1
<1>2. CASE \E x : ~Bears(x) /\ Inserted(r, s, x)
  BY <1>2, InsertedBears
<1>3. CASE \E x : Inserted(s, r, x)
  BY <1>3, InsertedBears
<1>4. QED
  BY <1>1, <1>2, <1>3 DEF KeepsBears

-----------------------------------------------------------------------------
LEMMA SameToks ==
  \A j, k, v, w : SamePlace(j, v, k, w) => Toks(j, v) = Toks(k, w) /\ Toks(j, v)' = Toks(k, w)'
BY DEF SamePlace, Toks

LEMMA PlaceToks ==
  \A w : /\ Toks("hand", w) = HandToks(w) /\ Toks("hand", w)' = HandToks(w)'
         /\ Toks("queue", w) = Borne(queued[w]) /\ Toks("queue", w)' = Borne(queued'[w])
         /\ Toks("port", w) = Borne(iocp) /\ Toks("port", w)' = Borne(iocp')
         /\ Toks("store", w) = Stored(readPackets) /\ Toks("store", w)' = Stored(readPackets')
BY DEF Toks, Borne, Bearing, Stored

LEMMA TokensStay ==
  ASSUME ReadFits, ReadOnce, UNCHANGED nNextReadOrderToProcess,
         consumed \in Nat, consumed' \in Nat, consumed' >= consumed, nNextReadOrderToProcess \in Nat,
         \A k \in PlaceKinds, w \in Workers : Toks(k, w)' \subseteq Toks(k, w)
  PROVE  ReadFits' /\ ReadOnce'
<1>1. \A t : Fits(t) => Fits(t)'
  BY DEF Fits
<1>2. ReadFits'
  BY <1>1 DEF ReadFits
<1>3. ReadOnce'
  BY DEF ReadOnce, SamePlace
<1>4. QED
  BY <1>2, <1>3

\* A token comes to a place and is in no other.
ComesTo(t, b, w) ==
  \A k \in PlaceKinds, u \in Workers :
    /\ SamePlace(k, u, b, w) => Toks(k, u)' \subseteq Toks(k, u) \union {t}
    /\ ~SamePlace(k, u, b, w) => Toks(k, u)' \subseteq Toks(k, u) \ {t}

LEMMA TokenComes ==
  ASSUME ReadFits, ReadOnce, UNCHANGED nNextReadOrderToProcess,
         consumed \in Nat, consumed' \in Nat, consumed' >= consumed, nNextReadOrderToProcess \in Nat,
         NEW t, NEW b \in PlaceKinds, NEW w \in Workers, Fits(t)',
         ComesTo(t, b, w)
  PROVE  ReadFits' /\ ReadOnce'
<1>1. \A x : Fits(x) => Fits(x)'
  BY DEF Fits
<1>2. \A k \in PlaceKinds, u \in Workers : \A x \in Toks(k, u)' : x \in Toks(k, u) \/ x = t
  BY DEF ComesTo
<1>3. ReadFits'
  BY <1>1, <1>2 DEF ReadFits
<1>4. ASSUME NEW i \in PlaceKinds, NEW j \in PlaceKinds, NEW u \in Workers, NEW v \in Workers,
             NEW x \in Toks(i, u)', x \in Toks(j, v)'
      PROVE  SamePlace(i, u, j, v)
  <2>1. CASE x = t
    <3>1. SamePlace(i, u, b, w) /\ SamePlace(j, v, b, w)
      BY <1>4, <2>1 DEF ComesTo
    <3>2. QED
      BY <3>1 DEF SamePlace
  <2>2. CASE x # t
    BY <1>2, <1>4, <2>2 DEF ReadOnce
  <2>3. QED
    BY <2>1, <2>2
<1>5. ReadOnce'
  BY <1>4 DEF ReadOnce, SamePlace
<1>6. QED
  BY <1>3, <1>5

\* A token goes from one place to another.
LEMMA TokenGoes ==
  ASSUME ReadFits, ReadOnce, UNCHANGED <<nNextReadOrderToProcess, consumed>>,
         consumed \in Nat, nNextReadOrderToProcess \in Nat,
         NEW t, NEW a \in PlaceKinds, NEW v \in Workers, NEW b \in PlaceKinds, NEW w \in Workers,
         t \in Toks(a, v), Toks(a, v)' \subseteq Toks(a, v) \ {t},
         Toks(b, w)' \subseteq Toks(b, w) \union {t},
         \A k \in PlaceKinds, u \in Workers :
           SamePlace(k, u, a, v) \/ SamePlace(k, u, b, w) \/ Toks(k, u)' \subseteq Toks(k, u)
  PROVE  ReadFits' /\ ReadOnce'
<1>1. Fits(t)'
  BY DEF ReadFits, Fits
<1>2. ASSUME NEW k \in PlaceKinds, NEW u \in Workers
      PROVE  /\ SamePlace(k, u, b, w) => Toks(k, u)' \subseteq Toks(k, u) \union {t}
             /\ ~SamePlace(k, u, b, w) => Toks(k, u)' \subseteq Toks(k, u) \ {t}
  <2>1. CASE SamePlace(k, u, b, w)
    <3>1. Toks(k, u) = Toks(b, w) /\ Toks(k, u)' = Toks(b, w)'
      BY <2>1, SameToks
    <3>2. QED
      BY <2>1, <3>1
  <2>2. CASE SamePlace(k, u, a, v) /\ ~SamePlace(k, u, b, w)
    <3>1. Toks(k, u) = Toks(a, v) /\ Toks(k, u)' = Toks(a, v)'
      BY <2>2, SameToks
    <3>2. QED
      BY <2>2, <3>1
  <2>3. CASE ~SamePlace(k, u, a, v) /\ ~SamePlace(k, u, b, w)
    <3>1. t \notin Toks(k, u)
      BY <2>3 DEF ReadOnce
    <3>2. QED
      BY <2>3, <3>1
  <2>4. QED
    BY <2>1, <2>2, <2>3
<1>3. ComesTo(t, b, w)
  BY <1>2 DEF ComesTo
<1>4. QED
  BY <1>1, <1>3, TokenComes

-----------------------------------------------------------------------------
(* Steps that have nothing to do with the reads.                           *)

HandStays(v) ==
  InHand(v)' => InHand(v) /\ cur'[v] = cur[v] /\ (pc'[v] = "in_write" => pc[v] = "in_write")

LEMMA PlacesQuiet ==
  ASSUME ReadNumbers, ReadPlaces, \A v \in Workers : HandStays(v),
         KeepsBears(iocp', iocp), \A v \in Workers : KeepsBears(queued'[v], queued[v]),
         UNCHANGED <<nNextReadOrderToProcess, readPackets>>,
         consumed' \in Nat, consumed' >= consumed
  PROVE  ReadPlaces'
<1>1. ReadFits /\ ReadOnce /\ ReadDistinct /\ ReadTurn
  BY DEF ReadPlaces
<1>2. \A k \in PlaceKinds, w \in Workers : Toks(k, w)' \subseteq Toks(k, w)
  <2> SUFFICES ASSUME NEW k \in PlaceKinds, NEW w \in Workers
               PROVE  Toks(k, w)' \subseteq Toks(k, w)
    OBVIOUS
  <2>1. HandToks(w)' \subseteq HandToks(w)
    BY DEF HandStays, HandToks
  <2>2. Borne(iocp') \subseteq Borne(iocp) /\ Borne(queued'[w]) \subseteq Borne(queued[w])
    BY BearsKept
  <2>3. Stored(readPackets') = Stored(readPackets)
    OBVIOUS
  <2>4. QED
    BY <2>1, <2>2, <2>3, PlaceToks DEF PlaceKinds
<1>3. ReadFits' /\ ReadOnce'
  <2>1. consumed \in Nat /\ nNextReadOrderToProcess \in Nat /\ UNCHANGED nNextReadOrderToProcess
    BY DEF ReadNumbers
  <2>2. QED
    BY <1>1, <1>2, <2>1, TokensStay
<1>4. ReadDistinct'
  <2>1. \A w \in Workers : BearDistinct(iocp')
    BY <1>1, BearsKept DEF ReadDistinct
  <2>2. \A w \in Workers : BearDistinct(queued'[w])
    BY <1>1, BearsKept DEF ReadDistinct
  <2>3. Distinct(readPackets')
    BY <1>1 DEF ReadDistinct
  <2>4. QED
    BY <2>1, <2>2, <2>3 DEF ReadDistinct, BearDistinct, Bearing, Distinct
<1>5. ReadTurn'
  BY <1>1 DEF ReadTurn, HandStays, InHand
<1>6. QED
  BY <1>3, <1>4, <1>5 DEF ReadPlaces

LEMMA NumbersQuiet ==
  ASSUME ReadNumbers, UNCHANGED <<nNextReadOrderToProcess, received>>, IsSeq(readPackets'),
         consumed' \in Nat, consumed' >= consumed, arrived' \in Nat, consumed' <= arrived'
  PROVE  ReadNumbers'
<1>1. ReceivedInOrder' /\ IsSeq(received')
  BY DEF ReadNumbers, ReceivedInOrder
<1>2. nNextReadOrderToProcess \in Nat /\ consumed \in Nat /\ nNextReadOrderToProcess <= consumed + 1
  BY DEF ReadNumbers
<1>3. nNextReadOrderToProcess' = nNextReadOrderToProcess
  OBVIOUS
<1>4. nNextReadOrderToProcess <= consumed' + 1
  <2>1. \A a, b, c \in Nat : a <= b + 1 /\ c >= b => a <= c + 1
    OBVIOUS
  <2>2. QED
    BY <1>2, <2>1
<1>5. QED
  BY <1>1, <1>3, <1>4 DEF ReadNumbers

LEMMA FeedQuiet ==
  ASSUME ReadFeed, UNCHANGED <<kreads, nNextReadOrder, consumed>>, Flowing' => Flowing
  PROVE  ReadFeed'
<1>1. Reads' = Reads
  BY DEF Reads, OfType
<1>2. QED
  BY <1>1 DEF ReadFeed

readQuiet == <<nNextReadOrder, nNextReadOrderToProcess, readPackets, received, kreads, arrived, consumed,
               peer>>

LEMMA ReadsQuiet ==
  ASSUME ReadInv, \A v \in Workers : HandStays(v),
         KeepsBears(iocp', iocp), \A v \in Workers : KeepsBears(queued'[v], queued[v]),
         UNCHANGED readQuiet, link' = "up" => link = "up"
  PROVE  ReadInv'
<1>1. ReadNumbers /\ ReadPlaces /\ ReadFeed
  BY DEF ReadInv
<1>2. /\ UNCHANGED <<nNextReadOrderToProcess, readPackets>>
      /\ UNCHANGED <<nNextReadOrderToProcess, received>>
      /\ UNCHANGED <<kreads, nNextReadOrder, consumed>>
      /\ UNCHANGED <<arrived, peer, consumed, readPackets>>
  BY DEF readQuiet
<1>3. /\ consumed' \in Nat /\ consumed' >= consumed /\ arrived' \in Nat /\ consumed' <= arrived'
      /\ IsSeq(readPackets')
  BY <1>1, <1>2 DEF ReadNumbers
<1>4. ReadPlaces'
  BY <1>1, <1>2, <1>3, PlacesQuiet
<1>5. ReadNumbers'
  BY <1>1, <1>2, <1>3, NumbersQuiet
<1>6. Flowing' => Flowing
  BY <1>2 DEF Flowing, PeerAlive
<1>7. ReadFeed'
  BY <1>1, <1>2, <1>6, FeedQuiet
<1>8. QED
  BY <1>4, <1>5, <1>7 DEF ReadInv

\* Only the worker w moves.
OthersStill(w) == \A v \in Workers : v # w => pc'[v] = pc[v] /\ cur'[v] = cur[v]

LEMMA StillOthers ==
  ASSUME Shape, PacketShape, NEW w, NEW l, Goto(w, l),
         UNCHANGED cur \/ \E k : cur' = [cur EXCEPT ![w] = k]
  PROVE  OthersStill(w)
BY DEF Shape, PacketShape, Goto, OthersStill, Procs

LEMMA HandsStay ==
  ASSUME NEW w, OthersStill(w), w \in Workers => ~InHand(w)'
  PROVE  \A v \in Workers : HandStays(v)
BY DEF OthersStill, HandStays, InHand

ReadMarked == {"start", "in_write"}

\* A step of a thread between labels that hold no read.
LEMMA PlainReads ==
  ASSUME RefsInv, OutInv, ReadInv, NEW p \in Procs, NEW l, l \notin ReadMarked, Goto(p, l),
         UNCHANGED cur \/ \E k : cur' = [cur EXCEPT ![p] = k],
         KeepsBears(iocp', iocp), UNCHANGED queued, UNCHANGED readQuiet, link' = "up" => link = "up"
  PROVE  ReadInv'
<1>1. Shape /\ PacketShape
  BY DEF RefsInv, OutInv
<1>2. OthersStill(p)
  BY <1>1, StillOthers
<1>3. ~InHand(p)'
  BY <1>1 DEF Shape, Goto, InHand, ReadMarked
<1>4. \A v \in Workers : HandStays(v)
  BY <1>2, <1>3, HandsStay
<1>5. \A v \in Workers : KeepsBears(queued'[v], queued[v])
  BY DEF KeepsBears
<1>6. QED
  BY <1>4, <1>5, ReadsQuiet

LEMMA KeptSame == \A s : KeepsBears(s, s)
BY DEF KeepsBears

LEMMA KeptAppend ==
  ASSUME NEW s, IsSeq(s), NEW k, ~Bears(k)
  PROVE  KeepsBears(Append(s, k), s)
BY AppendInserts DEF KeepsBears

LEMMA KeptTail ==
  ASSUME NEW s, IsSeq(s), s # <<>>
  PROVE  KeepsBears(Tail(s), s)
BY TailInserts DEF KeepsBears

-----------------------------------------------------------------------------
(* The steps that move a read.                                             *)

LEMMA FeedStays ==
  ASSUME ReadFeed, UNCHANGED <<kreads, nNextReadOrder, consumed, arrived, peer>>, link' = "up" => link = "up"
  PROVE  ReadFeed'
<1>1. Flowing' => Flowing
  BY DEF Flowing, PeerAlive
<1>2. QED
  BY <1>1, FeedQuiet

LEMMA DispatchReads ==
  ASSUME RefsInv, OutInv, ReadInv, NEW w \in Workers, Dispatch(w)
  PROVE  ReadInv'
<1> DEFINE x == Head(iocp)
<1>1. w \in Procs /\ Shape /\ PacketShape
  BY DEF Procs, RefsInv, OutInv
<1>2. /\ pc[w] = "idle" /\ Goto(w, "start") /\ cur' = [cur EXCEPT ![w] = x]
      /\ iocp # <<>> /\ iocp' = Tail(iocp) /\ UNCHANGED <<queued, link>>
      /\ UNCHANGED <<nNextReadOrder, nNextReadOrderToProcess, readPackets, received, kreads, arrived,
                     consumed, peer>>
  BY DEF Dispatch, connVars, readVars
<1>3. OthersStill(w)
  BY <1>1, <1>2, StillOthers
<1>4. pc'[w] = "start" /\ cur'[w] = x
  BY <1>1, <1>2 DEF Shape, PacketShape, Goto
<1>5. Inserted(iocp, iocp', x)
  BY <1>1, <1>2, TailInserts DEF Shape
<1> HIDE DEF x
<1>6. KeepsBears(iocp', iocp) /\ \A v \in Workers : KeepsBears(queued'[v], queued[v])
  BY <1>2, <1>5 DEF KeepsBears
<1>7. CASE ~Bears(x)
  <2>1. ~InHand(w)'
    BY <1>4, <1>7 DEF InHand
  <2>2. \A v \in Workers : HandStays(v)
    BY <1>3, <2>1, HandsStay
  <2>3. UNCHANGED readQuiet
    BY <1>2 DEF readQuiet
  <2>4. QED
    BY <1>2, <1>6, <2>2, <2>3, ReadsQuiet
<1>8. CASE Bears(x)
  <2>1. ReadNumbers /\ ReadFits /\ ReadOnce /\ ReadDistinct /\ ReadTurn /\ ReadFeed
    BY DEF ReadInv, ReadPlaces
  <2>2. /\ Borne(iocp') \subseteq Borne(iocp) \ {Tok(x)} /\ Tok(x) \in Borne(iocp)
        /\ BearDistinct(iocp')
    BY <1>5, <1>8, <2>1, BorneOut DEF ReadDistinct
  <2>3. HandToks(w)' \subseteq HandToks(w) \union {Tok(x)}
    BY <1>4 DEF HandToks
  <2>4. \A v \in Workers : v # w => HandToks(v)' = HandToks(v)
    BY <1>3 DEF OthersStill, HandToks, InHand
  <2>5. ReadFits' /\ ReadOnce'
    <3>1. \A k \in PlaceKinds, u \in Workers :
            SamePlace(k, u, "port", w) \/ SamePlace(k, u, "hand", w) \/ Toks(k, u)' \subseteq Toks(k, u)
      BY <1>2, <2>4, PlaceToks DEF PlaceKinds, SamePlace
    <3>2. /\ Tok(x) \in Toks("port", w) /\ Toks("port", w)' \subseteq Toks("port", w) \ {Tok(x)}
          /\ Toks("hand", w)' \subseteq Toks("hand", w) \union {Tok(x)}
      BY <2>2, <2>3, PlaceToks
    <3>3. /\ "port" \in PlaceKinds /\ "hand" \in PlaceKinds
          /\ UNCHANGED <<nNextReadOrderToProcess, consumed>>
          /\ consumed \in Nat /\ nNextReadOrderToProcess \in Nat
      BY <1>2, <2>1 DEF PlaceKinds, ReadNumbers
    <3>4. QED
      BY <2>1, <3>1, <3>2, <3>3, TokenGoes
  <2>6. ReadDistinct'
    BY <1>2, <2>1, <2>2 DEF ReadDistinct, BearDistinct, Bearing, Distinct
  <2>7. ReadTurn'
    BY <1>2, <1>3, <1>4, <2>1 DEF ReadTurn, OthersStill
  <2>8. ReadNumbers'
    BY <1>2, <2>1 DEF ReadNumbers, ReceivedInOrder
  <2>9. ReadFeed'
    BY <1>2, <2>1, FeedStays
  <2>10. QED
    BY <2>5, <2>6, <2>7, <2>8, <2>9 DEF ReadInv, ReadPlaces
<1>9. QED
  BY <1>7, <1>8

\* The token of what a worker starts to handle goes to the read packets.
LEMMA StartReadReads ==
  ASSUME RefsInv, OutInv, ReadInv, NEW w \in Workers, Start(w), StartRead(w), Bears(cur[w])
  PROVE  ReadInv'
<1> DEFINE x == [order |-> cur[w].order, data |-> cur[w].data]
           t == Tok(cur[w])
<1>1. w \in Procs /\ Shape /\ PacketShape
  BY DEF Procs, RefsInv, OutInv
<1>2. /\ pc[w] = "start" /\ Goto(w, "in_check") /\ UNCHANGED cur
      /\ readPackets' = QueueSorted(readPackets, x) /\ UNCHANGED <<queued, link, iocp>>
      /\ UNCHANGED <<nNextReadOrder, nNextReadOrderToProcess, received, kreads, arrived, consumed, peer>>
  <2>1. cur[w].hr = "ok" /\ cur[w].data # 0
    BY DEF Bears
  <2>2. pc[w] = "start" /\ UNCHANGED <<cur, queued, link, iocp, kreads, arrived, consumed, peer>>
    BY DEF Start, ioVars
  <2>3. Goto(w, "in_check") /\ readPackets' = QueueSorted(readPackets, x)
        /\ UNCHANGED <<nNextReadOrder, nNextReadOrderToProcess, received>>
    BY <2>1 DEF StartRead
  <2>4. QED
    BY <2>2, <2>3
<1>3. OthersStill(w)
  BY <1>1, <1>2, StillOthers
<1>4. pc'[w] = "in_check"
  BY <1>1, <1>2 DEF Shape, Goto
<1>5. ReadNumbers /\ ReadFits /\ ReadOnce /\ ReadDistinct /\ ReadTurn /\ ReadFeed
  BY DEF ReadInv, ReadPlaces
<1>6. x.order = cur[w].order /\ Tok(x) = t
  BY DEF Tok
<1> HIDE DEF x
<1>7. Inserted(readPackets', readPackets, x) /\ IsSeq(readPackets')
  <2>1. Inserted(readPackets', readPackets, x)
    BY <1>2, <1>5, SortedInserts DEF ReadNumbers
  <2>2. QED
    BY <2>1 DEF Inserted, InsertedAt
<1>8. HandToks(w) = {t} /\ HandToks(w)' = {}
  BY <1>2, <1>4 DEF HandToks, InHand
<1> HIDE DEF t
<1>9. \A v \in Workers : v # w => HandToks(v)' = HandToks(v)
  BY <1>3 DEF OthersStill, HandToks, InHand
<1>10. \A u \in Stored(readPackets) : u[1] # x.order
  <2>1. "store" \in PlaceKinds /\ "hand" \in PlaceKinds
    BY DEF PlaceKinds
  <2>2. Toks("store", w) = Stored(readPackets) /\ Toks("hand", w) = {t}
    BY <1>8, PlaceToks
  <2>3. t \notin Stored(readPackets)
    BY <1>5, <2>1, <2>2 DEF ReadOnce, SamePlace
  <2>4. Fits(t) /\ \A u \in Stored(readPackets) : Fits(u)
    BY <1>5, <2>1, <2>2 DEF ReadFits
  <2>5. ASSUME NEW u \in Stored(readPackets), u[1] = x.order
        PROVE  FALSE
    <3>1. \E i : u = Tok(readPackets[i])
      BY <2>5 DEF Stored
    <3>2. u = <<u[1], u[2]>> /\ u[2] = u[1]
      BY <2>4, <3>1 DEF Tok, Fits
    <3>3. t = <<x.order, x.order>>
      BY <1>6, <2>4 DEF Tok, t, Fits
    <3>4. QED
      BY <2>3, <2>5, <3>2, <3>3
  <2>6. QED
    BY <2>5
<1>11. Stored(readPackets') = Stored(readPackets) \union {t} /\ Distinct(readPackets')
  BY <1>5, <1>6, <1>7, <1>10, StoredIn DEF ReadDistinct
<1>12. ReadFits' /\ ReadOnce'
  <2>1. \A k \in PlaceKinds, u \in Workers :
          SamePlace(k, u, "hand", w) \/ SamePlace(k, u, "store", w) \/ Toks(k, u)' \subseteq Toks(k, u)
    BY <1>2, <1>9, PlaceToks DEF PlaceKinds, SamePlace
  <2>2. /\ t \in Toks("hand", w) /\ Toks("hand", w)' \subseteq Toks("hand", w) \ {t}
        /\ Toks("store", w)' \subseteq Toks("store", w) \union {t}
    BY <1>8, <1>11, PlaceToks
  <2>3. /\ "store" \in PlaceKinds /\ "hand" \in PlaceKinds
        /\ UNCHANGED <<nNextReadOrderToProcess, consumed>>
        /\ consumed \in Nat /\ nNextReadOrderToProcess \in Nat
    BY <1>2, <1>5 DEF PlaceKinds, ReadNumbers
  <2>4. QED
    BY <1>5, <2>1, <2>2, <2>3, TokenGoes
<1>13. ReadDistinct'
  BY <1>2, <1>5, <1>11 DEF ReadDistinct, BearDistinct, Bearing, Distinct
<1>14. ReadTurn'
  BY <1>2, <1>3, <1>4, <1>5 DEF ReadTurn, OthersStill
<1>15. ReadNumbers'
  BY <1>2, <1>5, <1>7 DEF ReadNumbers, ReceivedInOrder
<1>16. ReadFeed'
  BY <1>2, <1>5, FeedStays
<1>17. QED
  BY <1>12, <1>13, <1>14, <1>15, <1>16 DEF ReadInv, ReadPlaces

\* A worker notes the order and the data of a read packet in its own packet.
Notes(w, o, d) == cur' = [cur EXCEPT ![w].order = o, ![w].data = d]

LEMMA OrderTaken ==
  ASSUME Shape, PacketShape, NEW w \in Procs, NEW l, Goto(w, l), NEW o, NEW d, Notes(w, o, d)
  PROVE  OthersStill(w) /\ pc'[w] = l /\ cur'[w].order = o /\ cur'[w].data = d
<1>1. pc = [p \in Procs |-> pc[p]] /\ cur = [p \in Procs |-> cur[p]] /\ IsPacket(cur[w])
  BY DEF Shape, PacketShape
<1>2. pc'[w] = l /\ \A v \in Procs : v # w => pc'[v] = pc[v]
  BY <1>1 DEF Goto
<1>3. /\ \A v \in Procs : v # w => cur'[v] = cur[v]
      /\ cur'[w] = [cur[w] EXCEPT !.order = o, !.data = d]
  BY <1>1 DEF Notes
<1>4. cur'[w].order = o /\ cur'[w].data = d
  BY <1>1, <1>3 DEF IsPacket
<1>5. QED
  BY <1>2, <1>3, <1>4 DEF OthersStill, Procs

\* A worker takes the packet whose turn it is.
LEMMA InTakeReads ==
  ASSUME RefsInv, OutInv, ReadInv, NEW w \in Workers, InTake(w)
  PROVE  ReadInv'
<1> DEFINE x == Head(readPackets)
           t == Tok(x)
<1>1. w \in Procs /\ Shape /\ PacketShape
  BY DEF Procs, RefsInv, OutInv
<1>2. /\ pc[w] = "in_loop" /\ UNCHANGED <<queued, link, iocp>>
      /\ UNCHANGED <<nNextReadOrder, nNextReadOrderToProcess, received, kreads, arrived, consumed, peer>>
  BY DEF InTake, connVars, ioVars
<1>3. CASE ~HasOrder(readPackets, nNextReadOrderToProcess)
  <2>1. Goto(w, "out_enter") /\ UNCHANGED cur /\ UNCHANGED readPackets
    BY <1>3 DEF InTake
  <2>2. UNCHANGED readQuiet /\ KeepsBears(iocp', iocp) /\ "out_enter" \notin ReadMarked
    BY <1>2, <2>1 DEF readQuiet, KeepsBears, ReadMarked
  <2>3. QED
    BY <1>1, <1>2, <2>1, <2>2, PlainReads
<1>4. CASE HasOrder(readPackets, nNextReadOrderToProcess)
  <2>1. /\ readPackets # <<>> /\ readPackets' = Tail(readPackets) /\ Goto(w, "in_write")
        /\ x.order = nNextReadOrderToProcess
        /\ Notes(w, x.order, x.data)
    BY <1>4 DEF InTake, HasOrder, Notes
  <2> HIDE DEF x
  <2>2. OthersStill(w) /\ pc'[w] = "in_write" /\ cur'[w].order = x.order /\ cur'[w].data = x.data
    BY <1>1, <2>1, OrderTaken
  <2>4. ReadNumbers /\ ReadFits /\ ReadOnce /\ ReadDistinct /\ ReadTurn /\ ReadFeed
    BY DEF ReadInv, ReadPlaces
  <2>5. Inserted(readPackets, readPackets', x) /\ IsSeq(readPackets')
    <3>1. Inserted(readPackets, readPackets', x)
      BY <2>1, <2>4, TailInserts DEF ReadNumbers, x
    <3>2. QED
      BY <3>1 DEF Inserted, InsertedAt
  <2>6. /\ Stored(readPackets') \subseteq Stored(readPackets) \ {t} /\ t \in Stored(readPackets)
        /\ Distinct(readPackets')
    BY <2>4, <2>5, StoredOut DEF ReadDistinct
  <2>7. HandToks(w)' \subseteq HandToks(w) \union {t}
    BY <2>2 DEF HandToks, Tok
  <2>8. \A v \in Workers : v # w => HandToks(v)' = HandToks(v)
    BY <2>2 DEF OthersStill, HandToks, InHand
  <2> HIDE DEF t
  <2>9. ReadFits' /\ ReadOnce'
    <3>1. \A k \in PlaceKinds, u \in Workers :
            SamePlace(k, u, "store", w) \/ SamePlace(k, u, "hand", w) \/ Toks(k, u)' \subseteq Toks(k, u)
      BY <1>2, <2>8, PlaceToks DEF PlaceKinds, SamePlace
    <3>2. /\ t \in Toks("store", w) /\ Toks("store", w)' \subseteq Toks("store", w) \ {t}
          /\ Toks("hand", w)' \subseteq Toks("hand", w) \union {t}
      BY <2>6, <2>7, PlaceToks
    <3>3. /\ "store" \in PlaceKinds /\ "hand" \in PlaceKinds
          /\ UNCHANGED <<nNextReadOrderToProcess, consumed>>
          /\ consumed \in Nat /\ nNextReadOrderToProcess \in Nat
      BY <1>2, <2>4 DEF PlaceKinds, ReadNumbers
    <3>4. QED
      BY <2>4, <3>1, <3>2, <3>3, TokenGoes
  <2>10. ReadDistinct'
    BY <1>2, <2>4, <2>6 DEF ReadDistinct, BearDistinct, Bearing, Distinct
  <2>11. ReadTurn'
    BY <1>2, <2>1, <2>2, <2>4 DEF ReadTurn, OthersStill
  <2>12. ReadNumbers'
    BY <1>2, <2>4, <2>5 DEF ReadNumbers, ReceivedInOrder
  <2>13. ReadFeed'
    BY <1>2, <2>4, FeedStays
  <2>14. QED
    BY <2>9, <2>10, <2>11, <2>12, <2>13 DEF ReadInv, ReadPlaces
<1>5. QED
  BY <1>3, <1>4

\* Its data goes to the buffer, and the next order's turn comes.
LEMMA InWriteReads ==
  ASSUME RefsInv, OutInv, ReadInv, NEW w \in Workers, InWrite(w)
  PROVE  ReadInv'
<1> DEFINE m == nNextReadOrderToProcess
           t == Tok(cur[w])
<1>1. w \in Procs /\ Shape /\ PacketShape
  BY DEF Procs, RefsInv, OutInv
<1>2. /\ pc[w] = "in_write" /\ Goto(w, "in_loop") /\ UNCHANGED <<cur, queued, link, iocp, readPackets>>
      /\ received' = Append(received, cur[w].data) /\ nNextReadOrderToProcess' = m + 1
      /\ UNCHANGED <<nNextReadOrder, kreads, arrived, consumed, peer>>
  BY DEF InWrite, ioVars
<1>3. OthersStill(w)
  BY <1>1, <1>2, StillOthers
<1>4. pc'[w] = "in_loop"
  BY <1>1, <1>2 DEF Shape, Goto
<1>5. ReadNumbers /\ ReadFits /\ ReadOnce /\ ReadDistinct /\ ReadTurn /\ ReadFeed
  BY DEF ReadInv, ReadPlaces
<1>6. HandToks(w) = {t} /\ HandToks(w)' = {}
  BY <1>2, <1>4 DEF HandToks, InHand
<1>7. cur[w].order = m /\ cur[w].data = m /\ m \in Nat \ {0} /\ consumed \in Nat /\ m <= consumed /\ t = <<m, m>>
  <2>1. cur[w].order = m
    BY <1>2, <1>5 DEF ReadTurn
  <2>2. t \in Toks("hand", w) /\ "hand" \in PlaceKinds
    BY <1>6, PlaceToks DEF PlaceKinds
  <2>3. Fits(t)
    BY <1>5, <2>2 DEF ReadFits
  <2>4. cur[w].data = m /\ m \in m..consumed
    BY <2>1, <2>3 DEF Fits, Tok
  <2>5. m \in Nat \ {0} /\ consumed \in Nat
    BY <1>5 DEF ReadNumbers
  <2>6. QED
    BY <2>1, <2>4, <2>5 DEF Tok
<1> HIDE DEF t
<1>8. \A v \in Workers : v # w => HandToks(v)' = HandToks(v)
  BY <1>3 DEF OthersStill, HandToks, InHand
<1>9. \A k \in PlaceKinds, u \in Workers :
        Toks(k, u)' \subseteq Toks(k, u) /\ (\A x \in Toks(k, u)' : x # t)
  <2> SUFFICES ASSUME NEW k \in PlaceKinds, NEW u \in Workers
               PROVE  Toks(k, u)' \subseteq Toks(k, u) /\ t \notin Toks(k, u)'
    OBVIOUS
  <2>1. CASE SamePlace(k, u, "hand", w)
    <3>1. Toks(k, u)' = {}
      BY <1>6, <2>1, PlaceToks DEF SamePlace
    <3>2. QED
      BY <3>1
  <2>2. CASE ~SamePlace(k, u, "hand", w)
    <3>1. Toks(k, u)' = Toks(k, u)
      BY <1>2, <1>8, <2>2, PlaceToks DEF PlaceKinds, SamePlace
    <3>2. t \in Toks("hand", w) /\ "hand" \in PlaceKinds
      BY <1>6, PlaceToks DEF PlaceKinds
    <3>3. t \notin Toks(k, u)
      BY <1>5, <2>2, <3>2 DEF ReadOnce, SamePlace
    <3>4. QED
      BY <3>1, <3>3
  <2>3. QED
    BY <2>1, <2>2
<1>10. ReadFits'
  <2> SUFFICES ASSUME NEW k \in PlaceKinds, NEW u \in Workers, NEW x \in Toks(k, u)'
               PROVE  x[1] = x[2] /\ x[1] \in (m + 1)..consumed
    BY <1>2 DEF ReadFits, Fits
  <2>1. x \in Toks(k, u) /\ x # t
    BY <1>9
  <2>2. x[1] = x[2] /\ x[1] \in m..consumed
    BY <1>5, <2>1 DEF ReadFits, Fits
  <2>3. x = <<x[1], x[2]>>
    BY <2>1 DEF Toks, HandToks, Borne, Stored, Tok
  <2>4. x[1] # m
    BY <1>7, <2>1, <2>2, <2>3
  <2>5. QED
    BY <1>7, <2>2, <2>4
<1>11. ReadOnce'
  BY <1>5, <1>9 DEF ReadOnce, SamePlace
<1>12. ReadDistinct'
  BY <1>2, <1>5 DEF ReadDistinct, BearDistinct, Bearing, Distinct
<1>13. ReadTurn'
  <2>1. ASSUME NEW v \in Workers, pc'[v] = "in_write"
        PROVE  FALSE
    <3>1. v # w /\ pc[v] = "in_write" /\ cur[v].order = m
      BY <1>3, <1>4, <1>5, <2>1 DEF OthersStill, ReadTurn
    <3>2. Tok(cur[v]) \in Toks("hand", v) /\ "hand" \in PlaceKinds
      BY <3>1, PlaceToks DEF HandToks, InHand, PlaceKinds
    <3>3. Fits(Tok(cur[v]))
      BY <1>5, <3>2 DEF ReadFits
    <3>4. Tok(cur[v]) = t
      BY <1>7, <3>1, <3>3 DEF Fits, Tok
    <3>5. Tok(cur[v]) \in Toks("hand", w)
      BY <1>6, <3>4, PlaceToks
    <3>6. QED
      BY <1>5, <3>1, <3>2, <3>5 DEF ReadOnce, SamePlace
  <2>2. QED
    BY <2>1 DEF ReadTurn
<1>14. ReadNumbers'
  <2>1. /\ IsSeq(received) /\ Len(received) = m - 1 /\ IsSeq(readPackets)
        /\ arrived \in Nat /\ consumed <= arrived
    BY <1>5 DEF ReadNumbers
  <2>2. /\ IsSeq(received') /\ Len(received') = Len(received) + 1
        /\ DOMAIN received = 1..Len(received) /\ DOMAIN received' = 1..(Len(received) + 1)
        /\ \A i \in 1..Len(received) : received'[i] = received[i]
        /\ received'[Len(received) + 1] = m
    BY <1>2, <1>7, <2>1, AppendGrows
  <2>3. ReceivedInOrder'
    <3>1. \A i \in 1..(m - 1) : received'[i] = i
      BY <1>5, <2>1, <2>2 DEF ReadNumbers, ReceivedInOrder
    <3>2. received'[m] = m /\ DOMAIN received' = 1..m
      BY <1>7, <2>1, <2>2
    <3>3. QED
      BY <1>7, <3>1, <3>2 DEF ReceivedInOrder
  <2>4. m + 1 \in Nat \ {0} /\ m + 1 <= consumed + 1 /\ Len(received') = (m + 1) - 1
    BY <1>7, <2>1, <2>2
  <2>5. QED
    BY <1>2, <1>7, <2>1, <2>2, <2>3, <2>4 DEF ReadNumbers
<1>15. ReadFeed'
  BY <1>2, <1>5, FeedStays
<1>16. QED
  BY <1>10, <1>11, <1>12, <1>13, <1>14, <1>15 DEF ReadInv, ReadPlaces

-----------------------------------------------------------------------------
(* The steps that issue and complete a read.                               *)

LEMMA FeedGrows ==
  ASSUME ReadFeed, IsSeq(kreads), NEW k, kreads' = Append(kreads, k), consumed \in Nat,
         UNCHANGED consumed, Flowing' => Flowing,
         \/ k.type # "Read" /\ UNCHANGED nNextReadOrder
         \/ k.type = "Read" /\ nNextReadOrder' = nNextReadOrder + 1 /\ k.order = nNextReadOrder + 1
  PROVE  ReadFeed'
<1> DEFINE n == Len(kreads) + 1
           a == nNextReadOrder'
<1>1. /\ Len(kreads) \in Nat /\ DOMAIN kreads = 1..Len(kreads) /\ DOMAIN kreads' = 1..n
      /\ \A i \in 1..Len(kreads) : kreads'[i] = kreads[i]
      /\ kreads'[n] = k
  BY AppendGrows
<1>2. /\ \A i \in Reads : i \in Reads' /\ i < n /\ i \in Nat /\ kreads'[i] = kreads[i]
      /\ \A i \in Reads' : i # n => i \in Reads
      /\ n \in Reads' <=> k.type = "Read"
  BY <1>1 DEF Reads, OfType
<1>3. /\ nNextReadOrder \in Nat /\ \A i \in Reads : kreads[i].order \in 1..nNextReadOrder
      /\ \A i, j \in Reads : i < j => kreads[i].order < kreads[j].order
      /\ Flowing =>
           /\ consumed <= nNextReadOrder
           /\ \A i \in Reads : kreads[i].order > consumed
           /\ \A o \in (consumed + 1)..nNextReadOrder : \E i \in Reads : kreads[i].order = o
  BY DEF ReadFeed
<1>4. a \in Nat /\ a >= nNextReadOrder
  BY <1>3
<1>5. \A i \in Reads' : i = n \/ (i \in Reads /\ kreads'[i] = kreads[i])
  BY <1>2
<1>6. n \in Reads' => kreads'[n].order = nNextReadOrder + 1 /\ a = nNextReadOrder + 1
  BY <1>1, <1>2
<1> HIDE DEF a, n
<1>7. ASSUME NEW i \in Reads'
      PROVE  kreads'[i].order \in 1..a
  <2>1. CASE i = n
    <3>1. kreads'[i].order = nNextReadOrder + 1 /\ a = nNextReadOrder + 1
      BY <1>6, <2>1
    <3>2. QED
      BY <1>3, <3>1
  <2>2. CASE i # n
    <3>1. kreads'[i].order \in 1..nNextReadOrder
      BY <1>3, <1>5, <2>2
    <3>2. nNextReadOrder \in Nat
      BY <1>3
    <3>3. PICK x : x = kreads'[i].order
      OBVIOUS
    <3>4. x \in 1..nNextReadOrder
      BY <3>1, <3>3
    <3>5. x \in 1..a
      BY <1>4, <3>2, <3>4
    <3>6. QED
      BY <3>3, <3>5
  <2>3. QED
    BY <2>1, <2>2
<1>8. \A i, j \in Reads' : i < j => kreads'[i].order < kreads'[j].order
  <2> SUFFICES ASSUME NEW i \in Reads', NEW j \in Reads', i < j
               PROVE  kreads'[i].order < kreads'[j].order
    OBVIOUS
  <2>1. CASE i \in Reads /\ j \in Reads
    BY <1>2, <1>3, <2>1
  <2>2. CASE i \in Reads /\ j \notin Reads
    <3>1. j = n /\ kreads'[i] = kreads[i]
      BY <1>2, <1>5, <2>2
    <3>2. kreads'[j].order = nNextReadOrder + 1
      BY <1>6, <3>1
    <3>3. kreads[i].order \in 1..nNextReadOrder
      BY <1>3, <2>2
    <3>4. QED
      BY <1>3, <3>1, <3>2, <3>3
  <2>3. CASE i \notin Reads
    <3>1. i = n
      BY <1>5, <2>3
    <3>2. j \in Reads
      BY <1>1, <1>5, <3>1 DEF n
    <3>3. QED
      BY <1>1, <1>2, <3>1, <3>2 DEF n
  <2>4. QED
    BY <2>1, <2>2, <2>3
<1>9. Flowing' =>
        /\ consumed <= a
        /\ \A i \in Reads' : kreads'[i].order > consumed
        /\ \A o \in (consumed + 1)..a : \E i \in Reads' : kreads'[i].order = o
  <2> SUFFICES ASSUME Flowing
               PROVE  /\ consumed <= a
                      /\ \A i \in Reads' : kreads'[i].order > consumed
                      /\ \A o \in (consumed + 1)..a : \E i \in Reads' : kreads'[i].order = o
    OBVIOUS
  <2>1. consumed <= a
    BY <1>3, <1>4
  <2>2. ASSUME NEW i \in Reads'
        PROVE  kreads'[i].order > consumed
    <3>1. CASE i = n
      <4>1. kreads'[i].order = nNextReadOrder + 1
        BY <1>6, <3>1
      <4>2. QED
        BY <1>3, <4>1
    <3>2. CASE i # n
      BY <1>3, <1>5, <3>2
    <3>3. QED
      BY <3>1, <3>2
  <2>3. ASSUME NEW o \in (consumed + 1)..a
        PROVE  \E i \in Reads' : kreads'[i].order = o
    <3>1. CASE o \in (consumed + 1)..nNextReadOrder
      BY <1>2, <1>3, <3>1
    <3>2. CASE o \notin (consumed + 1)..nNextReadOrder
      <4>1. o > nNextReadOrder /\ o <= a
        BY <1>3, <1>4, <3>2
      <4>2. a = nNextReadOrder + 1 /\ n \in Reads'
        BY <1>2, <1>3, <4>1 DEF a
      <4>3. o = nNextReadOrder + 1
        BY <1>3, <4>1, <4>2
      <4>4. QED
        BY <1>6, <4>2, <4>3
    <3>3. QED
      BY <3>1, <3>2
  <2>4. QED
    BY <2>1, <2>2, <2>3
<1>10. QED
  BY <1>4, <1>7, <1>8, <1>9 DEF ReadFeed, a

LEMMA FeedShrinks ==
  ASSUME ReadFeed, IsSeq(kreads), kreads # <<>>, kreads' = Tail(kreads), consumed \in Nat,
         UNCHANGED nNextReadOrder,
         \/ Head(kreads).type # "Read" /\ UNCHANGED consumed /\ (Flowing' => Flowing)
         \/ /\ Head(kreads).type = "Read" /\ Head(kreads).order = consumed + 1
            /\ Flowing /\ consumed' = consumed + 1
         \/ ~Flowing'
  PROVE  ReadFeed'
<1> DEFINE k == Head(kreads)
<1>1. /\ Len(kreads) \in Nat \ {0} /\ DOMAIN kreads = 1..Len(kreads)
      /\ DOMAIN kreads' = 1..(Len(kreads) - 1)
      /\ \A i \in 1..(Len(kreads) - 1) : kreads'[i] = kreads[i + 1]
      /\ k = kreads[1]
  BY TailShrinks
<1>2. /\ \A i \in Reads' : i + 1 \in Reads /\ kreads'[i] = kreads[i + 1] /\ i \in Nat \ {0}
      /\ \A i \in Reads : i \in Nat /\ i # 0 /\ (i # 1 => i - 1 \in Reads' /\ kreads'[i - 1] = kreads[i])
      /\ 1 \in Reads <=> k.type = "Read"
      /\ kreads[1] = k
  BY <1>1 DEF Reads, OfType
<1>3. /\ nNextReadOrder \in Nat /\ \A i \in Reads : kreads[i].order \in 1..nNextReadOrder
      /\ \A i, j \in Reads : i < j => kreads[i].order < kreads[j].order
      /\ Flowing =>
           /\ consumed <= nNextReadOrder
           /\ \A i \in Reads : kreads[i].order > consumed
           /\ \A o \in (consumed + 1)..nNextReadOrder : \E i \in Reads : kreads[i].order = o
  BY DEF ReadFeed
<1>4. \A i \in Reads' : kreads'[i].order \in 1..nNextReadOrder
  BY <1>2, <1>3
<1>5. ASSUME NEW i \in Reads', NEW j \in Reads', i < j
      PROVE  kreads'[i].order < kreads'[j].order
  <2>1. /\ i + 1 \in Reads /\ kreads'[i] = kreads[i + 1] /\ i \in Nat
        /\ j + 1 \in Reads /\ kreads'[j] = kreads[j + 1] /\ j \in Nat
    BY <1>2
  <2>2. i + 1 < j + 1
    BY <1>5, <2>1
  <2>3. QED
    BY <1>3, <2>1, <2>2
<1> HIDE DEF k
<1>6. ASSUME Flowing'
      PROVE  /\ consumed' <= nNextReadOrder
             /\ \A i \in Reads' : kreads'[i].order > consumed'
             /\ \A o \in (consumed' + 1)..nNextReadOrder : \E i \in Reads' : kreads'[i].order = o
  <2>1. CASE k.type # "Read" /\ UNCHANGED consumed /\ Flowing
    <3>1. 1 \notin Reads
      BY <1>2, <2>1
    <3>2. \A i \in Reads' : kreads'[i].order > consumed
      BY <1>2, <1>3, <2>1
    <3>3. ASSUME NEW o \in (consumed + 1)..nNextReadOrder
          PROVE  \E i \in Reads' : kreads'[i].order = o
      <4>1. PICK i \in Reads : kreads[i].order = o
        BY <1>3, <2>1
      <4>2. i - 1 \in Reads' /\ kreads'[i - 1] = kreads[i]
        BY <1>2, <3>1, <4>1
      <4>3. QED
        BY <4>1, <4>2
    <3>4. QED
      BY <1>3, <2>1, <3>2, <3>3
  <2>2. CASE k.type = "Read" /\ k.order = consumed + 1 /\ Flowing /\ consumed' = consumed + 1
    <3>1. 1 \in Reads /\ kreads[1].order = consumed + 1
      BY <1>2, <2>2
    <3>2. consumed + 1 <= nNextReadOrder
      BY <1>3, <3>1
    <3>3. \A i \in Reads' : kreads'[i].order > consumed + 1
      <4> SUFFICES ASSUME NEW i \in Reads'
                   PROVE  kreads'[i].order > consumed + 1
        OBVIOUS
      <4>1. i \in Nat \ {0} /\ i + 1 \in Reads /\ kreads'[i] = kreads[i + 1]
        BY <1>2
      <4>4. 1 < i + 1
        BY <4>1
      <4>2. kreads[1].order < kreads[i + 1].order /\ kreads[i + 1].order \in Nat
        BY <1>3, <3>1, <4>1, <4>4
      <4>3. QED
        BY <3>1, <4>1, <4>2
    <3>4. \A o \in (consumed + 2)..nNextReadOrder : \E i \in Reads' : kreads'[i].order = o
      <4> SUFFICES ASSUME NEW o \in (consumed + 2)..nNextReadOrder
                   PROVE  \E i \in Reads' : kreads'[i].order = o
        OBVIOUS
      <4>1. PICK i \in Reads : kreads[i].order = o
        BY <1>3, <2>2
      <4>2. i # 1
        BY <3>1, <4>1
      <4>3. QED
        BY <1>2, <4>1, <4>2
    <3>5. (consumed + 1) + 1 = consumed + 2
      OBVIOUS
    <3>6. QED
      BY <2>2, <3>2, <3>3, <3>4, <3>5
  <2>3. QED
    BY <1>6, <2>1, <2>2 DEF k
<1>7. QED
  BY <1>3, <1>4, <1>5, <1>6 DEF ReadFeed

\* The first read that the system holds is the next one.
LEMMA NextRead ==
  ASSUME ReadFeed, IsSeq(kreads), kreads # <<>>, Head(kreads).type = "Read", Flowing, consumed \in Nat
  PROVE  Head(kreads).order = consumed + 1
<1>1. DOMAIN kreads = 1..Len(kreads) /\ Len(kreads) \in Nat \ {0} /\ Head(kreads) = kreads[1]
  BY TailShrinks
<1>2. 1 \in Reads /\ \A i \in Reads : i \in Nat /\ 1 <= i
  BY <1>1 DEF Reads, OfType
<1>3. /\ kreads[1].order \in (consumed + 1)..nNextReadOrder /\ nNextReadOrder \in Nat
      /\ \A i \in Reads : 1 < i => kreads[1].order < kreads[i].order
      /\ \A o \in (consumed + 1)..nNextReadOrder : \E i \in Reads : kreads[i].order = o
  BY <1>2 DEF ReadFeed
<1>4. PICK i \in Reads : kreads[i].order = consumed + 1
  BY <1>3
<1>5. QED
  BY <1>1, <1>2, <1>3, <1>4

\* New data arrives at a place.
NextTok == <<consumed + 1, consumed + 1>>
ArrivesAt(b, w) ==
  \A k \in PlaceKinds, u \in Workers :
    IF SamePlace(k, u, b, w) THEN Toks(k, u)' \subseteq Toks(k, u) \union {NextTok}
                             ELSE Toks(k, u)' \subseteq Toks(k, u)

LEMMA TokenArrives ==
  ASSUME ReadNumbers, ReadFits, ReadOnce, UNCHANGED nNextReadOrderToProcess, consumed' = consumed + 1,
         NEW b \in PlaceKinds, NEW w \in Workers, ArrivesAt(b, w)
  PROVE  ReadFits' /\ ReadOnce'
<1>1. /\ consumed \in Nat /\ nNextReadOrderToProcess \in Nat /\ nNextReadOrderToProcess <= consumed + 1
  BY DEF ReadNumbers
<1> PICK t : t = NextTok
  OBVIOUS
<1>2. Fits(t)'
  <2>1. t[1] = consumed + 1 /\ t[2] = consumed + 1
    BY DEF NextTok
  <2>2. consumed + 1 \in nNextReadOrderToProcess..(consumed + 1)
    BY <1>1
  <2>3. QED
    BY <2>1, <2>2 DEF Fits
<1>3. \A k \in PlaceKinds, u \in Workers : t \notin Toks(k, u)
  BY <1>1 DEF ReadFits, Fits, NextTok
<1>4. ComesTo(t, b, w)
  BY <1>3 DEF ComesTo, ArrivesAt
<1>5. consumed' \in Nat /\ consumed' >= consumed
  BY <1>1
<1>6. QED
  BY <1>1, <1>2, <1>4, <1>5, TokenComes

LEMMA Enqueued ==
  ASSUME Shape, NEW w \in Workers, NEW k, Enqueues(w, k)
  PROVE  /\ \A v \in Workers : v # w => queued'[v] = queued[v]
         /\ Inserted(queued'[w], queued[w], k)
<1>1. queued = [p \in Procs |-> queued[p]] /\ IsSeq(queued[w]) /\ w \in Procs /\ Workers \subseteq Procs
  BY DEF Shape, QueueShape, ReadQueue, Procs
<1>2. queued'[w] = Append(queued[w], k) /\ \A v \in Workers : v # w => queued'[v] = queued[v]
  BY <1>1 DEF Enqueues
<1>3. Inserted(Append(queued[w], k), queued[w], k)
  BY <1>1, AppendInserts
<1>4. QED
  BY <1>2, <1>3

\* A read that the system refuses: no more data comes.
LEMMA FeedEnds ==
  ASSUME ReadFeed, UNCHANGED kreads, nNextReadOrder' \in {nNextReadOrder, nNextReadOrder + 1}, ~Flowing'
  PROVE  ReadFeed'
<1>1. /\ Reads' = Reads /\ nNextReadOrder \in Nat
      /\ \A i \in Reads : kreads[i].order \in 1..nNextReadOrder
      /\ \A i, j \in Reads : i < j => kreads[i].order < kreads[j].order
  BY DEF ReadFeed, Reads, OfType
<1>2. nNextReadOrder' \in Nat /\ nNextReadOrder' >= nNextReadOrder
  BY <1>1
<1>3. ASSUME NEW i \in Reads
      PROVE  kreads[i].order \in 1..nNextReadOrder'
  <2>1. PICK x : x = kreads[i].order /\ x \in 1..nNextReadOrder
    BY <1>1
  <2>2. x \in 1..nNextReadOrder'
    BY <1>1, <1>2, <2>1
  <2>3. QED
    BY <2>1, <2>2
<1>4. QED
  BY <1>1, <1>2, <1>3 DEF ReadFeed

\* A read completes at once and brings the next data to the worker's queue.
LEMMA DataQueued ==
  ASSUME Shape, ReadInv, \A v \in Workers : HandStays(v), NEW w \in Workers, NEW k,
         Enqueues(w, k), Bears(k), Tok(k) = NextTok, consumed < arrived, consumed' = consumed + 1,
         UNCHANGED <<iocp, nNextReadOrderToProcess, readPackets, received, arrived>>
  PROVE  ReadNumbers' /\ ReadPlaces'
<1>1. ReadNumbers /\ ReadFits /\ ReadOnce /\ ReadDistinct /\ ReadTurn
  BY DEF ReadInv, ReadPlaces
<1>2. /\ \A v \in Workers : v # w => queued'[v] = queued[v]
      /\ Inserted(queued'[w], queued[w], k)
  BY Enqueued
<1>3. consumed \in Nat /\ arrived \in Nat /\ consumed' \in Nat /\ consumed' >= consumed /\ consumed' <= arrived'
      /\ IsSeq(readPackets')
  BY <1>1 DEF ReadNumbers
<1>4. ReadNumbers'
  BY <1>1, <1>3, NumbersQuiet
<1>5. "queue" \in PlaceKinds
  BY DEF PlaceKinds
<1>6. \A t \in Borne(queued[w]) : t[1] # k.order
  <2>1. k.order = consumed + 1
    BY DEF Tok, NextTok
  <2>2. \A t \in Borne(queued[w]) : t[1] \in nNextReadOrderToProcess..consumed
    BY <1>1, <1>5, PlaceToks DEF ReadFits, Fits
  <2>3. nNextReadOrderToProcess \in Nat
    BY <1>1 DEF ReadNumbers
  <2>4. QED
    BY <1>3, <2>1, <2>2, <2>3
<1>7. Borne(queued'[w]) = Borne(queued[w]) \union {NextTok} /\ BearDistinct(queued'[w])
  BY <1>1, <1>2, <1>6, BorneIn DEF ReadDistinct
<1>8. \A v \in Workers : HandToks(v)' \subseteq HandToks(v)
  BY DEF HandStays, HandToks
<1>9. ArrivesAt("queue", w)
  <2> SUFFICES ASSUME NEW j \in PlaceKinds, NEW u \in Workers
               PROVE  IF SamePlace(j, u, "queue", w) THEN Toks(j, u)' \subseteq Toks(j, u) \union {NextTok}
                                                     ELSE Toks(j, u)' \subseteq Toks(j, u)
    BY DEF ArrivesAt
  <2>1. CASE j = "queue" /\ u = w
    <3>1. Toks("queue", w) = Borne(queued[w]) /\ Toks("queue", w)' = Borne(queued'[w])
      BY PlaceToks
    <3>2. Toks("queue", w)' = Toks("queue", w) \union {NextTok}
      BY <1>7, <3>1
    <3>3. SamePlace(j, u, "queue", w)
      BY <2>1 DEF SamePlace
    <3>4. QED
      BY <2>1, <3>2, <3>3
  <2>2. CASE j = "queue" /\ u # w
    BY <1>2, <2>2, PlaceToks DEF SamePlace
  <2>3. CASE j = "hand"
    BY <1>8, <2>3, PlaceToks DEF SamePlace
  <2>4. CASE j = "port" \/ j = "store"
    BY <2>4, PlaceToks DEF SamePlace
  <2>5. QED
    BY <2>1, <2>2, <2>3, <2>4 DEF PlaceKinds
<1>10. ReadFits' /\ ReadOnce'
  BY <1>1, <1>5, <1>9, TokenArrives
<1>11. ReadDistinct'
  <2>1. \A v \in Workers : BearDistinct(queued'[v])
    BY <1>1, <1>2, <1>7 DEF ReadDistinct
  <2>2. QED
    BY <1>1, <2>1 DEF ReadDistinct, BearDistinct, Bearing, Distinct
<1>12. ReadTurn'
  BY <1>1 DEF ReadTurn, HandStays, InHand
<1>13. QED
  BY <1>4, <1>10, <1>11, <1>12 DEF ReadPlaces

LEMMA ReadIssueReads ==
  ASSUME RefsInv, OutInv, ReadInv, NEW w \in Workers, ReadIssue(w)
  PROVE  ReadInv'
<1> DEFINE t == IssueType(w)
           o == IF t = "Read" THEN nNextReadOrder + 1 ELSE 0
           k == ReadResult(t, o)
           n == IF t = "Read" THEN nNextReadOrder + 1 ELSE nNextReadOrder
<1>1. w \in Procs /\ Shape /\ PacketShape /\ IsSeq(kreads)
  BY DEF Procs, RefsInv, OutInv, Shape
<1>2. /\ (\E l \in {AfterReads(w), "rd"} : Goto(w, l)) /\ UNCHANGED cur
      /\ UNCHANGED <<link, nNextReadOrderToProcess, readPackets, received, iocp, arrived, peer>>
      /\ nNextReadOrder' = n
  BY DEF ReadIssue
<1>3. ReadNumbers /\ ReadPlaces /\ ReadFeed
  BY DEF ReadInv
<1>4. consumed \in Nat /\ arrived \in Nat /\ consumed <= arrived /\ nNextReadOrder \in Nat
      /\ IsSeq(readPackets)
  BY <1>3 DEF ReadNumbers, ReadFeed
<1>5. \A v \in Workers : HandStays(v)
  <2>1. PICK l \in {AfterReads(w), "rd"} : Goto(w, l)
    BY <1>2
  <2>2. l \notin ReadMarked
    BY DEF ReadMarked, AfterReads
  <2>3. OthersStill(w)
    BY <1>1, <1>2, <2>1, StillOthers
  <2>4. ~InHand(w)'
    BY <1>1, <2>1, <2>2 DEF Shape, Goto, InHand, ReadMarked
  <2>5. QED
    BY <2>3, <2>4, HandsStay
<1>6. \/ ~PeerAlive /\ UNCHANGED <<kreads, consumed, queued>>
      \/ /\ PeerAlive /\ UNCHANGED <<consumed, queued>>
         /\ kreads' = Append(kreads, [type |-> t, order |-> o])
      \/ /\ PeerAlive /\ UNCHANGED kreads /\ kreads = <<>> /\ CanReadNow /\ Enqueues(w, k)
         /\ consumed' = IF t = "Read" /\ consumed < arrived THEN consumed + 1 ELSE consumed
  BY DEF ReadIssue, PeerAlive, Enqueues
<1>7. UNCHANGED <<consumed, queued>> => ReadNumbers' /\ ReadPlaces'
  <2> SUFFICES ASSUME UNCHANGED <<consumed, queued>> PROVE ReadNumbers' /\ ReadPlaces'
    OBVIOUS
  <2>1. KeepsBears(iocp', iocp) /\ \A v \in Workers : KeepsBears(queued'[v], queued[v])
    BY <1>2 DEF KeepsBears
  <2>2. QED
    BY <1>2, <1>3, <1>4, <1>5, <2>1, PlacesQuiet, NumbersQuiet
<1>8. t = "Read" \/ t = "ZeroRead"
  BY DEF IssueType
<1> HIDE DEF t
<1>9. CASE ~PeerAlive /\ UNCHANGED <<kreads, consumed, queued>>
  <2>1. ~Flowing'
    BY <1>2, <1>9 DEF Flowing, PeerAlive
  <2>2. nNextReadOrder' \in {nNextReadOrder, nNextReadOrder + 1}
    BY <1>2
  <2>3. ReadFeed'
    BY <1>3, <1>9, <2>1, <2>2, FeedEnds
  <2>4. QED
    BY <1>7, <1>9, <2>3 DEF ReadInv
<1>10. CASE UNCHANGED <<consumed, queued>> /\ kreads' = Append(kreads, [type |-> t, order |-> o])
  <2>1. Flowing' => Flowing
    BY <1>2, <1>10 DEF Flowing, PeerAlive
  <2> DEFINE x == [type |-> t, order |-> o]
  <2>2. /\ x.type = t /\ (t = "Read" => x.order = nNextReadOrder + 1)
        /\ kreads' = Append(kreads, x)
    BY <1>10
  <2> HIDE DEF x
  <2>3. ReadFeed'
    BY <1>1, <1>2, <1>3, <1>4, <1>10, <2>1, <2>2, FeedGrows
  <2>4. QED
    BY <1>7, <1>10, <2>3 DEF ReadInv
<1>11. CASE /\ PeerAlive /\ UNCHANGED kreads /\ kreads = <<>> /\ CanReadNow /\ Enqueues(w, k)
            /\ consumed' = IF t = "Read" /\ consumed < arrived THEN consumed + 1 ELSE consumed
  <2>1. Reads = {} /\ Reads' = {}
    BY <1>11 DEF Reads, OfType
  <2>2. CASE t = "Read" /\ consumed < arrived
    <3>1. Flowing
      BY <1>11, <2>2 DEF Flowing
    <3>2. nNextReadOrder = consumed
      <4>1. consumed <= nNextReadOrder /\ \A i \in (consumed + 1)..nNextReadOrder : FALSE
        BY <1>3, <2>1, <3>1 DEF ReadFeed
      <4>2. ~(nNextReadOrder > consumed)
        BY <1>4, <4>1
      <4>3. QED
        BY <1>4, <4>1, <4>2
    <3>3. k.type = "Read" /\ k.hr = "ok" /\ k.data = consumed + 1 /\ k.order = consumed + 1
      BY <2>2, <3>2 DEF ReadResult, Packet
    <3> HIDE DEF k
    <3>4. Bears(k) /\ Tok(k) = NextTok
      BY <1>4, <3>3 DEF Bears, Tok, NextTok
    <3>5. ReadNumbers' /\ ReadPlaces'
      BY <1>1, <1>2, <1>5, <1>11, <2>2, <3>4, DataQueued
    <3>6. ReadFeed'
      <4>1. consumed' = consumed + 1 /\ nNextReadOrder' = consumed + 1
        BY <1>2, <1>11, <2>2, <3>2
      <4>2. nNextReadOrder' \in Nat /\ consumed' <= nNextReadOrder'
        BY <1>4, <4>1
      <4>3. (consumed' + 1)..nNextReadOrder' = {}
        BY <1>4, <4>1
      <4>4. QED
        BY <2>1, <4>2, <4>3 DEF ReadFeed
    <3>7. QED
      BY <3>5, <3>6 DEF ReadInv
  <2>3. CASE ~(t = "Read" /\ consumed < arrived)
    <3>1. UNCHANGED consumed
      BY <1>11, <2>3
    <3>2. ~Bears(k)
      BY <2>3 DEF ReadResult, Packet, Bears
    <3> HIDE DEF k
    <3>3. KeepsBears(iocp', iocp) /\ \A v \in Workers : KeepsBears(queued'[v], queued[v])
      BY <1>1, <1>2, <1>11, <3>2, Enqueued DEF KeepsBears
    <3>4. ReadNumbers' /\ ReadPlaces'
      BY <1>2, <1>3, <1>4, <1>5, <3>1, <3>3, PlacesQuiet, NumbersQuiet
    <3>5. ReadFeed'
      <4>1. CASE t = "Read"
        <5>1. ~(consumed < arrived) /\ peer = "eof"
          BY <1>11, <2>3, <4>1 DEF CanReadNow
        <5>2. ~Flowing'
          BY <1>2, <3>1, <5>1 DEF Flowing
        <5>3. nNextReadOrder' \in {nNextReadOrder, nNextReadOrder + 1}
          BY <1>2
        <5>4. QED
          BY <1>3, <1>11, <5>2, <5>3, FeedEnds
      <4>2. CASE t # "Read"
        <5>1. UNCHANGED <<kreads, nNextReadOrder, consumed>>
          BY <1>2, <1>11, <3>1, <4>2
        <5>2. Flowing' => Flowing
          BY <1>2, <3>1 DEF Flowing, PeerAlive
        <5>3. QED
          BY <1>3, <5>1, <5>2, FeedQuiet
      <4>3. QED
        BY <4>1, <4>2
    <3>6. QED
      BY <3>4, <3>5 DEF ReadInv
  <2>4. QED
    BY <2>2, <2>3
<1>12. QED
  BY <1>6, <1>9, <1>10, <1>11

\* A pending read completes and brings the next data to the port.
LEMMA DataPorted ==
  ASSUME Shape, ReadInv, NEW x, iocp' = Append(iocp, x), Bears(x), Tok(x) = NextTok,
         consumed < arrived, consumed' = consumed + 1,
         UNCHANGED <<pc, cur, queued, nNextReadOrderToProcess, readPackets, received, arrived>>
  PROVE  ReadNumbers' /\ ReadPlaces'
<1>1. ReadNumbers /\ ReadFits /\ ReadOnce /\ ReadDistinct /\ ReadTurn
  BY DEF ReadInv, ReadPlaces
<1>2. Inserted(iocp', iocp, x)
  BY AppendInserts DEF Shape
<1>3. consumed \in Nat /\ arrived \in Nat /\ consumed' \in Nat /\ consumed' >= consumed /\ consumed' <= arrived'
      /\ IsSeq(readPackets')
  BY <1>1 DEF ReadNumbers
<1>4. ReadNumbers'
  BY <1>1, <1>3, NumbersQuiet
<1>5. "port" \in PlaceKinds
  BY DEF PlaceKinds
<1>6. ReadTurn'
  BY <1>1 DEF ReadTurn
<1>7. ASSUME NEW w \in Workers
      PROVE  ReadFits' /\ ReadOnce' /\ BearDistinct(iocp')
  <2>1. \A t \in Borne(iocp) : t[1] # x.order
    <3>1. x.order = consumed + 1
      BY DEF Tok, NextTok
    <3>2. \A t \in Borne(iocp) : t[1] \in nNextReadOrderToProcess..consumed
      BY <1>1, <1>5, PlaceToks DEF ReadFits, Fits
    <3>3. nNextReadOrderToProcess \in Nat
      BY <1>1 DEF ReadNumbers
    <3>4. QED
      BY <1>3, <3>1, <3>2, <3>3
  <2>2. Borne(iocp') = Borne(iocp) \union {NextTok} /\ BearDistinct(iocp')
    BY <1>1, <1>2, <2>1, BorneIn DEF ReadDistinct
  <2>3. ArrivesAt("port", w)
    <3> SUFFICES ASSUME NEW j \in PlaceKinds, NEW u \in Workers
                 PROVE  IF SamePlace(j, u, "port", w) THEN Toks(j, u)' \subseteq Toks(j, u) \union {NextTok}
                                                      ELSE Toks(j, u)' \subseteq Toks(j, u)
      BY DEF ArrivesAt
    <3>1. CASE j = "port"
      <4>1. Toks("port", u) = Borne(iocp) /\ Toks("port", u)' = Borne(iocp')
        BY PlaceToks
      <4>2. Toks("port", u)' = Toks("port", u) \union {NextTok}
        BY <2>2, <4>1
      <4>3. SamePlace(j, u, "port", w)
        BY <3>1 DEF SamePlace
      <4>4. QED
        BY <3>1, <4>2, <4>3
    <3>2. CASE j = "queue" \/ j = "store"
      BY <3>2, PlaceToks DEF SamePlace
    <3>3. CASE j = "hand"
      <4>1. HandToks(u)' = HandToks(u)
        BY DEF HandToks, InHand
      <4>2. QED
        BY <3>3, <4>1, PlaceToks DEF SamePlace
    <3>4. QED
      BY <3>1, <3>2, <3>3 DEF PlaceKinds
  <2>4. QED
    BY <1>1, <1>5, <2>2, <2>3, TokenArrives
<1>8. ReadFits' /\ ReadOnce'
  <2>1. CASE Workers = {}
    BY <2>1 DEF ReadFits, ReadOnce
  <2>2. QED
    BY <1>7, <2>1
<1>9. ReadDistinct'
  BY <1>1, <1>7 DEF ReadDistinct, BearDistinct, Bearing, Distinct
<1>10. QED
  BY <1>4, <1>6, <1>8, <1>9 DEF ReadPlaces

LEMMA ReadCompletesReads ==
  ASSUME RefsInv, OutInv, ReadInv, ReadCompletes
  PROVE  ReadInv'
<1> DEFINE k == Head(kreads)
           r == ReadResult(k.type, k.order)
<1>1. /\ kreads # <<>> /\ kreads' = Tail(kreads)
      /\ UNCHANGED <<pc, cur, queued, link, nNextReadOrder, nNextReadOrderToProcess, readPackets, received,
                     arrived, peer>>
      /\ \/ /\ PeerAlive /\ CanReadNow /\ iocp' = Append(iocp, r)
            /\ consumed' = IF k.type = "Read" /\ consumed < arrived THEN consumed + 1 ELSE consumed
         \/ /\ ~PeerAlive /\ UNCHANGED consumed /\ \E x : ~Bears(x) /\ iocp' = Append(iocp, x)
  <2>1. \A c : ~Bears(Packet(k.type, k.order, 0, c))
    BY DEF Bears, Packet
  <2>2. /\ kreads # <<>> /\ kreads' = Tail(kreads)
        /\ UNCHANGED <<pc, cur, queued, link, nNextReadOrder, nNextReadOrderToProcess, readPackets, received,
                       arrived, peer>>
    BY DEF ReadCompletes, procVars, connVars, readVars
  <2>3. \/ /\ PeerAlive /\ CanReadNow /\ iocp' = Append(iocp, r)
           /\ consumed' = IF k.type = "Read" /\ consumed < arrived THEN consumed + 1 ELSE consumed
        \/ /\ ~PeerAlive /\ UNCHANGED consumed /\ \E c : iocp' = Append(iocp, Packet(k.type, k.order, 0, c))
    BY DEF ReadCompletes, PeerAlive
  <2>4. QED
    BY <2>1, <2>2, <2>3
<1>2. Shape /\ PacketShape /\ IsSeq(kreads) /\ IsSeq(iocp)
  BY DEF RefsInv, OutInv, Shape
<1>3. ReadNumbers /\ ReadPlaces /\ ReadFeed
  BY DEF ReadInv
<1>4. consumed \in Nat /\ arrived \in Nat /\ consumed <= arrived /\ IsSeq(readPackets)
  BY <1>3 DEF ReadNumbers
<1> HIDE DEF k
<1>5. UNCHANGED consumed /\ (\E x : ~Bears(x) /\ iocp' = Append(iocp, x)) => ReadNumbers' /\ ReadPlaces'
  <2> SUFFICES ASSUME UNCHANGED consumed, NEW x, ~Bears(x), iocp' = Append(iocp, x)
               PROVE  ReadNumbers' /\ ReadPlaces'
    OBVIOUS
  <2>1. KeepsBears(iocp', iocp) /\ \A v \in Workers : KeepsBears(queued'[v], queued[v])
    BY <1>1, <1>2, KeptAppend, KeptSame
  <2>2. \A v \in Workers : HandStays(v)
    BY <1>1 DEF HandStays, InHand
  <2>3. QED
    BY <1>1, <1>3, <1>4, <2>1, <2>2, PlacesQuiet, NumbersQuiet
<1>6. CASE ~PeerAlive /\ UNCHANGED consumed /\ \E x : ~Bears(x) /\ iocp' = Append(iocp, x)
  <2>1. ~Flowing'
    BY <1>1, <1>6 DEF Flowing, PeerAlive
  <2>2. ReadFeed'
    BY <1>1, <1>2, <1>3, <1>4, <2>1, FeedShrinks
  <2>3. QED
    BY <1>5, <1>6, <2>2 DEF ReadInv
<1>7. CASE /\ PeerAlive /\ CanReadNow /\ iocp' = Append(iocp, r)
           /\ consumed' = IF k.type = "Read" /\ consumed < arrived THEN consumed + 1 ELSE consumed
  <2>1. CASE k.type = "Read" /\ consumed < arrived
    <3>1. Flowing /\ consumed' = consumed + 1
      BY <1>7, <2>1 DEF Flowing
    <3>2. k.order = consumed + 1
      BY <1>1, <1>2, <1>3, <1>4, <2>1, <3>1, NextRead DEF k
    <3>3. r.type = "Read" /\ r.hr = "ok" /\ r.data = consumed + 1 /\ r.order = consumed + 1
      BY <2>1, <3>2 DEF ReadResult, Packet
    <3> HIDE DEF r
    <3>4. Bears(r) /\ Tok(r) = NextTok
      BY <1>4, <3>3 DEF Bears, Tok, NextTok
    <3>5. ReadNumbers' /\ ReadPlaces'
      BY <1>1, <1>2, <1>7, <2>1, <3>1, <3>4, DataPorted
    <3>6. ReadFeed'
      BY <1>1, <1>2, <1>3, <1>4, <2>1, <3>1, <3>2, FeedShrinks DEF k
    <3>7. QED
      BY <3>5, <3>6 DEF ReadInv
  <2>2. CASE ~(k.type = "Read" /\ consumed < arrived)
    <3>1. UNCHANGED consumed
      BY <1>7, <2>2
    <3>2. ~Bears(r)
      BY <2>2 DEF ReadResult, Packet, Bears
    <3> HIDE DEF r
    <3>3. ReadNumbers' /\ ReadPlaces'
      BY <1>5, <1>7, <3>1, <3>2
    <3>4. ReadFeed'
      <4>1. CASE k.type = "Read"
        <5>1. ~(consumed < arrived) /\ peer = "eof"
          BY <1>7, <2>2, <4>1 DEF CanReadNow
        <5>2. ~Flowing'
          BY <1>1, <3>1, <5>1 DEF Flowing
        <5>3. QED
          BY <1>1, <1>2, <1>3, <1>4, <5>2, FeedShrinks
      <4>2. CASE k.type # "Read"
        <5>1. Flowing' => Flowing
          BY <1>1, <3>1 DEF Flowing, PeerAlive
        <5>2. QED
          BY <1>1, <1>2, <1>3, <1>4, <3>1, <4>2, <5>1, FeedShrinks DEF k
      <4>3. QED
        BY <4>1, <4>2
    <3>5. QED
      BY <3>3, <3>4 DEF ReadInv
  <2>3. QED
    BY <2>1, <2>2
<1>8. QED
  BY <1>1, <1>6, <1>7

-----------------------------------------------------------------------------
(* The steps that move no read.                                            *)

\* A thread goes on at a label of L, and no read moves.
WalksIn(p, L) ==
  /\ \E l \in L : Goto(p, l)
  /\ UNCHANGED <<cur, iocp, queued>> /\ UNCHANGED readQuiet
  /\ link' = "up" => link = "up"

LEMMA WalkReads ==
  ASSUME RefsInv, OutInv, ReadInv, NEW p \in Procs, NEW L, WalksIn(p, L), L \intersect ReadMarked = {}
  PROVE  ReadInv'
<1>1. PICK l \in L : Goto(p, l)
  BY DEF WalksIn
<1>2. KeepsBears(iocp', iocp) /\ UNCHANGED cur /\ UNCHANGED queued /\ l \notin ReadMarked
  BY DEF WalksIn, KeepsBears
<1>3. UNCHANGED readQuiet /\ (link' = "up" => link = "up")
  BY DEF WalksIn
<1>4. QED
  BY <1>1, <1>2, <1>3, PlainReads

LEMMA InputReads ==
  ASSUME RefsInv, OutInv, ReadInv, NEW w \in Workers,
         InCheck(w) \/ ReadNext(w) \/ ReadAgain(w) \/ ReadDone(w) \/ ResumeLoop(w)
  PROVE  ReadInv'
<1> DEFINE L == {"in_loop", "rd", "rd_io", "r_dec", "rs_loop", "post", "out_enter"}
<1>1. AfterReads(w) \in L
  BY DEF AfterReads
<1> HIDE DEF AfterReads
<1>2. WalksIn(w, L)
  <2> USE <1>1 DEF WalksIn, readQuiet
  <2>1. CASE InCheck(w)
    BY <2>1 DEF InCheck, connVars, readVars, ioVars
  <2>2. CASE ReadNext(w)
    BY <2>2 DEF ReadNext, connVars, readVars, ioVars
  <2>3. CASE ReadAgain(w)
    BY <2>3 DEF ReadAgain, connVars, readVars, ioVars
  <2>4. CASE ReadDone(w)
    BY <2>4 DEF ReadDone, connVars, ioVars
  <2>5. CASE ResumeLoop(w)
    BY <2>5 DEF ResumeLoop, readVars, ioVars
  <2>6. QED
    BY <2>1, <2>2, <2>3, <2>4, <2>5
<1>3. w \in Procs /\ L \intersect ReadMarked = {}
  BY DEF Procs, ReadMarked
<1> HIDE DEF L
<1>4. QED
  BY <1>2, <1>3, WalkReads

LEMMA OutputReads ==
  ASSUME RefsInv, OutInv, ReadInv, NEW w \in Workers,
         \/ OutEnter(w) \/ OutLoop(w) \/ OutData(w) \/ OutSignal(w) \/ OutRequeue(w) \/ OutRecheck(w)
         \/ OutStream(w) \/ OutDrop(w) \/ OutNext(w) \/ OutExit(w) \/ WriteDone(w)
  PROVE  ReadInv'
<1> DEFINE L == HoldRoles \union {"out_loop", "out_deq", "out_recheck", "out_exit", "w_dec", "r_again",
                                  "r_dec", "post", "dec_zero"}
<1>1. WalksIn(w, L)
  <2> USE DEF WalksIn, readQuiet, HoldRoles
  <2>1. CASE OutEnter(w) \/ OutLoop(w) \/ OutSignal(w)
    BY <2>1 DEF OutEnter, OutLoop, OutSignal, connVars, readVars, ioVars
  <2>2. CASE OutRequeue(w) \/ OutRecheck(w)
    BY <2>2 DEF OutRequeue, OutRecheck, connVars, readVars, ioVars
  <2>3. CASE OutData(w)
    BY <2>3 DEF OutData, readVars
  <2>4. CASE OutStream(w)
    BY <2>4 DEF OutStream, readVars
  <2>5. CASE OutDrop(w) \/ OutNext(w)
    BY <2>5, DecrementMoves DEF OutDrop, OutNext, connVars, readVars, ioVars
  <2>6. CASE OutExit(w)
    BY <2>6, DecrementMoves DEF OutExit, connVars, readVars, ioVars
  <2>7. CASE WriteDone(w)
    BY <2>7, DecrementMoves DEF WriteDone, connVars, readVars, ioVars
  <2>8. QED
    BY <2>1, <2>2, <2>3, <2>4, <2>5, <2>6, <2>7
<1>2. w \in Procs /\ L \intersect ReadMarked = {}
  BY DEF Procs, ReadMarked, HoldRoles
<1> HIDE DEF L
<1>3. QED
  BY <1>1, <1>2, WalkReads

LEMMA PostReads ==
  ASSUME RefsInv, OutInv, ReadInv, NEW w \in Workers,
         \/ Post(w) \/ PostEnding(w) \/ FireEnter(w) \/ FireExit(w) \/ EndingWait(w)
         \/ EndingNotify(w) \/ EndPacket(w)
  PROVE  ReadInv'
<1> DEFINE L == {"post", "post2", "post_fire", "firing", "sd_wait", "sd_fire", "sd_firing", "sd_disc",
                 "end", "release", "close"}
<1>1. \A h : Ending(h) \in L
  BY DEF Ending
<1>2. WalksIn(w, L)
  <2> USE <1>1 DEF WalksIn, readQuiet
  <2>1. CASE Post(w)
    BY <2>1 DEF Post, readVars, ioVars
  <2>2. CASE PostEnding(w)
    BY <2>2 DEF PostEnding, CallClose, readVars, ioVars
  <2>3. CASE FireEnter(w)
    BY <2>3 DEF FireEnter, connVars, readVars, ioVars
  <2>4. CASE FireExit(w)
    BY <2>4 DEF FireExit, ioVars
  <2>5. CASE EndingWait(w)
    BY <2>5 DEF EndingWait, connVars, readVars, ioVars
  <2>6. CASE EndingNotify(w)
    BY <2>6 DEF EndingNotify, connVars, readVars, ioVars
  <2>7. CASE EndPacket(w)
    BY <2>7 DEF EndPacket, CallClose, readVars, ioVars
  <2>8. QED
    BY <2>1, <2>2, <2>3, <2>4, <2>5, <2>6, <2>7
<1>3. w \in Procs /\ L \intersect ReadMarked = {}
  BY DEF Procs, ReadMarked
<1> HIDE DEF L
<1>4. QED
  BY <1>2, <1>3, WalkReads

LEMMA CloseReads ==
  ASSUME RefsInv, OutInv, ReadInv, NEW p \in Workers \union {App},
         CloseStep(p) \/ DecClosed(p) \/ (p = App /\ (AppClose \/ AppRelease))
  PROVE  ReadInv'
<1> DEFINE L == CloseLabels \union {"idle", "app_rel"} \union CloseReturns \union DecReturns
<1>1. pc[p] \in CloseLabels => closing[p].ret \in L
  BY DEF RefsInv, Closing
<1>2. L \intersect ReadMarked = {}
  BY DEF ReadMarked, CloseLabels, CloseReturns, DecReturns
<1>3. {"close", "close_code", "close_test", "shut_code", "shut_link", "close_rel", "dec_zero", "idle",
       "app_rel"} \subseteq L
  BY DEF CloseLabels
<1> HIDE DEF L
<1>4. WalksIn(p, L)
  <2> USE DEF WalksIn, readQuiet, readVars, ioVars
  <2>1. CASE CloseMark(p)
    BY <1>3, <2>1 DEF CloseMark
  <2>2. CASE CloseCode(p)
    BY <1>3, <2>2 DEF CloseCode
  <2>3. CASE CloseTest(p)
    BY <1>1, <1>3, <2>3 DEF CloseTest, FinishClose, Return, CloseLabels, connVars
  <2>4. CASE ShutCode(p)
    BY <1>3, <2>4 DEF ShutCode, connVars
  <2>5. CASE ShutLink(p)
    BY <1>1, <1>3, <2>5, LinkGoesDown DEF ShutLink, FinishClose, Return, CloseLabels
  <2>6. CASE CloseRelease(p)
    BY <1>1, <1>3, <2>6 DEF CloseRelease, Return, CloseLabels
  <2>7. CASE DecClosed(p)
    BY <1>1, <1>3, <2>7 DEF DecClosed, Return, CloseLabels, connVars
  <2>8. CASE p = App /\ AppClose
    BY <1>3, <2>8 DEF AppClose, CallClose
  <2>9. CASE p = App /\ AppRelease
    BY <1>3, <2>9, LinkGoesDown DEF AppRelease
  <2>10. QED
    BY <2>1, <2>2, <2>3, <2>4, <2>5, <2>6, <2>7, <2>8, <2>9 DEF CloseStep
<1>5. p \in Procs
  BY DEF Procs
<1>6. QED
  BY <1>2, <1>4, <1>5, WalkReads

LEMMA StartReads ==
  ASSUME RefsInv, OutInv, ReadInv, NEW w \in Workers, Start(w)
  PROVE  ReadInv'
<1>1. CASE StartRead(w) /\ Bears(cur[w])
  BY <1>1, StartReadReads
<1>2. CASE ~(StartRead(w) /\ Bears(cur[w]))
  <2> DEFINE L == {"rd", "r_dec", "close", "out_enter", "w_dec", "rs_loop"}
  <2>1. (\E l \in L : Goto(w, l)) /\ UNCHANGED readVars
    <3>1. CASE StartInitialSetup(w) \/ StartZeroRead(w) \/ StartResume(w)
      BY <3>1 DEF StartInitialSetup, StartZeroRead, StartResume
    <3>2. CASE StartWriteRequest(w) \/ StartWrite(w)
      BY <3>2 DEF StartWriteRequest, StartWrite
    <3>3. CASE StartRead(w)
      <4>1. ~(cur[w].hr = "ok" /\ cur[w].data > 0)
        BY <1>2, <3>3 DEF Bears, StartRead
      <4>2. QED
        BY <3>3, <4>1 DEF StartRead, CallClose, readVars
    <3>4. QED
      BY <3>1, <3>2, <3>3 DEF Start
  <2>2. WalksIn(w, L)
    BY <2>1 DEF WalksIn, readQuiet, readVars, Start, ioVars
  <2>3. w \in Procs /\ L \intersect ReadMarked = {}
    BY DEF Procs, ReadMarked
  <2> HIDE DEF L
  <2>4. QED
    BY <2>2, <2>3, WalkReads
<1>3. QED
  BY <1>1, <1>2

\* A step of the thread p that leaves it at a label that holds no read.
LEMMA MoveReads ==
  ASSUME ReadInv, NEW p, OthersStill(p), pc'[p] \notin ReadMarked, KeepsBears(iocp', iocp), UNCHANGED queued,
         UNCHANGED readQuiet, link' = "up" => link = "up"
  PROVE  ReadInv'
<1>1. ~InHand(p)'
  BY DEF InHand, ReadMarked
<1>2. \A v \in Workers : HandStays(v)
  BY <1>1, HandsStay
<1>3. \A v \in Workers : KeepsBears(queued'[v], queued[v])
  BY DEF KeepsBears
<1>4. QED
  BY <1>2, <1>3, ReadsQuiet

LEMMA OutTakeReads ==
  ASSUME RefsInv, OutInv, ReadInv, NEW w \in Workers, OutTake(w)
  PROVE  ReadInv'
<1>1. w \in Procs /\ Shape /\ PacketShape
  BY DEF Procs, RefsInv, OutInv
<1>2. /\ UNCHANGED readQuiet /\ UNCHANGED <<iocp, queued, link>>
      /\ \E l : l \notin ReadMarked /\ Goto(w, l)
      /\ UNCHANGED cur \/ \E o : cur' = [cur EXCEPT ![w].order = o]
  BY DEF OutTake, readQuiet, connVars, readVars, ioVars, ReadMarked
<1>3. OthersStill(w) /\ pc'[w] \notin ReadMarked
  BY <1>1, <1>2 DEF OthersStill, Shape, PacketShape, Goto, Procs
<1>4. KeepsBears(iocp', iocp)
  BY <1>2 DEF KeepsBears
<1>5. QED
  BY <1>2, <1>3, <1>4, MoveReads

LEMMA SendReads ==
  ASSUME RefsInv, OutInv, ReadInv, NEW s \in Senders, SendBegin(s) \/ SendPost(s)
  PROVE  ReadInv'
<1>1. s \in Procs /\ Shape /\ PacketShape
  BY DEF Procs, RefsInv, OutInv
<1>2. /\ UNCHANGED readQuiet /\ UNCHANGED <<queued, link>>
      /\ \E l : l \notin ReadMarked /\ Goto(s, l)
  BY DEF SendBegin, SendPost, readQuiet, connVars, readVars, ioVars, ReadMarked
<1>3. \/ \E o : cur' = [cur EXCEPT ![s].order = o]
      \/ \E k : cur' = [cur EXCEPT ![s] = k]
  BY DEF SendBegin, SendPost
<1>4. OthersStill(s) /\ pc'[s] \notin ReadMarked
  BY <1>1, <1>2, <1>3 DEF OthersStill, Shape, PacketShape, Goto, Procs
<1>5. KeepsBears(iocp', iocp)
  <2>1. CASE SendBegin(s)
    BY <2>1 DEF SendBegin, ioVars, KeepsBears
  <2>2. CASE SendPost(s)
    <3>1. ~Bears(Packet("WriteRequest", cur[s].order, 0, "ok"))
      BY DEF Bears, Packet
    <3>2. iocp' = Append(iocp, Packet("WriteRequest", cur[s].order, 0, "ok"))
      BY <2>2 DEF SendPost
    <3>3. QED
      BY <1>1, <3>1, <3>2, KeptAppend DEF Shape
  <2>3. QED
    BY <2>1, <2>2
<1>6. QED
  BY <1>2, <1>4, <1>5, MoveReads

\* A worker drops its packet and may go on with a read that completed at once.
LEMMA ReleaseReads ==
  ASSUME RefsInv, OutInv, ReadInv, NEW w \in Workers, ReleaseConn(w)
  PROVE  ReadInv'
<1>1. w \in Procs /\ Shape /\ PacketShape /\ IsSeq(queued[w])
  BY DEF Procs, RefsInv, OutInv, Shape, QueueShape, ReadQueue
<1>2. /\ pc[w] = "release" /\ UNCHANGED iocp /\ (link' = "up" => link = "up")
      /\ UNCHANGED <<nNextReadOrder, nNextReadOrderToProcess, readPackets, received, kreads, arrived,
                     consumed, peer>>
  BY LinkGoesDown DEF ReleaseConn, readVars, ioVars
<1>3. CASE queued[w] = <<>>
  <2>1. Goto(w, "idle") /\ cur' = [cur EXCEPT ![w] = NoPacket] /\ UNCHANGED queued
    BY <1>3 DEF ReleaseConn
  <2>2. KeepsBears(iocp', iocp) /\ UNCHANGED readQuiet /\ "idle" \notin ReadMarked
    BY <1>2 DEF KeepsBears, readQuiet, ReadMarked
  <2>3. QED
    BY <1>1, <1>2, <2>1, <2>2, PlainReads
<1>4. CASE queued[w] # <<>>
  <2> DEFINE x == Head(queued[w])
  <2>1. Goto(w, "start") /\ cur' = [cur EXCEPT ![w] = x] /\ Dequeues(w)
    BY <1>4 DEF ReleaseConn, Dequeues
  <2>2. OthersStill(w)
    BY <1>1, <2>1, StillOthers
  <2>3. pc'[w] = "start" /\ cur'[w] = x
    BY <1>1, <2>1 DEF Shape, PacketShape, Goto
  <2>4. queued'[w] = Tail(queued[w]) /\ \A v \in Workers : v # w => queued'[v] = queued[v]
    <3>1. queued = [p \in Procs |-> queued[p]] /\ Workers \subseteq Procs
      BY <1>1 DEF Shape, QueueShape, Procs
    <3>2. QED
      BY <1>1, <2>1, <3>1 DEF Dequeues
  <2>5. Inserted(queued[w], queued'[w], x)
    BY <1>1, <1>4, <2>4, TailInserts
  <2> HIDE DEF x
  <2>6. CASE ~Bears(x)
    <3>1. ~InHand(w)'
      BY <2>3, <2>6 DEF InHand
    <3>2. \A v \in Workers : HandStays(v)
      BY <2>2, <3>1, HandsStay
    <3>3. UNCHANGED readQuiet /\ KeepsBears(iocp', iocp) /\ \A v \in Workers : KeepsBears(queued'[v], queued[v])
      BY <1>2, <2>4, <2>5 DEF readQuiet, KeepsBears
    <3>4. QED
      BY <1>2, <3>2, <3>3, ReadsQuiet
  <2>7. CASE Bears(x)
    <3>1. ReadNumbers /\ ReadFits /\ ReadOnce /\ ReadDistinct /\ ReadTurn /\ ReadFeed
      BY DEF ReadInv, ReadPlaces
    <3>2. /\ Borne(queued'[w]) \subseteq Borne(queued[w]) \ {Tok(x)} /\ Tok(x) \in Borne(queued[w])
          /\ BearDistinct(queued'[w])
      BY <2>5, <2>7, <3>1, BorneOut DEF ReadDistinct
    <3>3. HandToks(w)' \subseteq HandToks(w) \union {Tok(x)}
      BY <2>3 DEF HandToks
    <3>4. \A v \in Workers : v # w => HandToks(v)' = HandToks(v)
      BY <2>2 DEF OthersStill, HandToks, InHand
    <3>5. ReadFits' /\ ReadOnce'
      <4>1. ASSUME NEW k \in PlaceKinds, NEW u \in Workers
            PROVE  SamePlace(k, u, "queue", w) \/ SamePlace(k, u, "hand", w) \/ Toks(k, u)' \subseteq Toks(k, u)
        <5>1. CASE k \in {"hand", "queue"} /\ u = w
          BY <5>1 DEF SamePlace
        <5>2. CASE k = "hand" /\ u # w
          BY <3>4, <5>2, PlaceToks
        <5>3. CASE k = "queue" /\ u # w
          BY <2>4, <5>3, PlaceToks
        <5>4. CASE k \in {"port", "store"}
          BY <1>2, <5>4, PlaceToks
        <5>5. QED
          BY <5>1, <5>2, <5>3, <5>4 DEF PlaceKinds
      <4>2. /\ Tok(x) \in Toks("queue", w) /\ Toks("queue", w)' \subseteq Toks("queue", w) \ {Tok(x)}
            /\ Toks("hand", w)' \subseteq Toks("hand", w) \union {Tok(x)}
        BY <3>2, <3>3, PlaceToks
      <4>3. /\ "queue" \in PlaceKinds /\ "hand" \in PlaceKinds
            /\ UNCHANGED <<nNextReadOrderToProcess, consumed>>
            /\ consumed \in Nat /\ nNextReadOrderToProcess \in Nat
        BY <1>2, <3>1 DEF PlaceKinds, ReadNumbers
      <4>4. QED
        BY <3>1, <4>1, <4>2, <4>3, TokenGoes
    <3>6. ReadDistinct'
      <4>1. \A v \in Workers : BearDistinct(queued'[v])
        BY <2>4, <3>1, <3>2 DEF ReadDistinct
      <4>2. QED
        BY <1>2, <3>1, <4>1 DEF ReadDistinct, BearDistinct, Bearing, Distinct
    <3>7. ReadTurn'
      BY <1>2, <2>2, <2>3, <3>1 DEF ReadTurn, OthersStill
    <3>8. ReadNumbers'
      BY <1>2, <3>1 DEF ReadNumbers, ReceivedInOrder
    <3>9. ReadFeed'
      BY <1>2, <3>1, FeedStays
    <3>10. QED
      BY <3>5, <3>6, <3>7, <3>8, <3>9 DEF ReadInv, ReadPlaces
  <2>8. QED
    BY <2>6, <2>7
<1>5. QED
  BY <1>3, <1>4

\* A step of no thread: only the port or the peer changes.
LEMMA OutsideReads ==
  ASSUME RefsInv, OutInv, ReadInv,
         (\E f \in Pausable : Pause(f) \/ Resume(f)) \/ WriteCompletes \/ UNCHANGED vars
  PROVE  ReadInv'
<1>1. UNCHANGED readQuiet /\ UNCHANGED <<pc, cur, queued, link>>
  <2> USE DEF readQuiet, readVars, ioVars, procVars, connVars
  <2>1. CASE \E f \in Pausable : Pause(f) \/ Resume(f)
    BY <2>1 DEF Pause, Resume
  <2>2. CASE WriteCompletes
    BY <2>2 DEF WriteCompletes
  <2>3. CASE UNCHANGED vars
    BY <2>3 DEF vars
  <2>4. QED
    BY <2>1, <2>2, <2>3
<1>2. UNCHANGED iocp \/ \E k : ~Bears(k) /\ iocp' = Append(iocp, k)
  <2>1. \A t, o, c : t # "Read" => ~Bears(Packet(t, o, 0, c))
    BY DEF Bears, Packet
  <2>2. CASE \E f \in Pausable : Pause(f) \/ Resume(f)
    <3>1. UNCHANGED iocp \/ \E o : iocp' = Append(iocp, Packet("Resume", o, 0, "ok"))
      BY <2>2 DEF Pause, Resume, ioVars
    <3>2. QED
      BY <2>1, <3>1
  <2>3. CASE WriteCompletes
    <3>1. \E o, c : iocp' = Append(iocp, Packet("Write", o, 0, c))
      BY <2>3 DEF WriteCompletes
    <3>2. QED
      BY <2>1, <3>1
  <2>4. CASE UNCHANGED vars
    BY <2>4 DEF vars, ioVars
  <2>5. QED
    BY <2>2, <2>3, <2>4
<1>3. KeepsBears(iocp', iocp) /\ \A v \in Workers : KeepsBears(queued'[v], queued[v])
  <2>1. IsSeq(iocp)
    BY DEF RefsInv, Shape
  <2>2. QED
    BY <1>1, <1>2, <2>1, KeptAppend, KeptSame
<1>4. \A v \in Workers : HandStays(v)
  BY <1>1 DEF HandStays, InHand
<1>5. QED
  BY <1>1, <1>3, <1>4, ReadsQuiet

LEMMA PeerReads ==
  ASSUME RefsInv, OutInv, ReadInv, PeerSends \/ PeerCloses
  PROVE  ReadInv'
<1>1. /\ UNCHANGED <<nNextReadOrderToProcess, readPackets>> /\ UNCHANGED <<nNextReadOrderToProcess, received>>
      /\ UNCHANGED <<kreads, nNextReadOrder, consumed>> /\ UNCHANGED <<pc, cur, queued, iocp, link>>
      /\ peer = "open" /\ (arrived' = arrived \/ (arrived' = arrived + 1))
  BY DEF PeerSends, PeerCloses, connVars, readVars, procVars
<1>2. ReadNumbers /\ ReadPlaces /\ ReadFeed
  BY DEF ReadInv
<1>3. /\ consumed' \in Nat /\ consumed' >= consumed /\ arrived' \in Nat /\ consumed' <= arrived'
      /\ IsSeq(readPackets')
  BY <1>1, <1>2 DEF ReadNumbers
<1>4. /\ \A v \in Workers : HandStays(v) /\ KeepsBears(queued'[v], queued[v])
      /\ KeepsBears(iocp', iocp)
  BY <1>1 DEF HandStays, InHand, KeepsBears
<1>5. Flowing' => Flowing
  BY <1>1 DEF Flowing, PeerAlive
<1>6. ReadPlaces'
  BY <1>1, <1>2, <1>3, <1>4, PlacesQuiet
<1>7. ReadNumbers'
  BY <1>1, <1>2, <1>3, NumbersQuiet
<1>8. ReadFeed'
  BY <1>1, <1>2, <1>5, FeedQuiet
<1>9. QED
  BY <1>6, <1>7, <1>8 DEF ReadInv

LEMMA HandleReads ==
  ASSUME RefsInv, OutInv, ReadInv, NEW w \in Workers, Handle(w)
  PROVE  ReadInv'
<1>1. w \in Procs
  BY DEF Procs
<1>2. CASE Start(w) \/ ReleaseConn(w)
  BY <1>2, StartReads, ReleaseReads
<1>3. CASE CloseStep(w) \/ DecClosed(w)
  BY <1>3, CloseReads
<1>4. CASE \/ InCheck(w) \/ InTake(w) \/ InWrite(w) \/ ReadNext(w) \/ ReadIssue(w)
           \/ ReadAgain(w) \/ ReadDone(w) \/ ResumeLoop(w)
  BY <1>4, InputReads, InTakeReads, InWriteReads, ReadIssueReads
<1>5. CASE \/ OutEnter(w) \/ OutLoop(w) \/ OutTake(w) \/ OutData(w) \/ OutSignal(w) \/ OutRequeue(w)
           \/ OutRecheck(w) \/ OutStream(w) \/ OutDrop(w) \/ OutNext(w) \/ OutExit(w) \/ WriteDone(w)
  BY <1>5, OutputReads, OutTakeReads
<1>6. CASE \/ Post(w) \/ PostEnding(w) \/ FireEnter(w) \/ FireExit(w) \/ EndingWait(w)
           \/ EndingNotify(w) \/ EndPacket(w)
  BY <1>6, PostReads
<1>7. QED
  BY <1>2, <1>3, <1>4, <1>5, <1>6 DEF Handle

LEMMA ReadStep ==
  ASSUME RefsInv, OutInv, ReadInv, [Next]_vars
  PROVE  ReadInv'
<1>1. CASE \E w \in Workers : Worker(w)
  BY <1>1, DispatchReads, HandleReads DEF Worker
<1>2. CASE \E s \in Senders : SendBegin(s) \/ SendPost(s)
  BY <1>2, SendReads
<1>3. CASE AppClose \/ AppStep
  <2>1. App \in Procs
    BY DEF Procs
  <2>2. QED
    BY <1>3, <2>1, CloseReads DEF AppStep
<1>4. CASE ReadCompletes \/ PeerSends \/ PeerCloses
  BY <1>4, ReadCompletesReads, PeerReads
<1>5. CASE (\E f \in Pausable : Pause(f) \/ Resume(f)) \/ WriteCompletes \/ UNCHANGED vars
  BY <1>5, OutsideReads
<1>6. QED
  BY <1>1, <1>2, <1>3, <1>4, <1>5 DEF Next

LEMMA ReadInit == Init => ReadInv
<1> SUFFICES ASSUME Init PROVE ReadInv
  OBVIOUS
<1>1. /\ iocp = <<Packet("InitialSetup", 0, 0, "ok")>> /\ kreads = <<>> /\ readPackets = <<>>
      /\ nNextReadOrder = 0 /\ nNextReadOrderToProcess = 1 /\ received = <<>>
      /\ arrived = 0 /\ consumed = 0
      /\ \A p \in Procs : pc[p] = "idle" /\ queued[p] = <<>>
      /\ Workers \subseteq Procs
  BY DEF Init, Procs
<1>2. DOMAIN iocp = {1} /\ iocp[1].type = "InitialSetup"
  BY <1>1 DEF Packet
<1>3. Bearing(iocp) = {}
  BY <1>2 DEF Bearing, Bears
<1>4. \A w \in Workers : HandToks(w) = {} /\ Bearing(queued[w]) = {}
  BY <1>1 DEF HandToks, InHand, Bearing
<1>5. Stored(readPackets) = {} /\ DOMAIN readPackets = {} /\ DOMAIN received = {}
  BY <1>1 DEF Stored
<1>6. \A k \in PlaceKinds, w \in Workers : Toks(k, w) = {}
  BY <1>3, <1>4, <1>5 DEF Toks, Borne
<1>7. ReadNumbers
  BY <1>1, <1>5, EmptyIsSeq DEF ReadNumbers, ReceivedInOrder
<1>8. ReadFits /\ ReadOnce
  BY <1>6 DEF ReadFits, ReadOnce
<1>9. ReadDistinct
  BY <1>3, <1>4, <1>5 DEF ReadDistinct, BearDistinct, Distinct
<1>10. ReadTurn
  BY <1>1 DEF ReadTurn
<1>11. ReadFeed
  <2>1. Reads = {}
    BY <1>1 DEF Reads, OfType
  <2>2. (consumed + 1)..nNextReadOrder = {}
    BY <1>1
  <2>3. QED
    BY <1>1, <2>1, <2>2 DEF ReadFeed
<1>12. QED
  BY <1>7, <1>8, <1>9, <1>10, <1>11 DEF ReadInv, ReadPlaces

\* Every completed read that brought data is in one place, at an order that is
\* still to come, and brings the data of that order.
THEOREM ReadInvariant == Spec => []ReadInv
<1>1. RefsInv /\ OutInv /\ ReadInv /\ [Next]_vars => ReadInv'
  BY ReadStep
<1>2. QED
  BY <1>1, ReadInit, RefsInvariant, OutstandingInvariant, PTL DEF Spec

\* However the completions of the reads ahead are spread over the workers, the
\* buffer receives the data in the order the peer sent it, without a gap
\* (HandleIncomingPackets: a packet ahead of its turn waits in sReadPackets).
THEOREM DataIsReceivedInOrder == Spec => []ReceivedInOrder
<1>1. ReadInv => ReceivedInOrder
  BY DEF ReadInv, ReadNumbers
<1>2. QED
  BY <1>1, ReadInvariant, PTL

-----------------------------------------------------------------------------
(* The types.  What the counters count and where the orders stand makes    *)
(* them natural numbers; the rest is in these three parts.                 *)

FlagBits == {"Connected", "Closed", "Graceful", "NewData", "InPaused", "OutPaused", "ShutdownProcessed"}

StateTyped ==
  /\ flags \subseteq FlagBits
  /\ hrErrorCode \in Codes /\ link \in {"up", "closed", "aborted"}
  /\ delivered \in Nat
  /\ peer \in {"open"} \union PeerEnds
  /\ csOwner \in Workers \union {App}

HasCodes(s) == \A i \in DOMAIN s : s[i].hr \in Codes
CodesTyped ==
  /\ \A p \in Procs : cur[p].hr \in Codes
  /\ HasCodes(iocp)
  /\ \A w \in Workers : HasCodes(queued[w])

ThreadsTyped ==
  /\ hr = [p \in Procs |-> hr[p]] /\ todo = [p \in Procs |-> todo[p]]
  /\ \A p \in Procs : pc[p] \in Labels /\ hr[p] \in Codes /\ todo[p] \in 0..ReadAhead
                      /\ closing[p].hr \in Codes
  /\ \A p \in Procs : pc[p] = "rd_io" => todo[p] # 0

TypeInv == CodesTyped /\ ThreadsTyped

-----------------------------------------------------------------------------
LEMMA CodesAppend ==
  ASSUME NEW s, IsSeq(s), HasCodes(s), NEW k, k.hr \in Codes
  PROVE  HasCodes(Append(s, k))
BY AppendGrows DEF HasCodes

LEMMA CodesTail ==
  ASSUME NEW s, IsSeq(s), HasCodes(s), s # <<>>
  PROVE  HasCodes(Tail(s)) /\ Head(s).hr \in Codes
<1>1. /\ Len(s) \in Nat \ {0} /\ DOMAIN s = 1..Len(s) /\ DOMAIN Tail(s) = 1..(Len(s) - 1)
      /\ \A i \in 1..(Len(s) - 1) : Tail(s)[i] = s[i + 1]
      /\ Head(s) = s[1]
  BY TailShrinks
<1>2. Head(s).hr \in Codes
  BY <1>1 DEF HasCodes
<1>3. \A i \in 1..(Len(s) - 1) : s[i + 1].hr \in Codes
  BY <1>1 DEF HasCodes
<1>4. QED
  BY <1>1, <1>2, <1>3 DEF HasCodes

LEMMA CodesOk == /\ {"ok", "err", "net"} \subseteq Codes
                 /\ CallbackResults \subseteq Codes /\ CloseCodes \subseteq Codes
BY ConstantsOK DEF Codes, ConstantsOK

\* The codes that packets carry.
LEMMA CodesStep ==
  ASSUME RefsInv, OutInv, TypeInv, [Next]_vars
  PROVE  CodesTyped'
<1>1. /\ Shape /\ PacketShape /\ CodesTyped
      /\ cur = [p \in Procs |-> cur[p]] /\ IsSeq(iocp)
      /\ queued = [p \in Procs |-> queued[p]] /\ Workers \subseteq Procs /\ Senders \subseteq Procs
      /\ \A w \in Workers : IsSeq(queued[w])
      /\ \A p \in Procs : IsPacket(cur[p])
  BY DEF RefsInv, OutInv, TypeInv, Shape, PacketShape, QueueShape, ReadQueue, Procs
<1>2. /\ \A p \in Procs : cur[p].hr \in Codes
      /\ HasCodes(iocp)
      /\ \A w \in Workers : HasCodes(queued[w])
  BY <1>1 DEF CodesTyped
<1>3. /\ UNCHANGED cur => \A p \in Procs : cur'[p].hr \in Codes
      /\ UNCHANGED iocp => HasCodes(iocp')
      /\ UNCHANGED queued => \A w \in Workers : HasCodes(queued'[w])
  BY <1>2
<1>4. \A t, o, d, c : Packet(t, o, d, c).hr = c
  BY DEF Packet
<1>5. ASSUME NEW p \in Procs, NEW x, x.hr \in Codes, cur' = [cur EXCEPT ![p] = x]
      PROVE  \A q \in Procs : cur'[q].hr \in Codes
  BY <1>1, <1>2, <1>5
<1>6. ASSUME NEW x, x.hr \in Codes, iocp' = Append(iocp, x)
      PROVE  HasCodes(iocp')
  BY <1>1, <1>2, <1>6, CodesAppend
<1>7. ASSUME NEW w \in Workers, Dispatch(w)
      PROVE  CodesTyped'
  <2>1. iocp # <<>> /\ iocp' = Tail(iocp) /\ cur' = [cur EXCEPT ![w] = Head(iocp)] /\ UNCHANGED queued
    BY <1>7 DEF Dispatch
  <2>2. HasCodes(iocp') /\ Head(iocp).hr \in Codes
    BY <1>1, <1>2, <2>1, CodesTail
  <2>3. \A q \in Procs : cur'[q].hr \in Codes
    BY <1>1, <1>5, <2>1, <2>2
  <2>4. QED
    BY <1>3, <2>1, <2>2, <2>3 DEF CodesTyped, HasCodes
<1>8. ASSUME NEW w \in Workers, ReleaseConn(w)
      PROVE  CodesTyped'
  <2>1. UNCHANGED iocp
    BY <1>8 DEF ReleaseConn, ioVars
  <2>2. CASE queued[w] = <<>>
    <3>1. cur' = [cur EXCEPT ![w] = NoPacket] /\ UNCHANGED queued /\ NoPacket.hr \in Codes
      BY <1>8, <2>2, CodesOk DEF ReleaseConn, NoPacket
    <3>2. \A q \in Procs : cur'[q].hr \in Codes
      BY <1>1, <1>5, <3>1
    <3>3. QED
      BY <1>3, <2>1, <3>1, <3>2 DEF CodesTyped, HasCodes
  <2>3. CASE queued[w] # <<>>
    <3>1. cur' = [cur EXCEPT ![w] = Head(queued[w])] /\ queued' = [queued EXCEPT ![w] = Tail(@)]
      BY <1>8, <2>3 DEF ReleaseConn
    <3>2. HasCodes(Tail(queued[w])) /\ Head(queued[w]).hr \in Codes
      BY <1>1, <1>2, <2>3, CodesTail
    <3>3. \A q \in Procs : cur'[q].hr \in Codes
      BY <1>1, <1>5, <3>1, <3>2
    <3>4. \A v \in Workers : HasCodes(queued'[v])
      BY <1>1, <1>2, <3>1, <3>2
    <3>5. QED
      BY <1>3, <2>1, <3>3, <3>4 DEF CodesTyped, HasCodes
  <2>4. QED
    BY <2>2, <2>3
<1>9. ASSUME NEW w \in Workers, ReadIssue(w)
      PROVE  CodesTyped'
  <2>1. UNCHANGED <<cur, iocp>> /\ (UNCHANGED queued \/ \E t, o : Enqueues(w, ReadResult(t, o)))
    BY <1>9 DEF ReadIssue, Enqueues
  <2>2. ASSUME NEW t, NEW o, Enqueues(w, ReadResult(t, o))
        PROVE  \A v \in Workers : HasCodes(queued'[v])
    <3>1. ReadResult(t, o).hr \in Codes
      BY <1>4, CodesOk DEF ReadResult
    <3>2. HasCodes(Append(queued[w], ReadResult(t, o)))
      BY <1>1, <1>2, <3>1, CodesAppend
    <3>3. QED
      BY <1>1, <1>2, <2>2, <3>2 DEF Enqueues
  <2>3. QED
    BY <1>3, <2>1, <2>2 DEF CodesTyped, HasCodes
<1>10. ASSUME NEW p \in Procs, NEW o, UNCHANGED <<iocp, queued>>,
             \/ cur' = [cur EXCEPT ![p].order = o]
             \/ \E d : cur' = [cur EXCEPT ![p].order = o, ![p].data = d]
      PROVE  CodesTyped'
  <2>1. /\ \A q \in Procs : q # p => cur'[q] = cur[q]
        /\ cur'[p] = [cur[p] EXCEPT !.order = o] \/ \E d : cur'[p] = [cur[p] EXCEPT !.order = o, !.data = d]
    BY <1>1, <1>10
  <2>2. cur'[p].hr = cur[p].hr
    BY <1>1, <2>1 DEF IsPacket
  <2>3. \A q \in Procs : cur'[q].hr \in Codes
    BY <1>2, <2>1, <2>2
  <2>4. QED
    BY <1>3, <1>10, <2>3 DEF CodesTyped, HasCodes
<1>11. CASE \E s \in Senders : SendPost(s)
  <2>1. PICK s \in Senders : SendPost(s)
    BY <1>11
  <2>2. /\ iocp' = Append(iocp, Packet("WriteRequest", cur[s].order, 0, "ok"))
        /\ cur' = [cur EXCEPT ![s] = NoPacket] /\ UNCHANGED queued
    BY <2>1 DEF SendPost
  <2>3. NoPacket.hr \in Codes
    BY CodesOk DEF NoPacket
  <2>4. HasCodes(iocp') /\ \A q \in Procs : cur'[q].hr \in Codes
    BY <1>1, <1>4, <1>5, <1>6, <2>2, <2>3, CodesOk
  <2>5. QED
    BY <1>3, <2>2, <2>4 DEF CodesTyped, HasCodes
<1>12. CASE ReadCompletes \/ WriteCompletes \/ \E f \in Pausable : Resume(f)
  <2>1. UNCHANGED <<cur, queued>> /\ \E t, o, d : \E c \in Codes : iocp' = Append(iocp, Packet(t, o, d, c))
    <3>1. CASE ReadCompletes
      BY <3>1, CodesOk DEF ReadCompletes, ReadResult, procVars
    <3>2. CASE WriteCompletes
      BY <3>2, CodesOk DEF WriteCompletes, procVars
    <3>3. CASE \E f \in Pausable : Resume(f)
      BY <3>3, CodesOk DEF Resume, procVars
    <3>4. QED
      BY <1>12, <3>1, <3>2, <3>3
  <2>2. HasCodes(iocp')
    BY <1>4, <1>6, <2>1
  <2>3. QED
    BY <1>3, <2>1, <2>2 DEF CodesTyped, HasCodes
<1>13. CASE UNCHANGED <<cur, iocp, queued>>
  BY <1>3, <1>13 DEF CodesTyped, HasCodes
<1>14. ASSUME NEW w \in Workers, InTake(w) \/ OutTake(w)
       PROVE  CodesTyped'
  <2>1. /\ UNCHANGED <<iocp, queued>>
        /\ \/ UNCHANGED cur
           \/ \E o : cur' = [cur EXCEPT ![w].order = o]
           \/ \E o, d : cur' = [cur EXCEPT ![w].order = o, ![w].data = d]
    BY <1>14 DEF InTake, OutTake, ioVars
  <2>2. QED
    BY <1>1, <1>10, <1>13, <2>1
<1>15. CASE \E s \in Senders : SendBegin(s)
  <2>1. PICK s \in Senders : SendBegin(s)
    BY <1>15
  <2>2. UNCHANGED <<iocp, queued>> /\ \E o : cur' = [cur EXCEPT ![s].order = o]
    BY <2>1 DEF SendBegin, ioVars
  <2>3. QED
    BY <1>1, <1>10, <2>2
<1>16. ASSUME NEW p, \/ CloseStep(p) \/ DecClosed(p) \/ AppClose \/ AppRelease
                     \/ \E f \in Pausable : Pause(f)
                     \/ PeerSends \/ PeerCloses \/ UNCHANGED vars
       PROVE  UNCHANGED <<cur, iocp, queued>>
  BY <1>16 DEF CloseStep, CloseMark, CloseCode, CloseTest, ShutCode, ShutLink, CloseRelease, DecClosed,
               AppClose, AppRelease, Pause, PeerSends, PeerCloses, vars, ioVars, procVars
<1>17. ASSUME NEW w \in Workers, Handle(w)
       PROVE  CodesTyped'
  <2>1. CASE Start(w)
    BY <1>13, <2>1 DEF Start, ioVars
  <2>2. CASE InCheck(w) \/ InWrite(w) \/ ReadNext(w) \/ ReadAgain(w) \/ ReadDone(w) \/ ResumeLoop(w)
    BY <1>13, <2>2 DEF InCheck, InWrite, ReadNext, ReadAgain, ReadDone, ResumeLoop, ioVars
  <2>3. CASE \/ OutEnter(w) \/ OutLoop(w) \/ OutData(w) \/ OutSignal(w) \/ OutRequeue(w)
             \/ OutRecheck(w) \/ OutStream(w) \/ OutDrop(w) \/ OutNext(w) \/ OutExit(w) \/ WriteDone(w)
    BY <1>13, <2>3
       DEF OutEnter, OutLoop, OutData, OutSignal, OutRequeue, OutRecheck, OutStream, OutDrop,
                       OutNext, OutExit, WriteDone, ioVars
  <2>4. CASE \/ Post(w) \/ PostEnding(w) \/ FireEnter(w) \/ FireExit(w) \/ EndingWait(w)
             \/ EndingNotify(w) \/ EndPacket(w)
    BY <1>13, <2>4
       DEF Post, PostEnding, FireEnter, FireExit, EndingWait, EndingNotify, EndPacket, ioVars
  <2>5. CASE InTake(w) \/ OutTake(w) \/ ReadIssue(w) \/ ReleaseConn(w)
    BY <1>8, <1>9, <1>14, <2>5
  <2>6. CASE CloseStep(w) \/ DecClosed(w)
    BY <1>13, <1>16, <2>6
  <2>7. QED
    BY <1>17, <2>1, <2>2, <2>3, <2>4, <2>5, <2>6 DEF Handle
<1>18. CASE \E w \in Workers : Worker(w)
  BY <1>7, <1>17, <1>18 DEF Worker
<1>19. CASE AppClose \/ AppStep \/ PeerSends \/ PeerCloses \/ UNCHANGED vars \/ \E f \in Pausable : Pause(f)
  BY <1>13, <1>16, <1>19 DEF AppStep
<1>20. QED
  BY <1>11, <1>12, <1>15, <1>18, <1>19 DEF Next

-----------------------------------------------------------------------------
(* The threads.                                                            *)

Chose(v, p, S) == UNCHANGED v \/ \E c \in S : v' = [v EXCEPT ![p] = c]
HasCode(p)     == UNCHANGED closing \/ \E c : c.hr \in Codes /\ closing' = [closing EXCEPT ![p] = c]

\* The thread p goes on at a label, with a result and a number of reads to issue.
Turns(p) ==
  /\ \E l \in Labels : Goto(p, l) /\ (l = "rd_io" => todo[p] # 0 /\ UNCHANGED todo)
  /\ Chose(hr, p, Codes) /\ Chose(todo, p, 0..ReadAhead) /\ HasCode(p)

LEMMA TurnsTyped ==
  ASSUME Shape, ThreadsTyped, NEW p \in Procs, Turns(p)
  PROVE  ThreadsTyped'
<1>1. /\ pc = [q \in Procs |-> pc[q]] /\ closing = [q \in Procs |-> closing[q]]
      /\ hr = [q \in Procs |-> hr[q]] /\ todo = [q \in Procs |-> todo[q]]
  BY DEF Shape, ThreadsTyped
<1>2. \A q \in Procs : pc[q] \in Labels /\ hr[q] \in Codes /\ todo[q] \in 0..ReadAhead
                       /\ closing[q].hr \in Codes /\ (pc[q] = "rd_io" => todo[q] # 0)
  BY DEF ThreadsTyped
<1>3. PICK l \in Labels : Goto(p, l) /\ (l = "rd_io" => todo[p] # 0 /\ UNCHANGED todo)
  BY DEF Turns
<1>4. pc'[p] = l /\ \A q \in Procs : q # p => pc'[q] = pc[q]
  BY <1>1, <1>3 DEF Goto
<1>5. hr' = [q \in Procs |-> hr'[q]] /\ \A q \in Procs : hr'[q] \in Codes
  BY <1>1, <1>2 DEF Turns, Chose
<1>6. /\ todo' = [q \in Procs |-> todo'[q]]
      /\ \A q \in Procs : todo'[q] \in 0..ReadAhead /\ (q # p => todo'[q] = todo[q])
  BY <1>1, <1>2 DEF Turns, Chose
<1>7. \A q \in Procs : closing'[q].hr \in Codes
  BY <1>1, <1>2 DEF Turns, HasCode
<1>8. \A q \in Procs : pc'[q] \in Labels
  BY <1>2, <1>3, <1>4
<1>9. \A q \in Procs : pc'[q] = "rd_io" => todo'[q] # 0
  <2> SUFFICES ASSUME NEW q \in Procs, pc'[q] = "rd_io" PROVE todo'[q] # 0
    OBVIOUS
  <2>1. CASE q = p
    BY <1>3, <1>4, <2>1
  <2>2. CASE q # p
    BY <1>2, <1>4, <1>6, <2>2
  <2>3. QED
    BY <2>1, <2>2
<1>10. QED
  BY <1>5, <1>6, <1>7, <1>8, <1>9 DEF ThreadsTyped

\* Only the place in the program changes.
Passing(p) ==
  /\ \E l \in Labels \ {"rd_io"} : Goto(p, l)
  /\ UNCHANGED <<hr, todo, closing>>

LEMMA PassingTurns == \A p : Passing(p) => Turns(p)
BY DEF Passing, Turns, Chose, HasCode

LEMMA InputTurns ==
  ASSUME RefsInv, OutInv, TypeInv, NEW w \in Workers,
         \/ InCheck(w) \/ InTake(w) \/ InWrite(w) \/ ReadNext(w) \/ ReadIssue(w) \/ ReadAgain(w)
         \/ ReadDone(w) \/ ResumeLoop(w)
  PROVE  Turns(w)
<1>1. AfterReads(w) \in Labels \ {"rd_io"}
  BY DEF AfterReads, Labels
<1>2. /\ w \in Procs /\ ReadAhead \in 1..16 /\ {0, 1, ReadAhead} \subseteq 0..ReadAhead
      /\ {"ok", "err", "net"} \subseteq Codes
  BY ConstantsOK, CodesOk DEF ConstantsOK, Procs
<1>3. CASE InCheck(w) \/ InTake(w) \/ InWrite(w) \/ ReadDone(w)
  <2>1. Passing(w)
    BY <1>3 DEF InCheck, InTake, InWrite, ReadDone, Passing, Labels
  <2>2. QED
    BY <2>1, PassingTurns
<1>4. CASE ReadNext(w)
  <2>1. CASE todo[w] = 0 \/ Closed
    <3>1. /\ Goto(w, AfterReads(w)) /\ todo' = [todo EXCEPT ![w] = 0] /\ UNCHANGED closing
          /\ UNCHANGED hr \/ hr' = [hr EXCEPT ![w] = "err"]
      BY <1>4, <2>1 DEF ReadNext
    <3>2. QED
      BY <1>1, <1>2, <3>1 DEF Turns, Chose, HasCode
  <2>2. CASE ~(todo[w] = 0 \/ Closed)
    BY <1>4, <2>2 DEF ReadNext, Turns, Chose, HasCode, Labels
  <2>3. QED
    BY <2>1, <2>2
<1>5. CASE ReadIssue(w)
  <2>1. todo[w] \in 0..ReadAhead /\ todo[w] # 0
    BY <1>2, <1>5 DEF TypeInv, ThreadsTyped, ReadIssue
  <2>2. todo[w] - 1 \in 0..ReadAhead
    BY <1>2, <2>1
  <2>3. \E l \in {AfterReads(w), "rd"} : Goto(w, l)
    BY <1>5 DEF ReadIssue
  <2>4. /\ \E l \in Labels : Goto(w, l) /\ (l = "rd_io" => todo[w] # 0 /\ UNCHANGED todo)
        /\ UNCHANGED closing
    BY <1>1, <1>5, <2>3 DEF Labels, ReadIssue
  <2>5. UNCHANGED hr \/ hr' = [hr EXCEPT ![w] = "err"]
    BY <1>5 DEF ReadIssue
  <2>6. todo' = [todo EXCEPT ![w] = 0] \/ todo' = [todo EXCEPT ![w] = @ - 1]
    BY <1>5 DEF ReadIssue
  <2>7. Chose(todo, w, 0..ReadAhead)
    BY <1>2, <2>2, <2>6 DEF Chose
  <2>8. QED
    BY <1>2, <2>4, <2>5, <2>7 DEF Turns, Chose, HasCode
<1>6. CASE ReadAgain(w) \/ ResumeLoop(w)
  <2>1. UNCHANGED <<hr, closing>> /\ \E l \in Labels \ {"rd_io"} : Goto(w, l)
    BY <1>6 DEF ReadAgain, ResumeLoop, Labels
  <2>2. UNCHANGED todo \/ todo' = [todo EXCEPT ![w] = 1] \/ todo' = [todo EXCEPT ![w] = ReadAhead]
    BY <1>6 DEF ReadAgain, ResumeLoop
  <2>3. QED
    BY <1>2, <2>1, <2>2 DEF Turns, Chose, HasCode
<1>7. QED
  BY <1>3, <1>4, <1>5, <1>6

LEMMA NewCallCode == \A h, l : /\ [NoClose EXCEPT !.hr = h, !.ret = l].hr = h
                               /\ [NoClose EXCEPT !.ret = l].hr = "ok"
BY DEF NoClose

LEMMA DecrementTurns ==
  ASSUME NEW w, NEW l \in Labels \ {"rd_io"}, DecrementOutgoingWrites(w, l), UNCHANGED <<hr, todo>>
  PROVE  Turns(w)
<1>1. "dec_zero" \in Labels
  BY DEF Labels, CloseLabels
<1>2. \E m \in Labels \ {"rd_io"} : Goto(w, m)
  BY <1>1, DecrementMoves
<1>3. HasCode(w)
  <2> DEFINE c == [NoClose EXCEPT !.ret = l]
  <2>1. c.hr \in Codes
    BY NewCallCode, CodesOk
  <2>2. UNCHANGED closing \/ closing' = [closing EXCEPT ![w] = c]
    BY DEF DecrementOutgoingWrites
  <2> HIDE DEF c
  <2>3. QED
    BY <2>1, <2>2 DEF HasCode
<1>4. QED
  BY <1>2, <1>3 DEF Turns, Chose

LEMMA OutputTurns ==
  ASSUME RefsInv, OutInv, TypeInv, NEW w \in Workers,
         \/ OutEnter(w) \/ OutLoop(w) \/ OutTake(w) \/ OutData(w) \/ OutSignal(w) \/ OutRequeue(w)
         \/ OutRecheck(w) \/ OutStream(w) \/ OutDrop(w) \/ OutNext(w) \/ OutExit(w) \/ WriteDone(w)
  PROVE  Turns(w)
<1>1. CASE \/ OutEnter(w) \/ OutLoop(w) \/ OutSignal(w) \/ OutRequeue(w) \/ OutRecheck(w)
  <2>1. Passing(w)
    BY <1>1 DEF OutEnter, OutLoop, OutSignal, OutRequeue, OutRecheck, Passing, Labels
  <2>2. QED
    BY <2>1, PassingTurns
<1>2. CASE OutTake(w)
  <2>1. Passing(w)
    BY <1>2 DEF OutTake, Passing, Labels
  <2>2. QED
    BY <2>1, PassingTurns
<1>3. CASE OutDrop(w) \/ OutNext(w) \/ OutExit(w) \/ WriteDone(w)
  <2>1. UNCHANGED <<hr, todo>> /\ \E l \in DecReturns : DecrementOutgoingWrites(w, l)
    BY <1>3 DEF OutDrop, OutNext, OutExit, WriteDone, DecReturns
  <2>2. DecReturns \subseteq Labels \ {"rd_io"}
    BY DEF DecReturns, Labels
  <2>3. QED
    BY <2>1, <2>2, DecrementTurns
<1>4. CASE OutData(w) \/ OutStream(w)
  <2>1. UNCHANGED <<todo, closing>> /\ \E l \in Labels \ {"rd_io"} : Goto(w, l)
    BY <1>4 DEF OutData, OutStream, Labels
  <2>2. UNCHANGED hr \/ hr' = [hr EXCEPT ![w] = "err"]
    BY <1>4 DEF OutData, OutStream, DoWrite
  <2>3. QED
    BY <2>1, <2>2, CodesOk DEF Turns, Chose, HasCode
<1>5. QED
  BY <1>1, <1>2, <1>3, <1>4

LEMMA CallHasCode ==
  ASSUME NEW p, NEW h \in Codes, NEW l, CallClose(p, h, l)
  PROVE  HasCode(p) /\ Goto(p, "close")
<1> DEFINE c == [NoClose EXCEPT !.hr = h, !.ret = l]
<1>1. c.hr = h
  BY NewCallCode
<1>2. closing' = [closing EXCEPT ![p] = c] /\ Goto(p, "close")
  BY DEF CallClose
<1>3. QED
  BY <1>1, <1>2 DEF HasCode

LEMMA PostTurns ==
  ASSUME RefsInv, OutInv, TypeInv, NEW w \in Workers,
         \/ Post(w) \/ PostEnding(w) \/ FireEnter(w) \/ FireExit(w) \/ EndingWait(w)
         \/ EndingNotify(w) \/ EndPacket(w)
  PROVE  Turns(w)
<1>1. \A h : Ending(h) \in Labels \ {"rd_io"}
  BY DEF Ending, Labels
<1>2. CASE Post(w) \/ FireEnter(w) \/ EndingWait(w) \/ EndingNotify(w)
  <2>1. Passing(w)
    BY <1>1, <1>2 DEF Post, FireEnter, EndingWait, EndingNotify, Passing, Labels
  <2>2. QED
    BY <2>1, PassingTurns
<1>3. CASE PostEnding(w)
  <2>1. CASE Goto(w, Ending(hr[w])) /\ UNCHANGED <<flags, closing>>
    <3>1. Passing(w)
      BY <1>1, <1>3, <2>1 DEF PostEnding, Passing
    <3>2. QED
      BY <3>1, PassingTurns
  <2>2. CASE CallClose(w, "ok", "sd_wait")
    <3>1. HasCode(w) /\ Goto(w, "close")
      BY <2>2, CallHasCode, CodesOk
    <3>2. UNCHANGED <<hr, todo>> /\ "close" \in Labels
      BY <1>3 DEF PostEnding, Labels, CloseLabels
    <3>3. QED
      BY <3>1, <3>2 DEF Turns, Chose
  <2>3. QED
    BY <1>3, <2>1, <2>2 DEF PostEnding
<1>4. CASE EndPacket(w)
  <2>1. PICK h \in Codes : CallClose(w, h, "release")
    BY <1>4, CodesOk DEF EndPacket
  <2>2. HasCode(w) /\ Goto(w, "close")
    BY <2>1, CallHasCode
  <2>3. UNCHANGED <<hr, todo>> /\ "close" \in Labels
    BY <1>4 DEF EndPacket, Labels, CloseLabels
  <2>4. QED
    BY <2>2, <2>3 DEF Turns, Chose
<1>5. CASE FireExit(w)
  <2>1. UNCHANGED <<todo, closing>> /\ \E l \in Labels \ {"rd_io"} : Goto(w, l)
    BY <1>1, <1>5 DEF FireExit, Labels
  <2>2. UNCHANGED hr \/ \E res \in CallbackResults : hr' = [hr EXCEPT ![w] = res]
    BY <1>5 DEF FireExit
  <2>3. QED
    BY <2>1, <2>2, CodesOk DEF Turns, Chose, HasCode
<1>6. QED
  BY <1>2, <1>3, <1>4, <1>5

LEMMA CloseTurns ==
  ASSUME RefsInv, OutInv, TypeInv, NEW p \in Workers \union {App},
         CloseStep(p) \/ DecClosed(p) \/ (p = App /\ (AppClose \/ AppRelease))
  PROVE  Turns(p)
<1> DEFINE L == Labels \ {"rd_io"}
<1>0. CloseLabels \union {"idle", "app_rel"} \union CloseReturns \union DecReturns \subseteq L
  BY DEF Labels, CloseLabels, CloseReturns, DecReturns
<1>1. /\ pc[p] \in CloseLabels => closing[p].ret \in L
      /\ closing[p].hr \in Codes /\ ClosingRecord(closing[p])
  BY <1>0 DEF RefsInv, Closing, Procs, TypeInv, ThreadsTyped
<1>a. {"close", "close_code", "close_test", "shut_code", "shut_link", "close_rel", "dec_zero", "idle",
       "app_rel"} \subseteq L
  BY <1>0 DEF CloseLabels
<1> HIDE DEF L
<1>b. ASSUME NEW l \in L, Goto(p, l), UNCHANGED <<hr, todo>>, HasCode(p) PROVE Turns(p)
  BY <1>b DEF L, Turns, Chose
<1>c. UNCHANGED closing => HasCode(p)
  BY DEF HasCode
<1>d. ASSUME Return(p), pc[p] \in CloseLabels
      PROVE  HasCode(p) /\ \E l \in L : Goto(p, l)
  <2>1. NoClose.hr \in Codes
    BY CodesOk DEF NoClose
  <2>2. QED
    BY <1>1, <1>d, <2>1 DEF Return, HasCode
<1>e. ASSUME FinishClose(p), pc[p] \in CloseLabels
      PROVE  HasCode(p) /\ \E l \in L : Goto(p, l)
  BY <1>a, <1>c, <1>d, <1>e DEF FinishClose
<1>2. CASE CloseMark(p)
  <2>1. UNCHANGED <<hr, todo>> /\ \E l \in L : Goto(p, l)
    BY <1>a, <1>2 DEF CloseMark
  <2>2. PICK f, h : closing' = [closing EXCEPT ![p].first = f, ![p].hard = h]
    BY <1>2 DEF CloseMark
  <2> DEFINE c == [closing[p] EXCEPT !.first = f, !.hard = h]
  <2>3. closing' = [closing EXCEPT ![p] = c]
    BY <2>2
  <2>4. c.hr = closing[p].hr
    BY <1>1 DEF ClosingRecord
  <2> HIDE DEF c
  <2>5. HasCode(p)
    BY <1>1, <2>3, <2>4 DEF HasCode
  <2>6. QED
    BY <1>b, <2>1, <2>5
<1>3. CASE CloseCode(p)
  BY <1>3, <1>a, <1>b, <1>c DEF CloseCode
<1>4. CASE CloseTest(p)
  <2>1. UNCHANGED <<hr, todo>> /\ pc[p] \in CloseLabels
    BY <1>4 DEF CloseTest, CloseLabels
  <2>2. (Goto(p, "shut_code") /\ UNCHANGED closing) \/ FinishClose(p)
    BY <1>4 DEF CloseTest
  <2>3. QED
    BY <1>a, <1>b, <1>c, <1>e, <2>1, <2>2
<1>5. CASE ShutCode(p)
  <2>1. UNCHANGED <<hr, todo>> /\ Goto(p, "shut_link")
    BY <1>5 DEF ShutCode
  <2>2. PICK a : closing' = [closing EXCEPT ![p].abort = a]
    BY <1>5 DEF ShutCode
  <2> DEFINE c == [closing[p] EXCEPT !.abort = a]
  <2>3. closing' = [closing EXCEPT ![p] = c]
    BY <2>2
  <2>4. c.hr = closing[p].hr
    BY <1>1 DEF ClosingRecord
  <2> HIDE DEF c
  <2>5. HasCode(p)
    BY <1>1, <2>3, <2>4 DEF HasCode
  <2>6. QED
    BY <1>a, <1>b, <2>1, <2>5
<1>6. CASE ShutLink(p)
  <2>1. UNCHANGED <<hr, todo>> /\ pc[p] \in CloseLabels /\ FinishClose(p)
    BY <1>6 DEF ShutLink, CloseLabels
  <2>2. QED
    BY <1>b, <1>e, <2>1
<1>7. CASE CloseRelease(p)
  <2>1. UNCHANGED <<hr, todo>> /\ pc[p] \in CloseLabels /\ Return(p)
    BY <1>7 DEF CloseRelease, CloseLabels
  <2>2. QED
    BY <1>b, <1>d, <2>1
<1>8. CASE DecClosed(p)
  <2>1. UNCHANGED <<hr, todo>> /\ pc[p] \in CloseLabels
    BY <1>8 DEF DecClosed, CloseLabels
  <2>2. (Goto(p, "shut_code") /\ UNCHANGED closing) \/ Return(p)
    BY <1>8 DEF DecClosed
  <2>3. QED
    BY <1>a, <1>b, <1>c, <1>d, <2>1, <2>2
<1>9. CASE p = App /\ AppClose
  <2>1. PICK h \in Codes : CallClose(p, h, "app_rel")
    BY <1>9, CodesOk DEF AppClose
  <2>2. HasCode(p) /\ Goto(p, "close") /\ UNCHANGED <<hr, todo>>
    BY <1>9, <2>1, CallHasCode DEF AppClose
  <2>3. QED
    BY <1>a, <1>b, <2>2
<1>10. CASE p = App /\ AppRelease
  BY <1>10, <1>a, <1>b, <1>c DEF AppRelease
<1>11. QED
  BY <1>2, <1>3, <1>4, <1>5, <1>6, <1>7, <1>8, <1>9, <1>10 DEF CloseStep

LEMMA StartTurns ==
  ASSUME RefsInv, OutInv, TypeInv, NEW w \in Workers, Start(w)
  PROVE  Turns(w)
<1>1. w \in Procs /\ cur[w].hr \in Codes /\ {0, 1, ReadAhead} \subseteq 0..ReadAhead
  BY ConstantsOK DEF ConstantsOK, Procs, TypeInv, CodesTyped
<1>2. CASE StartInitialSetup(w)
  <2>1. PICK res \in Codes : /\ hr' = [hr EXCEPT ![w] = res]
                             /\ todo' = [todo EXCEPT ![w] = IF res = "ok" THEN ReadAhead ELSE 0]
    BY <1>2, CodesOk DEF StartInitialSetup
  <2>2. Chose(hr, w, Codes) /\ Chose(todo, w, 0..ReadAhead)
    BY <1>1, <2>1 DEF Chose
  <2>3. Goto(w, "rd") /\ UNCHANGED closing /\ "rd" \in Labels
    BY <1>2 DEF StartInitialSetup, Labels
  <2>4. QED
    BY <2>2, <2>3 DEF Turns, HasCode
<1>3. CASE StartZeroRead(w)
  <2>1. /\ hr' = [hr EXCEPT ![w] = cur[w].hr]
        /\ todo' = [todo EXCEPT ![w] = 1] \/ todo' = [todo EXCEPT ![w] = 0]
    BY <1>3 DEF StartZeroRead
  <2>2. Chose(hr, w, Codes) /\ Chose(todo, w, 0..ReadAhead)
    BY <1>1, <2>1 DEF Chose
  <2>3. (\E l \in {"rd", "r_dec"} : Goto(w, l)) /\ UNCHANGED closing /\ {"rd", "r_dec"} \subseteq Labels
    BY <1>3 DEF StartZeroRead, Labels
  <2>4. QED
    BY <2>2, <2>3 DEF Turns, HasCode
<1>4. CASE StartRead(w)
  <2>1. hr' = [hr EXCEPT ![w] = cur[w].hr] /\ UNCHANGED todo
    BY <1>4 DEF StartRead
  <2>2. Chose(hr, w, Codes) /\ Chose(todo, w, 0..ReadAhead)
    BY <1>1, <2>1 DEF Chose
  <2>3. \/ (\E l \in {"in_check", "r_dec"} : Goto(w, l)) /\ UNCHANGED closing
        \/ CallClose(w, "ok", "r_dec")
    BY <1>4 DEF StartRead
  <2>4. HasCode(w) /\ \E l \in {"in_check", "r_dec", "close"} : Goto(w, l)
    BY <2>3, CallHasCode, CodesOk DEF HasCode
  <2>5. {"in_check", "r_dec", "close"} \subseteq Labels \ {"rd_io"}
    BY DEF Labels, CloseLabels
  <2>6. QED
    BY <2>2, <2>4, <2>5 DEF Turns
<1>5. CASE StartWriteRequest(w) \/ StartResume(w)
  <2>1. Passing(w)
    BY <1>5 DEF StartWriteRequest, StartResume, Passing, Labels
  <2>2. QED
    BY <2>1, PassingTurns
<1>6. CASE StartWrite(w)
  <2>1. hr' = [hr EXCEPT ![w] = cur[w].hr] /\ UNCHANGED <<todo, closing>>
    BY <1>6 DEF StartWrite
  <2>2. \E l \in Labels \ {"rd_io"} : Goto(w, l)
    BY <1>6 DEF StartWrite, Labels
  <2>3. QED
    BY <1>1, <2>1, <2>2 DEF Turns, Chose, HasCode
<1>7. QED
  BY <1>2, <1>3, <1>4, <1>5, <1>6 DEF Start

LEMMA HandleTurns ==
  ASSUME RefsInv, OutInv, TypeInv, NEW w \in Workers, Handle(w)
  PROVE  Turns(w)
<1>1. CASE Start(w)
  BY <1>1, StartTurns
<1>2. CASE ReleaseConn(w)
  <2>1. /\ hr' = [hr EXCEPT ![w] = "ok"] /\ UNCHANGED <<todo, closing>>
        /\ \E l \in Labels \ {"rd_io"} : Goto(w, l)
    BY <1>2 DEF ReleaseConn, Labels
  <2>2. QED
    BY <2>1, CodesOk DEF Turns, Chose, HasCode
<1>3. CASE CloseStep(w) \/ DecClosed(w)
  BY <1>3, CloseTurns
<1>4. CASE \/ InCheck(w) \/ InTake(w) \/ InWrite(w) \/ ReadNext(w) \/ ReadIssue(w)
           \/ ReadAgain(w) \/ ReadDone(w) \/ ResumeLoop(w)
  BY <1>4, InputTurns
<1>5. CASE \/ OutEnter(w) \/ OutLoop(w) \/ OutTake(w) \/ OutData(w) \/ OutSignal(w) \/ OutRequeue(w)
           \/ OutRecheck(w) \/ OutStream(w) \/ OutDrop(w) \/ OutNext(w) \/ OutExit(w) \/ WriteDone(w)
  BY <1>5, OutputTurns
<1>6. CASE \/ Post(w) \/ PostEnding(w) \/ FireEnter(w) \/ FireExit(w) \/ EndingWait(w)
           \/ EndingNotify(w) \/ EndPacket(w)
  BY <1>6, PostTurns
<1>7. QED
  BY <1>1, <1>2, <1>3, <1>4, <1>5, <1>6 DEF Handle

LEMMA ThreadsStep ==
  ASSUME RefsInv, OutInv, TypeInv, [Next]_vars
  PROVE  ThreadsTyped'
<1>1. Shape /\ ThreadsTyped /\ Workers \subseteq Procs /\ Senders \subseteq Procs /\ App \in Procs
  BY DEF RefsInv, TypeInv, Procs
<1>2. CASE \E w \in Workers : Worker(w)
  <2>1. ASSUME NEW w \in Workers, Dispatch(w)
        PROVE  Passing(w)
    BY <2>1 DEF Dispatch, Passing, Labels
  <2>2. \E w \in Workers : Turns(w)
    BY <1>2, <2>1, HandleTurns, PassingTurns DEF Worker
  <2>3. QED
    BY <1>1, <2>2, TurnsTyped
<1>3. CASE \E s \in Senders : SendBegin(s) \/ SendPost(s)
  <2>1. \E s \in Senders : Passing(s)
    BY <1>3 DEF SendBegin, SendPost, Passing, Labels
  <2>2. QED
    BY <1>1, <2>1, PassingTurns, TurnsTyped
<1>4. CASE AppClose \/ AppStep
  <2>1. Turns(App)
    BY <1>1, <1>4, CloseTurns DEF AppStep
  <2>2. QED
    BY <1>1, <2>1, TurnsTyped
<1>5. CASE \/ \E f \in Pausable : Pause(f) \/ Resume(f)
           \/ ReadCompletes \/ WriteCompletes \/ PeerSends \/ PeerCloses \/ UNCHANGED vars
  <2>1. UNCHANGED <<pc, hr, todo, closing>>
    BY <1>5 DEF Pause, Resume, ReadCompletes, WriteCompletes, PeerSends, PeerCloses, vars, procVars
  <2>2. QED
    BY <1>1, <2>1 DEF ThreadsTyped
<1>6. QED
  BY <1>2, <1>3, <1>4, <1>5 DEF Next

\* The socket, the flags, the error code and the rest.
LEMMA LinkTyped ==
  ASSUME link \in {"up", "closed", "aborted"},
         UNCHANGED link \/ Release \/ \E b : ShutdownLink(b)
  PROVE  link' \in {"up", "closed", "aborted"}
BY DEF Release, ShutdownLink

LEMMA StateStep ==
  ASSUME RefsInv, OutInv, ReadInv, TypeInv, StateTyped, [Next]_vars
  PROVE  StateTyped'
<1>1. /\ flags \subseteq FlagBits
      /\ hrErrorCode \in Codes /\ link \in {"up", "closed", "aborted"}
      /\ delivered \in Nat
      /\ peer \in {"open"} \union PeerEnds
      /\ csOwner \in Workers \union {App}
  BY DEF StateTyped
<1>2. flags' \subseteq FlagBits
  <2>1. Pausable \subseteq FlagBits
    BY ConstantsOK DEF ConstantsOK, FlagBits
  <2>2. \/ flags' \subseteq flags
        \/ \E f \in Pausable : flags' = flags \union {f}
        \/ \E F \in SUBSET {"Closed", "Graceful", "NewData", "ShutdownProcessed"} : flags' = flags \union F
    <3>1. ASSUME NEW w \in Workers, Start(w)
          PROVE  flags' = flags \/ flags' = flags \union {"Graceful"}
      BY <3>1 DEF Start, StartInitialSetup, StartZeroRead, StartRead, StartWriteRequest,
                  StartWrite, StartResume
    <3>2. ASSUME NEW w \in Workers, InCheck(w) \/ InTake(w) \/ ReadNext(w) \/ ReadAgain(w) \/ ReadDone(w)
          PROVE  flags' = flags
      BY <3>2 DEF InCheck, InTake, ReadNext, ReadAgain, ReadDone, connVars
    <3>3. ASSUME NEW w \in Workers, InWrite(w) \/ ResumeLoop(w)
          PROVE  flags' = flags \/ flags' = flags \union {"NewData"}
      BY <3>3 DEF InWrite, ResumeLoop
    <3>4. ASSUME NEW w \in Workers, ReadIssue(w) \/ OutData(w) \/ OutStream(w)
          PROVE  flags' = flags \/ flags' = flags \union {"Graceful"}
      BY <3>4 DEF ReadIssue, OutData, OutStream, DoWrite
    <3>5. ASSUME NEW w \in Workers,
                 \/ OutEnter(w) \/ OutLoop(w) \/ OutTake(w) \/ OutSignal(w) \/ OutRequeue(w)
                 \/ OutRecheck(w) \/ OutDrop(w) \/ OutNext(w) \/ OutExit(w) \/ WriteDone(w)
          PROVE  flags' = flags
      BY <3>5 DEF OutEnter, OutLoop, OutTake, OutSignal, OutRequeue, OutRecheck, OutDrop, OutNext,
                  OutExit,
                  WriteDone, connVars
    <3>6. ASSUME NEW w \in Workers,
                 \/ FireEnter(w) \/ FireExit(w) \/ EndingWait(w) \/ EndingNotify(w) \/ ReleaseConn(w)
                 \/ Dispatch(w)
          PROVE  flags' = flags
      BY <3>6 DEF FireEnter, FireExit, EndingWait, EndingNotify, ReleaseConn, Dispatch, connVars
    <3>7. ASSUME NEW w \in Workers, Post(w) \/ PostEnding(w) \/ EndPacket(w)
          PROVE  \/ flags' \subseteq flags \/ flags' = flags \union {"ShutdownProcessed"}
                 \/ flags' = flags \union {"Graceful"}
      BY <3>7 DEF Post, PostEnding, EndPacket
    <3>8. ASSUME NEW p, CloseStep(p) \/ DecClosed(p)
          PROVE  \/ flags' = flags \/ flags' = flags \union {"Closed"}
                 \/ flags' = flags \union {"Closed", "Graceful"}
      BY <3>8 DEF CloseStep, CloseMark, CloseCode, CloseTest, ShutCode, ShutLink, CloseRelease,
                  DecClosed, connVars
    <3>9. ASSUME NEW s, SendBegin(s) \/ SendPost(s)
          PROVE  flags' = flags
      BY <3>9 DEF SendBegin, SendPost, connVars
    <3>10. ASSUME AppClose \/ AppRelease \/ ReadCompletes \/ WriteCompletes \/ PeerSends \/ PeerCloses
                  \/ UNCHANGED vars
           PROVE  flags' = flags
      BY <3>10 DEF AppClose, AppRelease, ReadCompletes, WriteCompletes, PeerSends, PeerCloses,
                   vars, connVars
    <3>11. ASSUME NEW f \in Pausable, Pause(f) \/ Resume(f)
           PROVE  flags' \subseteq flags \/ flags' = flags \union {f}
      BY <3>11 DEF Pause, Resume
    <3>12. ASSUME NEW w \in Workers, Worker(w)
           PROVE  \/ flags' \subseteq flags
                  \/ \E F \in SUBSET {"Closed", "Graceful", "NewData", "ShutdownProcessed"} : flags' = flags \union F
      BY <3>1, <3>2, <3>3, <3>4, <3>5, <3>6, <3>7, <3>8, <3>12 DEF Worker, Handle
    <3>13. CASE AppStep
      BY <3>8, <3>10, <3>13 DEF AppStep
    <3>14. QED
      BY <3>9, <3>10, <3>11, <3>12, <3>13 DEF Next
  <2>3. {"Closed", "Graceful", "NewData", "ShutdownProcessed"} \subseteq FlagBits
    BY DEF FlagBits
  <2>4. CASE \E f \in Pausable : flags' = flags \union {f}
    <3>1. PICK f \in FlagBits : flags' = flags \union {f}
      BY <2>1, <2>4
    <3>2. QED
      BY <1>1, <3>1
  <2>5. CASE \E F \in SUBSET {"Closed", "Graceful", "NewData", "ShutdownProcessed"} : flags' = flags \union F
    <3>1. PICK F : F \subseteq FlagBits /\ flags' = flags \union F
      BY <2>3, <2>5
    <3>2. QED
      BY <1>1, <3>1
  <2>6. QED
    BY <1>1, <2>2, <2>4, <2>5

<1>3. /\ link' \in {"up", "closed", "aborted"} /\ hrErrorCode' \in Codes /\ delivered' \in Nat
      /\ peer' \in {"open"} \union PeerEnds /\ csOwner' \in Workers \union {App}
  <2> DEFINE Typed == /\ link' \in {"up", "closed", "aborted"} /\ hrErrorCode' \in Codes /\ delivered' \in Nat
                      /\ peer' \in {"open"} \union PeerEnds /\ csOwner' \in Workers \union {App}
  <2>1. UNCHANGED <<hrErrorCode, link, delivered, peer, csOwner>> => Typed
    BY <1>1
  <2>2. \/ UNCHANGED link \/ Release \/ \E b : ShutdownLink(b)
        => (UNCHANGED <<hrErrorCode, delivered, peer, csOwner>> => Typed)
    BY <1>1, LinkTyped
  <2> HIDE DEF Typed
  <2>3. ASSUME NEW w \in Workers, Start(w) \/ Dispatch(w)
        PROVE  Typed
    <3>1. CASE Start(w)
      <4>1. UNCHANGED delivered
        BY <3>1
           DEF Start, StartInitialSetup, StartZeroRead, StartRead, StartWriteRequest, StartWrite,
                    StartResume, readVars
      <4>2. QED
        BY <2>1, <3>1, <4>1 DEF Start, ioVars, appVars
    <3>2. CASE Dispatch(w)
      BY <2>1, <3>2 DEF Dispatch, connVars, readVars, appVars
    <3>3. QED
      BY <2>3, <3>1, <3>2
  <2>4. ASSUME NEW w \in Workers,
               \/ InCheck(w) \/ InTake(w) \/ InWrite(w) \/ ReadNext(w) \/ ReadIssue(w)
               \/ ReadAgain(w) \/ ReadDone(w) \/ ResumeLoop(w)
        PROVE  Typed
    BY <2>1, <2>4
       DEF InCheck, InTake, InWrite, ReadNext, ReadIssue, ReadAgain, ReadDone, ResumeLoop,
                      connVars, readVars, ioVars, appVars
  <2>5. ASSUME NEW w \in Workers,
               \/ OutEnter(w) \/ OutLoop(w) \/ OutTake(w) \/ OutData(w) \/ OutSignal(w) \/ OutRequeue(w)
               \/ OutRecheck(w) \/ OutStream(w)
        PROVE  Typed
    BY <2>1, <2>5
       DEF OutEnter, OutLoop, OutTake, OutData, OutSignal, OutRequeue, OutRecheck, OutStream,
                      connVars, readVars, ioVars, appVars
  <2>6. ASSUME NEW w \in Workers, OutDrop(w) \/ OutNext(w) \/ OutExit(w) \/ WriteDone(w) \/ ReleaseConn(w)
        PROVE  Typed
    BY <2>2, <2>6 DEF OutDrop, OutNext, OutExit, WriteDone, ReleaseConn, connVars, readVars, ioVars,
                      appVars
  <2>7. ASSUME NEW w \in Workers, Post(w) \/ PostEnding(w) \/ EndingWait(w) \/ EndingNotify(w) \/ EndPacket(w)
        PROVE  Typed
    BY <2>1, <2>7 DEF Post, PostEnding, EndingWait, EndingNotify, EndPacket, connVars, readVars,
                      ioVars, appVars
  <2>8. ASSUME NEW w \in Workers, FireEnter(w)
        PROVE  Typed
    BY <1>1, <2>8 DEF FireEnter, Typed, connVars, readVars, ioVars
  <2>9. ASSUME NEW w \in Workers, FireExit(w)
        PROVE  Typed
    <3>1. delivered' = Len(received) /\ Len(received) \in Nat
      BY <2>9, SeqLength DEF FireExit, ReadInv, ReadNumbers
    <3>2. hrErrorCode' \in Codes
      BY <1>1, <2>9, CodesOk DEF FireExit
    <3>3. UNCHANGED <<link, peer>> /\ csOwner' = App
      BY <2>9 DEF FireExit, ioVars
    <3>4. QED
      BY <1>1, <3>1, <3>2, <3>3 DEF Typed
  <2>10. ASSUME NEW p \in Procs,
                \/ CloseMark(p) \/ CloseTest(p) \/ ShutCode(p) \/ ShutLink(p) \/ CloseRelease(p)
                \/ DecClosed(p)
         PROVE  Typed
    BY <2>2, <2>10 DEF CloseMark, CloseTest, ShutCode, ShutLink, CloseRelease, DecClosed, connVars,
                       readVars, ioVars, appVars
  <2>11. ASSUME NEW p \in Procs, CloseCode(p)
         PROVE  Typed
    <3>1. closing[p].hr \in Codes
      BY DEF TypeInv, ThreadsTyped
    <3>2. QED
      BY <1>1, <2>11, <3>1 DEF CloseCode, Typed, readVars, ioVars, appVars
  <2>12. ASSUME NEW s \in Senders, SendBegin(s) \/ SendPost(s)
         PROVE  Typed
    BY <2>1, <2>12 DEF SendBegin, SendPost, connVars, readVars, ioVars, appVars
  <2>13. ASSUME NEW f \in Pausable, Pause(f) \/ Resume(f)
         PROVE  Typed
    BY <2>1, <2>13 DEF Pause, Resume, readVars, ioVars, appVars
  <2>14. ASSUME AppClose
         PROVE  Typed
    BY <2>1, <2>14 DEF AppClose, readVars, ioVars, appVars
  <2>15. ASSUME AppRelease
         PROVE  Typed
    BY <2>2, <2>15 DEF AppRelease, readVars, ioVars
  <2>16. ASSUME ReadCompletes \/ WriteCompletes \/ PeerSends \/ UNCHANGED vars
         PROVE  Typed
    BY <2>1, <2>16
       DEF ReadCompletes, WriteCompletes, PeerSends, vars, connVars, readVars, ioVars, appVars
  <2>17. ASSUME PeerCloses
         PROVE  Typed
    BY <1>1, <2>17 DEF PeerCloses, Typed, connVars, readVars, appVars
  <2>18. ASSUME NEW w \in Workers, Worker(w)
         PROVE  Typed
    BY <2>3, <2>4, <2>5, <2>6, <2>7, <2>8, <2>9, <2>10, <2>11, <2>18
       DEF Worker, Handle, CloseStep, Procs
  <2>19. ASSUME AppStep
         PROVE  Typed
    BY <2>10, <2>11, <2>15, <2>19 DEF AppStep, CloseStep, Procs
  <2>20. Typed
    BY <2>12, <2>13, <2>14, <2>16, <2>17, <2>18, <2>19 DEF Next
  <2>21. QED
    BY <2>20 DEF Typed
<1>4. QED
  BY <1>2, <1>3 DEF StateTyped

LEMMA TypeInit == Init => TypeInv /\ StateTyped
<1> SUFFICES ASSUME Init PROVE TypeInv /\ StateTyped
  OBVIOUS
<1>1. /\ iocp = <<Packet("InitialSetup", 0, 0, "ok")>>
      /\ pc = [p \in Procs |-> "idle"] /\ cur = [p \in Procs |-> NoPacket]
      /\ hr = [p \in Procs |-> "ok"] /\ todo = [p \in Procs |-> 0]
      /\ queued = [p \in Procs |-> <<>>] /\ closing = [p \in Procs |-> NoClose]
      /\ Workers \subseteq Procs
  BY DEF Init, Procs
<1>2. 0 \in 0..ReadAhead
  BY ConstantsOK DEF ConstantsOK
<1>3. ThreadsTyped
  BY <1>1, <1>2, CodesOk DEF ThreadsTyped, NoClose, Labels
<1>4. CodesTyped
  <2>1. DOMAIN iocp = {1} /\ iocp[1].hr = "ok" /\ NoPacket.hr = "ok"
    BY <1>1 DEF Packet, NoPacket
  <2>2. \A w \in Workers : DOMAIN queued[w] = {}
    BY <1>1
  <2>3. QED
    BY <1>1, <2>1, <2>2, CodesOk DEF CodesTyped, HasCodes
<1>5. StateTyped
  BY CodesOk DEF Init, StateTyped, FlagBits
<1>6. QED
  BY <1>3, <1>4, <1>5 DEF TypeInv

\* Error codes, labels, flags and the records of the threads have their types.
THEOREM TypesInvariant == Spec => [](TypeInv /\ StateTyped)
<1>1. RefsInv /\ OutInv /\ ReadInv /\ (TypeInv /\ StateTyped) /\ [Next]_vars => (TypeInv /\ StateTyped)'
  BY CodesStep, ThreadsStep, StateStep DEF TypeInv
<1>2. QED
  BY <1>1, TypeInit, RefsInvariant, OutstandingInvariant, ReadInvariant, PTL DEF Spec

\* Every component of the state has its type; for the counters of references,
\* reads, writes and bytes this says that no decrement takes one below zero.
THEOREM TypesAreCorrect == Spec => []TypeOK
<1>1. RefsInv /\ OutInv /\ WriteInv /\ ReadInv /\ TypeInv /\ StateTyped => TypeOK
  <2> SUFFICES ASSUME RefsInv, OutInv, WriteInv, ReadInv, TypeInv, StateTyped PROVE TypeOK
    OBVIOUS
  <2>1. refs \in Nat /\ nIncomingReads \in Nat /\ nOutgoingWrites \in Nat
    BY CountersExact DEF RefsInv, Counted
  <2>2. nNextReadOrder \in Nat /\ nNextReadOrderToProcess \in Nat
    BY DEF ReadInv, ReadNumbers, ReadFeed
  <2>3. /\ nNextWriteOrder \in Nat /\ nNextWriteOrderToProcess \in 1..(nNextWriteOrder + 1)
        /\ DOMAIN kind = 1..nNextWriteOrder
    BY SeqLength DEF WriteInv, WriteQueue, WriteNumbers
  <2>4. nOutgoingBytes \in Nat
    <3>1. Len(kwrites) \in Nat /\ Cardinality(OfType(iocp, {"Write"})) \in Nat
      BY SeqLength, OfTypeFinite DEF RefsInv, Shape
    <3>2. QED
      BY <3>1, SendingFinite DEF WriteInv, BytesExact
  <2>5. fired \subseteq DOMAIN kind
    <3>1. \A o \in fired : o \in 1..nNextWriteOrderToProcess /\ o <= nNextWriteOrder
      BY DEF WriteInv, SignalFired
    <3>2. QED
      BY <2>3, <3>1
  <2>6. nNextWriteOrderToProcess \in Nat
    BY <2>3
  <2>7. StateTyped /\ \A p \in Procs : pc[p] \in Labels /\ hr[p] \in Codes /\ todo[p] \in 0..ReadAhead
    BY DEF TypeInv, ThreadsTyped
  <2>8. {refs, nIncomingReads, nOutgoingWrites, nOutgoingBytes, nNextReadOrder, nNextWriteOrder,
         nNextReadOrderToProcess, nNextWriteOrderToProcess, delivered} \subseteq Nat
    BY <2>1, <2>2, <2>3, <2>4, <2>6 DEF StateTyped
  <2>9. QED
    BY <2>5, <2>7, <2>8 DEF TypeOK, StateTyped, FlagBits
<1>2. QED
  BY <1>1, RefsInvariant, OutstandingInvariant, WriteInvariant, ReadInvariant, TypesInvariant, PTL

=============================================================================
