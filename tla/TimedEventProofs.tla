-------------------------- MODULE TimedEventProofs --------------------------
(***************************************************************************)
(* Proofs about TimedEvent, for any set of timers, variables and clients   *)
(* and any number of kept objects.  TimerInv says which object is in which *)
(* index, list or hand, and what its flags and its id say of that; it is   *)
(* inductive, and OneOwner and IndexesAgree follow from it.  With it each  *)
(* step is a step of TimerService or a stutter (Refinement).               *)
(***************************************************************************)
EXTENDS TimedEvent, FiniteSetTheorems, SequenceTheorems, TLAPS

\* The places at which a caller has a timer in its hands.
Holding == {"add_id", "add_insert", "set", "set_wait", "set_leave", "wait", "free"}

\* The places at which the timer in its hands may be the one that fires.
Sharing == {"set_wait", "set_leave", "wait"}

Distinct(s) == \A i, j \in DOMAIN s : s[i] = s[j] => i = j

TypeInv ==
  /\ nNextTimerId \in Nat
  /\ nId \in [Timer -> Nat]
  /\ nFlags \in [Timer -> SUBSET Flags]
  /\ pc \in [Caller -> CallerPCs]
  /\ lpTimer \in [Caller -> Timer \union {None}]
  /\ tpc \in ThreadPCs
  /\ current \in Timer \union {None}

\* The tree holds what the list holds, each timer once.
TreeInv ==
  /\ cTree \in Seq(Timer) /\ Distinct(cTree)
  /\ cSortedByIdList = Elements(cTree)
  /\ nDue \in Int /\ nDue <= Len(cTree)

\* The free list holds objects that are in nobody's hands, each once.
FreeInv ==
  /\ lpFirst \in Seq(Timer) /\ Distinct(lpFirst)
  /\ Elements(lpFirst) \subseteq allocated \ (cSortedByIdList \union {current})
  /\ allocated \subseteq Timer
  /\ cSortedByIdList \subseteq allocated

\* A caller holds a timer of its own, or shares the one that fires.
HoldInv ==
  /\ \A c \in Caller : pc[c] \in Holding <=> lpTimer[c] # None
  /\ \A c \in Caller : lpTimer[c] # None =>
       lpTimer[c] \in allocated \ (cSortedByIdList \union Elements(lpFirst))
  /\ \A c, d \in Caller : lpTimer[c] # None /\ lpTimer[c] = lpTimer[d] => c = d
  /\ \A c \in Caller : lpTimer[c] # None /\ lpTimer[c] = current => pc[c] \in Sharing

\* Who frees the timer that fires, and when: a call that waits for it leaves
\* no CanceledInCallback, and a call from its callback does not wait for it.
ThreadInv ==
  /\ tpc \in {"callback", "after"} <=> current # None
  /\ current # None => current \in allocated /\ "Running" \in nFlags[current]
  /\ current # None /\ "Canceled" \notin nFlags[current] => current \in cSortedByIdList
  /\ tpc # "callback" => pc[Handler] = "idle"
  /\ \A c \in Caller : pc[c] = "set_leave" => c = Handler
  /\ \A c \in Caller : pc[c] \in {"set_wait", "wait"} =>
       c # Handler /\ "CanceledInCallback" \notin nFlags[lpTimer[c]]
  /\ \A c \in Caller : pc[c] \in {"add_id", "add_insert"} =>
       nFlags[lpTimer[c]] \intersect {"Running", "Canceled", "CanceledInCallback"} = {}
  /\ \A t \in cSortedByIdList :
       /\ nFlags[t] \intersect {"Canceled", "CanceledInCallback"} = {}
       /\ "Running" \in nFlags[t] => t = current

\* The timers whose id somebody may still use.
Numbered ==
  cSortedByIdList \union ({current} \ {None})
    \union {lpTimer[c] : c \in {d \in Caller : pc[d] \in {"add_insert", "set_wait", "wait"}}}

\* No two of them have the same id.
IdInv ==
  /\ \A t \in Timer : nId[t] <= nNextTimerId
  /\ \A t \in Numbered : nId[t] # 0
  /\ \A t, u \in Numbered : nId[t] = nId[u] => t = u

\* The callers that draw an id; there is one for each (the model's bound).
Drawing == {c \in Caller : pc[c] = "add_id"}

BoundInv == IsFiniteSet(Drawing) /\ nNextTimerId + Cardinality(Drawing) <= MaxId

TimerInv == TypeInv /\ TreeInv /\ FreeInv /\ HoldInv /\ ThreadInv /\ IdInv /\ BoundInv

-----------------------------------------------------------------------------
(* The tree and the free list.                                              *)

LEMMA HandlerIsCaller == Handler \in Caller /\ None \notin Timer
  BY TimedEventAssumption DEF Caller

\* A tree that loses one of its timers.
LEMMA WithoutFacts ==
  ASSUME NEW tree \in Seq(Timer), Distinct(tree), NEW t \in Elements(tree)
  PROVE  /\ Without(tree, t) \in Seq(Timer)
         /\ Distinct(Without(tree, t))
         /\ Elements(Without(tree, t)) = Elements(tree) \ {t}
         /\ Len(Without(tree, t)) = Len(tree) - 1
<1> DEFINE k == CHOOSE i \in DOMAIN tree : tree[i] = t
           r == Without(tree, t)
<1>1. k \in 1..Len(tree) /\ tree[k] = t
  BY DEF Elements
<1>2. r = SubSeq(tree, 1, k - 1) \o SubSeq(tree, k + 1, Len(tree))
  BY DEF Without
<1> HIDE DEF k, r
<1>3. /\ r \in Seq(Timer) /\ Len(r) = Len(tree) - 1
      /\ \A i \in 1..Len(r) : r[i] = tree[IF i < k THEN i ELSE i + 1]
  <2> DEFINE a == SubSeq(tree, 1, k - 1)
             b == SubSeq(tree, k + 1, Len(tree))
  <2>1. a \in Seq(Timer) /\ Len(a) = k - 1 /\ \A i \in 1..(k - 1) : a[i] = tree[i]
    BY <1>1
  <2>2. /\ b \in Seq(Timer) /\ Len(b) = Len(tree) - k
        /\ \A i \in 1..(Len(tree) - k) : b[i] = tree[i + k]
    BY <1>1
  <2>3. r = a \o b
    BY <1>2
  <2> HIDE DEF a, b
  <2>4. /\ r \in Seq(Timer) /\ Len(r) = Len(a) + Len(b)
        /\ \A i \in 1..(Len(a) + Len(b)) : r[i] = IF i <= Len(a) THEN a[i] ELSE b[i - Len(a)]
    BY <2>1, <2>2, <2>3, ConcatProperties
  <2>5. QED
    BY <1>1, <2>1, <2>2, <2>4
<1>4. Distinct(r)
  BY <1>1, <1>3 DEF Distinct
<1>5. Elements(r) = Elements(tree) \ {t}
  <2>1. ASSUME NEW x \in Elements(r) PROVE x \in Elements(tree) \ {t}
    <3>1. PICK i \in 1..Len(r) : r[i] = x
      BY <1>3 DEF Elements
    <3>2. PICK j \in 1..Len(tree) : j # k /\ tree[j] = x
      <4>1. CASE i < k
        BY <1>1, <1>3, <3>1, <4>1
      <4>2. CASE i >= k
        <5>1. i + 1 \in 1..Len(tree) /\ i + 1 # k /\ tree[i + 1] = x
          BY <1>1, <1>3, <3>1, <4>2
        <5>2. QED
          BY <5>1
      <4>3. QED
        BY <1>1, <4>1, <4>2
    <3>3. x # t
      BY <1>1, <3>2 DEF Distinct
    <3>4. QED
      BY <3>2, <3>3 DEF Elements
  <2>2. ASSUME NEW x \in Elements(tree) \ {t} PROVE x \in Elements(r)
    <3>1. PICK j \in 1..Len(tree) : tree[j] = x
      BY DEF Elements
    <3>2. j # k
      BY <1>1, <3>1
    <3>3. CASE j < k
      <4>1. j \in 1..Len(r) /\ r[j] = x
        BY <1>1, <1>3, <3>1, <3>3
      <4>2. QED
        BY <1>3, <4>1 DEF Elements
    <3>4. CASE j > k
      <4>1. j - 1 \in 1..Len(r) /\ r[j - 1] = x
        BY <1>1, <1>3, <3>1, <3>4
      <4>2. QED
        BY <1>3, <4>1 DEF Elements
    <3>5. QED
      BY <1>1, <3>2, <3>3, <3>4
  <2>3. QED
    BY <2>1, <2>2
<1>6. QED
  BY <1>3, <1>4, <1>5 DEF r

\* A tree that gets a timer it has not.
LEMMA InsertFacts ==
  ASSUME NEW tree \in Seq(Timer), Distinct(tree), NEW due \in Int, due <= Len(tree),
         NEW t \in Timer \ Elements(tree), NEW p \in 0..Len(tree), InsertInto(tree, due, t, p)
  PROVE  /\ cTree' \in Seq(Timer)
         /\ Distinct(cTree')
         /\ Elements(cTree') = Elements(tree) \union {t}
         /\ nDue' \in Int /\ nDue' <= Len(cTree')
<1> DEFINE r == cTree'
<1>1. r = SubSeq(tree, 1, p) \o <<t>> \o SubSeq(tree, p + 1, Len(tree))
  BY DEF InsertInto
<1>2. nDue' = IF p < due THEN due + 1 ELSE due
  BY DEF InsertInto
<1> HIDE DEF r
<1>3. /\ r \in Seq(Timer) /\ Len(r) = Len(tree) + 1
      /\ \A i \in 1..Len(r) :
           r[i] = IF i <= p THEN tree[i] ELSE IF i = p + 1 THEN t ELSE tree[i - 1]
  <2> DEFINE a == SubSeq(tree, 1, p)
             b == SubSeq(tree, p + 1, Len(tree))
             m == a \o <<t>>
  <2>1. a \in Seq(Timer) /\ Len(a) = p /\ \A i \in 1..p : a[i] = tree[i]
    OBVIOUS
  <2>2. /\ b \in Seq(Timer) /\ Len(b) = Len(tree) - p
        /\ \A i \in 1..(Len(tree) - p) : b[i] = tree[i + p]
    OBVIOUS
  <2>3. r = m \o b
    BY <1>1
  <2> HIDE DEF a, b
  <2>4. /\ m \in Seq(Timer) /\ Len(m) = p + 1
        /\ \A i \in 1..(p + 1) : m[i] = IF i <= p THEN tree[i] ELSE t
    BY <2>1
  <2> HIDE DEF m
  <2>5. /\ r \in Seq(Timer) /\ Len(r) = Len(m) + Len(b)
        /\ \A i \in 1..(Len(m) + Len(b)) : r[i] = IF i <= Len(m) THEN m[i] ELSE b[i - Len(m)]
    BY <2>2, <2>3, <2>4, ConcatProperties
  <2>6. Len(r) = Len(tree) + 1 /\ r \in Seq(Timer)
    BY <2>2, <2>4, <2>5
  <2>7. ASSUME NEW i \in 1..Len(r)
        PROVE  r[i] = IF i <= p THEN tree[i] ELSE IF i = p + 1 THEN t ELSE tree[i - 1]
    <3>1. CASE i <= p + 1
      BY <2>2, <2>4, <2>5, <3>1
    <3>2. CASE i > p + 1
      <4>1. i - (p + 1) \in 1..(Len(tree) - p) /\ r[i] = b[i - (p + 1)]
        BY <2>2, <2>4, <2>5, <3>2
      <4>2. b[i - (p + 1)] = tree[(i - (p + 1)) + p] /\ (i - (p + 1)) + p = i - 1
        BY <2>2, <4>1
      <4>3. QED
        BY <3>2, <4>1, <4>2
    <3>3. QED
      BY <2>6, <3>1, <3>2
  <2>8. QED
    BY <2>6, <2>7
<1>4. \A i \in 1..Len(tree) : tree[i] # t
  BY DEF Elements
<1>5. Distinct(r)
  <2> SUFFICES ASSUME NEW i \in 1..Len(r), NEW j \in 1..Len(r), r[i] = r[j], i <= j
               PROVE  i = j
    BY <1>3 DEF Distinct
  <2> DEFINE At(m) == IF m <= p THEN m ELSE m - 1
  <2>0. \A a, b \in 1..Len(tree) : tree[a] = tree[b] => a = b
    BY DEF Distinct
  <2>1. CASE i <= p
    <3>1. i \in 1..Len(tree) /\ r[i] = tree[i]
      BY <1>3, <2>1
    <3>2. ASSUME j = p + 1 PROVE FALSE
      <4>1. r[j] = t
        BY <1>3, <3>2
      <4>2. QED
        BY <1>4, <3>1, <4>1
    <3>3. At(j) \in 1..Len(tree) /\ r[j] = tree[At(j)]
      BY <1>3, <3>2
    <3>4. i = At(j)
      BY <2>0, <3>1, <3>3
    <3>5. QED
      BY <2>1, <3>2, <3>4
  <2>2. CASE i = p + 1
    BY <1>3, <1>4, <2>2
  <2>3. CASE i > p + 1
    <3>1. i - 1 \in 1..Len(tree) /\ r[i] = tree[i - 1]
      BY <1>3, <2>3
    <3>2. j - 1 \in 1..Len(tree) /\ r[j] = tree[j - 1]
      BY <1>3, <2>3
    <3>3. i - 1 = j - 1
      BY <2>0, <3>1, <3>2
    <3>4. QED
      BY <3>3
  <2>4. QED
    BY <1>3, <2>1, <2>2, <2>3
<1>6. Elements(r) = Elements(tree) \union {t}
  <2>1. ASSUME NEW x \in Elements(r) PROVE x \in Elements(tree) \union {t}
    <3>1. PICK i \in 1..Len(r) : r[i] = x
      BY <1>3 DEF Elements
    <3>2. CASE i <= p
      BY <1>3, <3>1, <3>2 DEF Elements
    <3>3. CASE i > p + 1
      <4>1. i - 1 \in 1..Len(tree) /\ tree[i - 1] = x
        BY <1>3, <3>1, <3>3
      <4>2. QED
        BY <4>1 DEF Elements
    <3>4. CASE i = p + 1
      BY <1>3, <3>1, <3>4
    <3>5. QED
      BY <1>3, <3>2, <3>3, <3>4
  <2>2. ASSUME NEW x \in Elements(tree) PROVE x \in Elements(r)
    <3>1. PICK j \in 1..Len(tree) : tree[j] = x
      BY DEF Elements
    <3>2. CASE j <= p
      <4>1. j \in 1..Len(r) /\ r[j] = x
        BY <1>3, <3>1, <3>2
      <4>2. QED
        BY <1>3, <4>1 DEF Elements
    <3>3. CASE j > p
      <4>1. j + 1 \in 1..Len(r) /\ r[j + 1] = x
        BY <1>3, <3>1, <3>3
      <4>2. QED
        BY <1>3, <4>1 DEF Elements
    <3>4. QED
      BY <3>2, <3>3
  <2>3. t \in Elements(r)
    <3>1. p + 1 \in 1..Len(r) /\ r[p + 1] = t
      BY <1>3
    <3>2. QED
      BY <1>3, <3>1, p + 1 \in DOMAIN r DEF Elements
  <2>4. QED
    BY <2>1, <2>2, <2>3
<1>7. QED
  BY <1>2, <1>3, <1>5, <1>6 DEF r

\* A timer leaves both indexes at once.
LEMMA RemoveKeepsTree ==
  ASSUME TreeInv, NEW t \in cSortedByIdList, RemoveFromTree(t),
         cSortedByIdList' = cSortedByIdList \ {t}
  PROVE  TreeInv'
<1>1. t \in Elements(cTree)
  BY DEF TreeInv
<1>2. /\ cTree' \in Seq(Timer) /\ Distinct(cTree')
      /\ Elements(cTree') = Elements(cTree) \ {t} /\ Len(cTree') = Len(cTree) - 1
  BY <1>1, WithoutFacts DEF TreeInv, RemoveFromTree
<1>3. nDue' \in Int /\ nDue' <= Len(cTree')
  <2>1. PICK i \in 1..Len(cTree) : cTree[i] = t
    BY <1>1 DEF Elements, TreeInv
  <2>2. ~Due(t) => nDue < Len(cTree)
    BY <2>1 DEF Due, TreeInv
  <2>3. QED
    BY <1>2, <2>2 DEF RemoveFromTree, TreeInv
<1>4. QED
  BY <1>2, <1>3 DEF TreeInv, Distinct, Elements

\* A timer that is freed joins the free list or is gone.
LEMMA FreeFacts ==
  ASSUME lpFirst \in Seq(Timer), Distinct(lpFirst), allocated \subseteq Timer,
         NEW t \in Timer \ Elements(lpFirst), FreeTimer(t)
  PROVE  /\ lpFirst' \in Seq(Timer) /\ Distinct(lpFirst')
         /\ \/ Elements(lpFirst') = Elements(lpFirst) \union {t} /\ allocated' = allocated
            \/ Elements(lpFirst') = Elements(lpFirst) /\ allocated' = allocated \ {t}
<1>1. CASE Len(lpFirst) < MaxTimersInFreeList
  <2> DEFINE r == lpFirst'
  <2>1. r = <<t>> \o lpFirst /\ allocated' = allocated
    BY <1>1 DEF FreeTimer
  <2> HIDE DEF r
  <2>2. /\ r \in Seq(Timer) /\ Len(r) = Len(lpFirst) + 1
        /\ \A i \in 1..Len(r) : r[i] = IF i = 1 THEN t ELSE lpFirst[i - 1]
    BY <2>1
  <2>3. \A i \in 1..Len(lpFirst) : lpFirst[i] # t
    BY DEF Elements
  <2>4. Distinct(r)
    <3> SUFFICES ASSUME NEW i \in 1..Len(r), NEW j \in 1..Len(r), r[i] = r[j], i <= j
                 PROVE  i = j
      BY <2>2 DEF Distinct
    <3>1. CASE i = 1
      BY <2>2, <2>3, <3>1
    <3>2. CASE i > 1
      BY <2>2, <3>2 DEF Distinct
    <3>3. QED
      BY <2>2, <3>1, <3>2
  <2>5. \A x \in Elements(r) : x \in Elements(lpFirst) \union {t}
    BY <2>2 DEF Elements
  <2>6. ASSUME NEW x \in Elements(lpFirst) PROVE x \in Elements(r)
    <3>1. PICK j \in 1..Len(lpFirst) : lpFirst[j] = x
      BY DEF Elements
    <3>2. j + 1 \in 1..Len(r) /\ r[j + 1] = x
      BY <2>2, <3>1
    <3>3. QED
      BY <2>2, <3>2 DEF Elements
  <2>7. t \in Elements(r)
    <3>1. 1 \in 1..Len(r) /\ r[1] = t
      BY <2>2
    <3>2. QED
      BY <2>2, <3>1 DEF Elements
  <2>8. Elements(r) = Elements(lpFirst) \union {t}
    BY <2>5, <2>6, <2>7
  <2>9. QED
    BY <2>1, <2>2, <2>4, <2>8 DEF r
<1>2. CASE ~(Len(lpFirst) < MaxTimersInFreeList)
  BY <1>2 DEF FreeTimer
<1>3. QED
  BY <1>1, <1>2

\* The free list without its first object.
LEMMA TailFacts ==
  ASSUME NEW s \in Seq(Timer), Distinct(s), s # <<>>
  PROVE  /\ Tail(s) \in Seq(Timer) /\ Distinct(Tail(s))
         /\ Head(s) \in Elements(s)
         /\ Elements(Tail(s)) = Elements(s) \ {Head(s)}
<1> DEFINE r == Tail(s)
<1>1. /\ r \in Seq(Timer) /\ Len(r) = Len(s) - 1 /\ Len(s) > 0
      /\ \A i \in 1..Len(r) : r[i] = s[i + 1]
      /\ Head(s) = s[1]
  OBVIOUS
<1> HIDE DEF r
<1>2. Distinct(r)
  BY <1>1 DEF Distinct
<1>3. Head(s) \in Elements(s)
  BY <1>1 DEF Elements
<1>4. ASSUME NEW x \in Elements(r) PROVE x \in Elements(s) \ {Head(s)}
  <2>1. PICK i \in 1..Len(r) : r[i] = x
    BY <1>1 DEF Elements
  <2>2. i + 1 \in DOMAIN s /\ s[i + 1] = x /\ 1 \in DOMAIN s /\ i + 1 # 1
    BY <1>1, <2>1
  <2>3. QED
    BY <1>1, <2>2 DEF Elements, Distinct
<1>5. ASSUME NEW x \in Elements(s) \ {Head(s)} PROVE x \in Elements(r)
  <2>1. PICK j \in 1..Len(s) : s[j] = x
    BY DEF Elements
  <2>2. j - 1 \in 1..Len(r) /\ r[j - 1] = x
    BY <1>1, <2>1
  <2>3. QED
    BY <1>1, <2>2 DEF Elements
<1>6. QED
  BY <1>1, <1>2, <1>3, <1>4, <1>5 DEF r

\* A sequence without repetition is as long as it has elements.
LEMMA DistinctCounts ==
  ASSUME NEW s \in Seq(Timer), Distinct(s)
  PROVE  Cardinality(Elements(s)) = Len(s)
<1>1. s \in Bijection(1..Len(s), Elements(s))
  BY DEF Bijection, Injection, Surjection, IsInjective, Elements, Distinct
<1>2. ExistsBijection(1..Len(s), Elements(s))
  BY <1>1 DEF ExistsBijection
<1>3. QED
  BY <1>2, FS_CountingElements

-----------------------------------------------------------------------------
(* SetTimeout and SetInterval.                                              *)

\* A new object, or the one that was freed last, is in nobody's hands.
LEMMA AllocKeeps ==
  ASSUME TimerInv, NEW c \in Caller, NEW v \in Var, NEW t \in Timer, AllocTimer(c, v, t)
  PROVE  TimerInv'
<1>1. \/ /\ lpFirst' = lpFirst /\ t \notin allocated /\ allocated' = allocated \union {t}
     \/ /\ t \in Elements(lpFirst) /\ allocated' = allocated
        /\ lpFirst' \in Seq(Timer) /\ Distinct(lpFirst')
        /\ Elements(lpFirst') = Elements(lpFirst) \ {t}
  BY TailFacts DEF AllocTimer, TimerInv, FreeInv
<1>2. /\ t \in allocated' /\ t \notin Elements(lpFirst') /\ t \notin cSortedByIdList /\ t # current
     /\ \A d \in Caller : lpTimer[d] # t
     /\ Elements(lpFirst') \subseteq Elements(lpFirst) /\ allocated \subseteq allocated'
  BY <1>1, HandlerIsCaller DEF TimerInv, TypeInv, FreeInv, HoldInv, ThreadInv
<1>3. TypeInv'
  BY DEF TimerInv, TypeInv, AllocTimer, Move, thread, CallerPCs, Flags
<1>4. TreeInv'
  BY DEF TimerInv, TreeInv, AllocTimer, queue
<1>5. FreeInv'
  BY <1>1 DEF TimerInv, FreeInv, AllocTimer, queue, thread
<1>6. HoldInv'
  BY <1>2 DEF TimerInv, TypeInv, HoldInv, Holding, AllocTimer, Move, queue, thread
<1>7. ThreadInv'
  BY <1>2 DEF TimerInv, TypeInv, ThreadInv, AllocTimer, MayCall, Move, queue, thread
<1>8. IdInv'
  <2>1. Numbered' \subseteq Numbered /\ t \notin Numbered /\ Numbered \subseteq Timer
    BY <1>2
    DEF TimerInv, TypeInv, FreeInv, HoldInv, Holding, Numbered, AllocTimer, Move, queue, thread
  <2>2. nNextTimerId' = nNextTimerId /\ \A u \in Timer : nId'[u] = IF u = t THEN 0 ELSE nId[u]
    BY DEF AllocTimer, TimerInv, TypeInv
  <2>3. QED
    BY <2>1, <2>2 DEF TimerInv, TypeInv, IdInv
<1>9. BoundInv'
  <2>1. Drawing' = Drawing \union {c} /\ c \notin Drawing
    BY DEF TimerInv, TypeInv, AllocTimer, MayCall, Move, Drawing
  <2>2. IsFiniteSet(Drawing') /\ Cardinality(Drawing') = Cardinality(Drawing) + 1
    BY <2>1, FS_AddElement DEF TimerInv, BoundInv
  <2>3. nNextTimerId + Cardinality(Drawing) < MaxId /\ nNextTimerId' = nNextTimerId
    BY DEF AllocTimer, Drawing
  <2>4. Cardinality(Drawing) \in Nat /\ nNextTimerId \in Nat
    BY FS_CardinalityType DEF TimerInv, BoundInv, TypeInv
  <2>5. QED
    BY <2>2, <2>3, <2>4, TimedEventAssumption DEF BoundInv
<1>10. QED
  BY <1>3, <1>4, <1>5, <1>6, <1>7, <1>8, <1>9 DEF TimerInv

\* No object, no change.
LEMMA AllocFailsKeeps ==
  ASSUME TimerInv, NEW c \in Caller, NEW v \in Var, AllocFails(c, v)
  PROVE  TimerInv'
<1>1. TypeInv'
  BY DEF TimerInv, TypeInv, AllocFails, objects, callers, thread
<1>2. TreeInv'
  BY DEF TimerInv, TreeInv, AllocFails, queue
<1>3. FreeInv'
  BY DEF TimerInv, FreeInv, AllocFails, queue, objects, heap, thread
<1>4. HoldInv'
  BY DEF TimerInv, HoldInv, AllocFails, queue, objects, heap, callers, thread
<1>5. ThreadInv'
  BY DEF TimerInv, ThreadInv, AllocFails, queue, objects, heap, callers, thread
<1>6. IdInv'
  BY DEF TimerInv, IdInv, Numbered, AllocFails, queue, objects, callers, thread
<1>7. BoundInv'
  <2>1. Drawing' = Drawing /\ nNextTimerId' = nNextTimerId
    BY DEF TimerInv, TypeInv, AllocFails, Move, Drawing, callers
  <2>2. QED
    BY <2>1 DEF TimerInv, BoundInv
<1>8. QED
  BY <1>1, <1>2, <1>3, <1>4, <1>5, <1>6, <1>7 DEF TimerInv

\* The id is new.
LEMMA AssignIdKeeps ==
  ASSUME TimerInv, NEW c \in Caller, AssignId(c)
  PROVE  TimerInv'
<1>1. TypeInv'
  <2>1. nNextTimerId' \in Nat /\ nId' \in [Timer -> Nat]
    <3>1. nNextTimerId' = nNextTimerId + 1 /\ nId' = [nId EXCEPT ![lpTimer[c]] = nNextTimerId + 1]
      BY DEF AssignId
    <3>2. nNextTimerId + 1 \in Nat /\ nId \in [Timer -> Nat]
      BY DEF TimerInv, TypeInv
    <3>3. QED
      BY <3>1, <3>2
  <2>2. pc' \in [Caller -> CallerPCs]
    BY DEF TimerInv, TypeInv, AssignId, Move, CallerPCs
  <2>3. QED
    BY <2>1, <2>2 DEF TimerInv, TypeInv, AssignId, thread
<1>2. TreeInv'
  BY DEF TimerInv, TreeInv, AssignId, queue
<1>3. FreeInv'
  BY DEF TimerInv, FreeInv, AssignId, queue, heap, thread
<1>4. HoldInv'
  BY DEF TimerInv, HoldInv, Holding, Sharing, AssignId, Move, queue, heap, thread
<1>5. ThreadInv'
  BY DEF TimerInv, ThreadInv, AssignId, Move, queue, heap, thread
<1>6. IdInv'
  BY DEF TimerInv, TypeInv, FreeInv, HoldInv, Holding, IdInv, Numbered, AssignId, Move, queue,
         thread
<1>7. BoundInv'
  <2>1. Drawing' = Drawing \ {c} /\ c \in Drawing
    BY DEF TimerInv, TypeInv, AssignId, Move, Drawing
  <2>2. IsFiniteSet(Drawing') /\ Cardinality(Drawing') = Cardinality(Drawing) - 1
    BY <2>1, FS_RemoveElement DEF TimerInv, BoundInv
  <2>3. nNextTimerId' = nNextTimerId + 1
    BY DEF AssignId
  <2>4. Cardinality(Drawing) \in Nat /\ nNextTimerId \in Nat
    BY FS_CardinalityType DEF TimerInv, BoundInv, TypeInv
  <2>5. QED
    BY <2>2, <2>3, <2>4, TimedEventAssumption DEF TimerInv, BoundInv
<1>8. QED
  BY <1>1, <1>2, <1>3, <1>4, <1>5, <1>6, <1>7 DEF TimerInv

\* The timer goes from the call's hands into both indexes.
LEMMA InsertKeeps ==
  ASSUME TimerInv, NEW c \in Caller, InsertTimer(c)
  PROVE  TimerInv'
<1>1. lpTimer[c] \in Timer \ Elements(cTree)
  BY DEF InsertTimer, Move, TimerInv, TypeInv, HoldInv, Holding, TreeInv
<1>2. PICK p \in 0..Len(cTree) : InsertInto(cTree, nDue, lpTimer[c], p)
  BY DEF InsertTimer
<1>3. TypeInv'
  BY DEF TimerInv, TypeInv, InsertTimer, Move, objects, thread, CallerPCs
<1>4. TreeInv'
  BY <1>1, <1>2, InsertFacts DEF TimerInv, TreeInv, InsertTimer
<1>5. FreeInv'
  BY <1>1, HandlerIsCaller DEF TimerInv, FreeInv, HoldInv, InsertTimer, objects, heap, thread
<1>6. HoldInv'
  BY DEF TimerInv, TypeInv, HoldInv, Holding, InsertTimer, Move, objects, heap, thread
<1>7. ThreadInv'
  BY DEF TimerInv, TypeInv, ThreadInv, InsertTimer, Move, objects, heap, thread
<1>8. IdInv'
  BY DEF TimerInv, TypeInv, IdInv, Numbered, InsertTimer, Move, objects, thread
<1>9. BoundInv'
  <2>1. Drawing' = Drawing /\ nNextTimerId' = nNextTimerId
    BY DEF TimerInv, TypeInv, InsertTimer, Move, Drawing, callers
  <2>2. QED
    BY <2>1 DEF TimerInv, BoundInv
<1>10. QED
  BY <1>3, <1>4, <1>5, <1>6, <1>7, <1>8, <1>9 DEF TimerInv

\* The timer that finds no place was in the call's hands only.
LEMMA InsertFailsKeeps ==
  ASSUME TimerInv, NEW c \in Caller, InsertFails(c)
  PROVE  TimerInv'
<1>1. TypeInv'
  BY DEF TimerInv, TypeInv, InsertFails, Move, thread, CallerPCs
<1>2. TreeInv'
  BY DEF TimerInv, TreeInv, InsertFails, queue
<1>3. FreeInv'
  BY HandlerIsCaller DEF TimerInv, FreeInv, HoldInv, InsertFails, queue, thread
<1>4. HoldInv'
  BY DEF TimerInv, TypeInv, HoldInv, Holding, InsertFails, Move, queue, thread
<1>5. ThreadInv'
  BY DEF TimerInv, TypeInv, ThreadInv, InsertFails, Move, queue, thread
<1>6. IdInv'
  BY DEF TimerInv, TypeInv, IdInv, Numbered, InsertFails, Move, queue, thread
<1>7. BoundInv'
  <2>1. Drawing' = Drawing /\ nNextTimerId' = nNextTimerId
    BY DEF TimerInv, TypeInv, InsertFails, Move, Drawing, callers
  <2>2. QED
    BY <2>1 DEF TimerInv, BoundInv
<1>8. QED
  BY <1>1, <1>2, <1>3, <1>4, <1>5, <1>6, <1>7 DEF TimerInv

\* The event is no owner.
LEMMA SetAfterAddKeeps ==
  ASSUME TimerInv, NEW c \in Caller, SetChangedAfterAdd(c)
  PROVE  TimerInv'
<1>1. TypeInv'
  BY DEF TimerInv, TypeInv, SetChangedAfterAdd, Move, objects, thread, CallerPCs
<1>2. TreeInv'
  BY DEF TimerInv, TreeInv, SetChangedAfterAdd, queue
<1>3. FreeInv'
  BY DEF TimerInv, FreeInv, SetChangedAfterAdd, queue, objects, heap, thread
<1>4. HoldInv'
  BY DEF TimerInv, HoldInv, Holding, SetChangedAfterAdd, Move, queue, objects, heap, thread
<1>5. ThreadInv'
  BY DEF TimerInv, ThreadInv, SetChangedAfterAdd, Move, queue, objects, heap, thread
<1>6. IdInv'
  BY DEF TimerInv, IdInv, Numbered, SetChangedAfterAdd, Move, queue, objects, thread
<1>7. BoundInv'
  <2>1. Drawing' = Drawing /\ nNextTimerId' = nNextTimerId
    BY DEF TimerInv, TypeInv, SetChangedAfterAdd, Move, Drawing, callers
  <2>2. QED
    BY <2>1 DEF TimerInv, BoundInv
<1>8. QED
  BY <1>1, <1>2, <1>3, <1>4, <1>5, <1>6, <1>7 DEF TimerInv

-----------------------------------------------------------------------------
(* Clear.                                                                   *)

\* The id alone gives no hold of the timer.
LEMMA TakeIdKeeps ==
  ASSUME TimerInv, NEW c \in Caller, NEW v \in Var, TakeId(c, v)
  PROVE  TimerInv'
<1>1. TypeInv'
  BY DEF TimerInv, TypeInv, TakeId, Move, objects, thread, CallerPCs
<1>2. TreeInv'
  BY DEF TimerInv, TreeInv, TakeId, queue
<1>3. FreeInv'
  BY DEF TimerInv, FreeInv, TakeId, queue, objects, heap, thread
<1>4. HoldInv'
  BY DEF TimerInv, HoldInv, Holding, TakeId, Move, queue, objects, heap, thread
<1>5. ThreadInv'
  BY DEF TimerInv, ThreadInv, TakeId, MayCall, Move, queue, objects, heap, thread
<1>6. IdInv'
  BY DEF TimerInv, IdInv, Numbered, TakeId, Move, queue, objects, heap, thread
<1>7. BoundInv'
  <2>1. Drawing' = Drawing /\ nNextTimerId' = nNextTimerId
    BY DEF TakeId, Move, Drawing
  <2>2. QED
    BY <2>1 DEF TimerInv, BoundInv
<1>8. QED
  BY <1>1, <1>2, <1>3, <1>4, <1>5, <1>6, <1>7 DEF TimerInv

\* A timer that is over is not found.
LEMMA FindNothingKeeps ==
  ASSUME TimerInv, NEW c \in Caller, FindNothing(c)
  PROVE  TimerInv'
<1>1. TypeInv'
  BY DEF TimerInv, TypeInv, FindNothing, Move, objects, thread, CallerPCs
<1>2. TreeInv'
  BY DEF TimerInv, TreeInv, FindNothing, queue
<1>3. FreeInv'
  BY DEF TimerInv, FreeInv, FindNothing, queue, objects, heap, thread
<1>4. HoldInv'
  BY DEF TimerInv, HoldInv, Holding, FindNothing, Move, queue, objects, heap, thread
<1>5. ThreadInv'
  BY DEF TimerInv, ThreadInv, FindNothing, Move, queue, objects, heap, thread
<1>6. IdInv'
  BY DEF TimerInv, IdInv, Numbered, FindNothing, Move, queue, objects, heap, thread
<1>7. BoundInv'
  <2>1. Drawing' = Drawing /\ nNextTimerId' = nNextTimerId
    BY DEF TimerInv, TypeInv, FindNothing, Move, Drawing, callers
  <2>2. QED
    BY <2>1 DEF TimerInv, BoundInv
<1>8. QED
  BY <1>1, <1>2, <1>3, <1>4, <1>5, <1>6, <1>7 DEF TimerInv

\* The timer goes from both indexes into the call's hands.
LEMMA CancelKeeps ==
  ASSUME TimerInv, NEW c \in Caller, NEW t \in Timer, CancelTimer(c, t)
  PROVE  TimerInv'
<1>1. TypeInv'
  BY DEF TimerInv, TypeInv, CancelTimer, Move, thread, CallerPCs, Flags
<1>2. TreeInv'
  BY RemoveKeepsTree DEF TimerInv, CancelTimer
<1>3. FreeInv'
  BY DEF TimerInv, FreeInv, CancelTimer, heap, thread
<1>4. HoldInv'
  BY HandlerIsCaller
  DEF TimerInv, TypeInv, FreeInv, HoldInv, Holding, Sharing, ThreadInv, CancelTimer, Move, heap,
      thread
<1>5. ThreadInv'
  BY HandlerIsCaller DEF TimerInv, TypeInv, HoldInv, ThreadInv, CancelTimer, Move, heap, thread
<1>6. IdInv'
  <2>1. Numbered' \subseteq Numbered
    BY DEF TimerInv, TypeInv, Numbered, CancelTimer, Move, thread
  <2>2. QED
    BY <2>1 DEF TimerInv, IdInv, CancelTimer
<1>7. BoundInv'
  <2>1. Drawing' = Drawing /\ nNextTimerId' = nNextTimerId
    BY DEF TimerInv, TypeInv, CancelTimer, Move, Drawing, callers
  <2>2. QED
    BY <2>1 DEF TimerInv, BoundInv
<1>8. QED
  BY <1>1, <1>2, <1>3, <1>4, <1>5, <1>6, <1>7 DEF TimerInv

\* A call from the callback lets go of the timer, any other keeps it.
LEMMA SetAfterCancelKeeps ==
  ASSUME TimerInv, NEW c \in Caller, SetChangedAfterCancel(c)
  PROVE  TimerInv'
<1>1. TypeInv'
  BY DEF TimerInv, TypeInv, SetChangedAfterCancel, Move, objects, thread, CallerPCs
<1>2. TreeInv'
  BY DEF TimerInv, TreeInv, SetChangedAfterCancel, queue
<1>3. FreeInv'
  BY DEF TimerInv, FreeInv, SetChangedAfterCancel, queue, objects, heap, thread
<1>4. HoldInv'
  BY DEF TimerInv, TypeInv, HoldInv, Holding, Sharing, SetChangedAfterCancel, Move, queue,
         objects, heap, thread
<1>5. ThreadInv'
  BY HandlerIsCaller
  DEF TimerInv, TypeInv, Holding, Sharing, ThreadInv, SetChangedAfterCancel, Move, queue, objects,
      heap, thread
<1>6. IdInv'
  <2>1. Numbered' \subseteq Numbered
    BY DEF TimerInv, TypeInv, Numbered, SetChangedAfterCancel, Move, queue, thread
  <2>2. QED
    BY <2>1 DEF TimerInv, IdInv, SetChangedAfterCancel, objects
<1>7. BoundInv'
  <2>1. Drawing' = Drawing /\ nNextTimerId' = nNextTimerId
    BY DEF TimerInv, TypeInv, SetChangedAfterCancel, Move, Drawing, callers
  <2>2. QED
    BY <2>1 DEF TimerInv, BoundInv
<1>8. QED
  BY <1>1, <1>2, <1>3, <1>4, <1>5, <1>6, <1>7 DEF TimerInv

\* A timer that does not run is not the one that fires.
LEMMA WaitKeeps ==
  ASSUME TimerInv, NEW c \in Caller, WaitWhileRunning(c)
  PROVE  TimerInv'
<1>1. TypeInv'
  BY DEF TimerInv, TypeInv, WaitWhileRunning, Move, objects, thread, CallerPCs
<1>2. TreeInv'
  BY DEF TimerInv, TreeInv, WaitWhileRunning, queue
<1>3. FreeInv'
  BY DEF TimerInv, FreeInv, WaitWhileRunning, queue, objects, heap, thread
<1>4. HoldInv'
  BY DEF TimerInv, HoldInv, Holding, ThreadInv, WaitWhileRunning, Move, queue, objects, heap, thread
<1>5. ThreadInv'
  BY DEF TimerInv, ThreadInv, WaitWhileRunning, Move, queue, objects, heap, thread
<1>6. IdInv'
  BY DEF TimerInv, IdInv, Numbered, WaitWhileRunning, Move, queue, objects, thread
<1>7. BoundInv'
  <2>1. Drawing' = Drawing /\ nNextTimerId' = nNextTimerId
    BY DEF TimerInv, TypeInv, WaitWhileRunning, Move, Drawing, callers
  <2>2. QED
    BY <2>1 DEF TimerInv, BoundInv
<1>8. QED
  BY <1>1, <1>2, <1>3, <1>4, <1>5, <1>6, <1>7 DEF TimerInv

\* The call that holds the canceled timer frees it.
LEMMA FreeCanceledKeeps ==
  ASSUME TimerInv, NEW c \in Caller, FreeCanceled(c)
  PROVE  TimerInv'
<1>1. /\ lpTimer[c] \in Timer \ Elements(lpFirst)
     /\ lpTimer[c] # current /\ lpTimer[c] \notin cSortedByIdList
  BY DEF FreeCanceled, Move, TimerInv, TypeInv, HoldInv, Holding, Sharing
<1>2. /\ lpFirst' \in Seq(Timer) /\ Distinct(lpFirst')
     /\ \/ Elements(lpFirst') = Elements(lpFirst) \union {lpTimer[c]} /\ allocated' = allocated
        \/ Elements(lpFirst') = Elements(lpFirst) /\ allocated' = allocated \ {lpTimer[c]}
  BY <1>1, FreeFacts DEF FreeCanceled, TimerInv, FreeInv
<1>3. TypeInv'
  BY DEF TimerInv, TypeInv, FreeCanceled, Move, thread, CallerPCs
<1>4. TreeInv'
  BY DEF TimerInv, TreeInv, FreeCanceled, queue
<1>5. FreeInv'
  BY <1>1, <1>2, HandlerIsCaller DEF TimerInv, FreeInv, HoldInv, FreeCanceled, queue, thread
<1>6. HoldInv'
  BY <1>2 DEF TimerInv, TypeInv, HoldInv, Holding, FreeCanceled, Move, queue, thread
<1>7. ThreadInv'
  BY <1>1, <1>2 DEF TimerInv, TypeInv, ThreadInv, FreeCanceled, Move, queue, thread
<1>8. IdInv'
  BY DEF TimerInv, IdInv, Numbered, FreeCanceled, Move, queue, thread
<1>9. BoundInv'
  <2>1. Drawing' = Drawing /\ nNextTimerId' = nNextTimerId
    BY DEF TimerInv, TypeInv, FreeCanceled, Move, Drawing, callers
  <2>2. QED
    BY <2>1 DEF TimerInv, BoundInv
<1>10. QED
  BY <1>3, <1>4, <1>5, <1>6, <1>7, <1>8, <1>9 DEF TimerInv

-----------------------------------------------------------------------------
(* The handler's thread.                                                    *)

\* The thread wakes with no timer in its hands.
LEMMA WakeKeeps ==
  ASSUME TimerInv, Wake \/ ResetEvent \/ PickNone
  PROVE  TimerInv'
<1>1. TypeInv'
  BY DEF TimerInv, TypeInv, Wake, ResetEvent, PickNone, objects, callers, ThreadPCs
<1>2. TreeInv'
  BY DEF TimerInv, TreeInv, Wake, ResetEvent, PickNone, queue
<1>3. FreeInv'
  BY DEF TimerInv, FreeInv, Wake, ResetEvent, PickNone, queue, objects, heap
<1>4. HoldInv'
  BY DEF TimerInv, HoldInv, Wake, ResetEvent, PickNone, queue, objects, heap, callers
<1>5. ThreadInv'
  BY DEF TimerInv, ThreadInv, Wake, ResetEvent, PickNone, queue, objects, callers
<1>6. IdInv'
  BY DEF TimerInv, Holding, IdInv, Numbered, Wake, ResetEvent, PickNone, queue, objects, callers
<1>7. BoundInv'
  <2>1. Drawing' = Drawing /\ nNextTimerId' = nNextTimerId
    BY DEF Wake, ResetEvent, PickNone, Drawing, callers
  <2>2. QED
    BY <2>1 DEF TimerInv, BoundInv
<1>8. QED
  BY <1>1, <1>2, <1>3, <1>4, <1>5, <1>6, <1>7 DEF TimerInv

\* The timer that fires stays in both indexes.
LEMMA PickKeeps ==
  ASSUME TimerInv, NEW t \in Timer, PickTimer(t)
  PROVE  TimerInv'
<1>1. t \in cSortedByIdList
  BY DEF PickTimer, Due, TimerInv, TreeInv, Elements
<1>2. TypeInv'
  BY DEF TimerInv, TypeInv, PickTimer, callers, ThreadPCs, Flags
<1>3. TreeInv'
  BY DEF TimerInv, TreeInv, PickTimer, queue
<1>4. FreeInv'
  BY <1>1 DEF TimerInv, FreeInv, PickTimer, queue, heap
<1>5. HoldInv'
  BY <1>1 DEF TimerInv, HoldInv, PickTimer, queue, heap, callers
<1>6. ThreadInv'
  BY <1>1, HandlerIsCaller
  DEF TimerInv, TypeInv, FreeInv, HoldInv, ThreadInv, PickTimer, queue, heap, callers
<1>7. IdInv'
  BY <1>1 DEF TimerInv, IdInv, Numbered, PickTimer, queue, callers
<1>8. BoundInv'
  <2>1. Drawing' = Drawing /\ nNextTimerId' = nNextTimerId
    BY DEF TimerInv, TypeInv, PickTimer, Move, Drawing, callers
  <2>2. QED
    BY <2>1 DEF TimerInv, BoundInv
<1>9. QED
  BY <1>2, <1>3, <1>4, <1>5, <1>6, <1>7, <1>8 DEF TimerInv

\* The callback returns after the calls it made.
LEMMA ReturnKeeps ==
  ASSUME TimerInv, CallbackReturns
  PROVE  TimerInv'
<1>1. TypeInv'
  BY DEF TimerInv, TypeInv, CallbackReturns, objects, callers, ThreadPCs
<1>2. TreeInv'
  BY DEF TimerInv, TreeInv, CallbackReturns, queue
<1>3. FreeInv'
  BY DEF TimerInv, FreeInv, CallbackReturns, queue, objects, heap
<1>4. HoldInv'
  BY DEF TimerInv, HoldInv, CallbackReturns, queue, objects, heap, callers
<1>5. ThreadInv'
  BY DEF TimerInv, ThreadInv, CallbackReturns, queue, objects, heap, callers
<1>6. IdInv'
  BY DEF TimerInv, IdInv, Numbered, CallbackReturns, queue, objects, callers
<1>7. BoundInv'
  <2>1. Drawing' = Drawing /\ nNextTimerId' = nNextTimerId
    BY DEF TimerInv, TypeInv, CallbackReturns, Move, Drawing, callers
  <2>2. QED
    BY <2>1 DEF TimerInv, BoundInv
<1>8. QED
  BY <1>1, <1>2, <1>3, <1>4, <1>5, <1>6, <1>7 DEF TimerInv

\* The thread frees a canceled timer exactly when its callback canceled it.
LEMMA AfterCanceledKeeps ==
  ASSUME TimerInv, AfterCanceled
  PROVE  TimerInv'
<1>1. /\ current \in allocated \ (cSortedByIdList \union Elements(lpFirst)) /\ current \in Timer
     /\ pc[Handler] = "idle"
  BY HandlerIsCaller DEF AfterCanceled, TimerInv, TypeInv, FreeInv, ThreadInv
<1>2. "CanceledInCallback" \in nFlags[current] => \A c \in Caller : lpTimer[c] # current
  BY <1>1, HandlerIsCaller DEF TimerInv, TypeInv, HoldInv, ThreadInv, Sharing
<1>3. \/ UNCHANGED <<allocated, lpFirst>>
     \/ /\ "CanceledInCallback" \in nFlags[current]
        /\ /\ lpFirst' \in Seq(Timer) /\ Distinct(lpFirst')
        /\ \/ Elements(lpFirst') = Elements(lpFirst) \union {current} /\ allocated' = allocated
           \/ Elements(lpFirst') = Elements(lpFirst) /\ allocated' = allocated \ {current}
  BY <1>1, FreeFacts DEF AfterCanceled, TimerInv, FreeInv, heap
<1>4. TypeInv'
  BY DEF TimerInv, TypeInv, AfterCanceled, BackToPick, callers, ThreadPCs
<1>5. TreeInv'
  BY DEF TimerInv, TreeInv, AfterCanceled, queue
<1>6. FreeInv'
  <2>1. current' = None /\ cSortedByIdList' = cSortedByIdList
    BY DEF AfterCanceled, BackToPick, queue
  <2>2. QED
    BY <1>1, <1>3, <2>1, HandlerIsCaller DEF TimerInv, FreeInv
<1>7. HoldInv'
  BY <1>2, <1>3 DEF TimerInv, HoldInv, AfterCanceled, BackToPick, queue, callers
<1>8. ThreadInv'
  BY DEF TimerInv, ThreadInv, AfterCanceled, BackToPick, queue, callers
<1>9. IdInv'
  BY DEF TimerInv, IdInv, Numbered, AfterCanceled, BackToPick, queue, callers
<1>10. BoundInv'
  <2>1. Drawing' = Drawing /\ nNextTimerId' = nNextTimerId
    BY DEF AfterCanceled, Drawing, callers
  <2>2. QED
    BY <2>1 DEF TimerInv, BoundInv
<1>11. QED
  BY <1>4, <1>5, <1>6, <1>7, <1>8, <1>9, <1>10 DEF TimerInv

\* A timer that is over leaves both indexes and is freed.
LEMMA AfterLastKeeps ==
  ASSUME TimerInv, AfterLast
  PROVE  TimerInv'
<1>1. current \in Timer \ Elements(lpFirst) /\ current \in cSortedByIdList /\ pc[Handler] = "idle"
  BY HandlerIsCaller DEF AfterLast, TimerInv, TypeInv, FreeInv, ThreadInv
<1>2. /\ lpFirst' \in Seq(Timer) /\ Distinct(lpFirst')
     /\ \/ Elements(lpFirst') = Elements(lpFirst) \union {current} /\ allocated' = allocated
        \/ Elements(lpFirst') = Elements(lpFirst) /\ allocated' = allocated \ {current}
  BY <1>1, FreeFacts DEF AfterLast, TimerInv, FreeInv
<1>3. \A c \in Caller : lpTimer[c] # current
  BY <1>1, HandlerIsCaller DEF TimerInv, TypeInv, HoldInv
<1>4. TypeInv'
  BY DEF TimerInv, TypeInv, AfterLast, BackToPick, callers, ThreadPCs
<1>5. TreeInv'
  BY <1>1, RemoveKeepsTree DEF TimerInv, AfterLast
<1>6. FreeInv'
  BY <1>1, <1>2, HandlerIsCaller DEF TimerInv, FreeInv, AfterLast, BackToPick
<1>7. HoldInv'
  BY <1>1, <1>2 DEF TimerInv, HoldInv, AfterLast, BackToPick, callers
<1>8. ThreadInv'
  BY DEF TimerInv, ThreadInv, AfterLast, BackToPick, callers
<1>9. IdInv'
  BY DEF TimerInv, IdInv, Numbered, AfterLast, BackToPick, callers
<1>10. BoundInv'
  <2>1. Drawing' = Drawing /\ nNextTimerId' = nNextTimerId
    BY DEF AfterLast, Drawing, callers
  <2>2. QED
    BY <2>1 DEF TimerInv, BoundInv
<1>11. QED
  BY <1>4, <1>5, <1>6, <1>7, <1>8, <1>9, <1>10 DEF TimerInv

\* A timer that fires again moves in the tree.
LEMMA AfterIntervalKeeps ==
  ASSUME TimerInv, AfterInterval
  PROVE  TimerInv'
<1>1. current \in Timer /\ current \in cSortedByIdList /\ pc[Handler] = "idle"
  BY HandlerIsCaller DEF AfterInterval, TimerInv, TypeInv, ThreadInv
<1>2. current \in Elements(cTree)
  BY <1>1 DEF TimerInv, TreeInv
<1>3. /\ Without(cTree, current) \in Seq(Timer) /\ Distinct(Without(cTree, current))
     /\ Elements(Without(cTree, current)) = Elements(cTree) \ {current}
     /\ Len(Without(cTree, current)) = Len(cTree) - 1
  BY <1>2, WithoutFacts DEF TimerInv, TreeInv
<1>4. PICK p \in 0..Len(Without(cTree, current)) :
       InsertInto(Without(cTree, current), nDue - 1, current, p)
  BY DEF AfterInterval
<1>5. \A c \in Caller : lpTimer[c] # current
  BY <1>1, HandlerIsCaller DEF TimerInv, TypeInv, HoldInv
<1>6. TypeInv'
  BY DEF TimerInv, TypeInv, AfterInterval, BackToPick, callers, ThreadPCs
<1>7. TreeInv'
  <2>1. nDue - 1 \in Int /\ nDue - 1 <= Len(Without(cTree, current))
    BY <1>3 DEF TimerInv, TreeInv
  <2>2. current \in Timer \ Elements(Without(cTree, current))
    BY <1>1, <1>3
  <2>3. /\ cTree' \in Seq(Timer) /\ Distinct(cTree')
        /\ Elements(cTree') = Elements(Without(cTree, current)) \union {current}
        /\ nDue' \in Int /\ nDue' <= Len(cTree')
    BY <1>3, <1>4, <2>1, <2>2, InsertFacts
  <2>4. QED
    BY <1>2, <1>3, <2>3 DEF TimerInv, TreeInv, AfterInterval
<1>8. FreeInv'
  BY HandlerIsCaller DEF TimerInv, FreeInv, AfterInterval, BackToPick, heap
<1>9. HoldInv'
  BY DEF TimerInv, HoldInv, AfterInterval, BackToPick, heap, callers
<1>10. ThreadInv'
  BY DEF TimerInv, TypeInv, ThreadInv, AfterInterval, BackToPick, callers
<1>11. IdInv'
  BY DEF TimerInv, IdInv, Numbered, AfterInterval, BackToPick, heap, callers
<1>12. BoundInv'
  <2>1. Drawing' = Drawing /\ nNextTimerId' = nNextTimerId
    BY DEF AfterInterval, Drawing, callers
  <2>2. QED
    BY <2>1 DEF TimerInv, BoundInv
<1>13. QED
  BY <1>6, <1>7, <1>8, <1>9, <1>10, <1>11, <1>12 DEF TimerInv

\* Time moves nothing.
LEMMA TimeKeeps ==
  ASSUME TimerInv, TimePasses
  PROVE  TimerInv'
<1>1. TypeInv'
  BY DEF TimerInv, TypeInv, TimePasses, objects, callers, thread
<1>2. TreeInv'
  BY DEF TimerInv, TreeInv, TimePasses
<1>3. FreeInv'
  BY DEF TimerInv, FreeInv, TimePasses, objects, heap, thread
<1>4. HoldInv'
  BY DEF TimerInv, HoldInv, TimePasses, objects, heap, callers, thread
<1>5. ThreadInv'
  BY DEF TimerInv, ThreadInv, TimePasses, objects, heap, callers, thread
<1>6. IdInv'
  BY DEF TimerInv, IdInv, Numbered, TimePasses, objects, callers, thread
<1>7. BoundInv'
  <2>1. Drawing' = Drawing /\ nNextTimerId' = nNextTimerId
    BY DEF TimerInv, TypeInv, TimePasses, Move, Drawing, callers
  <2>2. QED
    BY <2>1 DEF TimerInv, BoundInv
<1>8. QED
  BY <1>1, <1>2, <1>3, <1>4, <1>5, <1>6, <1>7 DEF TimerInv

-----------------------------------------------------------------------------
(* The invariant.                                                           *)

LEMMA InitTimerInv == Init => TimerInv
<1> SUFFICES ASSUME Init PROVE TimerInv
  OBVIOUS
<1>1. TypeInv /\ TreeInv /\ FreeInv /\ HoldInv /\ ThreadInv /\ IdInv
  BY HandlerIsCaller
  DEF Init, TypeInv, TreeInv, FreeInv, HoldInv, ThreadInv, IdInv, Numbered, Holding, CallerPCs,
      ThreadPCs, Distinct, Elements
<1>2. BoundInv
  <2>1. Drawing = {} /\ nNextTimerId = 0
    BY DEF Init, Drawing
  <2>2. QED
    BY <2>1, FS_EmptySet, TimedEventAssumption DEF BoundInv
<1>3. QED
  BY <1>1, <1>2 DEF TimerInv

LEMMA NextTimerInv == TimerInv /\ [Next]_vars => TimerInv'
<1> SUFFICES ASSUME TimerInv, [Next]_vars PROVE TimerInv'
  OBVIOUS
<1>1. ASSUME NEW c \in Caller, NEW v \in Var, AllocFails(c, v) \/ TakeId(c, v) PROVE TimerInv'
  BY <1>1, AllocFailsKeeps, TakeIdKeeps
<1>2. ASSUME NEW c \in Caller, NEW v \in Var, NEW t \in Timer, AllocTimer(c, v, t) PROVE TimerInv'
  BY <1>2, AllocKeeps
<1>3. ASSUME NEW c \in Caller, CallerStep(c) PROVE TimerInv'
  BY <1>3, AssignIdKeeps, InsertKeeps, InsertFailsKeeps, SetAfterAddKeeps, FindNothingKeeps,
     CancelKeeps, SetAfterCancelKeeps, WaitKeeps, FreeCanceledKeeps
  DEF CallerStep
<1>4. CASE ThreadStep
  BY <1>4, WakeKeeps, PickKeeps, AfterCanceledKeeps, AfterLastKeeps, AfterIntervalKeeps
  DEF ThreadStep
<1>5. CASE CallbackReturns
  BY <1>5, ReturnKeeps
<1>6. CASE TimePasses
  BY <1>6, TimeKeeps
<1>7. CASE UNCHANGED vars
  BY <1>7
  DEF TimerInv, TypeInv, TreeInv, FreeInv, HoldInv, ThreadInv, IdInv, Numbered, BoundInv, Drawing,
      vars, queue, heap, objects, callers, thread
<1>8. QED
  BY <1>1, <1>2, <1>3, <1>4, <1>5, <1>6, <1>7 DEF Next

\* Every reachable state of the handler satisfies the invariant above: who has
\* which object in his hands in AddTimer, RemoveTimer and ProcessQueue, and what
\* the flags of the object say of it.
THEOREM TimerInvariant == Spec => []TimerInv
<1>1. QED
  BY InitTimerInv, NextTimerInv, PTL DEF Spec

\* However many threads and callbacks set and clear timers, each CTimer has one
\* owner, or the thread that fires it and the call that waits for it: it is
\* freed once, and by the last who uses it (RemoveTimer, ProcessQueue).
THEOREM TimersHaveOneOwner == Spec => []OneOwner
<1>1. TimerInv => OneOwner
  <2> SUFFICES ASSUME TimerInv PROVE OneOwner
    OBVIOUS
  <2>1. Cardinality(Elements(lpFirst)) = Len(lpFirst) /\ Cardinality(Elements(cTree)) = Len(cTree)
    BY DistinctCounts DEF TimerInv, FreeInv, TreeInv
  <2>2. Elements(cTree) = cSortedByIdList
    BY DEF TimerInv, TreeInv
  <2>3. Elements(lpFirst) \intersect
          (cSortedByIdList \union {current}
             \union {lpTimer[c] : c \in {d \in Caller : lpTimer[d] # None}}) = {}
    BY DEF TimerInv, FreeInv, HoldInv
  <2>4. /\ cSortedByIdList \subseteq allocated /\ Elements(lpFirst) \subseteq allocated
        /\ current \in allocated \union {None}
    BY DEF TimerInv, FreeInv, ThreadInv
  <2>5. ASSUME NEW c \in Caller, lpTimer[c] # None
        PROVE  /\ lpTimer[c] \in allocated \ cSortedByIdList
               /\ \A d \in Caller \ {c} : lpTimer[c] # lpTimer[d]
               /\ lpTimer[c] = current => pc[c] \in {"set_wait", "set_leave", "wait"}
    BY <2>5 DEF TimerInv, HoldInv, Sharing
  <2>6. QED
    BY <2>1, <2>2, <2>3, <2>4, <2>5 DEF OneOwner
<1>2. QED
  BY <1>1, TimerInvariant, PTL

\* The list by id and the tree by time agree whenever the queue's lock is free
\* (the MX_ASSERT of ProcessQueue), and hold no timer that was cleared.
THEOREM IndexesHoldTheSame == Spec => []IndexesAgree
<1>1. TimerInv => IndexesAgree
  BY DEF TimerInv, TreeInv, ThreadInv, IdInv, Numbered, IndexesAgree
<1>2. QED
  BY <1>1, TimerInvariant, PTL

-----------------------------------------------------------------------------
(* The refinement: what each step is to TimerService.                       *)

Rec(t) == [id |-> nId[t], oneShot |-> "OneShot" \in nFlags[t], phase |-> Phase(t)]

\* The timers that are alive, seen from the list by id.
AliveView ==
  /\ Alive = cSortedByIdList \union ({current} \ {None})
  /\ Alive \subseteq Numbered /\ Alive \subseteq Timer
  /\ AliveTimers = {Rec(t) : t \in Alive}
  /\ \A t : Phase(t) = IF t # current THEN "armed"
                       ELSE IF t \in cSortedByIdList THEN "firing" ELSE "cleared"

LEMMA View == TimerInv => AliveView
<1> SUFFICES ASSUME TimerInv PROVE AliveView
  OBVIOUS
<1>1. Elements(cTree) = cSortedByIdList /\ cSortedByIdList \subseteq Timer
  BY DEF TimerInv, TreeInv, FreeInv
<1>2. Alive = cSortedByIdList \union ({current} \ {None})
  BY <1>1 DEF Alive
<1>3. Alive \subseteq Numbered /\ Alive \subseteq Timer
  BY <1>1, <1>2 DEF Numbered, TimerInv, TypeInv
<1>4. QED
  BY <1>1, <1>2, <1>3 DEF AliveTimers, Rec, Phase, AliveView

LEMMA ViewNext == TimerInv' => AliveView'
  BY View, PTL

\* Their ids are the ids of the service, and are different.
LEMMA IdsDiffer ==
  ASSUME TimerInv
  PROVE  /\ \A t, u \in Numbered : nId[t] = nId[u] => t = u
         /\ \A t, u \in Alive : Rec(t) = Rec(u) => t = u
         /\ \A t \in Alive : Rec(t).id = nId[t] /\ Rec(t).phase = Phase(t)
<1>1. \A t, u \in Numbered : nId[t] = nId[u] => t = u
  BY DEF TimerInv, IdInv
<1>2. \A t : Rec(t).id = nId[t] /\ Rec(t).phase = Phase(t)
  BY DEF Rec
<1>3. \A t, u \in Alive : Rec(t) = Rec(u) => t = u
  BY <1>1, <1>2, View DEF AliveView
<1>4. QED
  BY <1>1, <1>2, <1>3

LEMMA NumberedRange ==
  ASSUME TimerInv, NEW t \in Numbered, t \in Timer
  PROVE  nId[t] \in 1..MaxId /\ nId[t] \in 1..nNextTimerId
<1>1. nId[t] \in Nat /\ nId[t] # 0 /\ nId[t] <= nNextTimerId /\ nNextTimerId \in Nat
  BY DEF TimerInv, TypeInv, IdInv
<1>2. nNextTimerId <= MaxId
  <2>1. Cardinality(Drawing) \in Nat /\ nNextTimerId + Cardinality(Drawing) <= MaxId
    BY FS_CardinalityType DEF TimerInv, BoundInv
  <2>2. QED
    BY <1>1, <2>1, TimedEventAssumption
<1>3. QED
  BY <1>1, <1>2, TimedEventAssumption

\* A caller that inserts a timer or waits for one holds it.
LEMMA Hands ==
  ASSUME TimerInv
  PROVE  /\ \A c \in Adding \union Waiters :
              lpTimer[c] \in Timer /\ lpTimer[c] \in Numbered /\ lpTimer[c] \notin cSortedByIdList
         /\ \A c \in Adding : lpTimer[c] \notin Alive
         /\ \A c, d \in Adding \union Waiters : lpTimer[c] = lpTimer[d] => c = d
         /\ Adding \intersect Waiters = {}
<1>1. Adding \subseteq Caller /\ Waiters \subseteq Caller
  BY DEF Adding, Waiters, Caller
<1>2. ASSUME NEW c \in Adding \union Waiters
      PROVE  /\ lpTimer[c] # None /\ lpTimer[c] \in Timer
             /\ lpTimer[c] \in Numbered /\ lpTimer[c] \notin cSortedByIdList
  <2>1. pc[c] \in {"add_insert", "set_wait", "wait"} /\ c \in Caller
    BY <1>1 DEF Adding, Waiters
  <2>2. lpTimer[c] # None /\ lpTimer[c] \in Timer
    BY <2>1 DEF TimerInv, TypeInv, HoldInv, Holding
  <2>3. QED
    BY <2>1, <2>2 DEF TimerInv, HoldInv, Numbered
<1>3. \A c, d \in Adding \union Waiters : lpTimer[c] = lpTimer[d] => c = d
  BY <1>1, <1>2 DEF TimerInv, HoldInv
<1>4. \A c \in Adding : lpTimer[c] # current
  BY <1>1, <1>2 DEF TimerInv, HoldInv, Sharing, Adding
<1>5. \A c \in Adding : lpTimer[c] \notin Alive
  BY <1>2, <1>4, View DEF AliveView
<1>6. Adding \intersect Waiters = {}
  BY DEF Adding, Waiters
<1>7. QED
  BY <1>2, <1>3, <1>5, <1>6

\* What leaves the three parts of the service's state alone.
LEMMA SameTimers ==
  ASSUME TimerInv, TimerInv', cSortedByIdList' = cSortedByIdList, current' = current,
         \A t \in Alive : /\ nId'[t] = nId[t]
                         /\ (("OneShot" \in nFlags'[t]) = ("OneShot" \in nFlags[t]))
  PROVE  AliveTimers' = AliveTimers
<1>1. Alive' = Alive
  BY View, ViewNext DEF AliveView
<1>2. \A t \in Alive : Phase(t)' = Phase(t)
  BY View, ViewNext DEF AliveView
<1>3. \A t \in Alive : Rec(t)' = Rec(t)
  BY <1>2 DEF Rec
<1>4. AliveTimers = {Rec(t) : t \in Alive} /\ AliveTimers' = {Rec(t)' : t \in Alive'}
  BY View, ViewNext DEF AliveView
<1>5. QED
  BY <1>1, <1>3, <1>4

LEMMA SameUsed ==
  ASSUME nNextTimerId' = nNextTimerId, Adding' = Adding,
         \A c \in Adding : nId'[lpTimer'[c]] = nId[lpTimer[c]]
  PROVE  UsedIds' = UsedIds
<1>1. {nId[lpTimer[c]] : c \in Adding}' = {nId[lpTimer[c]] : c \in Adding}
  OBVIOUS
<1>2. QED
  BY <1>1 DEF UsedIds

LEMMA SameAwaited ==
  ASSUME Waiters' = Waiters, \A c \in Waiters : nId'[lpTimer'[c]] = nId[lpTimer[c]]
  PROVE  AwaitedIds' = AwaitedIds
  BY DEF AwaitedIds

\* A timer that is no longer alive, and one whose record changes.
LEMMA Leaves ==
  ASSUME TimerInv, TimerInv', NEW t \in Alive, Alive' = Alive \ {t},
         \A u \in Alive \ {t} : Rec(u)' = Rec(u)
  PROVE  AliveTimers' = AliveTimers \ {Rec(t)}
<1>1. AliveTimers = {Rec(u) : u \in Alive} /\ AliveTimers' = {Rec(u)' : u \in Alive'}
  BY View, ViewNext DEF AliveView
<1>2. \A u \in Alive : Rec(u) = Rec(t) => u = t
  BY IdsDiffer
<1>3. QED
  BY <1>1, <1>2

LEMMA Changes ==
  ASSUME TimerInv, TimerInv', NEW t \in Alive, Alive' = Alive,
         \A u \in Alive \ {t} : Rec(u)' = Rec(u),
         nId'[t] = nId[t], ("OneShot" \in nFlags'[t]) = ("OneShot" \in nFlags[t])
  PROVE  AliveTimers' = (AliveTimers \ {Rec(t)}) \union {[Rec(t) EXCEPT !.phase = Phase(t)']}
<1>1. AliveTimers = {Rec(u) : u \in Alive} /\ AliveTimers' = {Rec(u)' : u \in Alive'}
  BY View, ViewNext DEF AliveView
<1>2. \A u \in Alive : Rec(u) = Rec(t) => u = t
  BY IdsDiffer
<1>3. Rec(t)' = [Rec(t) EXCEPT !.phase = Phase(t)']
  BY DEF Rec
<1>4. QED
  BY <1>1, <1>2, <1>3

\* The object that is set up is no timer yet.
LEMMA AllocIsQuiet ==
  ASSUME TimerInv, TimerInv', NEW c \in Caller, NEW v \in Var, NEW t \in Timer, AllocTimer(c, v, t)
  PROVE  UNCHANGED Service!vars
<1>0. t \notin Alive /\ \A d \in Caller : lpTimer[d] # t
  <2>1. t \in Elements(lpFirst) \/ t \notin allocated
    BY TailFacts DEF AllocTimer, TimerInv, FreeInv
  <2>2. \A d \in Caller : lpTimer[d] # t
    BY <2>1, HandlerIsCaller DEF TimerInv, TypeInv, HoldInv
  <2>3. t \notin cSortedByIdList /\ t # current
    BY <2>1, HandlerIsCaller DEF TimerInv, TypeInv, FreeInv, ThreadInv
  <2>4. QED
    BY <2>2, <2>3, View DEF AliveView
<1>1. AliveTimers' = AliveTimers
  <2>1. \A u \in Alive : u \in Timer
    BY View DEF AliveView
  <2>2. QED
    BY <1>0, <2>1, SameTimers DEF AllocTimer, queue, thread, TimerInv, TypeInv
<1>2. UsedIds' = UsedIds
  BY <1>0, Hands, SameUsed DEF TimerInv, TypeInv, Adding, AllocTimer, MayCall, Move
<1>3. AwaitedIds' = AwaitedIds
  BY <1>0, SameAwaited DEF Waiters, Caller, AllocTimer, Move
<1>4. QED
  BY <1>1, <1>2, <1>3 DEF Service!vars

\* A call that finds nothing, and the steps before and after the critical sections.
LEMMA CallsAreQuiet ==
  ASSUME TimerInv, TimerInv', NEW c \in Caller,
         \/ \E v \in Var : AllocFails(c, v) \/ TakeId(c, v)
         \/ SetChangedAfterAdd(c) \/ FindNothing(c) \/ SetChangedAfterCancel(c)
  PROVE  UNCHANGED Service!vars
<1>1. AliveTimers' = AliveTimers
  BY SameTimers
  DEF AllocFails, TakeId, SetChangedAfterAdd, FindNothing, SetChangedAfterCancel, queue, objects,
      thread
<1>2. UsedIds' = UsedIds
  BY SameUsed
  DEF TimerInv, TypeInv, Adding, AllocFails, TakeId, SetChangedAfterAdd, FindNothing,
      SetChangedAfterCancel, Move, objects, callers
<1>3. AwaitedIds' = AwaitedIds
  BY SameAwaited
  DEF TimerInv, TypeInv, Waiters, Caller, AllocFails, TakeId, SetChangedAfterAdd, FindNothing,
      SetChangedAfterCancel, Move, objects, callers
<1>4. QED
  BY <1>1, <1>2, <1>3 DEF Service!vars

\* Nobody waits any more when the canceled timer is freed.
LEMMA FreeIsQuiet ==
  ASSUME TimerInv, TimerInv', NEW c \in Caller, FreeCanceled(c)
  PROVE  UNCHANGED Service!vars
<1>1. AliveTimers' = AliveTimers
  BY SameTimers DEF FreeCanceled, queue, objects, heap, thread
<1>2. UsedIds' = UsedIds
  BY SameUsed DEF Adding, FreeCanceled, Move
<1>3. AwaitedIds' = AwaitedIds
  BY SameAwaited DEF Waiters, FreeCanceled, Move
<1>4. QED
  BY <1>1, <1>2, <1>3 DEF Service!vars

\* The thread looks for a timer, or time passes.
LEMMA ThreadIsQuiet ==
  ASSUME TimerInv, TimerInv',
         Wake \/ ResetEvent \/ PickNone \/ CallbackReturns \/ TimePasses \/ UNCHANGED vars
  PROVE  UNCHANGED Service!vars
<1>1. AliveTimers' = AliveTimers
  BY SameTimers
  DEF Wake, ResetEvent, PickNone, CallbackReturns, TimePasses, vars, queue, objects, thread
<1>2. UsedIds' = UsedIds
  BY SameUsed
  DEF Adding, Wake, ResetEvent, PickNone, CallbackReturns, TimePasses, vars, objects, callers
<1>3. AwaitedIds' = AwaitedIds
  BY SameAwaited
  DEF Waiters, Wake, ResetEvent, PickNone, CallbackReturns, TimePasses, vars, objects, callers
<1>4. QED
  BY <1>1, <1>2, <1>3 DEF Service!vars

\* An id that was drawn is not used before the timer is inserted.
LEMMA AssignIdIsQuiet ==
  ASSUME TimerInv, TimerInv', NEW c \in Caller, AssignId(c)
  PROVE  UNCHANGED Service!vars
<1>0. /\ c \notin Adding /\ c \notin Waiters /\ lpTimer[c] \in Timer /\ lpTimer[c] \notin Alive
      /\ \A d \in Adding \union Waiters : lpTimer[d] # lpTimer[c] /\ lpTimer[d] \in Timer
      /\ Adding' = Adding \union {c} /\ Waiters' = Waiters /\ lpTimer' = lpTimer
      /\ nNextTimerId' = nNextTimerId + 1 /\ nId' = [nId EXCEPT ![lpTimer[c]] = nNextTimerId + 1]
  <2>1. pc[c] = "add_id" /\ pc' = [pc EXCEPT ![c] = "add_insert"]
    BY DEF AssignId, Move
  <2>2. lpTimer[c] \in Timer /\ lpTimer[c] \notin cSortedByIdList /\ lpTimer[c] # current
    BY <2>1, HandlerIsCaller DEF TimerInv, TypeInv, HoldInv, Holding, Sharing
  <2>3. c \notin Adding /\ c \notin Waiters /\ Adding \union Waiters \subseteq Caller
    BY <2>1 DEF Adding, Waiters, Caller
  <2>4. \A d \in Adding \union Waiters : lpTimer[d] # lpTimer[c] /\ lpTimer[d] \in Timer
    BY <2>2, <2>3, Hands, HandlerIsCaller DEF TimerInv, HoldInv
  <2>5. Adding' = Adding \union {c} /\ Waiters' = Waiters
    BY <2>1 DEF TimerInv, TypeInv, Adding, Waiters, Caller
  <2>6. QED
    BY <2>2, <2>3, <2>4, <2>5, View DEF AliveView, AssignId
<1>1. AliveTimers' = AliveTimers
  <2>1. \A u \in Alive : u \in Timer
    BY View DEF AliveView
  <2>2. QED
    BY <1>0, <2>1, SameTimers DEF AssignId, queue, thread, TimerInv, TypeInv
<1>2. UsedIds' = UsedIds
  <2>1. nId'[lpTimer[c]] = nNextTimerId + 1 /\ \A d \in Adding : nId'[lpTimer[d]] = nId[lpTimer[d]]
    BY <1>0 DEF TimerInv, TypeInv
  <2>2. {nId[lpTimer[d]] : d \in Adding}'
          = {nId[lpTimer[d]] : d \in Adding} \union {nNextTimerId + 1}
    BY <1>0, <2>1
  <2>3. nNextTimerId + 1 \notin {nId[lpTimer[d]] : d \in Adding}
    <3>1. \A d \in Adding : nId[lpTimer[d]] \in Nat /\ nId[lpTimer[d]] <= nNextTimerId
      BY <1>0 DEF TimerInv, TypeInv, IdInv
    <3>2. QED
      BY <3>1 DEF TimerInv, TypeInv
  <2>4. 1..nNextTimerId' = (1..nNextTimerId) \union {nNextTimerId + 1}
        /\ nNextTimerId + 1 \notin 1..nNextTimerId
    BY <1>0 DEF TimerInv, TypeInv
  <2>5. QED
    BY <2>2, <2>3, <2>4 DEF UsedIds
<1>3. AwaitedIds' = AwaitedIds
  <2>1. \A d \in Waiters : nId'[lpTimer'[d]] = nId[lpTimer[d]]
    BY <1>0 DEF TimerInv, TypeInv
  <2>2. QED
    BY <1>0, <2>1, SameAwaited
<1>4. QED
  BY <1>1, <1>2, <1>3 DEF Service!vars

\* The timer that is inserted gets its id at that moment.
LEMMA InsertIsSet ==
  ASSUME TimerInv, TimerInv', NEW c \in Caller, InsertTimer(c)
  PROVE  Service!Next
<1>0. PICK t : t = lpTimer[c]
  OBVIOUS
<1>1. /\ c \in Adding /\ t \in Timer /\ t \in Numbered /\ t \notin Alive
      /\ Adding' = Adding \ {c} /\ Waiters' = Waiters /\ c \notin Waiters
      /\ \A d \in Caller \ {c} : lpTimer'[d] = lpTimer[d]
      /\ nId' = nId /\ nFlags' = nFlags /\ nNextTimerId' = nNextTimerId /\ current' = current
      /\ cSortedByIdList' = cSortedByIdList \union {t}
  <2>1. c \in Adding /\ c \notin Waiters
    BY DEF InsertTimer, Move, Adding, Waiters
  <2>2. t \in Timer /\ t \in Numbered /\ t \notin Alive
    BY <1>0, <2>1, Hands
  <2>3. Adding' = Adding \ {c} /\ Waiters' = Waiters
    BY DEF InsertTimer, Move, Adding, Waiters, TimerInv, TypeInv
  <2>4. QED
    BY <1>0, <2>1, <2>2, <2>3 DEF InsertTimer, objects, thread, TimerInv, TypeInv
<1>2. nId[t] \in 1..MaxId /\ nId[t] \in 1..nNextTimerId
  BY <1>1, NumberedRange
<1>3. {nId[lpTimer[d]] : d \in Adding}' = {nId[lpTimer[d]] : d \in Adding} \ {nId[t]}
  <2>1. \A d \in Adding : nId[lpTimer[d]] = nId[t] => d = c
    BY <1>1, Hands, IdsDiffer, <1>0
  <2>2. \A d \in Adding' : nId'[lpTimer'[d]] = nId[lpTimer[d]] /\ d \in Caller
    BY <1>1 DEF Adding
  <2>3. QED
    BY <1>0, <1>1, <2>1, <2>2
<1>4. nId[t] \notin UsedIds /\ UsedIds' = UsedIds \union {nId[t]}
  BY <1>0, <1>1, <1>2, <1>3 DEF UsedIds
<1>5. AliveTimers' = AliveTimers \union
        {[id |-> nId[t], oneShot |-> "OneShot" \in nFlags[t], phase |-> "armed"]}
  <2>1. Alive' = Alive \union {t} /\ t # current
    BY <1>1, View, ViewNext, HandlerIsCaller DEF AliveView
  <2>2. \A u \in Alive : Rec(u)' = Rec(u)
    BY <1>1, View, ViewNext DEF AliveView, Rec
  <2>3. Rec(t)' = [id |-> nId[t], oneShot |-> "OneShot" \in nFlags[t], phase |-> "armed"]
    BY <1>1, <2>1, ViewNext DEF AliveView, Rec
  <2>4. QED
    BY <2>1, <2>2, <2>3, View, ViewNext DEF AliveView
<1>6. AwaitedIds' = AwaitedIds
  BY <1>1, SameAwaited DEF Waiters, Caller
<1>7. ("OneShot" \in nFlags[t]) \in BOOLEAN
  OBVIOUS
<1>8. Service!Set(nId[t], "OneShot" \in nFlags[t])
  BY <1>4, <1>5, <1>6 DEF Service!Set
<1>9. QED
  BY <1>2, <1>7, <1>8 DEF Service!Next

\* The timer that finds no place takes its id along.
LEMMA InsertFailsIsSetFails ==
  ASSUME TimerInv, TimerInv', NEW c \in Caller, InsertFails(c)
  PROVE  Service!Next
<1> DEFINE t == lpTimer[c]
<1>1. /\ c \in Adding /\ t \in Timer /\ t \in Numbered
      /\ Adding' = Adding \ {c} /\ Waiters' = Waiters /\ c \notin Waiters
      /\ \A d \in Caller \ {c} : lpTimer'[d] = lpTimer[d]
      /\ nId' = nId /\ nNextTimerId' = nNextTimerId
  <2>1. c \in Adding /\ c \notin Waiters
    BY DEF InsertFails, Move, Adding, Waiters
  <2>2. t \in Timer /\ t \in Numbered
    BY <2>1, Hands
  <2>3. Adding' = Adding \ {c} /\ Waiters' = Waiters
    BY DEF InsertFails, Move, Adding, Waiters, TimerInv, TypeInv
  <2>4. QED
    BY <2>1, <2>2, <2>3 DEF InsertFails, TimerInv, TypeInv
<1> HIDE DEF t
<1>2. nId[t] \in 1..MaxId /\ nId[t] \in 1..nNextTimerId
  BY <1>1, NumberedRange
<1>3. {nId[lpTimer[d]] : d \in Adding}' = {nId[lpTimer[d]] : d \in Adding} \ {nId[t]}
  <2>1. \A d \in Adding : nId[lpTimer[d]] = nId[t] => d = c
    BY <1>1, Hands, IdsDiffer DEF t
  <2>2. \A d \in Adding' : nId'[lpTimer'[d]] = nId[lpTimer[d]] /\ d \in Caller
    BY <1>1 DEF Adding
  <2>3. QED
    BY <1>1, <2>1, <2>2 DEF t
<1>4. nId[t] \notin UsedIds /\ UsedIds' = UsedIds \union {nId[t]}
  BY <1>1, <1>2, <1>3 DEF UsedIds, t
<1>5. AliveTimers' = AliveTimers
  BY SameTimers DEF InsertFails, queue, thread
<1>6. AwaitedIds' = AwaitedIds
  BY <1>1, SameAwaited DEF Waiters, Caller
<1>7. QED
  BY <1>2, <1>4, <1>5, <1>6 DEF Service!SetFails, Service!Next

\* Clearing an armed timer ends it; a firing one stays until its callback
\* returns, and a call of another thread waits for that.
LEMMA CancelIsClear ==
  ASSUME TimerInv, TimerInv', NEW c \in Caller, NEW t \in Timer, CancelTimer(c, t)
  PROVE  Service!Next
<1>1. /\ t \in cSortedByIdList /\ t \in Alive /\ Rec(t) \in AliveTimers
      /\ "Running" \in nFlags[t] <=> t = current
      /\ cSortedByIdList' = cSortedByIdList \ {t} /\ current' = current /\ nId' = nId
      /\ \A u \in Timer : ("OneShot" \in nFlags'[u]) = ("OneShot" \in nFlags[u])
      /\ current # None => current \in Timer
  <2>1. t \in cSortedByIdList /\ ("Running" \in nFlags[t] <=> t = current)
    BY HandlerIsCaller DEF CancelTimer, TimerInv, ThreadInv
  <2>2. \A u \in Timer : ("OneShot" \in nFlags'[u]) = ("OneShot" \in nFlags[u])
    BY DEF CancelTimer, TimerInv, TypeInv
  <2>3. QED
    BY <2>1, <2>2, View DEF CancelTimer, thread, AliveView, TimerInv, TypeInv
<1>2. UsedIds' = UsedIds
  BY SameUsed DEF TimerInv, TypeInv, Adding, CancelTimer, Move
<1>3. \A u \in Alive \ {t} : Rec(u)' = Rec(u)
  BY <1>1, View, ViewNext DEF AliveView, Rec
<1>4. \A d \in Waiters : d # c /\ nId'[lpTimer'[d]] = nId[lpTimer[d]]
  BY DEF Waiters, Caller, CancelTimer, Move, TimerInv, TypeInv
<1>5. CASE t # current
  <2>1. Alive' = Alive \ {t} /\ Rec(t).phase = "armed"
    BY <1>1, <1>5, View, ViewNext, HandlerIsCaller, IdsDiffer DEF AliveView
  <2>2. AliveTimers' = AliveTimers \ {Rec(t)}
    BY <1>1, <1>3, <2>1, Leaves
  <2>3. Waiters' = Waiters
    BY <1>1, <1>5 DEF Waiters, Caller, CancelTimer, Move, TimerInv, TypeInv
  <2>4. AwaitedIds' = AwaitedIds
    BY <1>4, <2>3, SameAwaited
  <2>5. Service!Clear(Rec(t))
    BY <1>2, <2>1, <2>2, <2>4 DEF Service!Clear
  <2>6. QED
    BY <1>1, <2>5 DEF Service!Next
<1>6. CASE t = current
  <2>1. Alive' = Alive /\ Rec(t).phase = "firing" /\ Phase(t)' = "cleared" /\ Rec(t).id = nId[t]
    <3>1. Alive' = Alive /\ Phase(t) = "firing" /\ Phase(t)' = "cleared"
      BY <1>1, <1>6, View, ViewNext, HandlerIsCaller DEF AliveView
    <3>2. QED
      BY <1>1, <3>1, IdsDiffer
  <2>2. AliveTimers' = (AliveTimers \ {Rec(t)}) \union {[Rec(t) EXCEPT !.phase = "cleared"]}
    BY <1>1, <1>3, <2>1, Changes
  <2>3. AwaitedIds' \in {AwaitedIds, AwaitedIds \union {nId[t]}}
    <3>1. CASE c = Handler
      <4>1. Waiters' = Waiters
        BY <1>1, <1>6, <3>1, TimedEventAssumption
        DEF Waiters, Caller, CancelTimer, Move, TimerInv, TypeInv
      <4>2. QED
        BY <1>4, <4>1, SameAwaited
    <3>2. CASE c # Handler
      <4>1. Waiters' = Waiters \union {c} /\ lpTimer'[c] = t
        BY <1>1, <1>6, <3>2 DEF Waiters, Caller, CancelTimer, Move, TimerInv, TypeInv
      <4>2. QED
        BY <1>1, <1>4, <4>1 DEF AwaitedIds
    <3>3. QED
      BY <3>1, <3>2
  <2>4. Service!Clear(Rec(t))
    BY <1>2, <2>1, <2>2, <2>3 DEF Service!Clear, Service!Replace
  <2>5. QED
    BY <1>1, <2>4 DEF Service!Next
<1>7. QED
  BY <1>5, <1>6

\* The call that waited returns when the callback of its timer has.
LEMMA WaitIsReturn ==
  ASSUME TimerInv, TimerInv', NEW c \in Caller, WaitWhileRunning(c)
  PROVE  Service!Next
<1> DEFINE t == lpTimer[c]
<1>1. c \in Waiters /\ Waiters' = Waiters \ {c} /\ nId' = nId /\ lpTimer' = lpTimer
  BY DEF WaitWhileRunning, Move, Waiters, Caller, objects, TimerInv, TypeInv, ThreadInv
<1>2. t \in Timer /\ t \in Numbered /\ t \notin Alive
  <2>1. t \in Timer /\ t \in Numbered /\ t \notin cSortedByIdList
    BY <1>1, Hands
  <2>2. t # current
    BY <2>1, HandlerIsCaller DEF WaitWhileRunning, TimerInv, ThreadInv
  <2>3. QED
    BY <2>1, <2>2, View DEF AliveView
<1> HIDE DEF t
<1>3. AwaitedIds' = AwaitedIds \ {nId[t]} /\ nId[t] \in AwaitedIds
  <2>1. \A d \in Waiters : nId[lpTimer[d]] = nId[t] => d = c
    BY <1>1, <1>2, Hands, IdsDiffer DEF t
  <2>2. QED
    BY <1>1, <2>1 DEF AwaitedIds, t
<1>4. nId[t] \notin Service!Ids
  <2>1. \A u \in Alive : u \in Numbered /\ Rec(u).id = nId[u]
    BY View, IdsDiffer DEF AliveView
  <2>2. \A u \in Alive : Rec(u).id # nId[t]
    BY <1>2, <2>1, IdsDiffer
  <2>3. QED
    BY <2>2, View DEF AliveView, Service!Ids
<1>5. AliveTimers' = AliveTimers
  BY SameTimers DEF WaitWhileRunning, queue, objects, heap, thread
<1>6. UsedIds' = UsedIds
  BY SameUsed DEF Adding, WaitWhileRunning, Move, objects
<1>7. QED
  BY <1>3, <1>4, <1>5, <1>6 DEF Service!Return, Service!Next

\* What the thread does about the timer that fires leaves the calls alone.
LEMMA ThreadSameCalls ==
  ASSUME TimerInv,
         (\E t \in Timer : PickTimer(t)) \/ AfterCanceled \/ AfterLast \/ AfterInterval
  PROVE  UsedIds' = UsedIds /\ AwaitedIds' = AwaitedIds /\ nId' = nId
<1>1. /\ pc' = pc /\ lpTimer' = lpTimer /\ nId' = nId /\ nNextTimerId' = nNextTimerId
  BY DEF PickTimer, AfterCanceled, AfterLast, AfterInterval, callers
<1>2. QED
  BY <1>1, SameUsed, SameAwaited DEF Adding, Waiters

\* A timer fires while no other does.
LEMMA PickIsFire ==
  ASSUME TimerInv, TimerInv', NEW t \in Timer, PickTimer(t)
  PROVE  Service!Next
<1>1. /\ t \in cSortedByIdList /\ current = None /\ current' = t
      /\ cSortedByIdList' = cSortedByIdList /\ nId' = nId
      /\ \A u \in Timer : ("OneShot" \in nFlags'[u]) = ("OneShot" \in nFlags[u])
  <2>1. t \in cSortedByIdList
    BY DEF PickTimer, Due, TimerInv, TreeInv, Elements
  <2>2. QED
    BY <2>1 DEF PickTimer, TimerInv, TypeInv, ThreadInv, queue
<1>2. t \in Alive /\ Alive' = Alive /\ Rec(t) \in AliveTimers /\ Alive \subseteq Timer
  BY <1>1, View, ViewNext, HandlerIsCaller DEF AliveView
<1>3. \A u \in Alive : Rec(u).phase = "armed" /\ (u # t => Rec(u)' = Rec(u))
  BY <1>1, <1>2, View, ViewNext, HandlerIsCaller DEF AliveView, Rec
<1>4. Phase(t)' = "firing"
  BY <1>1, ViewNext DEF AliveView
<1>5. AliveTimers' = (AliveTimers \ {Rec(t)}) \union {[Rec(t) EXCEPT !.phase = "firing"]}
  BY <1>1, <1>2, <1>3, <1>4, Changes
<1>6. \A y \in AliveTimers : y.phase = "armed"
  BY <1>3, View DEF AliveView
<1>7. Service!Fire(Rec(t))
  BY <1>2, <1>3, <1>5, <1>6, ThreadSameCalls DEF Service!Fire, Service!Replace
<1>8. QED
  BY <1>2, <1>7 DEF Service!Next

\* The callback of a cleared timer returns.
LEMMA AfterCanceledIsEnd ==
  ASSUME TimerInv, TimerInv', AfterCanceled
  PROVE  Service!Next
<1>1. /\ current \in Timer /\ current \notin cSortedByIdList /\ current' = None
      /\ cSortedByIdList' = cSortedByIdList /\ nId' = nId
      /\ \A u \in Timer : ("OneShot" \in nFlags'[u]) = ("OneShot" \in nFlags[u])
  BY HandlerIsCaller DEF AfterCanceled, BackToPick, TimerInv, TypeInv, ThreadInv, queue
<1>2. /\ current \in Alive /\ Alive' = Alive \ {current} /\ Rec(current) \in AliveTimers
      /\ Rec(current).phase = "cleared" /\ Alive \subseteq Timer
  BY <1>1, View, ViewNext, HandlerIsCaller, IdsDiffer DEF AliveView
<1>3. \A u \in Alive \ {current} : Rec(u)' = Rec(u)
  BY <1>1, <1>2, View, ViewNext, HandlerIsCaller DEF AliveView, Rec
<1>4. AliveTimers' = AliveTimers \ {Rec(current)}
  BY <1>2, <1>3, Leaves
<1>5. Service!End(Rec(current))
  BY <1>2, <1>4, ThreadSameCalls DEF Service!End
<1>6. QED
  BY <1>2, <1>5 DEF Service!Next

\* The callback of a timer that nobody cleared returns: the timer is over.
LEMMA AfterLastIsFinish ==
  ASSUME TimerInv, TimerInv', AfterLast
  PROVE  Service!Next
<1>1. /\ current \in Timer /\ current \in cSortedByIdList /\ current' = None
      /\ cSortedByIdList' = cSortedByIdList \ {current} /\ nId' = nId /\ nFlags' = nFlags
  BY HandlerIsCaller DEF AfterLast, BackToPick, TimerInv, TypeInv, ThreadInv
<1>2. /\ current \in Alive /\ Alive' = Alive \ {current} /\ Rec(current) \in AliveTimers
      /\ Rec(current).phase = "firing" /\ Alive \subseteq Timer
  BY <1>1, View, ViewNext, HandlerIsCaller, IdsDiffer DEF AliveView
<1>3. \A u \in Alive \ {current} : Rec(u)' = Rec(u)
  BY <1>1, <1>2, View, ViewNext, HandlerIsCaller DEF AliveView, Rec
<1>4. AliveTimers' = AliveTimers \ {Rec(current)}
  BY <1>2, <1>3, Leaves
<1>5. Service!Finish(Rec(current))
  BY <1>2, <1>4, ThreadSameCalls DEF Service!Finish
<1>6. QED
  BY <1>2, <1>5 DEF Service!Next

\* Or it is an interval that waits to fire again.
LEMMA AfterIntervalIsFinish ==
  ASSUME TimerInv, TimerInv', AfterInterval
  PROVE  Service!Next
<1>1. /\ current \in Timer /\ current \in cSortedByIdList /\ current' = None
      /\ cSortedByIdList' = cSortedByIdList /\ nId' = nId
      /\ \A u \in Timer : ("OneShot" \in nFlags'[u]) = ("OneShot" \in nFlags[u])
      /\ "OneShot" \notin nFlags[current]
  BY HandlerIsCaller DEF AfterInterval, BackToPick, TimerInv, TypeInv, ThreadInv
<1>2. /\ current \in Alive /\ Alive' = Alive /\ Rec(current) \in AliveTimers
      /\ Rec(current).phase = "firing" /\ Alive \subseteq Timer /\ ~Rec(current).oneShot
  <2>1. ~Rec(current).oneShot
    BY <1>1 DEF Rec
  <2>2. /\ current \in Alive /\ Alive' = Alive /\ Alive \subseteq Timer
        /\ Rec(current) \in AliveTimers
        /\ Phase(current) = "firing"
    BY <1>1, View, ViewNext, HandlerIsCaller DEF AliveView
  <2>3. QED
    BY <2>1, <2>2, IdsDiffer
<1>3. \A u \in Alive \ {current} : Rec(u)' = Rec(u)
  BY <1>1, <1>2, View, ViewNext, HandlerIsCaller DEF AliveView, Rec
<1>4. ASSUME NEW t, t = current
      PROVE  AliveTimers' = (AliveTimers \ {Rec(t)}) \union {[Rec(t) EXCEPT !.phase = "armed"]}
  <2>1. Phase(t)' = "armed"
    BY <1>1, <1>4, ViewNext, HandlerIsCaller DEF AliveView
  <2>2. t \in Alive /\ \A u \in Alive \ {t} : Rec(u)' = Rec(u)
    BY <1>2, <1>3, <1>4
  <2>3. nId'[t] = nId[t] /\ (("OneShot" \in nFlags'[t]) = ("OneShot" \in nFlags[t]))
    BY <1>1, <1>4
  <2>4. QED
    BY <1>2, <2>1, <2>2, <2>3, Changes
<1>5. Service!Finish(Rec(current))
  BY <1>2, <1>4, ThreadSameCalls DEF Service!Finish, Service!Replace
<1>6. QED
  BY <1>2, <1>5 DEF Service!Next

LEMMA StepRefines == TimerInv /\ TimerInv' /\ [Next]_vars => [Service!Next]_(Service!vars)
<1> SUFFICES ASSUME TimerInv, TimerInv', [Next]_vars PROVE [Service!Next]_(Service!vars)
  OBVIOUS
<1>1. ASSUME NEW c \in Caller, NEW v \in Var, AllocFails(c, v) \/ TakeId(c, v)
      PROVE  UNCHANGED Service!vars
  BY <1>1, CallsAreQuiet
<1>2. ASSUME NEW c \in Caller, NEW v \in Var, NEW t \in Timer, AllocTimer(c, v, t)
      PROVE  UNCHANGED Service!vars
  BY <1>2, AllocIsQuiet
<1>3. ASSUME NEW c \in Caller, CallerStep(c)
      PROVE  Service!Next \/ UNCHANGED Service!vars
  <2>1. CASE AssignId(c)
    BY <2>1, AssignIdIsQuiet
  <2>2. CASE InsertTimer(c)
    BY <2>2, InsertIsSet
  <2>3. CASE InsertFails(c)
    BY <2>3, InsertFailsIsSetFails
  <2>4. CASE SetChangedAfterAdd(c) \/ FindNothing(c) \/ SetChangedAfterCancel(c)
    BY <2>4, CallsAreQuiet
  <2>5. ASSUME NEW t \in Timer, CancelTimer(c, t) PROVE Service!Next
    BY <2>5, CancelIsClear
  <2>6. CASE WaitWhileRunning(c)
    BY <2>6, WaitIsReturn
  <2>7. CASE FreeCanceled(c)
    BY <2>7, FreeIsQuiet
  <2>8. QED
    BY <1>3, <2>1, <2>2, <2>3, <2>4, <2>5, <2>6, <2>7 DEF CallerStep
<1>4. CASE ThreadStep
  <2>1. ASSUME NEW t \in Timer, PickTimer(t) PROVE Service!Next
    BY <2>1, PickIsFire
  <2>2. QED
    BY <1>4, <2>1, AfterCanceledIsEnd, AfterLastIsFinish, AfterIntervalIsFinish, ThreadIsQuiet
    DEF ThreadStep
<1>5. CASE CallbackReturns \/ TimePasses \/ UNCHANGED vars
  BY <1>5, ThreadIsQuiet
<1>6. QED
  BY <1>1, <1>2, <1>3, <1>4, <1>5 DEF Next

\* The two indexes, the flags, the free list and the reuse of objects do what
\* TimerService promises (AddTimer, RemoveTimer, ProcessQueue): a timer fires
\* only while it is set, a one-shot timer once, and Clear does not return to
\* another thread while the callback of its timer runs.
THEOREM Refinement == Spec => ProvidesService
<1>1. Init => Service!Init
  <2> SUFFICES ASSUME Init PROVE Service!Init
    OBVIOUS
  <2>1. UsedIds = {}
    BY DEF Init, UsedIds
  <2>2. AliveTimers = {}
    BY DEF Init, AliveTimers, Alive, Elements
  <2>3. AwaitedIds = {}
    BY DEF Init, AwaitedIds, Waiters, Caller
  <2>4. QED
    BY <2>1, <2>2, <2>3 DEF Service!Init
<1>2. QED
  BY <1>1, StepRefines, TimerInvariant, PTL DEF Spec, Service!Spec, ProvidesService
=============================================================================
