------------------------- MODULE RundownProtProofs -------------------------
(***************************************************************************)
(* Proofs about RundownProt for any finite set of threads.                 *)
(*                                                                         *)
(* The inductive invariant says what the word means (the count is the      *)
(* number of holders, the top bit is the owner's phase) and that a count   *)
(* that has reached zero under the top bit stays there.                    *)
(***************************************************************************)
EXTENDS RundownProt, FiniteSetTheorems, TLAPS

\* The top bit is set exactly while the owner closes or has closed the object.
BitIsPhase == value.down <=> owner # "open"

IInv ==
  /\ TypeOK
  /\ CountExact
  /\ BitIsPhase
  /\ DrainedWhenDown
  /\ ReleaseAssert

-----------------------------------------------------------------------------
(* Facts about the set of holders.                                          *)

\* The set of holders is finite, whatever the program counters are.
LEMMA HoldersFinite == IsFiniteSet(Holders) /\ IsFiniteSet(Holders')
  BY ThreadsFinite, FS_Subset DEF Holders

\* Somebody inside means a nonzero count.
LEMMA HolderCounted ==
  ASSUME CountExact, NEW t \in Threads, t \in Holders
  PROVE  value.refs # 0
<1>1. Cardinality(Holders) # 0
  BY HoldersFinite, FS_EmptySet
<1> QED
  BY <1>1 DEF CountExact

-----------------------------------------------------------------------------
\* Initially nobody is inside and the word is zero.
LEMMA InitIInv == Init => IInv
<1> SUFFICES ASSUME Init PROVE IInv
  OBVIOUS
<1>1. Holders = {}
  BY DEF Init, Holders
<1>2. Cardinality(Holders) = 0
  BY <1>1, FS_EmptySet
<1> QED
  BY <1>1, <1>2 DEF Init, IInv, TypeOK, CountExact, BitIsPhase,
                    DrainedWhenDown, ReleaseAssert, Zero

\* A step of Acquire that takes no reference leaves the holders alone.
LEMMA AcquireReadIInv ==
  ASSUME IInv, NEW t \in Threads, AcquireRead(t)
  PROVE  IInv'
<1> USE DEF IInv, TypeOK
<1>1. TypeOK'
  BY DEF AcquireRead
<1>2. Holders' = Holders
  BY DEF AcquireRead, Holders
<1>3. CountExact' /\ BitIsPhase' /\ DrainedWhenDown'
  BY <1>2 DEF AcquireRead, CountExact, BitIsPhase, DrainedWhenDown
<1>4. ReleaseAssert'
  BY DEF AcquireRead, ReleaseAssert
<1> QED
  BY <1>1, <1>3, <1>4

LEMMA AcquireRefusedIInv ==
  ASSUME IInv, NEW t \in Threads, AcquireRefused(t)
  PROVE  IInv'
<1> USE DEF IInv, TypeOK
<1>1. TypeOK'
  BY DEF AcquireRefused
<1>2. Holders' = Holders
  BY DEF AcquireRefused, Holders
<1>3. CountExact' /\ BitIsPhase' /\ DrainedWhenDown'
  BY <1>2 DEF AcquireRefused, CountExact, BitIsPhase, DrainedWhenDown
<1>4. ReleaseAssert'
  BY DEF AcquireRefused, ReleaseAssert
<1> QED
  BY <1>1, <1>3, <1>4

\* A successful compare-and-swap of Acquire adds one holder and one to the
\* count, and it only succeeds while the top bit is clear.
LEMMA AcquireSwapIInv ==
  ASSUME IInv, NEW t \in Threads, AcquireSwap(t)
  PROVE  IInv'
<1> USE DEF IInv, TypeOK
<1>1. CASE value = initVal[t]
  <2>1. TypeOK'
    BY <1>1 DEF AcquireSwap
  <2>2. t \notin Holders /\ Holders' = Holders \union {t}
    BY <1>1 DEF AcquireSwap, Holders
  <2>3. Cardinality(Holders') = Cardinality(Holders) + 1
    BY <2>2, HoldersFinite, FS_AddElement
  <2>4. value'.refs = value.refs + 1 /\ value'.down = value.down
    BY <1>1 DEF AcquireSwap
  <2>5. owner = "open" /\ owner' = "open"
    BY <1>1 DEF AcquireSwap, BitIsPhase
  <2>6. CountExact'
    BY <2>3, <2>4 DEF CountExact
  <2>7. BitIsPhase' /\ DrainedWhenDown'
    BY <2>4, <2>5 DEF BitIsPhase, DrainedWhenDown
  <2>8. ReleaseAssert'
    BY <1>1 DEF AcquireSwap, ReleaseAssert
  <2> QED
    BY <2>1, <2>6, <2>7, <2>8
<1>2. CASE value # initVal[t]
  <2>1. TypeOK'
    BY <1>2 DEF AcquireSwap
  <2>2. Holders' = Holders
    BY <1>2 DEF AcquireSwap, Holders
  <2>3. CountExact' /\ BitIsPhase' /\ DrainedWhenDown'
    BY <1>2, <2>2 DEF AcquireSwap, CountExact, BitIsPhase, DrainedWhenDown
  <2>4. ReleaseAssert'
    BY <1>2 DEF AcquireSwap, ReleaseAssert
  <2> QED
    BY <2>1, <2>3, <2>4
<1> QED
  BY <1>1, <1>2

\* The read of Release copies a word that counts the releasing thread itself.
LEMMA ReleaseReadIInv ==
  ASSUME IInv, NEW t \in Threads, ReleaseRead(t)
  PROVE  IInv'
<1> USE DEF IInv, TypeOK
<1>1. TypeOK'
  BY DEF ReleaseRead
<1>2. Holders' = Holders
  BY DEF ReleaseRead, Holders
<1>3. CountExact' /\ BitIsPhase' /\ DrainedWhenDown'
  BY <1>2 DEF ReleaseRead, CountExact, BitIsPhase, DrainedWhenDown
<1>4. value.refs # 0
  BY HolderCounted DEF ReleaseRead, Holders
<1>5. ReleaseAssert'
  BY <1>4 DEF ReleaseRead, ReleaseAssert
<1> QED
  BY <1>1, <1>3, <1>5

\* A successful compare-and-swap of Release removes one holder and one from
\* the count.
LEMMA ReleaseSwapIInv ==
  ASSUME IInv, NEW t \in Threads, ReleaseSwap(t)
  PROVE  IInv'
<1> USE DEF IInv, TypeOK
<1>0. t \in Holders
  BY DEF ReleaseSwap, Holders
<1>1. value.refs # 0
  BY <1>0, HolderCounted
<1>2. CASE value = initVal[t]
  <2>1. TypeOK'
    BY <1>1, <1>2 DEF ReleaseSwap
  <2>2. Holders' = Holders \ {t}
    BY <1>2 DEF ReleaseSwap, Holders
  <2>3. Cardinality(Holders') = Cardinality(Holders) - 1
    BY <1>0, <2>2, HoldersFinite, FS_RemoveElement
  <2>4. value'.refs = value.refs - 1 /\ value'.down = value.down
    BY <1>2 DEF ReleaseSwap
  <2>5. CountExact'
    BY <2>3, <2>4 DEF CountExact
  <2>6. BitIsPhase' /\ DrainedWhenDown'
    BY <2>2, <2>4 DEF ReleaseSwap, BitIsPhase, DrainedWhenDown
  <2>7. ReleaseAssert'
    BY <1>2 DEF ReleaseSwap, ReleaseAssert
  <2> QED
    BY <2>1, <2>5, <2>6, <2>7
<1>3. CASE value # initVal[t]
  <2>1. TypeOK'
    BY <1>3 DEF ReleaseSwap
  <2>2. Holders' = Holders
    BY <1>3 DEF ReleaseSwap, Holders
  <2>3. CountExact' /\ BitIsPhase' /\ DrainedWhenDown'
    BY <1>3, <2>2 DEF ReleaseSwap, CountExact, BitIsPhase, DrainedWhenDown
  <2>4. ReleaseAssert'
    BY <1>1, <1>3 DEF ReleaseSwap, ReleaseAssert
  <2> QED
    BY <2>1, <2>3, <2>4
<1> QED
  BY <1>2, <1>3

\* The owner's steps change no program counter of a user.
LEMMA OwnerIInv ==
  ASSUME IInv, MarkDown \/ SeeDrained \/ Initialize
  PROVE  IInv'
<1> USE DEF IInv, TypeOK
<1>1. Holders' = Holders
  BY DEF MarkDown, SeeDrained, Initialize, Holders
<1>2. ReleaseAssert'
  BY DEF MarkDown, SeeDrained, Initialize, ReleaseAssert
<1>3. CASE MarkDown
  <2>1. TypeOK' /\ value'.refs = value.refs /\ value'.down
    BY <1>3 DEF MarkDown
  <2>2. CountExact' /\ BitIsPhase' /\ DrainedWhenDown'
    BY <1>1, <1>3, <2>1 DEF MarkDown, CountExact, BitIsPhase, DrainedWhenDown
  <2> QED
    BY <1>2, <2>1, <2>2
<1>4. CASE SeeDrained
  <2>1. Holders = {}
    BY <1>4, HoldersFinite, FS_EmptySet DEF SeeDrained, CountExact
  <2> QED
    BY <1>1, <1>2, <1>4, <2>1
    DEF SeeDrained, CountExact, BitIsPhase, DrainedWhenDown
<1>5. CASE Initialize
  <2>1. Holders' = {} /\ Cardinality(Holders') = 0
    BY <1>1, <1>5, FS_EmptySet DEF Initialize, DrainedWhenDown
  <2> QED
    BY <1>2, <1>5, <2>1
    DEF Initialize, Zero, CountExact, BitIsPhase, DrainedWhenDown
<1> QED
  BY <1>3, <1>4, <1>5

\* Every step of the specification preserves the invariant.
LEMMA NextIInv == IInv /\ [Next]_vars => IInv'
<1> SUFFICES ASSUME IInv, [Next]_vars PROVE IInv'
  OBVIOUS
<1>1. ASSUME NEW t \in Threads, Step(t) PROVE IInv'
  BY <1>1, AcquireReadIInv, AcquireRefusedIInv, AcquireSwapIInv,
     ReleaseReadIInv, ReleaseSwapIInv DEF Step
<1>2. CASE UNCHANGED vars
  <2>1. Holders' = Holders
    BY <1>2 DEF vars, Holders
  <2> QED
    BY <1>2, <2>1 DEF vars, IInv, TypeOK, CountExact, BitIsPhase,
                      DrainedWhenDown, ReleaseAssert
<1> QED
  BY <1>1, <1>2, OwnerIInv DEF Next

\* The inductive invariant holds in every reachable state.
THEOREM Invariance == Spec => []IInv
  BY InitIInv, NextIInv, PTL DEF Spec

\* The word, the program counters and the local copies keep their types.
THEOREM TypeCorrect == Spec => []TypeOK
  BY Invariance, PTL DEF IInv

\* WaitForRelease's guarantee: once it has returned nobody is inside.
THEOREM Drained == Spec => []DrainedWhenDown
  BY Invariance, PTL DEF IInv

\* The reference count is exact, and RundownProt_Release's assertion holds.
THEOREM CountsAreExact == Spec => [](CountExact /\ ReleaseAssert)
  BY Invariance, PTL DEF IInv

-----------------------------------------------------------------------------
(* Nobody enters once the top bit is set.                                   *)

LEMMA StepNoEntry ==
  ASSUME IInv, [Next]_vars, NEW t \in Threads, owner # "open", pc'[t] = "held"
  PROVE  pc[t] = "held"
<1> USE DEF IInv, TypeOK
<1>1. ASSUME NEW u \in Threads, AcquireSwap(u) PROVE pc[t] = "held"
  BY <1>1 DEF AcquireSwap, BitIsPhase
<1>2. ASSUME NEW u \in Threads, AcquireRead(u) \/ AcquireRefused(u)
                                \/ ReleaseRead(u) \/ ReleaseSwap(u)
      PROVE  pc[t] = "held"
  BY <1>2 DEF AcquireRead, AcquireRefused, ReleaseRead, ReleaseSwap
<1>3. CASE MarkDown \/ SeeDrained \/ Initialize \/ UNCHANGED vars
  BY <1>3 DEF MarkDown, SeeDrained, Initialize, vars
<1> QED
  BY <1>1, <1>2, <1>3 DEF Next, Step

\* No user enters after the owner has set the top bit (NoEntryOnceMarked).
THEOREM NoLateEntry == Spec => NoEntryOnceMarked
<1>1. IInv /\ [Next]_vars
      => [\A t \in Threads : owner # "open" /\ pc'[t] = "held" => pc[t] = "held"]_vars
  BY StepNoEntry
<1> QED
  BY <1>1, Invariance, PTL DEF Spec, NoEntryOnceMarked

-----------------------------------------------------------------------------
(* The refinement: a step of the word is a step of the abstract rundown, or *)
(* leaves its phase and its holders alone.                                  *)

LEMMA StepRefines ==
  ASSUME IInv, [Next]_vars
  PROVE  [Abstract!Next]_(Abstract!vars)
<1> USE DEF IInv, TypeOK, Abstract!vars
<1>1. ASSUME NEW t \in Threads, AcquireRead(t) \/ AcquireRefused(t) \/ ReleaseRead(t)
      PROVE  UNCHANGED <<owner, Holders>>
  BY <1>1 DEF AcquireRead, AcquireRefused, ReleaseRead, Holders
<1>2. ASSUME NEW t \in Threads, AcquireSwap(t)
      PROVE  Abstract!Enter(t) \/ UNCHANGED <<owner, Holders>>
  BY <1>2 DEF AcquireSwap, Holders, BitIsPhase, Abstract!Enter
<1>3. ASSUME NEW t \in Threads, ReleaseSwap(t)
      PROVE  Abstract!Leave(t) \/ UNCHANGED <<owner, Holders>>
  BY <1>3 DEF ReleaseSwap, Holders, Abstract!Leave
<1>4. CASE MarkDown
  BY <1>4 DEF MarkDown, Holders, Abstract!Close, Abstract!Next
<1>5. CASE SeeDrained
  <2>1. Holders = {}
    BY <1>5, HoldersFinite, FS_EmptySet DEF SeeDrained, CountExact
  <2> QED
    BY <1>5, <2>1 DEF SeeDrained, Holders, Abstract!Drained, Abstract!Next
<1>6. CASE Initialize
  BY <1>6 DEF Initialize, Holders, Abstract!Reopen, Abstract!Next
<1>7. CASE UNCHANGED vars
  BY <1>7 DEF vars, Holders
<1> QED
  BY <1>1, <1>2, <1>3, <1>4, <1>5, <1>6, <1>7 DEF Next, Step, Abstract!Next

\* The interlocked word implements the abstract rundown protection.
THEOREM Refinement == Spec => ImplementsRundown
<1>1. Init => Abstract!Init
  BY DEF Init, Holders, Abstract!Init
<1> QED
  BY <1>1, StepRefines, Invariance, PTL DEF Spec, Abstract!Spec, ImplementsRundown
=============================================================================
