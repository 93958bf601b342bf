-------------------------- MODULE SlimRWLockProofs --------------------------
(***************************************************************************)
(* Proofs about SlimRWLock for any finite set of threads: mutual exclusion *)
(* and the refinement of ReaderWriterLock.                                 *)
(*                                                                         *)
(* Besides what the word means, the inductive invariant says that nobody   *)
(* reads while somebody writes, which holds because the count was zero     *)
(* when the writer went in and no swap of a reader succeeds under the bit, *)
(* and that a releasing reader's copy counts that reader.                  *)
(***************************************************************************)
EXTENDS SlimRWLock, FiniteSetTheorems, TLAPS

\* The assertion of SlimRWL_ReleaseShared.
CopyCounts == \A t \in Threads : pc[t] = "unshare" => initVal[t].readers # 0

\* Nobody reads while somebody writes.
WriterAlone == Writers # {} => Readers = {}

IInv == TypeOK /\ WordExact /\ WriterAlone /\ CopyCounts

\* A step that leaves the word and who holds the lock alone.
Quiet == UNCHANGED <<value, Readers, Claimants, Writers>>

-----------------------------------------------------------------------------
(* Facts about the sets of holders.                                         *)

\* The readers are finitely many, before and after a step.
LEMMA ReadersFinite == IsFiniteSet(Readers) /\ IsFiniteSet(Readers')
  BY ThreadsFinite, FS_Subset DEF Readers

\* Somebody reading means a nonzero count.
LEMMA ReaderCounted ==
  ASSUME WordExact, NEW t \in Readers
  PROVE  value.readers # 0
<1>1. Cardinality(Readers) # 0
  BY ReadersFinite, FS_EmptySet
<1> QED
  BY <1>1 DEF WordExact

\* A count of zero means nobody reads.
LEMMA NobodyReads ==
  ASSUME WordExact, value.readers = 0
  PROVE  Readers = {}
  BY ReadersFinite, FS_EmptySet DEF WordExact

\* Nobody claims while the copy of a successful swap shows no writer.
LEMMA NobodyClaims ==
  ASSUME WordExact, ~value.writer
  PROVE  Claimants = {} /\ Writers = {}
  BY DEF WordExact, Claimants, Writers

-----------------------------------------------------------------------------
\* Initially the word is zero and nobody is near the lock.
LEMMA InitIInv == Init => IInv
<1> SUFFICES ASSUME Init PROVE IInv
  OBVIOUS
<1>1. Readers = {} /\ Claimants = {} /\ Writers = {}
  BY DEF Init, Readers, Claimants, Writers
<1>2. Cardinality(Readers) = 0
  BY <1>1, FS_EmptySet
<1> QED
  BY <1>1, <1>2 DEF Init, Zero, IInv, TypeOK, WordExact, WriterAlone, CopyCounts

\* A quiet step keeps the word exact and the writer alone.
LEMMA QuietIInv ==
  ASSUME IInv, Quiet
  PROVE  WordExact' /\ WriterAlone'
  BY DEF IInv, Quiet, WordExact, WriterAlone, Locked

\* Every step except a successful swap, a drain or a writer's release is quiet.
LEMMA WaitingIInv ==
  ASSUME IInv, NEW t \in Threads,
         \/ BeginShared(t) \/ SharedRead(t) \/ SharedRefused(t) \/ UnshareRead(t)
         \/ BeginExclusive(t) \/ ExclusiveRead(t) \/ ExclusiveRefused(t)
         \/ (SharedSwap(t) \/ SharedRelease(t) \/ ExclusiveSwap(t)) /\ value # initVal[t]
  PROVE  IInv' /\ Quiet
<1> USE DEF IInv, TypeOK
<1>1. CASE BeginShared(t) \/ SharedRefused(t) \/ BeginExclusive(t) \/ ExclusiveRefused(t)
  <2> USE <1>1 DEF BeginShared, SharedRefused, BeginExclusive, ExclusiveRefused, Move
  <2>1. TypeOK' /\ CopyCounts'
    BY DEF CopyCounts
  <2>2. Quiet
    BY DEF Quiet, Readers, Claimants, Writers
  <2> QED
    BY <2>1, <2>2, QuietIInv
<1>2. CASE SharedRead(t) \/ ExclusiveRead(t)
  <2> USE <1>2 DEF SharedRead, ExclusiveRead, Read
  <2>1. TypeOK' /\ CopyCounts'
    BY DEF CopyCounts
  <2>2. Quiet
    BY DEF Quiet, Readers, Claimants, Writers
  <2> QED
    BY <2>1, <2>2, QuietIInv
<1>3. CASE UnshareRead(t)
  <2> USE <1>3 DEF UnshareRead, Read
  <2>1. value.readers # 0
    BY ReaderCounted DEF Readers
  <2>2. TypeOK' /\ CopyCounts'
    BY <2>1 DEF CopyCounts
  <2>3. Quiet
    BY DEF Quiet, Readers, Claimants, Writers
  <2> QED
    BY <2>2, <2>3, QuietIInv
<1>4. CASE (SharedSwap(t) \/ SharedRelease(t) \/ ExclusiveSwap(t)) /\ value # initVal[t]
  <2>1. /\ initVal' = [initVal EXCEPT ![t] = value]
        /\ UNCHANGED <<value, pc>>
    BY <1>4 DEF SharedSwap, SharedRelease, ExclusiveSwap, Swap
  <2>2. Quiet
    BY <2>1 DEF Quiet, Readers, Claimants, Writers
  <2>3. pc[t] = "unshare" => value.readers # 0
    BY ReaderCounted DEF Readers
  <2>4. TypeOK' /\ CopyCounts'
    BY <2>1, <2>3 DEF CopyCounts
  <2> QED
    BY <2>2, <2>4, QuietIInv
<1> QED
  BY <1>1, <1>2, <1>3, <1>4

\* A reader gets in only while nobody has claimed the lock.
LEMMA SharedSwapIInv ==
  ASSUME IInv, NEW t \in Threads, SharedSwap(t), value = initVal[t]
  PROVE  IInv' /\ Abstract!EnterShared(t)
<1> USE DEF IInv, TypeOK
<1>1. /\ value' = [value EXCEPT !.readers = @ + 1]
      /\ pc[t] = "shared" /\ pc' = [pc EXCEPT ![t] = "reading"]
      /\ UNCHANGED initVal /\ ~value.writer
  BY DEF SharedSwap, Swap
<1>2. TypeOK' /\ CopyCounts'
  BY <1>1 DEF CopyCounts
<1>3. Claimants = {} /\ Writers = {}
  BY <1>1, NobodyClaims
<1>4. t \notin Readers /\ Readers' = Readers \union {t}
  BY <1>1 DEF Readers
<1>5. Claimants' = {} /\ Writers' = {}
  BY <1>1, <1>3 DEF Claimants, Writers
<1>6. Cardinality(Readers') = Cardinality(Readers) + 1
  BY <1>4, ReadersFinite, FS_AddElement
<1>7. WordExact' /\ WriterAlone'
  BY <1>1, <1>5, <1>6 DEF WordExact, WriterAlone
<1>8. Abstract!EnterShared(t)
  BY <1>3, <1>4, <1>5 DEF Abstract!EnterShared
<1> QED
  BY <1>2, <1>7, <1>8

\* A reader leaves and is uncounted; the writer's bit stays.
LEMMA SharedReleaseIInv ==
  ASSUME IInv, NEW t \in Threads, SharedRelease(t), value = initVal[t]
  PROVE  IInv' /\ Abstract!LeaveShared(t)
<1> USE DEF IInv, TypeOK
<1>1. PICK l \in {"idle", "want_excl"} :
        /\ value' = [value EXCEPT !.readers = @ - 1]
        /\ pc[t] = "unshare" /\ pc' = [pc EXCEPT ![t] = l]
        /\ UNCHANGED initVal
  BY DEF SharedRelease, Swap
<1>2. t \in Readers /\ Readers' = Readers \ {t}
  BY <1>1 DEF Readers
<1>3. value.readers # 0
  BY <1>2, ReaderCounted
<1>4. TypeOK' /\ CopyCounts'
  <2>1. value.readers \in Nat /\ value.readers - 1 \in Nat
    BY <1>3
  <2>2. value' = [writer |-> value.writer, readers |-> value.readers - 1]
    BY <1>1
  <2> QED
    BY <1>1, <2>1, <2>2 DEF CopyCounts
<1>5. Claimants' = Claimants /\ Writers' = Writers
  BY <1>1 DEF Claimants, Writers
<1>6. Cardinality(Readers') = Cardinality(Readers) - 1
  BY <1>2, ReadersFinite, FS_RemoveElement
<1>7. Writers = {}
  BY <1>2 DEF WriterAlone
<1>8. WordExact' /\ WriterAlone'
  BY <1>1, <1>5, <1>6, <1>7 DEF WordExact, WriterAlone
<1>9. Abstract!LeaveShared(t)
  BY <1>2, <1>5 DEF Abstract!LeaveShared
<1> QED
  BY <1>4, <1>8, <1>9

\* A writer claims the lock only while nobody else has.
LEMMA ExclusiveSwapIInv ==
  ASSUME IInv, NEW t \in Threads, ExclusiveSwap(t), value = initVal[t]
  PROVE  IInv' /\ Abstract!Claim(t)
<1> USE DEF IInv, TypeOK
<1>1. /\ value' = [value EXCEPT !.writer = TRUE]
      /\ pc[t] = "excl" /\ pc' = [pc EXCEPT ![t] = "drain"]
      /\ UNCHANGED initVal /\ ~value.writer
  BY DEF ExclusiveSwap, Swap
<1>2. TypeOK' /\ CopyCounts'
  BY <1>1 DEF CopyCounts
<1>3. Claimants = {} /\ Writers = {}
  BY <1>1, NobodyClaims
<1>4. t \notin Readers /\ Readers' = Readers
  BY <1>1 DEF Readers
<1>5. Claimants' = {t} /\ Writers' = {}
  BY <1>1, <1>3 DEF Claimants, Writers
<1>6. WordExact' /\ WriterAlone'
  BY <1>1, <1>4, <1>5 DEF WordExact, WriterAlone
<1>7. Abstract!Claim(t)
  BY <1>3, <1>4, <1>5 DEF Abstract!Claim
<1> QED
  BY <1>2, <1>6, <1>7

\* The claimant goes in once the count is zero.
LEMMA DrainedIInv ==
  ASSUME IInv, NEW t \in Threads, Drained(t)
  PROVE  IInv' /\ Abstract!EnterExclusive
<1> USE DEF IInv, TypeOK
<1>1. /\ pc[t] = "drain" /\ pc' = [pc EXCEPT ![t] = "writing"]
      /\ UNCHANGED <<value, initVal>> /\ value.readers = 0
  BY DEF Drained, Move
<1>2. TypeOK' /\ CopyCounts'
  BY <1>1 DEF CopyCounts
<1>3. Readers = {} /\ Readers' = {}
  BY <1>1, NobodyReads DEF Readers
<1>4. t \in Claimants /\ Claimants' = Claimants
  BY <1>1 DEF Claimants
<1>5. Writers = {}
  BY <1>1, <1>4 DEF Writers, Claimants, WordExact
<1>6. t \in Writers'
  BY <1>1 DEF Writers
<1>7. value = Locked
  BY <1>1, <1>4 DEF WordExact, Locked
<1>8. WordExact' /\ WriterAlone'
  BY <1>1, <1>3, <1>4, <1>7 DEF WordExact, WriterAlone, Locked
<1>9. Abstract!EnterExclusive
  BY <1>3, <1>4, <1>5, <1>6 DEF Abstract!EnterExclusive
<1> QED
  BY <1>2, <1>8, <1>9

\* The writer's plain store of zero loses nobody: it is alone.
LEMMA ExclusiveReleaseIInv ==
  ASSUME IInv, NEW t \in Threads, ExclusiveRelease(t)
  PROVE  IInv' /\ Abstract!LeaveExclusive
<1> USE DEF IInv, TypeOK
<1>1. PICK l \in {"idle", "want_shared"} :
        /\ value' = Zero
        /\ pc[t] = "writing" /\ pc' = [pc EXCEPT ![t] = l]
        /\ UNCHANGED initVal
  BY DEF ExclusiveRelease
<1>2. TypeOK' /\ CopyCounts'
  BY <1>1 DEF CopyCounts, Zero
<1>3. t \in Writers /\ t \in Claimants
  BY <1>1 DEF Writers, Claimants
<1>4. Readers = {} /\ Readers' = {}
  BY <1>1, <1>3 DEF WriterAlone, Readers
<1>5. Claimants' = {} /\ Writers' = {}
  BY <1>1, <1>3 DEF Claimants, Writers, WordExact
<1>6. Cardinality(Readers') = 0
  BY <1>4, FS_EmptySet
<1>7. WordExact' /\ WriterAlone'
  BY <1>1, <1>5, <1>6 DEF WordExact, WriterAlone, Zero
<1>8. Abstract!LeaveExclusive
  BY <1>3, <1>4, <1>5 DEF Abstract!LeaveExclusive
<1> QED
  BY <1>2, <1>7, <1>8

\* Every step preserves the invariant and is a step of the abstract lock, or
\* a stutter of it.
LEMMA NextIInv ==
  ASSUME IInv, [Next]_vars
  PROVE  IInv' /\ [Abstract!Next]_(Abstract!vars)
<1> USE DEF Abstract!vars, Abstract!Next
<1>1. ASSUME NEW t \in Threads, BeginShared(t) \/ BeginExclusive(t) \/ Inside(t)
      PROVE  IInv' /\ [Abstract!Next]_(Abstract!vars)
  <2>1. CASE \/ BeginShared(t) \/ SharedRead(t) \/ SharedRefused(t) \/ UnshareRead(t)
             \/ BeginExclusive(t) \/ ExclusiveRead(t) \/ ExclusiveRefused(t)
             \/ (SharedSwap(t) \/ SharedRelease(t) \/ ExclusiveSwap(t)) /\ value # initVal[t]
    BY <2>1, WaitingIInv DEF Quiet
  <2>2. CASE (SharedSwap(t) \/ SharedRelease(t) \/ ExclusiveSwap(t)) /\ value = initVal[t]
    BY <2>2, SharedSwapIInv, SharedReleaseIInv, ExclusiveSwapIInv
  <2>3. CASE Drained(t) \/ ExclusiveRelease(t)
    BY <2>3, DrainedIInv, ExclusiveReleaseIInv
  <2> QED
    BY <1>1, <2>1, <2>2, <2>3 DEF Inside
<1>2. CASE UNCHANGED vars
  <2>1. Quiet
    BY <1>2 DEF vars, Quiet, Readers, Claimants, Writers
  <2>2. TypeOK' /\ CopyCounts'
    BY <1>2 DEF IInv, vars, TypeOK, CopyCounts
  <2> QED
    BY <2>1, <2>2, QuietIInv DEF Quiet, IInv
<1> QED
  BY <1>1, <1>2 DEF Next

\* The inductive invariant holds in every reachable state.
THEOREM Invariance == Spec => []IInv
  BY InitIInv, NextIInv, PTL DEF Spec

\* The word, the places and the copies keep their types.
THEOREM TypeCorrect == Spec => []TypeOK
  BY Invariance, PTL DEF IInv

\* The count and the top bit are exact, a release never finds a count of zero,
\* and the writer's plain store overwrites nobody.
THEOREM WordIsExact == Spec => [](WordExact /\ CopyCounts)
  BY Invariance, PTL DEF IInv

\* One writer at most, and no reader next to it.
THEOREM WritersAreAlone == Spec => []MutualExclusion
<1>1. IInv => MutualExclusion
  BY DEF IInv, WordExact, WriterAlone, MutualExclusion, Writers, Claimants
<1> QED
  BY <1>1, Invariance, PTL

\* The word implements the abstract reader/writer lock.
THEOREM Refinement == Spec => ImplementsLock
<1>1. Init => Abstract!Init
  BY DEF Init, Readers, Claimants, Writers, Abstract!Init
<1> QED
  BY <1>1, NextIInv, Invariance, PTL DEF Spec, Abstract!Spec, ImplementsLock
=============================================================================
