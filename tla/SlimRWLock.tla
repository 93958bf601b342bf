----------------------------- MODULE SlimRWLock -----------------------------
(***************************************************************************)
(* The slim reader/writer lock of WaitableObjects.cpp, in the form used    *)
(* when the system has no SRW locks: one LONG whose top bit is the writer  *)
(* and whose other 31 bits count the readers.  It guards the timers'       *)
(* singleton, the host resolver's, the sockets' handles and the HTTP       *)
(* server's limiters.                                                      *)
(*                                                                         *)
(* One action is one interlocked access to the word.  A thread may upgrade *)
(* (leave as a reader, then acquire as a writer) and downgrade; both let   *)
(* other threads in between.                                               *)
(***************************************************************************)
EXTENDS Integers, FiniteSets

CONSTANT Threads    \* the threads that use the lock

ASSUME ThreadsFinite == IsFiniteSet(Threads)

VARIABLES
  value,    \* the word: [writer |-> top bit, readers |-> low 31 bits]
  pc,       \* where each thread is
  initVal   \* each thread's local copy of the word

vars == <<value, pc, initVal>>

Zero   == [writer |-> FALSE, readers |-> 0]
Locked == [writer |-> TRUE, readers |-> 0]

(***************************************************************************)
(* pc  "idle"        outside                                               *)
(*     "want_shared" at the beginning of TryAcquireShared                  *)
(*     "shared"      in its compare-and-swap loop                          *)
(*     "reading"     inside as a reader                                    *)
(*     "unshare"     in the loop of ReleaseShared                          *)
(*     "want_excl"   at the beginning of TryAcquireExclusive               *)
(*     "excl"        in its compare-and-swap loop                          *)
(*     "drain"       the top bit is set, waiting for the readers to leave  *)
(*     "writing"     inside as the writer                                  *)
(***************************************************************************)
Readers   == {t \in Threads : pc[t] \in {"reading", "unshare"}}
Claimants == {t \in Threads : pc[t] \in {"drain", "writing"}}
Writers   == {t \in Threads : pc[t] = "writing"}

Init ==
  /\ value = Zero
  /\ pc = [t \in Threads |-> "idle"]
  /\ initVal = [t \in Threads |-> Zero]

\* Thread t goes from one place to one of others, and touches nothing else.
Move(t, from, to) ==
  /\ pc[t] = from
  /\ \E l \in to : pc' = [pc EXCEPT ![t] = l]
  /\ UNCHANGED <<value, initVal>>

\* The plain read of the word before a loop.
Read(t, from, to) ==
  /\ pc[t] = from
  /\ pc' = [pc EXCEPT ![t] = to]
  /\ initVal' = [initVal EXCEPT ![t] = value]
  /\ UNCHANGED value

\* Compare-and-swap of the copy with new; on failure the copy is what was found.
Swap(t, new, to) ==
  IF value = initVal[t]
  THEN /\ value' = new
       /\ \E l \in to : pc' = [pc EXCEPT ![t] = l]
       /\ UNCHANGED initVal
  ELSE /\ initVal' = [initVal EXCEPT ![t] = value]
       /\ UNCHANGED <<value, pc>>

-----------------------------------------------------------------------------
(* Faulty variants of the steps below; each breaks one of the properties.   *)

\* The word is incremented whatever it holds by now.
MutSharedIncrement(t) ==
  /\ pc[t] = "shared"
  /\ ~initVal[t].writer
  /\ value' = [value EXCEPT !.readers = @ + 1]
  /\ pc' = [pc EXCEPT ![t] = "reading"]
  /\ UNCHANGED initVal

\* The release forgets the writer that waits.
MutSharedRelease(t) ==
  /\ pc[t] = "unshare"
  /\ Swap(t, [writer |-> FALSE, readers |-> initVal[t].readers - 1], {"idle", "want_excl"})

\* The writer goes in without waiting for the readers.
MutDrained(t) == Move(t, "drain", {"writing"})

\* A reader's request is refused only once the writer is inside.
MutSharedSwap(t) ==
  /\ pc[t] = "shared"
  /\ Swap(t, [initVal[t] EXCEPT !.readers = @ + 1], {"reading"})

-----------------------------------------------------------------------------
(* SlimRWL_TryAcquireShared, SlimRWL_AcquireShared, SlimRWL_ReleaseShared   *)

BeginShared(t) == Move(t, "idle", {"want_shared"})

SharedRead(t) == Read(t, "want_shared", "shared")

\* A writer is active: AcquireShared tries again, TryAcquireShared gives up.
SharedRefused(t) ==
  /\ initVal[t].writer
  /\ Move(t, "shared", {"want_shared", "idle"})

SharedSwap(t) ==
  /\ pc[t] = "shared"
  /\ ~initVal[t].writer
  /\ Swap(t, [initVal[t] EXCEPT !.readers = @ + 1], {"reading"})

UnshareRead(t) == Read(t, "reading", "unshare")

\* The reader leaves, for good or (UpgradeToExclusive) to become a writer.
SharedRelease(t) ==
  /\ pc[t] = "unshare"
  /\ Swap(t, [initVal[t] EXCEPT !.readers = @ - 1], {"idle", "want_excl"})

-----------------------------------------------------------------------------
(* SlimRWL_TryAcquireExclusive, SlimRWL_AcquireExclusive and                *)
(* SlimRWL_ReleaseExclusive                                                 *)

BeginExclusive(t) == Move(t, "idle", {"want_excl"})

ExclusiveRead(t) == Read(t, "want_excl", "excl")

\* Another writer is active or waiting.
ExclusiveRefused(t) ==
  /\ initVal[t].writer
  /\ Move(t, "excl", {"want_excl", "idle"})

ExclusiveSwap(t) ==
  /\ pc[t] = "excl"
  /\ ~initVal[t].writer
  /\ Swap(t, [initVal[t] EXCEPT !.writer = TRUE], {"drain"})

\* Wait until there are no readers; even TryAcquireExclusive waits here.
Drained(t) ==
  /\ value.readers = 0
  /\ Move(t, "drain", {"writing"})

\* The writer leaves, for good or (DowngradeToShared) to become a reader.
ExclusiveRelease(t) ==
  /\ pc[t] = "writing"
  /\ value' = Zero
  /\ \E l \in {"idle", "want_shared"} : pc' = [pc EXCEPT ![t] = l]
  /\ UNCHANGED initVal

-----------------------------------------------------------------------------
\* What a thread that has called the lock, or is inside, does next.
Inside(t) ==
  \/ SharedRead(t) \/ SharedRefused(t) \/ SharedSwap(t)
  \/ UnshareRead(t) \/ SharedRelease(t)
  \/ ExclusiveRead(t) \/ ExclusiveRefused(t) \/ ExclusiveSwap(t)
  \/ Drained(t) \/ ExclusiveRelease(t)

Next == \E t \in Threads : BeginShared(t) \/ BeginExclusive(t) \/ Inside(t)

Spec == Init /\ [][Next]_vars

\* Threads inside the lock's functions run on, and whoever holds the lock
\* releases it; nobody need call.
Fairness == \A t \in Threads : WF_vars(Inside(t))

FairSpec == Spec /\ Fairness

-----------------------------------------------------------------------------
(* Properties                                                               *)

\* The word, the places and the copies have their types.
TypeOK ==
  /\ value \in [writer : BOOLEAN, readers : Nat]
  /\ pc \in [Threads -> {"idle", "want_shared", "shared", "reading", "unshare",
                         "want_excl", "excl", "drain", "writing"}]
  /\ initVal \in [Threads -> [writer : BOOLEAN, readers : Nat]]

\* The word is exact whatever stale copies the loops work with: it counts the
\* readers, its top bit is set exactly when one thread has claimed the lock.
\* So ReleaseExclusive's assertion holds, and its plain store of 0 loses
\* neither a reader nor another writer.
WordExact ==
  /\ value.readers = Cardinality(Readers)
  /\ value.writer <=> Claimants # {}
  /\ \A t, u \in Claimants : t = u
  /\ Writers # {} => value = Locked

\* While a thread writes nobody else is inside, as reader or as writer.
MutualExclusion ==
  \A t \in Writers : Writers = {t} /\ Readers = {}

\* The lock keeps the promise of the abstract reader/writer lock; in particular
\* no reader gets in once a writer has claimed the lock.
Abstract == INSTANCE ReaderWriterLock
              WITH readers <- Readers, claimant <- Claimants, inside <- Writers # {}
ImplementsLock == Abstract!Spec

\* A writer that has claimed the lock gets in, although readers keep coming.
ClaimGetsIn == \A t \in Threads : pc[t] = "drain" ~> pc[t] = "writing"
=============================================================================
