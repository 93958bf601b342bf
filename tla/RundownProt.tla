---------------------------- MODULE RundownProt ----------------------------
(***************************************************************************)
(* Rundown protection: the LONG word of WaitableObjects.cpp that the task  *)
(* queue, the timer handler, the IPC engine, the host resolver and the     *)
(* HTTP server use to keep an object alive while calls are inside it.      *)
(*                                                                         *)
(* The word's top bit says that the owner is shutting the object down, its *)
(* other 31 bits count the users inside.  One action is one interlocked    *)
(* access to the word; between two of them any thread may run.             *)
(***************************************************************************)
EXTENDS Integers, FiniteSets

CONSTANT Threads    \* the threads that call the protected object

ASSUME ThreadsFinite == IsFiniteSet(Threads)

VARIABLES
  value,    \* the word: [down |-> top bit, refs |-> low 31 bits]
  pc,       \* where each user thread is
  initVal,  \* each user thread's local copy of the word
  owner     \* the owner: "open", "waiting" in WaitForRelease, or "down"

vars == <<value, pc, initVal, owner>>

Zero == [down |-> FALSE, refs |-> 0]

\* The users the count stands for: a releasing thread still counts until its
\* compare-and-swap succeeds.
Holders == {t \in Threads : pc[t] \in {"held", "release"}}

Init ==
  /\ value = Zero
  /\ pc = [t \in Threads |-> "idle"]
  /\ initVal = [t \in Threads |-> Zero]
  /\ owner = "open"

-----------------------------------------------------------------------------
(* Faulty variants of the steps below; each breaks one of the properties.   *)

\* The compare-and-swap stores even when the word has changed meanwhile.
MutAcquireBlind(t) ==
  /\ pc[t] = "acquire"
  /\ ~initVal[t].down
  /\ value' = [initVal[t] EXCEPT !.refs = @ + 1]
  /\ pc' = [pc EXCEPT ![t] = "held"]
  /\ UNCHANGED <<initVal, owner>>

\* An interlocked increment instead of the compare-and-swap: the top bit is
\* tested in the copy only.
MutAcquireNoBit(t) ==
  /\ pc[t] = "acquire"
  /\ ~initVal[t].down
  /\ value' = [value EXCEPT !.refs = @ + 1]
  /\ pc' = [pc EXCEPT ![t] = "held"]
  /\ UNCHANGED <<initVal, owner>>

\* A failed compare-and-swap is not retried.
MutReleaseOnce(t) ==
  /\ pc[t] = "release"
  /\ value' = IF value = initVal[t]
              THEN [value EXCEPT !.refs = @ - 1]
              ELSE value
  /\ pc' = [pc EXCEPT ![t] = "idle"]
  /\ UNCHANGED <<initVal, owner>>

-----------------------------------------------------------------------------
(* RundownProt_Acquire                                                      *)

\* The plain read before the loop.
AcquireRead(t) ==
  /\ pc[t] = "idle"
  /\ pc' = [pc EXCEPT ![t] = "acquire"]
  /\ initVal' = [initVal EXCEPT ![t] = value]
  /\ UNCHANGED <<value, owner>>

\* The loop body: give up when the top bit was set in the copy; otherwise
\* compare-and-swap, and retry with the value found when it fails.
AcquireRefused(t) ==
  /\ pc[t] = "acquire"
  /\ initVal[t].down
  /\ pc' = [pc EXCEPT ![t] = "idle"]
  /\ UNCHANGED <<value, initVal, owner>>

AcquireSwap(t) ==
  /\ pc[t] = "acquire"
  /\ ~initVal[t].down
  /\ IF value = initVal[t]
     THEN /\ value' = [value EXCEPT !.refs = @ + 1]
          /\ pc' = [pc EXCEPT ![t] = "held"]
          /\ UNCHANGED initVal
     ELSE /\ initVal' = [initVal EXCEPT ![t] = value]
          /\ UNCHANGED <<value, pc>>
  /\ UNCHANGED owner

-----------------------------------------------------------------------------
(* RundownProt_Release                                                      *)

ReleaseRead(t) ==
  /\ pc[t] = "held"
  /\ pc' = [pc EXCEPT ![t] = "release"]
  /\ initVal' = [initVal EXCEPT ![t] = value]
  /\ UNCHANGED <<value, owner>>

ReleaseSwap(t) ==
  /\ pc[t] = "release"
  /\ IF value = initVal[t]
     THEN /\ value' = [down |-> initVal[t].down, refs |-> initVal[t].refs - 1]
          /\ pc' = [pc EXCEPT ![t] = "idle"]
          /\ UNCHANGED initVal
     ELSE /\ initVal' = [initVal EXCEPT ![t] = value]
          /\ UNCHANGED <<value, pc>>
  /\ UNCHANGED owner

-----------------------------------------------------------------------------
(* RundownProt_WaitForRelease and RundownProt_Initialize, by the one thread *)
(* that finalizes the object (its callers hold an init/shutdown lock, or    *)
(* are its destructor).                                                     *)

MarkDown ==
  /\ owner = "open"
  /\ value' = [value EXCEPT !.down = TRUE]
  /\ owner' = "waiting"
  /\ UNCHANGED <<pc, initVal>>

SeeDrained ==
  /\ owner = "waiting"
  /\ value = [down |-> TRUE, refs |-> 0]
  /\ owner' = "down"
  /\ UNCHANGED <<value, pc, initVal>>

Initialize ==
  /\ owner = "down"
  /\ value' = Zero
  /\ owner' = "open"
  /\ UNCHANGED <<pc, initVal>>

-----------------------------------------------------------------------------
Step(t) ==
  \/ AcquireRead(t) \/ AcquireRefused(t) \/ AcquireSwap(t)
  \/ ReleaseRead(t) \/ ReleaseSwap(t)

Next ==
  \/ \E t \in Threads : Step(t)
  \/ MarkDown \/ SeeDrained \/ Initialize

Spec == Init /\ [][Next]_vars

\* A thread inside a call goes on (it need not start another one), and so
\* does an owner that waits.  The owner need not shut down nor reopen.
Fairness ==
  /\ \A t \in Threads : WF_vars(AcquireRefused(t) \/ AcquireSwap(t)
                                \/ ReleaseRead(t) \/ ReleaseSwap(t))
  /\ WF_vars(SeeDrained)

FairSpec == Spec /\ Fairness

-----------------------------------------------------------------------------
(* Properties                                                               *)

\* The word, the program counters and the local copies have their types; the
\* count stays within the number of callers, so it cannot reach the top bit.
TypeOK ==
  /\ value \in [down : BOOLEAN, refs : Nat]
  /\ pc \in [Threads -> {"idle", "acquire", "held", "release"}]
  /\ initVal \in [Threads -> [down : BOOLEAN, refs : Nat]]
  /\ owner \in {"open", "waiting", "down"}

\* The count is exactly the number of users inside, whatever stale copies the
\* compare-and-swap loops of Acquire and Release work with.
CountExact == value.refs = Cardinality(Holders)

\* Once WaitForRelease has returned, nobody is inside and nobody gets in until
\* the owner initializes the word again: the owner may free what it protects.
DrainedWhenDown == owner = "down" => Holders = {}

\* The assertion of RundownProt_Release: a thread that releases never finds
\* a count of zero in its copy, however stale the copy is.
ReleaseAssert == \A t \in Threads : pc[t] = "release" => initVal[t].refs # 0

\* Nobody enters after the owner has set the top bit, not even a thread whose
\* copy of the word is older than that.
NoEntryOnceMarked ==
  [][\A t \in Threads : owner # "open" /\ pc'[t] = "held" => pc[t] = "held"]_vars

\* The word keeps the promise of the abstract rundown protection.
Abstract == INSTANCE Rundown WITH phase <- owner, holders <- Holders
ImplementsRundown == Abstract!Spec

\* WaitForRelease returns: the calls that are inside drain, and the retries of
\* those that are still trying to get in cannot keep the owner waiting.
WaitReturns == owner = "waiting" ~> owner = "down"
=============================================================================
