-------------------------- MODULE ReaderWriterLock --------------------------
(***************************************************************************)
(* What the slim reader/writer lock promises, independently of the word it *)
(* is implemented with (SlimRWLock refines this module).                   *)
(*                                                                         *)
(* Readers share the lock.  A writer first claims it: from then on nobody  *)
(* gets in; it is inside once the last reader has left.                    *)
(***************************************************************************)

CONSTANT Threads

VARIABLES
  readers,  \* the threads that hold the lock shared
  claimant, \* the thread that has claimed the lock, as a set of at most one
  inside    \* the claimant holds the lock exclusively

vars == <<readers, claimant, inside>>

Init == readers = {} /\ claimant = {} /\ inside = FALSE

EnterShared(t) ==
  /\ claimant = {}
  /\ t \notin readers
  /\ readers' = readers \union {t}
  /\ UNCHANGED <<claimant, inside>>

LeaveShared(t) ==
  /\ t \in readers
  /\ readers' = readers \ {t}
  /\ UNCHANGED <<claimant, inside>>

Claim(t) ==
  /\ claimant = {}
  /\ t \notin readers
  /\ claimant' = {t}
  /\ UNCHANGED <<readers, inside>>

EnterExclusive ==
  /\ claimant # {}
  /\ readers = {}
  /\ ~inside
  /\ inside' = TRUE
  /\ UNCHANGED <<readers, claimant>>

LeaveExclusive ==
  /\ inside
  /\ inside' = FALSE
  /\ claimant' = {}
  /\ UNCHANGED readers

Next ==
  \/ \E t \in Threads : EnterShared(t) \/ LeaveShared(t) \/ Claim(t)
  \/ EnterExclusive \/ LeaveExclusive

Spec == Init /\ [][Next]_vars
=============================================================================
