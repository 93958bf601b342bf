------------------------------ MODULE Rundown ------------------------------
(***************************************************************************)
(* What rundown protection promises its users, independently of the word   *)
(* of memory it is implemented with (RundownProt refines this module).     *)
(*                                                                         *)
(* Users enter and leave a protected object.  The owner closes it: from    *)
(* then on nobody enters, and the owner is told that the object is down    *)
(* only when the last user has left.  It may then be opened again.         *)
(***************************************************************************)

CONSTANT Threads

VARIABLES
  phase,    \* "open", "waiting" (closing, users may be inside) or "down"
  holders   \* the threads that are inside the protected region

vars == <<phase, holders>>

Init == phase = "open" /\ holders = {}

Enter(t) ==
  /\ phase = "open"
  /\ t \notin holders
  /\ holders' = holders \union {t}
  /\ UNCHANGED phase

Leave(t) ==
  /\ t \in holders
  /\ holders' = holders \ {t}
  /\ UNCHANGED phase

Close ==
  /\ phase = "open"
  /\ phase' = "waiting"
  /\ UNCHANGED holders

Drained ==
  /\ phase = "waiting"
  /\ holders = {}
  /\ phase' = "down"
  /\ UNCHANGED holders

Reopen ==
  /\ phase = "down"
  /\ phase' = "open"
  /\ UNCHANGED holders

Next ==
  \/ \E t \in Threads : Enter(t) \/ Leave(t)
  \/ Close \/ Drained \/ Reopen

Spec == Init /\ [][Next]_vars
=============================================================================
