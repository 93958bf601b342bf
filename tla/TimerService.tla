---------------------------- MODULE TimerService ----------------------------
(***************************************************************************)
(* What the timed events promise, independently of the lists and flags     *)
(* they are implemented with (TimedEvent refines this module).             *)
(*                                                                         *)
(* A timer is known by its id, which is never used twice.  One callback    *)
(* runs at a time.  A one-shot timer fires once; an interval fires again   *)
(* unless its callback cancels it.  Clearing an armed timer ends it;       *)
(* clearing a firing one ends it when its callback returns, and a call     *)
(* that waits for that does not return before.                             *)
(***************************************************************************)
EXTENDS Naturals

CONSTANT Id

VARIABLES
  used,      \* the ids given so far
  timers,    \* the timers that may still fire: records of TimerRecord
  awaited    \* the ids of the firing timers whose clearing waits

vars == <<used, timers, awaited>>

TimerRecord == [id : Id, oneShot : BOOLEAN, phase : {"armed", "firing", "cleared"}]

Init == used = {} /\ timers = {} /\ awaited = {}

Ids == {x.id : x \in timers}
Replace(x, p) == timers' = (timers \ {x}) \union {[x EXCEPT !.phase = p]}

Set(i, once) ==
  /\ i \notin used
  /\ used' = used \union {i}
  /\ timers' = timers \union {[id |-> i, oneShot |-> once, phase |-> "armed"]}
  /\ UNCHANGED awaited

\* Memory runs out after the id was drawn.
SetFails(i) ==
  /\ i \notin used
  /\ used' = used \union {i}
  /\ UNCHANGED <<timers, awaited>>

Fire(x) ==
  /\ x.phase = "armed"
  /\ \A y \in timers : y.phase = "armed"
  /\ Replace(x, "firing")
  /\ UNCHANGED <<used, awaited>>

\* The callback of a timer that was not cleared returns.
Finish(x) ==
  /\ x.phase = "firing"
  /\ \/ ~x.oneShot /\ Replace(x, "armed")
     \/ timers' = timers \ {x}
  /\ UNCHANGED <<used, awaited>>

Clear(x) ==
  /\ \/ x.phase = "armed" /\ timers' = timers \ {x} /\ UNCHANGED awaited
     \/ x.phase = "firing" /\ Replace(x, "cleared") /\ awaited' \in {awaited, awaited \union {x.id}}
  /\ UNCHANGED used

\* The callback of a cleared timer returns.
End(x) ==
  /\ x.phase = "cleared"
  /\ timers' = timers \ {x}
  /\ UNCHANGED <<used, awaited>>

\* A call that waited returns.
Return(i) ==
  /\ i \in awaited \ Ids
  /\ awaited' = awaited \ {i}
  /\ UNCHANGED <<used, timers>>

Next ==
  \/ \E i \in Id : SetFails(i) \/ \E once \in BOOLEAN : Set(i, once)
  \/ \E x \in timers : Fire(x) \/ Finish(x) \/ Clear(x) \/ End(x)
  \/ \E i \in awaited : Return(i)

Spec == Init /\ [][Next]_vars
=============================================================================
