---------------------------- MODULE MCTimedEvent ----------------------------
(* Small instances of TimedEvent for TLC.                                   *)
EXTENDS TimedEvent
=============================================================================
