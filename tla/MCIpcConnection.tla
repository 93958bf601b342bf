-------------------------- MODULE MCIpcConnection --------------------------
(* Model values and symmetry for the instances of IpcConnection. *)
EXTENDS IpcConnection, TLC

CONSTANTS w1, w2, s1

TwoWorkers == {w1, w2}
OneSender  == {s1}
NoSenders  == {}

\* Workers are interchangeable; used for safety runs only.
Symmetry == Permutations(TwoWorkers)
=============================================================================
