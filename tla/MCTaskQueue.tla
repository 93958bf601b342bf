---------------------------- MODULE MCTaskQueue ----------------------------
(* Model values for the instance of TaskQueue. *)
EXTENDS TaskQueue

CONSTANTS t1, t2, t3, k1, k2, c1

Threads == {t1, t2, t3}
Tasks   == {k1, k2}
Clients == {c1}
=============================================================================
