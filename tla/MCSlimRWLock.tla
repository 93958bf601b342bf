---------------------------- MODULE MCSlimRWLock ----------------------------
(* Three threads: a writer, a reader in its way and one that works with a    *)
(* stale copy of the word.                                                   *)
EXTENDS SlimRWLock

CONSTANTS t1, t2, t3
MCThreads == {t1, t2, t3}
=============================================================================
