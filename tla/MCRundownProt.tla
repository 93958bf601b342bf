--------------------------- MODULE MCRundownProt ---------------------------
(* Three threads call an object whose owner shuts it down and opens it       *)
(* again: stale copies of the word survive a whole shutdown.                 *)
EXTENDS RundownProt

CONSTANTS t1, t2, t3
MCThreads == {t1, t2, t3}
=============================================================================
