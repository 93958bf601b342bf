-------------------------- MODULE MCIocpThreadPool --------------------------
(* Model values and symmetry for the instances of IocpThreadPool. *)
EXTENDS IocpThreadPool, TLC

CONSTANTS t1, t2, t3, t4, p1

Threads == {t1, t2, t3, t4}
Packets == {p1}

\* Thread objects are interchangeable.
Symmetry == Permutations(Threads)
=============================================================================
