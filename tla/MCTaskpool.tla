----------------------------- MODULE MCTaskpool -----------------------------
(* Taskpool on small instances. *)
EXTENDS Taskpool, TLC

CONSTANTS t1, t2

\* t1 belongs to a connection, t2 (the periodic one) to the server.
Groups == [t \in Tasks |-> IF t = t2 THEN 0 ELSE 1]

ThreadSymmetry == Permutations(Threads)
=============================================================================
