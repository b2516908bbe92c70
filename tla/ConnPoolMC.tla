----------------------------- MODULE ConnPoolMC -----------------------------
(* Instances of ConnPool for TLC. *)
EXTENDS ConnPool, TLC

CONSTANTS p1, p2, c1, c2

Interchangeable == Permutations(Procs) \cup Permutations(Conns)
=============================================================================
