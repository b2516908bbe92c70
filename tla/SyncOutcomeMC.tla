--------------------------- MODULE SyncOutcomeMC ---------------------------
(* Instances of SyncOutcome for TLC. *)
EXTENDS SyncOutcome, TLC

CONSTANTS p1, p2, d1, d2, d3, f1, f2, f3, n1, n2

\* d1 with its subdirectory d2; d3 apart.
SmallTree == [d \in Dirs |-> IF d = d1 THEN {d2} \cap Dirs ELSE {}]

\* f1 at the top of d1, f2 below d2 where there is one, f3 in d3.
SmallDirOf ==
  [f \in Files |-> CASE f = f1 -> d1
                     [] f = f2 -> IF d2 \in Dirs THEN d2 ELSE d1
                     [] OTHER -> IF d3 \in Dirs THEN d3 ELSE d1]

\* Goroutines are alike, and so are names.
Interchangeable == Permutations(Procs) \cup Permutations(Names)
=============================================================================
