----------------------------- MODULE TreeWalkMC -----------------------------
(* An instance of TreeWalk for TLC: three levels, one file on each. *)
EXTENDS TreeWalk

CONSTANTS top, left, right, deep, fTop, fLeft, fDeep

\* top / { left / deep, right }
TreeOfFour ==
  [d \in Dirs |-> CASE d = top -> {left, right} [] d = left -> {deep} [] OTHER -> {}]

FilesOfThree == [f \in Files |-> CASE f = fTop -> top [] f = fLeft -> left [] OTHER -> deep]
=============================================================================
