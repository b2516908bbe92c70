----------------------------- MODULE FlushServiceMC -------------------------
(* Instances of FlushService for TLC. *)
EXTENDS FlushService

CONSTANTS p1, p2, top, sub, dest, a, b

\* sub is a subdirectory of top; dest is apart.
SmallUnder == [d \in Dirs |-> IF d = top THEN {top, sub} \cap Dirs ELSE {d}]

\* One watcher on top.
OneWatcher == {[id |-> 1, name |-> "n1", path |-> top, machine |-> "m1"]}
=============================================================================
