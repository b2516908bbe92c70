----------------------------- MODULE CommandMC -----------------------------
(* Instances of Command for TLC: what the user types, a few commands a time. *)
EXTENDS Command

CONSTANTS c1, c2, n1, n2, m1, m2, s1

\* A command with its arguments; those that it does not use are alike in all.
Tfw(op, n) ==
  [op |-> op, name |-> n, to |-> n, path |-> s1, machine |-> m1, stream |-> FALSE, flush |-> FALSE]

Accounts == {Tfw("login", n1), Tfw("logout", n1), Tfw("read", n1)}
Syncing == {[Tfw("sync", n1) EXCEPT !.stream = TRUE], Tfw("sync", n1)}
Creating == {[Tfw("createWatcher", n1) EXCEPT !.flush = TRUE], Tfw("sync", n1)}
Renaming == {[Tfw("updateWatcher", n1) EXCEPT !.to = n2], Tfw("createWatcher", n1)}
Deleting == {Tfw("createWatcher", n1), Tfw("deleteWatcher", n1)}
Flushing == {[Tfw("flush", n1) EXCEPT !.stream = TRUE], Tfw("flush", n1)}
Machining == {Tfw("createMachine", n1), Tfw("updateMachine", n1), Tfw("deleteMachine", n1)}
Redirecting == {Tfw("createRedirection", n1), Tfw("updateRedirection", n1), Tfw("deleteRedirection", n1)}

\* Tokens expire in the first of these, where they matter.
Everyday ==
  {[requests |-> Accounts, watchers |-> {}, expire |-> TRUE]} \cup
  [requests : {Creating, Renaming, Machining}, watchers : {{}}, expire : {FALSE}] \cup
  [requests : {Syncing, Deleting, Flushing, Redirecting},
   watchers : {{WatcherRow(1, n1, s1, m1)}}, expire : {FALSE}]
=============================================================================
