------------------------------- MODULE Schema -------------------------------
(***************************************************************************)
(* The SQLite database of the server (src/server/database): its four       *)
(* tables as sets of rows, every SQL statement the repositories execute as *)
(* an operator on the whole database, and the view of pending flushes.     *)
(*                                                                         *)
(* A statement is atomic.  X(db, ...) is the database after statement X    *)
(* and CanX(db, ...) is the condition under which SQLite's constraints     *)
(* accept it; a refused statement changes nothing.  "fk" is the            *)
(* foreign_keys pragma of the connection the statement runs on: without it *)
(* SQLite neither checks a reference nor cascades a delete.                *)
(*                                                                         *)
(* Timestamps are left out, a file's directory and base name are one path, *)
(* and a machine is its name: no statement renames a machine, and its SSH  *)
(* coordinates are only ever read together with the name.                  *)
(***************************************************************************)
EXTENDS Integers, FiniteSets

EmptyDB == [machines |-> {}, watchers |-> {}, files |-> {}, redirections |-> {}]

WatcherNames(db) == {w.name : w \in db.watchers}

\* An INTEGER PRIMARY KEY without AUTOINCREMENT: i is one more than the largest
\* id in the table NOW, so the id of a deleted last row is given out again.
IsNextRowId(rows, i) ==
  /\ \A r \in rows : r.id < i
  /\ i = 1 \/ \E r \in rows : r.id = i - 1

\* The ids a multi-row INSERT may give to the members of S: consecutive, in the
\* order of the VALUES list, which is the iteration order of a Go map.
Numberings(S, first) ==
  {g \in [S -> first .. (first + Cardinality(S) - 1)] :
     \A x, y \in S : g[x] = g[y] => x = y}

(***************************************************************************)
(* machines                                                                *)
(***************************************************************************)
CanInsertMachine(db, m) == m \notin db.machines
InsertMachine(db, m) == [db EXCEPT !.machines = @ \cup {m}]

\* Deleting the watchers in ws takes their files and redirections along when
\* the cascade is on.
DropWatchers(db, ws, fk) ==
  LET gone == {w.name : w \in ws}
  IN  IF fk
      THEN [db EXCEPT !.watchers = @ \ ws,
                      !.files = {f \in @ : f.watcher \notin gone},
                      !.redirections = {r \in @ : r.watcher \notin gone}]
      ELSE [db EXCEPT !.watchers = @ \ ws]

WatchersOn(db, m) == {w \in db.watchers : w.machine = m}

\* file_redirections.target_machine_name has no ON DELETE action: a redirection
\* to m refuses the delete unless the cascade from m removes it as well.
CanDeleteMachine(db, m, fk) ==
  fk => \A r \in db.redirections :
          r.machine = m => r.watcher \in {w.name : w \in WatchersOn(db, m)}
DeleteMachine(db, m, fk) ==
  LET base == [db EXCEPT !.machines = @ \ {m}]
  IN  IF fk THEN DropWatchers(base, WatchersOn(db, m), fk) ELSE base

(***************************************************************************)
(* file_watchers                                                           *)
(***************************************************************************)
\* Mutant: the two strings of the INSERT change places.
WatcherRowSwapped(i, n, p, m) == [id |-> i, name |-> p, path |-> n, machine |-> m]
WatcherRow(i, n, p, m) == [id |-> i, name |-> n, path |-> p, machine |-> m]

CanInsertWatcher(db, n, m, fk) == n \notin WatcherNames(db) /\ (fk => m \in db.machines)
InsertWatcher(db, i, n, p, m) ==
  [db EXCEPT !.watchers = @ \cup {WatcherRow(i, n, p, m)}]

\* The row of a name, if there is one: a set of at most one row.
WatchersNamed(db, n) == {w \in db.watchers : w.name = n}

\* No child row refers to watcher name n.
Unreferenced(db, n) ==
  /\ \A f \in db.files : f.watcher # n
  /\ \A r \in db.redirections : r.watcher # n

\* There is no ON UPDATE action either: a referenced name cannot change.
CanUpdateWatcher(db, w, n, fk) ==
  /\ w \in db.watchers
  /\ \A v \in db.watchers \ {w} : v.name # n
  /\ fk /\ n # w.name => Unreferenced(db, w.name)
UpdateWatcher(db, w, n, p) ==
  [db EXCEPT !.watchers = (@ \ {w}) \cup {[w EXCEPT !.name = n, !.path = p]}]

DeleteWatcher(db, n, fk) == DropWatchers(db, WatchersNamed(db, n), fk)

(***************************************************************************)
(* watched_files                                                           *)
(***************************************************************************)
FilesOf(db, n) == {f \in db.files : f.watcher = n}
FileRow(i, n, p, b) == [id |-> i, watcher |-> n, path |-> p, flushed |-> b]

\* Mutant: watched_files.watcher_name declared without REFERENCES.
CanInsertFilesUnchecked(db, n, fk) == TRUE
CanInsertFiles(db, n, fk) == fk => n \in WatcherNames(db)
InsertFiles(db, n, ids, flushed) ==
  [db EXCEPT !.files = @ \cup {FileRow(ids[p], n, p, flushed) : p \in DOMAIN ids}]

\* Mutant: no condition on watcher_name.
DeleteFilesOfAll(db, n, paths) ==
  [db EXCEPT !.files = {f \in @ : f.path \notin paths}]
DeleteFiles(db, n, paths) ==
  [db EXCEPT !.files = {f \in @ : ~(f.watcher = n /\ f.path \in paths)}]

MarkFlushed(db, ids) ==
  [db EXCEPT !.files = {IF f.id \in ids THEN [f EXCEPT !.flushed = TRUE] ELSE f : f \in @}]

(***************************************************************************)
(* file_redirections                                                       *)
(***************************************************************************)
\* Mutant: the two strings of the INSERT change places.
RedirectionRowSwapped(n, t, m) == [watcher |-> n, target |-> m, machine |-> t]
RedirectionRow(n, t, m) == [watcher |-> n, target |-> t, machine |-> m]

CanInsertRedirection(db, n, m, fk) ==
  /\ \A r \in db.redirections : r.watcher # n
  /\ fk => n \in WatcherNames(db) /\ m \in db.machines
InsertRedirection(db, n, t, m) ==
  [db EXCEPT !.redirections = @ \cup {RedirectionRow(n, t, m)}]

UpdateRedirection(db, n, t) ==
  [db EXCEPT !.redirections = {IF r.watcher = n THEN [r EXCEPT !.target = t] ELSE r : r \in @}]

DeleteRedirection(db, n) == [db EXCEPT !.redirections = {r \in @ : r.watcher # n}]

(***************************************************************************)
(* The view pending_file_flushes of one watcher: its unflushed files joined *)
(* with its redirection, its own row and both machines.                    *)
(***************************************************************************)
PendingFlushes(db, n) ==
  {[id |-> f.id, path |-> f.path, machine |-> w.machine,
    target |-> r.target, targetMachine |-> r.machine] :
     f \in {x \in FilesOf(db, n) : ~x.flushed},
     r \in {x \in db.redirections : x.watcher = n /\ x.machine \in db.machines},
     w \in {x \in WatchersNamed(db, n) : x.machine \in db.machines}}

(***************************************************************************)
(* What the schema declares: keys and references.                          *)
(***************************************************************************)
UniqueKeys(db) ==
  /\ \A v, w \in db.watchers : v.id = w.id \/ v.name = w.name => v = w
  /\ \A f, g \in db.files : f.id = g.id => f = g
  /\ \A r, s \in db.redirections : r.watcher = s.watcher => r = s

ReferencesHold(db) ==
  /\ \A w \in db.watchers : w.machine \in db.machines
  /\ \A f \in db.files : f.watcher \in WatcherNames(db)
  /\ \A r \in db.redirections : r.watcher \in WatcherNames(db) /\ r.machine \in db.machines
=============================================================================
