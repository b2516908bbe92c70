------------------------------ MODULE ConnPool ------------------------------
(***************************************************************************)
(* The connections behind database.DB.  Open runs "PRAGMA foreign_keys =   *)
(* ON" once, on the one connection that sql.Open's pool has by then.  The  *)
(* pool (database/sql, modelled from how the repositories use it) hands a  *)
(* free connection to each statement, opens another when none is free, and *)
(* the pragma of a connection is off until somebody sets it.               *)
(***************************************************************************)
EXTENDS Schema

CONSTANTS
  Procs,         \* goroutines that execute statements
  Names,         \* watcher names
  Machines,      \* machine names
  Paths,         \* source paths, target paths and file paths
  Conns,         \* connections
  NoConn,        \* not a connection
  MaxIdle,       \* free connections that the pool keeps (2 in database/sql)
  MaxFileId,     \* bound: an INSERT that needs a larger id fails
  MaxWatcherId   \* bound: the same for file_watchers

VARIABLES
  db,        \* the database (module Schema)
  idle,      \* the open connections that are free
  held,      \* per goroutine, the connection its statement runs on, or NoConn
  enforced   \* the open connections on which the pragma is on

vars == <<db, idle, held, enforced>>

\* The connections that exist.
Open == {c \in Conns : c \in idle \/ \E p \in Procs : held[p] = c}

\* Open: the schema and the pragma are executed one after the other, on the same
\* connection.
Init ==
  /\ db = EmptyDB
  /\ \E c \in Conns : idle = {c} /\ enforced = {c}
  /\ held = [p \in Procs |-> NoConn]

\* Exec or Query takes a connection.
Acquire(p) ==
  /\ held[p] = NoConn
  /\ \/ \E c \in idle :
          /\ idle' = idle \ {c}
          /\ held' = [held EXCEPT ![p] = c]
          /\ UNCHANGED enforced
     \/ /\ idle = {}
        /\ \E c \in Conns \ Open :
             held' = [held EXCEPT ![p] = c] /\ enforced' = enforced \ {c}
        /\ UNCHANGED idle
  /\ UNCHANGED db

\* The statements of the repositories on a connection whose pragma is fk.
Statement(fk) ==
  \/ \E m \in Machines : CanInsertMachine(db, m) /\ db' = InsertMachine(db, m)
  \/ \E m \in Machines : CanDeleteMachine(db, m, fk) /\ db' = DeleteMachine(db, m, fk)
  \/ \E n \in Names, s \in Paths, m \in Machines, i \in 1 .. MaxWatcherId :
       /\ CanInsertWatcher(db, n, m, fk) /\ IsNextRowId(db.watchers, i)
       /\ db' = InsertWatcher(db, i, n, s, m)
  \/ \E w \in db.watchers, n \in Names, s \in Paths :
       CanUpdateWatcher(db, w, n, fk) /\ db' = UpdateWatcher(db, w, n, s)
  \/ \E n \in Names : db' = DeleteWatcher(db, n, fk)
  \/ \E n \in Names, S \in SUBSET Paths \ {{}}, flushed \in BOOLEAN, i \in 1 .. MaxFileId :
       \E ids \in Numberings(S, i) :
         /\ CanInsertFiles(db, n, fk) /\ IsNextRowId(db.files, i)
         /\ \A f \in S : ids[f] \in 1 .. MaxFileId
         /\ db' = InsertFiles(db, n, ids, flushed)
  \/ \E n \in Names, S \in SUBSET Paths : db' = DeleteFiles(db, n, S)
  \/ \E ids \in SUBSET (1 .. MaxFileId) : db' = MarkFlushed(db, ids)
  \/ \E n \in Names, t \in Paths, m \in Machines :
       CanInsertRedirection(db, n, m, fk) /\ db' = InsertRedirection(db, n, t, m)
  \/ \E n \in Names, t \in Paths : db' = UpdateRedirection(db, n, t)
  \/ \E n \in Names : db' = DeleteRedirection(db, n)

\* p gives its connection back; one too many is closed.
GiveBack(p) ==
  /\ held' = [held EXCEPT ![p] = NoConn]
  /\ IF Cardinality(idle) < MaxIdle
     THEN idle' = idle \cup {held[p]} /\ UNCHANGED enforced
     ELSE enforced' = enforced \ {held[p]} /\ UNCHANGED idle

\* The statement is carried out; a query, or a statement that fails, changes
\* nothing.
Finish(p) ==
  /\ held[p] # NoConn
  /\ Statement(held[p] \in enforced) \/ UNCHANGED db
  /\ GiveBack(p)

\* The process ends and starts again with Open.
Restart ==
  /\ \E c \in Conns : idle' = {c} /\ enforced' = {c}
  /\ held' = [p \in Procs |-> NoConn]
  /\ UNCHANGED db

Next == (\E p \in Procs : Acquire(p) \/ Finish(p)) \/ Restart

Spec == Init /\ [][Next]_vars

(***************************************************************************)
(* Properties                                                              *)
(***************************************************************************)
TypeOK ==
  /\ db \in [machines : SUBSET Machines,
             watchers : SUBSET [id : Nat, name : Names, path : Paths, machine : Machines],
             files : SUBSET [id : Nat, watcher : Names, path : Paths, flushed : BOOLEAN],
             redirections : SUBSET [watcher : Names, target : Paths, machine : Machines]]
  /\ idle \subseteq Conns /\ enforced \subseteq Conns
  /\ held \in [Procs -> Conns \cup {NoConn}]

\* Ids and names stay keys of their tables, whether the pragma is on or off, and
\* although a deleted row's id is given out again and its children may survive it.
KeysHold == UniqueKeys(db)

\* db.go:28, "Enable foreign key enforcement": no statement leaves a row whose
\* watcher or machine is gone, whatever connection it ran on.
NoOrphans == ReferencesHold(db)
=============================================================================
