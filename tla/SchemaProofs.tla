---------------------------- MODULE SchemaProofs ----------------------------
(***************************************************************************)
(* On a connection that enforces foreign keys every statement keeps the    *)
(* references of the database whole.  The lemmas hold for any sets of      *)
(* names, paths and machines, so each module that composes Schema may cite *)
(* them.                                                                   *)
(***************************************************************************)
EXTENDS Schema, TLAPS

\* Databases over names N, paths P and machines M.
TablesOver(N, P, M) ==
  [machines : SUBSET M,
   watchers : SUBSET [id : Nat, name : N, path : P, machine : M],
   files : SUBSET [id : Nat, watcher : N, path : P, flushed : BOOLEAN],
   redirections : SUBSET [watcher : N, target : P, machine : M]]

\* What a statement leaves behind is a database over the same sets.
LEMMA StatementsKeepTables ==
  ASSUME NEW N, NEW P, NEW M, NEW d \in TablesOver(N, P, M)
  PROVE  /\ \A m \in M : InsertMachine(d, m) \in TablesOver(N, P, M)
         /\ \A m \in M, fk \in BOOLEAN : DeleteMachine(d, m, fk) \in TablesOver(N, P, M)
         /\ \A i \in Nat, n \in N, p \in P, m \in M :
              InsertWatcher(d, i, n, p, m) \in TablesOver(N, P, M)
         /\ \A w \in d.watchers, n \in N, p \in P :
              UpdateWatcher(d, w, n, p) \in TablesOver(N, P, M)
         /\ \A n \in N, fk \in BOOLEAN : DeleteWatcher(d, n, fk) \in TablesOver(N, P, M)
         /\ \A n \in N, S \in SUBSET P, b \in BOOLEAN : \A ids \in [S -> Nat] :
              InsertFiles(d, n, ids, b) \in TablesOver(N, P, M)
         /\ \A n, S : DeleteFiles(d, n, S) \in TablesOver(N, P, M)
         /\ \A ids : MarkFlushed(d, ids) \in TablesOver(N, P, M)
         /\ \A n \in N, t \in P, m \in M : InsertRedirection(d, n, t, m) \in TablesOver(N, P, M)
         /\ \A n \in N, t \in P : UpdateRedirection(d, n, t) \in TablesOver(N, P, M)
         /\ \A n \in N : DeleteRedirection(d, n) \in TablesOver(N, P, M)
<1> DEFINE T == TablesOver(N, P, M)
<1>1. \A m \in M : InsertMachine(d, m) \in T
  BY DEF InsertMachine, TablesOver
<1>2. \A ws \in SUBSET d.watchers, fk \in BOOLEAN : \A b \in T : DropWatchers(b, ws, fk) \in T
  BY DEF DropWatchers, TablesOver
<1>3. \A m \in M, fk \in BOOLEAN : DeleteMachine(d, m, fk) \in T
  <2> SUFFICES ASSUME NEW m \in M, NEW fk \in BOOLEAN PROVE DeleteMachine(d, m, fk) \in T
    OBVIOUS
  <2> DEFINE base == [d EXCEPT !.machines = @ \ {m}]
  <2>1. base \in T
    BY DEF TablesOver
  <2>2. DeleteMachine(d, m, fk) =
          IF fk THEN DropWatchers(base, WatchersOn(d, m), fk) ELSE base
    BY DEF DeleteMachine
  <2> HIDE DEF T, base
  <2>3. WatchersOn(d, m) \in SUBSET d.watchers
    BY DEF WatchersOn
  <2>4. DropWatchers(base, WatchersOn(d, m), fk) \in T
    BY <1>2, <2>1, <2>3
  <2> QED BY <2>1, <2>2, <2>4
<1>4. \A i \in Nat, n \in N, p \in P, m \in M : InsertWatcher(d, i, n, p, m) \in T
  BY DEF InsertWatcher, WatcherRow, TablesOver
<1>5. \A w \in d.watchers, n \in N, p \in P : UpdateWatcher(d, w, n, p) \in T
  <2> SUFFICES ASSUME NEW w \in d.watchers, NEW n \in N, NEW p \in P
               PROVE  UpdateWatcher(d, w, n, p) \in T
    OBVIOUS
  <2>1. [w EXCEPT !.name = n, !.path = p] \in [id : Nat, name : N, path : P, machine : M]
    BY DEF TablesOver
  <2> QED BY <2>1 DEF UpdateWatcher, TablesOver
<1>6. \A n \in N, fk \in BOOLEAN : DeleteWatcher(d, n, fk) \in T
  <2>1. d \in T
    OBVIOUS
  <2>2. \A n : WatchersNamed(d, n) \in SUBSET d.watchers
    BY DEF WatchersNamed
  <2> HIDE DEF T
  <2> QED BY <1>2, <2>1, <2>2 DEF DeleteWatcher
<1>7. \A n \in N, S \in SUBSET P, b \in BOOLEAN : \A ids \in [S -> Nat] :
        InsertFiles(d, n, ids, b) \in T
  BY DEF InsertFiles, FileRow, TablesOver
<1>8. \A n, S : DeleteFiles(d, n, S) \in T
  BY DEF DeleteFiles, TablesOver
<1>9. \A ids : MarkFlushed(d, ids) \in T
  <2> SUFFICES ASSUME NEW ids, NEW f \in d.files
               PROVE  (IF f.id \in ids THEN [f EXCEPT !.flushed = TRUE] ELSE f)
                        \in [id : Nat, watcher : N, path : P, flushed : BOOLEAN]
    BY DEF MarkFlushed, TablesOver
  <2> QED BY DEF TablesOver
<1>10. \A n \in N, t \in P, m \in M : InsertRedirection(d, n, t, m) \in T
  BY DEF InsertRedirection, RedirectionRow, TablesOver
<1>11. \A n \in N, t \in P : UpdateRedirection(d, n, t) \in T
  <2> SUFFICES ASSUME NEW n \in N, NEW t \in P, NEW r \in d.redirections
               PROVE  (IF r.watcher = n THEN [r EXCEPT !.target = t] ELSE r)
                        \in [watcher : N, target : P, machine : M]
    BY DEF UpdateRedirection, TablesOver
  <2> QED BY DEF TablesOver
<1>12. \A n \in N : DeleteRedirection(d, n) \in T
  BY DEF DeleteRedirection, TablesOver
<1> QED BY <1>1, <1>3, <1>4, <1>5, <1>6, <1>7, <1>8, <1>9, <1>10, <1>11, <1>12

\* An empty database, with machines registered or not, has no dangling row.
LEMMA EmptyReferences ==
  \A ms : ReferencesHold([EmptyDB EXCEPT !.machines = ms])
BY DEF EmptyDB, ReferencesHold

\* Statements that add a row: the row's own references are checked.
LEMMA InsertsKeepReferences ==
  ASSUME NEW N, NEW P, NEW M, NEW d \in TablesOver(N, P, M), ReferencesHold(d)
  PROVE  /\ \A m : ReferencesHold(InsertMachine(d, m))
         /\ \A i, n, p, m : CanInsertWatcher(d, n, m, TRUE) =>
              ReferencesHold(InsertWatcher(d, i, n, p, m))
         /\ \A n, ids, b : CanInsertFiles(d, n, TRUE) =>
              ReferencesHold(InsertFiles(d, n, ids, b))
         /\ \A n, t, m : CanInsertRedirection(d, n, m, TRUE) =>
              ReferencesHold(InsertRedirection(d, n, t, m))
<1>1. \A m : ReferencesHold(InsertMachine(d, m))
  BY DEF ReferencesHold, InsertMachine, TablesOver, WatcherNames
<1>2. \A i, n, p, m : CanInsertWatcher(d, n, m, TRUE) =>
        ReferencesHold(InsertWatcher(d, i, n, p, m))
  BY DEF ReferencesHold, CanInsertWatcher, InsertWatcher, WatcherRow, TablesOver, WatcherNames
<1>3. \A n, ids, b : CanInsertFiles(d, n, TRUE) => ReferencesHold(InsertFiles(d, n, ids, b))
  BY DEF ReferencesHold, CanInsertFiles, InsertFiles, FileRow, TablesOver, WatcherNames
<1>4. \A n, t, m : CanInsertRedirection(d, n, m, TRUE) =>
        ReferencesHold(InsertRedirection(d, n, t, m))
  BY DEF ReferencesHold, CanInsertRedirection, InsertRedirection, RedirectionRow,
         TablesOver, WatcherNames
<1> QED BY <1>1, <1>2, <1>3, <1>4

\* Statements on rows that nothing refers to.
LEMMA ChildStatementsKeepReferences ==
  ASSUME NEW N, NEW P, NEW M, NEW d \in TablesOver(N, P, M), ReferencesHold(d)
  PROVE  /\ \A n, S : ReferencesHold(DeleteFiles(d, n, S))
         /\ \A ids : ReferencesHold(MarkFlushed(d, ids))
         /\ \A n, t : ReferencesHold(UpdateRedirection(d, n, t))
         /\ \A n : ReferencesHold(DeleteRedirection(d, n))
<1>1. \A n, S : ReferencesHold(DeleteFiles(d, n, S))
  BY DEF ReferencesHold, DeleteFiles, TablesOver, WatcherNames
<1>2. ASSUME NEW ids PROVE ReferencesHold(MarkFlushed(d, ids))
  <2>1. \A f \in d.files : [f EXCEPT !.flushed = TRUE].watcher = f.watcher
    BY DEF TablesOver
  <2>2. \A f \in MarkFlushed(d, ids).files : \E g \in d.files : f.watcher = g.watcher
    BY <2>1 DEF MarkFlushed, TablesOver
  <2>3. /\ MarkFlushed(d, ids).watchers = d.watchers
        /\ MarkFlushed(d, ids).machines = d.machines
        /\ MarkFlushed(d, ids).redirections = d.redirections
    BY DEF MarkFlushed, TablesOver
  <2> QED BY <2>2, <2>3 DEF ReferencesHold, WatcherNames
<1>3. ASSUME NEW n, NEW t PROVE ReferencesHold(UpdateRedirection(d, n, t))
  <2>1. \A r \in d.redirections :
          /\ [r EXCEPT !.target = t].watcher = r.watcher
          /\ [r EXCEPT !.target = t].machine = r.machine
    BY DEF TablesOver
  <2>2. \A r \in UpdateRedirection(d, n, t).redirections :
          \E s \in d.redirections : r.watcher = s.watcher /\ r.machine = s.machine
    BY <2>1 DEF UpdateRedirection, TablesOver
  <2>3. /\ UpdateRedirection(d, n, t).watchers = d.watchers
        /\ UpdateRedirection(d, n, t).machines = d.machines
        /\ UpdateRedirection(d, n, t).files = d.files
    BY DEF UpdateRedirection, TablesOver
  <2> QED BY <2>2, <2>3 DEF ReferencesHold, WatcherNames
<1>4. \A n : ReferencesHold(DeleteRedirection(d, n))
  BY DEF ReferencesHold, DeleteRedirection, TablesOver, WatcherNames
<1> QED BY <1>1, <1>2, <1>3, <1>4

\* The cascade from deleted watchers leaves no row that names one of them.
LEMMA DropWatchersKeepsReferences ==
  ASSUME NEW N, NEW P, NEW M, NEW d \in TablesOver(N, P, M),
         NEW ws \in SUBSET d.watchers, ReferencesHold(d)
  PROVE  ReferencesHold(DropWatchers(d, ws, TRUE))
<1> DEFINE new == DropWatchers(d, ws, TRUE)
           gone == {w.name : w \in ws}
<1>1. /\ new.machines = d.machines
      /\ new.watchers = d.watchers \ ws
      /\ new.files = {f \in d.files : f.watcher \notin gone}
      /\ new.redirections = {r \in d.redirections : r.watcher \notin gone}
  BY DEF DropWatchers, TablesOver
<1>2. \A n \in WatcherNames(d) \ gone : n \in WatcherNames(new)
  BY <1>1 DEF WatcherNames
<1> QED BY <1>1, <1>2 DEF ReferencesHold

LEMMA DeletesKeepReferences ==
  ASSUME NEW N, NEW P, NEW M, NEW d \in TablesOver(N, P, M), ReferencesHold(d)
  PROVE  /\ \A n : ReferencesHold(DeleteWatcher(d, n, TRUE))
         /\ \A m : CanDeleteMachine(d, m, TRUE) => ReferencesHold(DeleteMachine(d, m, TRUE))
<1>1. \A n : ReferencesHold(DeleteWatcher(d, n, TRUE))
  <2>1. \A n : WatchersNamed(d, n) \in SUBSET d.watchers
    BY DEF WatchersNamed
  <2> QED BY <2>1, DropWatchersKeepsReferences DEF DeleteWatcher
<1>2. ASSUME NEW m, CanDeleteMachine(d, m, TRUE)
      PROVE  ReferencesHold(DeleteMachine(d, m, TRUE))
  <2> DEFINE ws == WatchersOn(d, m)
             gone == {w.name : w \in ws}
             new == DeleteMachine(d, m, TRUE)
  <2>1. /\ new.machines = d.machines \ {m}
        /\ new.watchers = d.watchers \ ws
        /\ new.files = {f \in d.files : f.watcher \notin gone}
        /\ new.redirections = {r \in d.redirections : r.watcher \notin gone}
    BY DEF DeleteMachine, DropWatchers, WatchersOn, TablesOver
  <2>2. \A n \in WatcherNames(d) \ gone : n \in WatcherNames(new)
    BY <2>1 DEF WatcherNames
  <2>3. \A w \in new.watchers : w.machine \in new.machines
    BY <2>1 DEF ReferencesHold, WatchersOn
  <2>4. \A r \in new.redirections : r.machine \in new.machines
    BY <1>2, <2>1 DEF ReferencesHold, CanDeleteMachine
  <2> QED BY <2>1, <2>2, <2>3, <2>4 DEF ReferencesHold
<1> QED BY <1>1, <1>2

\* A watcher keeps its name, or nothing refers to it.
LEMMA UpdateWatcherKeepsReferences ==
  ASSUME NEW N, NEW P, NEW M, NEW d \in TablesOver(N, P, M), ReferencesHold(d),
         NEW w, NEW n, NEW p, CanUpdateWatcher(d, w, n, TRUE)
  PROVE  ReferencesHold(UpdateWatcher(d, w, n, p))
<1> DEFINE v == [w EXCEPT !.name = n, !.path = p]
           new == UpdateWatcher(d, w, n, p)
<1>1. w \in d.watchers
  BY DEF CanUpdateWatcher
<1>2. v.name = n /\ v.machine = w.machine
  BY <1>1 DEF TablesOver
<1>3. /\ new.machines = d.machines /\ new.files = d.files
      /\ new.redirections = d.redirections
      /\ new.watchers = (d.watchers \ {w}) \cup {v}
  BY DEF UpdateWatcher, TablesOver
<1> HIDE DEF v, new
<1>4. \A u \in new.watchers : u.machine \in new.machines
  BY <1>1, <1>2, <1>3 DEF ReferencesHold
<1>5. \A x \in WatcherNames(d) : (x = w.name /\ x # n) \/ x \in WatcherNames(new)
  BY <1>1, <1>2, <1>3 DEF WatcherNames
<1>6. n # w.name => Unreferenced(d, w.name)
  BY DEF CanUpdateWatcher
<1>7. ReferencesHold(new)
  BY <1>3, <1>4, <1>5, <1>6 DEF ReferencesHold, Unreferenced
<1> QED BY <1>7 DEF new

(***************************************************************************)
(* Keys.  Of the ids that are given out anew only "larger than any id in   *)
(* the table" is needed.                                                   *)
(***************************************************************************)
LEMMA InsertsKeepKeys ==
  ASSUME NEW N, NEW P, NEW M, NEW d \in TablesOver(N, P, M), UniqueKeys(d)
  PROVE  /\ \A m : UniqueKeys(InsertMachine(d, m))
         /\ \A n, t, m, fk : CanInsertRedirection(d, n, m, fk) =>
              UniqueKeys(InsertRedirection(d, n, t, m))
<1>1. \A m : UniqueKeys(InsertMachine(d, m))
  BY DEF UniqueKeys, InsertMachine, TablesOver
<1>2. \A n, t, m, fk : CanInsertRedirection(d, n, m, fk) =>
        UniqueKeys(InsertRedirection(d, n, t, m))
  BY DEF UniqueKeys, CanInsertRedirection, InsertRedirection, RedirectionRow, TablesOver
<1> QED BY <1>1, <1>2

LEMMA InsertWatcherKeepsKeys ==
  ASSUME NEW N, NEW P, NEW M, NEW d \in TablesOver(N, P, M), UniqueKeys(d),
         NEW i \in Nat, NEW n, NEW p, NEW m, NEW fk,
         CanInsertWatcher(d, n, m, fk), IsNextRowId(d.watchers, i)
  PROVE  UniqueKeys(InsertWatcher(d, i, n, p, m))
<1> DEFINE new == InsertWatcher(d, i, n, p, m)
           row == WatcherRow(i, n, p, m)
<1>1. /\ new.watchers = d.watchers \cup {row}
      /\ new.files = d.files /\ new.redirections = d.redirections
  BY DEF InsertWatcher, TablesOver
<1>2. row.id = i /\ row.name = n
  BY DEF WatcherRow
<1>3. \A w \in d.watchers : w.id # i /\ w.name # n
  BY DEF CanInsertWatcher, WatcherNames, IsNextRowId, TablesOver
<1> HIDE DEF new, row
<1>4. UniqueKeys(new)
  BY <1>1, <1>2, <1>3 DEF UniqueKeys
<1> QED BY <1>4 DEF new

LEMMA InsertFilesKeepsKeys ==
  ASSUME NEW N, NEW P, NEW M, NEW d \in TablesOver(N, P, M), UniqueKeys(d),
         NEW i \in Nat, NEW S, NEW ids \in Numberings(S, i), NEW n, NEW b,
         \A x \in S : ids[x] \in Nat /\ ids[x] >= i,
         IsNextRowId(d.files, i)
  PROVE  UniqueKeys(InsertFiles(d, n, ids, b))
<1> DEFINE new == InsertFiles(d, n, ids, b)
<1>1. DOMAIN ids = S /\ \A x, y \in S : ids[x] = ids[y] => x = y
  BY DEF Numberings
<1>2. /\ new.files = d.files \cup {FileRow(ids[x], n, x, b) : x \in S}
      /\ new.watchers = d.watchers /\ new.redirections = d.redirections
  BY <1>1 DEF InsertFiles, TablesOver
<1>3. \A f \in d.files, x \in S : f.id # ids[x]
  BY DEF IsNextRowId, TablesOver
<1>4. \A x : FileRow(ids[x], n, x, b).id = ids[x]
  BY DEF FileRow
<1>5. \A f, g \in new.files : f.id = g.id => f = g
  <2> SUFFICES ASSUME NEW f \in new.files, NEW g \in new.files, f.id = g.id PROVE f = g
    OBVIOUS
  <2>1. CASE f \in d.files /\ g \in d.files
    BY <2>1 DEF UniqueKeys
  <2>2. CASE f \in d.files /\ g \notin d.files
    BY <1>2, <1>3, <1>4, <2>2
  <2>3. CASE f \notin d.files /\ g \in d.files
    BY <1>2, <1>3, <1>4, <2>3
  <2>4. CASE f \notin d.files /\ g \notin d.files
    BY <1>1, <1>2, <1>4, <2>4
  <2> QED BY <2>1, <2>2, <2>3, <2>4
<1> HIDE DEF new
<1>6. UniqueKeys(new)
  BY <1>2, <1>5 DEF UniqueKeys
<1> QED BY <1>6 DEF new

\* A changed row keeps its id, and its new name is nobody else's.
LEMMA UpdatesKeepKeys ==
  ASSUME NEW N, NEW P, NEW M, NEW d \in TablesOver(N, P, M), UniqueKeys(d)
  PROVE  /\ \A w, n, p, fk : CanUpdateWatcher(d, w, n, fk) =>
              UniqueKeys(UpdateWatcher(d, w, n, p))
         /\ \A ids : UniqueKeys(MarkFlushed(d, ids))
         /\ \A n, t : UniqueKeys(UpdateRedirection(d, n, t))
<1>1. ASSUME NEW w, NEW n, NEW p, NEW fk, CanUpdateWatcher(d, w, n, fk)
      PROVE  UniqueKeys(UpdateWatcher(d, w, n, p))
  <2> DEFINE v == [w EXCEPT !.name = n, !.path = p]
             new == UpdateWatcher(d, w, n, p)
  <2>1. w \in d.watchers /\ \A u \in d.watchers \ {w} : u.name # n
    BY <1>1 DEF CanUpdateWatcher
  <2>2. v.id = w.id /\ v.name = n
    BY <2>1 DEF TablesOver
  <2>3. /\ new.files = d.files /\ new.redirections = d.redirections
        /\ new.watchers = (d.watchers \ {w}) \cup {v}
    BY DEF UpdateWatcher, TablesOver
  <2> HIDE DEF v, new
  <2>4. UniqueKeys(new)
    BY <2>1, <2>2, <2>3 DEF UniqueKeys
  <2> QED BY <2>4 DEF new
<1>2. ASSUME NEW ids PROVE UniqueKeys(MarkFlushed(d, ids))
  <2> DEFINE row(f) == IF f.id \in ids THEN [f EXCEPT !.flushed = TRUE] ELSE f
  <2>1. \A f \in d.files : row(f).id = f.id
    BY DEF TablesOver
  <2>2. /\ MarkFlushed(d, ids).watchers = d.watchers
        /\ MarkFlushed(d, ids).redirections = d.redirections
        /\ MarkFlushed(d, ids).files = {row(f) : f \in d.files}
    BY DEF MarkFlushed, TablesOver
  <2> HIDE DEF row
  <2> QED BY <2>1, <2>2 DEF UniqueKeys
<1>3. ASSUME NEW n, NEW t PROVE UniqueKeys(UpdateRedirection(d, n, t))
  <2> DEFINE row(r) == IF r.watcher = n THEN [r EXCEPT !.target = t] ELSE r
  <2>1. \A r \in d.redirections : row(r).watcher = r.watcher
    BY DEF TablesOver
  <2>2. /\ UpdateRedirection(d, n, t).watchers = d.watchers
        /\ UpdateRedirection(d, n, t).files = d.files
        /\ UpdateRedirection(d, n, t).redirections = {row(r) : r \in d.redirections}
    BY DEF UpdateRedirection, TablesOver
  <2> HIDE DEF row
  <2> QED BY <2>1, <2>2 DEF UniqueKeys
<1> QED BY <1>1, <1>2, <1>3

LEMMA DeletesKeepKeys ==
  ASSUME NEW N, NEW P, NEW M, NEW d \in TablesOver(N, P, M), UniqueKeys(d)
  PROVE  /\ \A n, fk : UniqueKeys(DeleteWatcher(d, n, fk))
         /\ \A m, fk : UniqueKeys(DeleteMachine(d, m, fk))
         /\ \A n, S : UniqueKeys(DeleteFiles(d, n, S))
         /\ \A n : UniqueKeys(DeleteRedirection(d, n))
<1>1. ASSUME NEW e, e.watchers \subseteq d.watchers, e.files \subseteq d.files,
             e.redirections \subseteq d.redirections
      PROVE  UniqueKeys(e)
  BY <1>1 DEF UniqueKeys
<1>2. ASSUME NEW n, NEW fk PROVE UniqueKeys(DeleteWatcher(d, n, fk))
  <2> DEFINE e == DeleteWatcher(d, n, fk)
  <2>1. /\ e.watchers \subseteq d.watchers /\ e.files \subseteq d.files
        /\ e.redirections \subseteq d.redirections
    BY DEF DeleteWatcher, DropWatchers, TablesOver
  <2> HIDE DEF e
  <2>2. UniqueKeys(e)
    BY <1>1, <2>1
  <2> QED BY <2>2 DEF e
<1>3. ASSUME NEW m, NEW fk PROVE UniqueKeys(DeleteMachine(d, m, fk))
  <2> DEFINE e == DeleteMachine(d, m, fk)
  <2>1. /\ e.watchers \subseteq d.watchers /\ e.files \subseteq d.files
        /\ e.redirections \subseteq d.redirections
    BY DEF DeleteMachine, DropWatchers, TablesOver
  <2> HIDE DEF e
  <2>2. UniqueKeys(e)
    BY <1>1, <2>1
  <2> QED BY <2>2 DEF e
<1>4. \A n, S : UniqueKeys(DeleteFiles(d, n, S))
  BY DEF DeleteFiles, UniqueKeys, TablesOver
<1>5. \A n : UniqueKeys(DeleteRedirection(d, n))
  BY DEF DeleteRedirection, UniqueKeys, TablesOver
<1> QED BY <1>2, <1>3, <1>4, <1>5
=============================================================================
