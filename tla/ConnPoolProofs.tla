--------------------------- MODULE ConnPoolProofs ---------------------------
(***************************************************************************)
(* Theorems about ConnPool for any number of connections, machines,        *)
(* watchers and files.                                                     *)
(***************************************************************************)
EXTENDS ConnPool, SchemaProofs, FiniteSetTheorems

\* What the theorems ask of the constants.
PoolAssumption ==
  /\ NoConn \notin Conns
  /\ MaxIdle \in Nat \ {0} /\ MaxFileId \in Nat /\ MaxWatcherId \in Nat

Tables == TablesOver(Names, Paths, Machines)

LEMMA TypeIsTables == TypeOK <=>
  /\ db \in Tables
  /\ idle \subseteq Conns /\ enforced \subseteq Conns
  /\ held \in [Procs -> Conns \cup {NoConn}]
BY DEF TypeOK, Tables, TablesOver

LEMMA StatementKeepsTables ==
  ASSUME PoolAssumption, db \in Tables, NEW fk \in BOOLEAN, Statement(fk)
  PROVE  db' \in Tables
<1>1. CASE \E n \in Names, S \in SUBSET Paths \ {{}}, flushed \in BOOLEAN, i \in 1 .. MaxFileId :
             \E ids \in Numberings(S, i) :
               /\ CanInsertFiles(db, n, fk) /\ IsNextRowId(db.files, i)
               /\ \A f \in S : ids[f] \in 1 .. MaxFileId
               /\ db' = InsertFiles(db, n, ids, flushed)
  <2>1. PICK n \in Names, S \in SUBSET Paths \ {{}}, flushed \in BOOLEAN, i \in 1 .. MaxFileId :
               \E ids \in Numberings(S, i) : db' = InsertFiles(db, n, ids, flushed)
    BY <1>1
  <2>2. PICK ids \in Numberings(S, i) : db' = InsertFiles(db, n, ids, flushed)
    BY <2>1
  <2>3. ids \in [S -> Nat]
    BY <2>2, PoolAssumption DEF PoolAssumption, Numberings
  <2> QED BY <2>2, <2>3, StatementsKeepTables DEF Tables
<1>2. CASE \E n \in Names, s \in Paths, m \in Machines, i \in 1 .. MaxWatcherId :
             /\ CanInsertWatcher(db, n, m, fk) /\ IsNextRowId(db.watchers, i)
             /\ db' = InsertWatcher(db, i, n, s, m)
  BY <1>2, StatementsKeepTables, PoolAssumption DEF PoolAssumption, Tables
<1>3. CASE \/ \E m \in Machines : CanInsertMachine(db, m) /\ db' = InsertMachine(db, m)
           \/ \E m \in Machines : CanDeleteMachine(db, m, fk) /\ db' = DeleteMachine(db, m, fk)
           \/ \E n \in Names : db' = DeleteWatcher(db, n, fk)
  BY <1>3, StatementsKeepTables DEF Tables
<1>4. CASE \E w \in db.watchers, n \in Names, s \in Paths :
             CanUpdateWatcher(db, w, n, fk) /\ db' = UpdateWatcher(db, w, n, s)
  BY <1>4, StatementsKeepTables DEF Tables
<1>5. CASE \/ \E n \in Names, S \in SUBSET Paths : db' = DeleteFiles(db, n, S)
           \/ \E ids \in SUBSET (1 .. MaxFileId) : db' = MarkFlushed(db, ids)
  BY <1>5, StatementsKeepTables DEF Tables
<1>6. CASE \/ \E n \in Names, t \in Paths, m \in Machines :
                CanInsertRedirection(db, n, m, fk) /\ db' = InsertRedirection(db, n, t, m)
           \/ \E n \in Names, t \in Paths : db' = UpdateRedirection(db, n, t)
           \/ \E n \in Names : db' = DeleteRedirection(db, n)
  BY <1>6, StatementsKeepTables DEF Tables
<1> QED BY <1>1, <1>2, <1>3, <1>4, <1>5, <1>6 DEF Statement

LEMMA TypeOKNext ==
  ASSUME PoolAssumption, TypeOK, [Next]_vars
  PROVE  TypeOK'
<1>1. ASSUME NEW p \in Procs, Acquire(p) PROVE TypeOK'
  BY <1>1 DEF Acquire, TypeOK
<1>2. ASSUME NEW p \in Procs, Finish(p) PROVE TypeOK'
  <2>1. db' \in Tables
    <3>1. db \in Tables /\ (held[p] \in enforced) \in BOOLEAN
      BY TypeIsTables
    <3>2. CASE UNCHANGED db
      BY <3>1, <3>2
    <3>3. CASE Statement(held[p] \in enforced)
      BY <3>1, <3>3, StatementKeepsTables
    <3> QED BY <1>2, <3>2, <3>3 DEF Finish
  <2>2. /\ idle' \subseteq Conns /\ enforced' \subseteq Conns
        /\ held' \in [Procs -> Conns \cup {NoConn}]
    BY <1>2 DEF Finish, GiveBack, TypeOK
  <2> QED BY <2>1, <2>2, TypeIsTables DEF TypeOK, Tables, TablesOver
<1>3. CASE Restart
  BY <1>3 DEF Restart, TypeOK
<1>4. CASE UNCHANGED vars
  BY <1>4 DEF vars, TypeOK
<1> QED BY <1>1, <1>2, <1>3, <1>4 DEF Next

LEMMA TypeOKInit == Init => TypeOK
BY DEF Init, EmptyDB, TypeOK

\* Type correctness, for any number of goroutines.
THEOREM PoolTypeCorrect ==
  ASSUME PoolAssumption
  PROVE  Spec => []TypeOK
<1>1. TypeOK /\ [Next]_vars => TypeOK'
  BY TypeOKNext
<1> QED BY <1>1, TypeOKInit, PTL DEF Spec

LEMMA StatementKeepsKeys ==
  ASSUME PoolAssumption, db \in Tables, UniqueKeys(db), NEW fk \in BOOLEAN, Statement(fk)
  PROVE  UniqueKeys(db')
<1>1. CASE \E n \in Names, S \in SUBSET Paths \ {{}}, flushed \in BOOLEAN, i \in 1 .. MaxFileId :
             \E ids \in Numberings(S, i) :
               /\ CanInsertFiles(db, n, fk) /\ IsNextRowId(db.files, i)
               /\ \A f \in S : ids[f] \in 1 .. MaxFileId
               /\ db' = InsertFiles(db, n, ids, flushed)
  <2>1. PICK n \in Names, S \in SUBSET Paths \ {{}}, flushed \in BOOLEAN, i \in 1 .. MaxFileId :
               \E ids \in Numberings(S, i) :
                 IsNextRowId(db.files, i) /\ db' = InsertFiles(db, n, ids, flushed)
    BY <1>1
  <2>2. PICK ids \in Numberings(S, i) :
               IsNextRowId(db.files, i) /\ db' = InsertFiles(db, n, ids, flushed)
    BY <2>1
  <2>3. i \in Nat /\ ids \in [S -> i .. (i + Cardinality(S) - 1)]
    BY <2>2, PoolAssumption DEF PoolAssumption, Numberings
  <2>4. \A x \in S : ids[x] \in Nat /\ ids[x] >= i
    BY <2>3
  <2> QED BY <2>2, <2>3, <2>4, InsertFilesKeepsKeys DEF Tables
<1>2. CASE \E n \in Names, s \in Paths, m \in Machines, i \in 1 .. MaxWatcherId :
             /\ CanInsertWatcher(db, n, m, fk) /\ IsNextRowId(db.watchers, i)
             /\ db' = InsertWatcher(db, i, n, s, m)
  <2>1. PICK n \in Names, s \in Paths, m \in Machines, i \in 1 .. MaxWatcherId :
             /\ CanInsertWatcher(db, n, m, fk) /\ IsNextRowId(db.watchers, i)
             /\ db' = InsertWatcher(db, i, n, s, m)
    BY <1>2
  <2> QED BY <2>1, InsertWatcherKeepsKeys, PoolAssumption DEF PoolAssumption, Tables
<1>3. CASE \/ \E m \in Machines : db' = InsertMachine(db, m)
           \/ \E n \in Names, t \in Paths, m \in Machines :
                CanInsertRedirection(db, n, m, fk) /\ db' = InsertRedirection(db, n, t, m)
  BY <1>3, InsertsKeepKeys DEF Tables
<1>4. CASE \/ \E w \in db.watchers, n \in Names, s \in Paths :
                CanUpdateWatcher(db, w, n, fk) /\ db' = UpdateWatcher(db, w, n, s)
           \/ \E ids \in SUBSET (1 .. MaxFileId) : db' = MarkFlushed(db, ids)
           \/ \E n \in Names, t \in Paths : db' = UpdateRedirection(db, n, t)
  BY <1>4, UpdatesKeepKeys DEF Tables
<1>5. CASE \/ \E m \in Machines : db' = DeleteMachine(db, m, fk)
           \/ \E n \in Names : db' = DeleteWatcher(db, n, fk)
           \/ \E n \in Names, S \in SUBSET Paths : db' = DeleteFiles(db, n, S)
           \/ \E n \in Names : db' = DeleteRedirection(db, n)
  BY <1>5, DeletesKeepKeys DEF Tables
<1> QED BY <1>1, <1>2, <1>3, <1>4, <1>5 DEF Statement

\* Ids and names are keys in every reachable database, although the pragma of a
\* connection may be off and a deleted row's id comes back.
THEOREM KeysAlwaysHold ==
  ASSUME PoolAssumption
  PROVE  Spec => []KeysHold
<1>1. Init => KeysHold
  BY DEF Init, EmptyDB, KeysHold, UniqueKeys
<1>2. TypeOK /\ KeysHold /\ [Next]_vars => KeysHold'
  <2> SUFFICES ASSUME TypeOK, KeysHold, [Next]_vars PROVE KeysHold'
    OBVIOUS
  <2>1. ASSUME NEW p \in Procs, Finish(p) PROVE KeysHold'
    <3>1. db \in Tables /\ (held[p] \in enforced) \in BOOLEAN
      BY TypeIsTables
    <3>2. CASE UNCHANGED db
      BY <3>2 DEF KeysHold
    <3>3. CASE Statement(held[p] \in enforced)
      BY <3>1, <3>3, StatementKeepsKeys DEF KeysHold
    <3> QED BY <2>1, <3>2, <3>3 DEF Finish
  <2>2. CASE (\E p \in Procs : Acquire(p)) \/ Restart \/ UNCHANGED vars
    BY <2>2 DEF Acquire, Restart, vars, KeysHold
  <2> QED BY <2>1, <2>2 DEF Next
<1>3. Spec => []TypeOK
  BY PoolTypeCorrect
<1> QED BY <1>1, <1>2, <1>3, PTL DEF Spec

(***************************************************************************)
(* One goroutine: the pool never grows beyond the connection that Open has *)
(* prepared.                                                               *)
(***************************************************************************)
Single == \A p, q \in Procs : p = q

\* Every open connection enforces, and there is one to take whenever the
\* goroutine needs one.
PoolInv ==
  /\ TypeOK
  /\ Open \subseteq enforced
  /\ \A p \in Procs : held[p] \notin idle
  /\ idle # {} \/ \E p \in Procs : held[p] # NoConn
  /\ NoOrphans

LEMMA StatementKeepsReferences ==
  ASSUME db \in Tables, ReferencesHold(db), Statement(TRUE)
  PROVE  ReferencesHold(db')
<1>1. CASE \/ \E m \in Machines : db' = InsertMachine(db, m)
           \/ \E n, m, i, s : CanInsertWatcher(db, n, m, TRUE) /\ db' = InsertWatcher(db, i, n, s, m)
           \/ \E n, ids, b : CanInsertFiles(db, n, TRUE) /\ db' = InsertFiles(db, n, ids, b)
           \/ \E n, t, m : CanInsertRedirection(db, n, m, TRUE) /\ db' = InsertRedirection(db, n, t, m)
  BY <1>1, InsertsKeepReferences DEF Tables
<1>2. CASE \/ \E m \in Machines : CanDeleteMachine(db, m, TRUE) /\ db' = DeleteMachine(db, m, TRUE)
           \/ \E n \in Names : db' = DeleteWatcher(db, n, TRUE)
  BY <1>2, DeletesKeepReferences DEF Tables
<1>3. CASE \E w \in db.watchers, n \in Names, s \in Paths :
             CanUpdateWatcher(db, w, n, TRUE) /\ db' = UpdateWatcher(db, w, n, s)
  BY <1>3, UpdateWatcherKeepsReferences DEF Tables
<1>4. CASE \/ \E n, S : db' = DeleteFiles(db, n, S)
           \/ \E ids : db' = MarkFlushed(db, ids)
           \/ \E n, t : db' = UpdateRedirection(db, n, t)
           \/ \E n : db' = DeleteRedirection(db, n)
  BY <1>4, ChildStatementsKeepReferences DEF Tables
<1> QED BY <1>1, <1>2, <1>3, <1>4 DEF Statement

\* A single goroutine never finds the pool without a free connection, so each of
\* its statements runs on the one that enforces foreign keys.
THEOREM OneGoroutineKeepsReferences ==
  ASSUME Single, PoolAssumption
  PROVE  Spec => []NoOrphans
<1>1. Init => PoolInv
  <2> SUFFICES ASSUME Init PROVE PoolInv
    OBVIOUS
  <2>1. Open \subseteq enforced /\ idle # {} /\ \A p \in Procs : held[p] \notin idle
    BY PoolAssumption DEF PoolAssumption, Init, Open
  <2>2. NoOrphans
    BY DEF Init, EmptyDB, NoOrphans, ReferencesHold
  <2> QED BY <2>1, <2>2, TypeOKInit DEF PoolInv
<1>2. PoolInv /\ [Next]_vars => PoolInv'
  <2> SUFFICES ASSUME PoolInv, [Next]_vars PROVE PoolInv'
    OBVIOUS
  <2>1. TypeOK'
    BY TypeOKNext DEF PoolInv
  <2>2. ASSUME NEW p \in Procs, Acquire(p) PROVE PoolInv'
    <3>1. idle # {}
      BY <2>2 DEF PoolInv, Acquire, Single
    <3>2. PICK c \in idle : idle' = idle \ {c} /\ held' = [held EXCEPT ![p] = c]
      BY <2>2, <3>1 DEF Acquire
    <3>3. Open' \subseteq enforced' /\ c # NoConn /\ held'[p] = c
      BY <2>2, <3>2, PoolAssumption DEF PoolAssumption, PoolInv, TypeOK, Open, Acquire
    <3>4. NoOrphans' /\ \A q \in Procs : held'[q] \notin idle'
      BY <2>2, <3>2 DEF PoolInv, TypeOK, NoOrphans, Acquire, Single
    <3> QED BY <2>1, <3>3, <3>4 DEF PoolInv
  <2>3. ASSUME NEW p \in Procs, Finish(p) PROVE PoolInv'
    <3>1. held[p] \in Conns /\ held[p] \in enforced
      BY <2>3 DEF PoolInv, TypeOK, Open, Finish
    <3>2. idle' # {}
      BY <2>3, PoolAssumption, FS_EmptySet DEF PoolAssumption, Finish, GiveBack
    <3>3. Open' \subseteq enforced'
      BY <2>3, <3>1, PoolAssumption DEF PoolAssumption, PoolInv, TypeOK, Open, Finish, GiveBack, Single
    <3>4. NoOrphans'
      <4>1. CASE UNCHANGED db
        BY <4>1 DEF PoolInv, NoOrphans
      <4>2. CASE Statement(TRUE)
        BY <4>2, StatementKeepsReferences, TypeIsTables DEF PoolInv, NoOrphans
      <4> QED BY <2>3, <3>1, <4>1, <4>2 DEF Finish
    <3>5. \A q \in Procs : held'[q] \notin idle'
      BY <2>3, PoolAssumption DEF PoolAssumption, PoolInv, TypeOK, Finish, GiveBack, Single
    <3> QED BY <2>1, <3>2, <3>3, <3>4, <3>5 DEF PoolInv
  <2>4. CASE Restart
    <3>1. Open' \subseteq enforced' /\ idle' # {} /\ \A q \in Procs : held'[q] \notin idle'
      BY <2>4, PoolAssumption DEF PoolAssumption, Restart, Open
    <3>2. NoOrphans'
      BY <2>4 DEF Restart, PoolInv, NoOrphans
    <3> QED BY <2>1, <3>1, <3>2 DEF PoolInv
  <2>5. CASE UNCHANGED vars
    BY <2>1, <2>5 DEF vars, PoolInv, Open, NoOrphans
  <2> QED BY <2>2, <2>3, <2>4, <2>5 DEF Next
<1>3. PoolInv => NoOrphans
  BY DEF PoolInv
<1> QED BY <1>1, <1>2, <1>3, PTL DEF Spec
=============================================================================
