-------------------------- MODULE SyncServiceProofs --------------------------
(***************************************************************************)
(* Theorems about SyncService for any number of goroutines, names, files   *)
(* and directories.                                                        *)
(***************************************************************************)
EXTENDS SyncOutcome, SchemaProofs, WalkerProofs

\* The local variables of p's handler fit the point it has reached.
JobOK(p) ==
  /\ pc[p] = "idle" => job[p].op = "none"
  /\ pc[p] # "idle" => job[p].op \in {"sync", "create"}
  /\ pc[p] \in {"getWatcher", "tryLock"} => job[p].op = "sync"
  /\ job[p].op = "sync" => job[p].name \in Names
  /\ pc[p] \notin {"idle", "getWatcher"} => job[p].w \in WatcherRows
  /\ pc[p] \notin {"idle", "getWatcher"} /\ job[p].op = "sync" => job[p].w.name = job[p].name

JobsOK == \A p \in Procs : JobOK(p)

LockInv == TypeOK /\ JobsOK /\ LockMatchesSync

(***************************************************************************)
(* Statements and walk steps keep their types.                             *)
(***************************************************************************)
LEMMA SyncWalkTypes ==
  /\ NoWalk \in Walks
  /\ \A r \in Roots : NewWalk(r) \in Walks
  /\ \A wk \in Walks, v, d \in Dirs :
       ListedDir(wk, v, d) \in Walks /\ SkippedDir(wk, v, d) \in Walks
BY WalkerAssumption, SyncAssumption
   DEF Walks, NoWalk, NewWalk, ListedDir, Shown, SkippedDir

LEMMA NoJobType == NoJob \in Jobs
BY SyncWalkTypes DEF NoJob, Jobs, NoRow

LEMMA DatabaseTypes ==
  ASSUME NEW base \in Databases
  PROVE  /\ \A m \in Machines : InsertMachine(base, m) \in Databases
         /\ \A m \in Machines, fk \in BOOLEAN : DeleteMachine(base, m, fk) \in Databases
         /\ \A i \in Nat, n \in Names, r \in Roots, m \in Machines :
              InsertWatcher(base, i, n, r, m) \in Databases
         /\ \A w \in base.watchers, n \in Names, r \in Roots :
              UpdateWatcher(base, w, n, r) \in Databases
         /\ \A n \in Names, fk \in BOOLEAN : DeleteWatcher(base, n, fk) \in Databases
         /\ \A n \in Names, S \in SUBSET Files, b \in BOOLEAN : \A ids \in [S -> Nat] :
              InsertFiles(base, n, ids, b) \in Databases
         /\ \A n \in Names, S \in SUBSET Files : DeleteFiles(base, n, S) \in Databases
         /\ \A ids : MarkFlushed(base, ids) \in Databases
<1>1. \A m \in Machines : InsertMachine(base, m) \in Databases
  BY DEF InsertMachine, Databases
<1>2. \A ws \in SUBSET base.watchers, fk \in BOOLEAN : \A b \in Databases :
        DropWatchers(b, ws, fk) \in Databases
  BY DEF DropWatchers, Databases
<1>3. \A m \in Machines, fk \in BOOLEAN : DeleteMachine(base, m, fk) \in Databases
  <2> SUFFICES ASSUME NEW m \in Machines, NEW fk \in BOOLEAN
               PROVE  DeleteMachine(base, m, fk) \in Databases
    OBVIOUS
  <2>1. [base EXCEPT !.machines = @ \ {m}] \in Databases
    BY DEF Databases
  <2>2. WatchersOn([base EXCEPT !.machines = @ \ {m}], m) \in SUBSET base.watchers
    BY DEF WatchersOn, Databases
  <2>3. WatchersOn(base, m) \in SUBSET base.watchers
    BY DEF WatchersOn
  <2> QED BY <1>2, <2>1, <2>2, <2>3 DEF DeleteMachine
<1>4. \A i \in Nat, n \in Names, r \in Roots, m \in Machines :
        InsertWatcher(base, i, n, r, m) \in Databases
  BY DEF InsertWatcher, WatcherRow, Databases, WatcherRows
<1>5. \A w \in base.watchers, n \in Names, r \in Roots :
        UpdateWatcher(base, w, n, r) \in Databases
  <2> SUFFICES ASSUME NEW w \in base.watchers, NEW n \in Names, NEW r \in Roots
               PROVE  UpdateWatcher(base, w, n, r) \in Databases
    OBVIOUS
  <2>1. [w EXCEPT !.name = n, !.path = r] \in WatcherRows
    BY DEF Databases, WatcherRows
  <2> QED BY <2>1 DEF UpdateWatcher, Databases
<1>6. \A n \in Names, fk \in BOOLEAN : DeleteWatcher(base, n, fk) \in Databases
  BY <1>2 DEF DeleteWatcher, WatchersNamed
<1>7. \A n \in Names, S \in SUBSET Files, b \in BOOLEAN : \A ids \in [S -> Nat] :
        InsertFiles(base, n, ids, b) \in Databases
  BY DEF InsertFiles, FileRow, Databases, FileRows
<1>8. \A n \in Names, S \in SUBSET Files : DeleteFiles(base, n, S) \in Databases
  BY DEF DeleteFiles, Databases
<1>9. \A ids : MarkFlushed(base, ids) \in Databases
  <2> SUFFICES ASSUME NEW ids, NEW f \in base.files
               PROVE  (IF f.id \in ids THEN [f EXCEPT !.flushed = TRUE] ELSE f) \in FileRows
    BY DEF MarkFlushed, Databases
  <2> QED BY DEF Databases, FileRows
<1> QED BY <1>1, <1>3, <1>4, <1>5, <1>6, <1>7, <1>8, <1>9

(***************************************************************************)
(* LockInv is inductive: one lemma per action.                             *)
(***************************************************************************)
LEMMA LockInvInit == Init => LockInv
<1> SUFFICES ASSUME Init PROVE LockInv
  OBVIOUS
<1>1. TypeOK
  BY NoJobType DEF Init, TypeOK, EmptyDB, Databases, Steps
<1>2. JobsOK
  BY DEF Init, JobsOK, JobOK, NoJob
<1>3. LockMatchesSync
  BY SyncAssumption DEF Init, LockMatchesSync, Syncing, NoJob
<1> QED BY <1>1, <1>2, <1>3 DEF LockInv

\* What is left to show of a step that moves only p: its own local variables,
\* and the locks.
LEMMA HandlerStep ==
  ASSUME LockInv, NEW p \in Procs, NEW to \in Steps, NEW j \in Jobs,
         pc' = [pc EXCEPT ![p] = to], job' = [job EXCEPT ![p] = j],
         db' \in Databases, UNCHANGED <<disk, ignored>>,
         syncLocks' \in [Names -> Procs \cup {Idle}],
         JobOK(p)',
         \A n \in Names : syncLocks'[n] = p <=> Syncing(p)' /\ job'[p].name = n,
         \A n \in Names, q \in Procs \ {p} : syncLocks'[n] = q <=> syncLocks[n] = q
  PROVE  LockInv'
<1>1. TypeOK'
  BY DEF LockInv, TypeOK
<1>2. \A q \in Procs \ {p} : pc'[q] = pc[q] /\ job'[q] = job[q]
  BY DEF LockInv, TypeOK
<1>3. JobsOK'
  BY <1>2 DEF LockInv, JobsOK, JobOK
<1>4. LockMatchesSync'
  BY <1>2 DEF LockInv, LockMatchesSync, Syncing
<1> QED BY <1>1, <1>3, <1>4 DEF LockInv

\* Most steps touch no lock and neither begin nor end a sync's run.
LEMMA LocklessStep ==
  ASSUME LockInv, NEW p \in Procs, NEW to \in Steps, NEW j \in Jobs,
         pc' = [pc EXCEPT ![p] = to], job' = [job EXCEPT ![p] = j],
         db' \in Databases, UNCHANGED <<disk, ignored, syncLocks>>,
         JobOK(p)',
         Syncing(p)' <=> Syncing(p),
         Syncing(p) => j.name = job[p].name
  PROVE  LockInv'
<1>1. job'[p] = j
  BY DEF LockInv, TypeOK
<1>2. \A n \in Names : syncLocks'[n] = p <=> Syncing(p)' /\ job'[p].name = n
  BY <1>1 DEF LockInv, LockMatchesSync
<1>3. syncLocks' \in [Names -> Procs \cup {Idle}]
  BY DEF LockInv, TypeOK
<1> QED BY <1>2, <1>3, HandlerStep

LEMMA LockInvStartSync ==
  ASSUME LockInv, NEW p \in Procs, NEW n \in Names, StartSync(p, n)
  PROVE  LockInv'
<1> DEFINE j == [job[p] EXCEPT !.op = "sync", !.name = n]
<1>1. j \in Jobs /\ job' = [job EXCEPT ![p] = j]
  BY DEF StartSync, LockInv, TypeOK, Jobs
<1>2. pc' = [pc EXCEPT ![p] = "getWatcher"] /\ "getWatcher" \in Steps
  BY DEF StartSync, Goto, Steps
<1>3. JobOK(p)'
  BY DEF StartSync, Goto, LockInv, TypeOK, Jobs, JobOK
<1>4. ~Syncing(p) /\ ~Syncing(p)'
  BY DEF StartSync, Goto, LockInv, TypeOK, Syncing
<1>5. db' \in Databases /\ UNCHANGED <<disk, ignored, syncLocks>>
  BY DEF StartSync, LockInv, TypeOK
<1> HIDE DEF j
<1> QED BY <1>1, <1>2, <1>3, <1>4, <1>5, LocklessStep

\* The handler returns before it has run a sync.
LEMMA LockInvReply ==
  ASSUME LockInv, NEW p \in Procs, Reply(p), ~Syncing(p),
         UNCHANGED <<db, disk, ignored, syncLocks>>
  PROVE  LockInv'
<1>1. pc' = [pc EXCEPT ![p] = "idle"] /\ "idle" \in Steps
  BY DEF Reply, Steps
<1>2. job' = [job EXCEPT ![p] = NoJob] /\ NoJob \in Jobs
  BY NoJobType DEF Reply
<1>3. pc'[p] = "idle" /\ job'[p] = NoJob
  BY <1>1, <1>2 DEF LockInv, TypeOK
<1>4. JobOK(p)' /\ ~Syncing(p)'
  BY <1>3 DEF JobOK, NoJob, Syncing
<1>5. db' \in Databases
  BY DEF LockInv, TypeOK
<1> QED BY <1>1, <1>2, <1>4, <1>5, LocklessStep

\* A call of Run fails.
LEMMA LockInvRunFails ==
  ASSUME LockInv, NEW p \in Procs, RunFails(p),
         pc[p] \in {"connect", "list", "bulkAdd", "bulkRemove"},
         UNCHANGED <<db, disk, ignored, syncLocks>>
  PROVE  LockInv'
<1>1. pc' = [pc EXCEPT ![p] = "return"] /\ "return" \in Steps
  BY DEF RunFails, Steps
<1>2. job' = [job EXCEPT ![p] = job[p]] /\ job[p] \in Jobs
  BY DEF RunFails, LockInv, TypeOK
<1>3. JobOK(p)'
  BY <1>1 DEF RunFails, LockInv, TypeOK, JobsOK, JobOK
<1>4. Syncing(p)' <=> Syncing(p)
  BY <1>1 DEF RunFails, LockInv, TypeOK, Syncing
<1>5. db' \in Databases
  BY DEF LockInv, TypeOK
<1> QED BY <1>1, <1>2, <1>3, <1>4, <1>5, LocklessStep

LEMMA LockInvGetWatcher ==
  ASSUME LockInv, NEW p \in Procs, GetWatcher(p)
  PROVE  LockInv'
<1>1. CASE Reply(p)
  <2>1. ~Syncing(p)
    BY DEF GetWatcher, Syncing
  <2> QED BY <1>1, <2>1, LockInvReply DEF GetWatcher
<1>2. CASE ~Reply(p)
  <2>0. PICK w \in WatchersNamed(db, job[p].name) :
          Goto(p, "getMachine") /\ job' = [job EXCEPT ![p].w = w]
    BY <1>2 DEF GetWatcher
  <2> DEFINE j == [job[p] EXCEPT !.w = w]
  <2>1. w \in WatcherRows /\ w.name = job[p].name
    BY DEF WatchersNamed, LockInv, TypeOK, Databases
  <2>2. j \in Jobs /\ job' = [job EXCEPT ![p] = j]
    BY <2>0, <2>1 DEF LockInv, TypeOK, Jobs
  <2>3. pc' = [pc EXCEPT ![p] = "getMachine"] /\ "getMachine" \in Steps
    BY <2>0 DEF Goto, Steps
  <2>4. JobOK(p)' /\ ~Syncing(p) /\ ~Syncing(p)'
    BY <2>0, <2>1, <2>3 DEF GetWatcher, LockInv, TypeOK, Jobs, JobsOK, JobOK, Syncing
  <2>5. db' \in Databases /\ UNCHANGED <<disk, ignored, syncLocks>>
    BY DEF GetWatcher, LockInv, TypeOK
  <2> HIDE DEF j
  <2> QED BY <2>2, <2>3, <2>4, <2>5, LocklessStep
<1> QED BY <1>1, <1>2

LEMMA LockInvGetMachine ==
  ASSUME LockInv, NEW p \in Procs, GetMachine(p)
  PROVE  LockInv'
<1> DEFINE j == [job[p] EXCEPT !.hasMachine = TRUE]
           to == IF job[p].op = "sync" THEN "tryLock" ELSE "connect"
<1>1. db' \in Databases /\ UNCHANGED <<disk, ignored, syncLocks>>
  BY DEF GetMachine, LockInv, TypeOK
<1>2. ~Syncing(p) /\ job[p] \in Jobs /\ pc[p] = "getMachine"
  BY DEF GetMachine, LockInv, TypeOK, Syncing
<1>3. CASE Reply(p)
  BY <1>2, <1>3, LockInvReply DEF GetMachine
<1>4. CASE Goto(p, to) /\ job' = [job EXCEPT ![p].hasMachine = TRUE]
  <2>1. j \in Jobs /\ job' = [job EXCEPT ![p] = j]
    BY <1>2, <1>4 DEF LockInv, TypeOK, Jobs
  <2>2. pc' = [pc EXCEPT ![p] = to] /\ to \in Steps
    BY <1>4 DEF Goto, Steps
  <2>3. JobOK(p)' /\ ~Syncing(p)'
    BY <1>2, <1>4, <2>2 DEF LockInv, TypeOK, Jobs, JobsOK, JobOK, Syncing
  <2> HIDE DEF j, to
  <2> QED BY <1>1, <1>2, <2>1, <2>2, <2>3, LocklessStep
<1>5. CASE job[p].op = "create" /\ Goto(p, "connect") /\ UNCHANGED job
  <2>1. job' = [job EXCEPT ![p] = job[p]]
    BY <1>5 DEF LockInv, TypeOK
  <2>2. pc' = [pc EXCEPT ![p] = "connect"] /\ "connect" \in Steps
    BY <1>5 DEF Goto, Steps
  <2>3. JobOK(p)' /\ ~Syncing(p)'
    BY <1>2, <1>5, <2>2 DEF LockInv, TypeOK, JobsOK, JobOK, Syncing
  <2> QED BY <1>1, <1>2, <2>1, <2>2, <2>3, LocklessStep
<1> QED BY <1>3, <1>4, <1>5 DEF GetMachine

LEMMA LockInvTryLock ==
  ASSUME LockInv, NEW p \in Procs, TryLock(p)
  PROVE  LockInv'
<1>1. pc[p] = "tryLock" /\ ~Syncing(p) /\ job[p] \in Jobs /\ job[p].op = "sync"
  BY DEF TryLock, LockInv, TypeOK, Syncing, JobsOK, JobOK
<1>2. CASE Reply(p) /\ UNCHANGED syncLocks
  BY <1>1, <1>2, LockInvReply DEF TryLock
<1>3. CASE /\ syncLocks[job[p].name] = Idle
           /\ syncLocks' = [syncLocks EXCEPT ![job[p].name] = p]
           /\ Goto(p, "connect")
           /\ UNCHANGED job
  <2>1. job[p].name \in Names
    BY <1>1 DEF LockInv, JobsOK, JobOK
  <2>2. pc' = [pc EXCEPT ![p] = "connect"] /\ "connect" \in Steps
    BY <1>3 DEF Goto, Steps
  <2>3. job' = [job EXCEPT ![p] = job[p]]
    BY <1>3 DEF LockInv, TypeOK
  <2>4. db' \in Databases /\ UNCHANGED <<disk, ignored>>
    BY DEF TryLock, LockInv, TypeOK
  <2>5. syncLocks' \in [Names -> Procs \cup {Idle}]
    BY <1>3, <2>1 DEF LockInv, TypeOK
  <2>6. JobOK(p)' /\ Syncing(p)' /\ job'[p].name = job[p].name
    BY <1>1, <1>3, <2>2 DEF LockInv, TypeOK, JobsOK, JobOK, Syncing
  <2>7. \A n \in Names : syncLocks'[n] = p <=> Syncing(p)' /\ job'[p].name = n
    BY <1>1, <1>3, <2>1, <2>6, SyncAssumption DEF LockInv, TypeOK, LockMatchesSync
  <2>8. \A n \in Names, q \in Procs \ {p} : syncLocks'[n] = q <=> syncLocks[n] = q
    BY <1>3, <2>1, SyncAssumption DEF LockInv, TypeOK
  <2> QED BY <1>1, <2>2, <2>3, <2>4, <2>5, <2>6, <2>7, <2>8, HandlerStep
<1> QED BY <1>2, <1>3 DEF TryLock

LEMMA LockInvConnect ==
  ASSUME LockInv, NEW p \in Procs, Connect(p)
  PROVE  LockInv'
<1>1. CASE Goto(p, "return")
  BY <1>1, LockInvRunFails DEF Connect, RunFails, Goto
<1>2. CASE Goto(p, "list")
  <2>1. pc' = [pc EXCEPT ![p] = "list"] /\ "list" \in Steps
    BY <1>2 DEF Goto, Steps
  <2>2. job' = [job EXCEPT ![p] = job[p]] /\ job[p] \in Jobs
    BY DEF Connect, LockInv, TypeOK
  <2>3. JobOK(p)' /\ (Syncing(p)' <=> Syncing(p))
    BY <2>1 DEF Connect, LockInv, TypeOK, JobsOK, JobOK, Syncing
  <2>4. db' \in Databases /\ UNCHANGED <<disk, ignored, syncLocks>>
    BY DEF Connect, LockInv, TypeOK
  <2> QED BY <2>1, <2>2, <2>3, <2>4, LocklessStep
<1> QED BY <1>1, <1>2 DEF Connect

\* A step of a run that goes on to "to" and changes its locals to j, but neither
\* the request nor the watcher row in them.
LEMMA LockInvRunStep ==
  ASSUME LockInv, NEW p \in Procs, NEW to \in Steps, NEW j \in Jobs,
         pc[p] \in {"list", "rules", "walk", "bulkAdd", "bulkRemove"},
         to \in {"rules", "walk", "bulkAdd", "bulkRemove", "return"},
         pc' = [pc EXCEPT ![p] = to], job' = [job EXCEPT ![p] = j],
         j.op = job[p].op, j.name = job[p].name, j.w = job[p].w,
         db' \in Databases, UNCHANGED <<disk, ignored, syncLocks>>
  PROVE  LockInv'
<1>1. pc'[p] = to /\ job'[p] = j
  BY DEF LockInv, TypeOK
<1>2. JobOK(p)'
  BY <1>1 DEF LockInv, JobsOK, JobOK
<1>3. Syncing(p)' <=> Syncing(p)
  BY <1>1 DEF Syncing
<1> QED BY <1>2, <1>3, LocklessStep

LEMMA LockInvListFiles ==
  ASSUME LockInv, NEW p \in Procs, ListFiles(p)
  PROVE  LockInv'
<1>1. CASE RunFails(p)
  BY <1>1, LockInvRunFails DEF ListFiles
<1>2. CASE Goto(p, "rules") /\ job' = [job EXCEPT ![p].watched = FilesOf(db, job[p].w.name)]
  <2> DEFINE j == [job[p] EXCEPT !.watched = FilesOf(db, job[p].w.name)]
  <2>1. FilesOf(db, job[p].w.name) \subseteq FileRows /\ job[p] \in Jobs
    BY DEF FilesOf, LockInv, TypeOK, Databases
  <2>2. j \in Jobs /\ j.op = job[p].op /\ j.name = job[p].name /\ j.w = job[p].w
    BY <2>1 DEF Jobs
  <2>3. pc' = [pc EXCEPT ![p] = "rules"] /\ job' = [job EXCEPT ![p] = j]
    BY <1>2 DEF Goto
  <2>4. db' \in Databases /\ UNCHANGED <<disk, ignored, syncLocks>> /\ pc[p] = "list"
    BY DEF ListFiles, LockInv, TypeOK
  <2>5. "rules" \in Steps
    BY DEF Steps
  <2> HIDE DEF j
  <2> QED BY <2>2, <2>3, <2>4, <2>5, LockInvRunStep
<1> QED BY <1>1, <1>2 DEF ListFiles

LEMMA LockInvLoadRules ==
  ASSUME LockInv, NEW p \in Procs, LoadRules(p)
  PROVE  LockInv'
<1>1. PICK r \in SUBSET Ignorable :
        job' = [job EXCEPT ![p].rules = r,
                           ![p].walk = NewWalk(job[p].w.path),
                           ![p].onDisk = {}, ![p].added = {},
                           ![p].clean = (r = ignored)]
  BY DEF LoadRules
<1> DEFINE j == [job[p] EXCEPT !.rules = r, !.walk = NewWalk(job[p].w.path),
                               !.onDisk = {}, !.added = {}, !.clean = (r = ignored)]
<1>2. job[p] \in Jobs /\ job[p].w \in WatcherRows /\ r \in SUBSET Files
  BY SyncAssumption DEF LoadRules, LockInv, TypeOK, JobsOK, JobOK
<1>3. NewWalk(job[p].w.path) \in Walks
  BY <1>2, SyncWalkTypes DEF WatcherRows
<1>4. j \in Jobs /\ j.op = job[p].op /\ j.name = job[p].name /\ j.w = job[p].w
  BY <1>2, <1>3 DEF Jobs
<1>5. pc' = [pc EXCEPT ![p] = "walk"] /\ job' = [job EXCEPT ![p] = j]
  <2>1. pc' = [pc EXCEPT ![p] = "walk"]
    BY DEF LoadRules, Goto
  <2>2. job' = [job EXCEPT ![p] = j]
    BY <1>1
  <2> QED BY <2>1, <2>2
<1>6. db' \in Databases /\ UNCHANGED <<disk, ignored, syncLocks>> /\ pc[p] = "rules"
  BY DEF LoadRules, LockInv, TypeOK
<1>7. "walk" \in Steps
  BY DEF Steps
<1> HIDE DEF j
<1> QED BY <1>4, <1>5, <1>6, <1>7, LockInvRunStep

LEMMA LockInvReadDirectory ==
  ASSUME LockInv, NEW p \in Procs, NEW v \in Dirs, NEW d \in Dirs, ReadDirectory(p, v, d)
  PROVE  LockInv'
<1> DEFINE seen == Kept(d, disk, job[p].rules)
           next == ListedDir(job[p].walk, v, d)
           to == IF WalkOver(next) THEN "bulkAdd" ELSE "walk"
           j == [job[p] EXCEPT !.walk = next, !.onDisk = @ \cup seen,
                               !.added = @ \cup (seen \ {f.path : f \in job[p].watched})]
<1>1. job[p] \in Jobs /\ seen \subseteq Files
  BY DEF LockInv, TypeOK, Kept
<1>2. next \in Walks
  BY <1>1, SyncWalkTypes DEF Jobs
<1>3. j \in Jobs /\ j.op = job[p].op /\ j.name = job[p].name /\ j.w = job[p].w
  <2> HIDE DEF next, seen
  <2> QED BY <1>1, <1>2 DEF Jobs
<1>4. pc' = [pc EXCEPT ![p] = to] /\ job' = [job EXCEPT ![p] = j]
  BY DEF ReadDirectory, Goto
<1>5. db' \in Databases /\ UNCHANGED <<disk, ignored, syncLocks>> /\ pc[p] = "walk"
  BY DEF ReadDirectory, LockInv, TypeOK
<1>6. to \in Steps /\ to \in {"walk", "bulkAdd"}
  BY DEF Steps
<1> HIDE DEF j, to
<1> QED BY <1>3, <1>4, <1>5, <1>6, LockInvRunStep

LEMMA LockInvSkipDirectory ==
  ASSUME LockInv, NEW p \in Procs, NEW v \in Dirs, NEW d \in Dirs, SkipDirectory(p, v, d)
  PROVE  LockInv'
<1> DEFINE next == SkippedDir(job[p].walk, v, d)
           to == IF WalkOver(next) THEN "bulkAdd" ELSE "walk"
           j == [job[p] EXCEPT !.walk = next, !.clean = FALSE]
<1>1. job[p] \in Jobs
  BY DEF LockInv, TypeOK
<1>2. next \in Walks
  BY <1>1, SyncWalkTypes DEF Jobs
<1>3. j \in Jobs /\ j.op = job[p].op /\ j.name = job[p].name /\ j.w = job[p].w
  <2> HIDE DEF next
  <2> QED BY <1>1, <1>2 DEF Jobs
<1>4. pc' = [pc EXCEPT ![p] = to] /\ job' = [job EXCEPT ![p] = j]
  BY DEF SkipDirectory, Goto
<1>5. db' \in Databases /\ UNCHANGED <<disk, ignored, syncLocks>> /\ pc[p] = "walk"
  BY DEF SkipDirectory, LockInv, TypeOK
<1>6. to \in Steps /\ to \in {"walk", "bulkAdd"}
  BY DEF Steps
<1> HIDE DEF j, to
<1> QED BY <1>3, <1>4, <1>5, <1>6, LockInvRunStep

LEMMA LockInvBulkAdd ==
  ASSUME LockInv, NEW p \in Procs, BulkAdd(p)
  PROVE  LockInv'
<1>1. job[p] \in Jobs /\ job[p].w \in WatcherRows /\ pc[p] = "bulkAdd" /\ db \in Databases
  BY DEF BulkAdd, LockInv, TypeOK, JobsOK, JobOK
<1>2. CASE RunFails(p) /\ UNCHANGED db
  BY <1>1, <1>2, LockInvRunFails DEF BulkAdd
<1>3. ASSUME Goto(p, "bulkRemove"), UNCHANGED job, db' \in Databases
      PROVE  LockInv'
  <2>1. pc' = [pc EXCEPT ![p] = "bulkRemove"] /\ "bulkRemove" \in Steps
    BY <1>3 DEF Goto, Steps
  <2>2. job' = [job EXCEPT ![p] = job[p]]
    BY <1>3 DEF LockInv, TypeOK
  <2>3. UNCHANGED <<disk, ignored, syncLocks>>
    BY DEF BulkAdd
  <2> QED BY <1>1, <1>3, <2>1, <2>2, <2>3, LockInvRunStep
<1>4. ASSUME NEW i \in 1 .. MaxFileId, NEW ids \in Numberings(job[p].added, i),
             \A f \in job[p].added : ids[f] \in 1 .. MaxFileId,
             db' = InsertFiles(db, job[p].w.name, ids, job[p].op = "create")
      PROVE  db' \in Databases
  <2>1. ids \in [job[p].added -> Nat]
    BY <1>4, SyncAssumption DEF Numberings
  <2>2. job[p].added \in SUBSET Files /\ job[p].w.name \in Names
    BY <1>1 DEF Jobs, WatcherRows
  <2> QED BY <1>1, <1>4, <2>1, <2>2, DatabaseTypes
<1>5. (RunFails(p) /\ UNCHANGED db) \/ (Goto(p, "bulkRemove") /\ UNCHANGED job /\ db' \in Databases)
  BY <1>1, <1>4 DEF BulkAdd
<1> QED BY <1>2, <1>3, <1>5

LEMMA LockInvBulkRemove ==
  ASSUME LockInv, NEW p \in Procs, BulkRemove(p)
  PROVE  LockInv'
<1> DEFINE j == [job[p] EXCEPT !.ok = TRUE]
<1>1. job[p] \in Jobs /\ job[p].w \in WatcherRows /\ pc[p] = "bulkRemove" /\ db \in Databases
  BY DEF BulkRemove, LockInv, TypeOK, JobsOK, JobOK
<1>2. CASE RunFails(p) /\ UNCHANGED db
  BY <1>1, <1>2, LockInvRunFails DEF BulkRemove
<1>3. CASE /\ db' = DeleteFiles(db, job[p].w.name, Removed(job[p]))
           /\ Goto(p, "return")
           /\ job' = [job EXCEPT ![p].ok = TRUE]
  <2>1. Removed(job[p]) \in SUBSET Files /\ job[p].w.name \in Names
    BY <1>1 DEF Removed, Jobs, FileRows, WatcherRows
  <2>2. db' \in Databases
    BY <1>1, <1>3, <2>1, DatabaseTypes
  <2>3. j \in Jobs /\ j.op = job[p].op /\ j.name = job[p].name /\ j.w = job[p].w
    BY <1>1 DEF Jobs
  <2>4. pc' = [pc EXCEPT ![p] = "return"] /\ job' = [job EXCEPT ![p] = j] /\ "return" \in Steps
    BY <1>3 DEF Goto, Steps
  <2>5. UNCHANGED <<disk, ignored, syncLocks>>
    BY DEF BulkRemove
  <2> HIDE DEF j
  <2> QED BY <1>1, <2>2, <2>3, <2>4, <2>5, LockInvRunStep
<1> QED BY <1>2, <1>3 DEF BulkRemove

LEMMA LockInvReturn ==
  ASSUME LockInv, NEW p \in Procs, Return(p)
  PROVE  LockInv'
<1>1. pc' = [pc EXCEPT ![p] = "idle"] /\ "idle" \in Steps
  BY DEF Return, Reply, Steps
<1>2. job' = [job EXCEPT ![p] = NoJob] /\ NoJob \in Jobs
  BY NoJobType DEF Return, Reply
<1>3. pc'[p] = "idle" /\ job'[p] = NoJob
  BY <1>1, <1>2 DEF LockInv, TypeOK
<1>4. JobOK(p)' /\ ~Syncing(p)'
  BY <1>3 DEF JobOK, NoJob, Syncing
<1>5. db' \in Databases /\ UNCHANGED <<disk, ignored>>
  BY DEF Return, LockInv, TypeOK
<1>6. Syncing(p) <=> job[p].op = "sync"
  BY DEF Return, Syncing
<1>7. syncLocks' \in [Names -> Procs \cup {Idle}]
  BY DEF Return, LockInv, TypeOK
<1>8. \A n \in Names : syncLocks'[n] = p <=> Syncing(p)' /\ job'[p].name = n
  BY <1>4, <1>6, SyncAssumption DEF Return, LockInv, TypeOK, LockMatchesSync
<1>9. \A n \in Names, q \in Procs \ {p} : syncLocks'[n] = q <=> syncLocks[n] = q
  BY <1>6, SyncAssumption DEF Return, LockInv, TypeOK, LockMatchesSync, JobsOK, JobOK
<1> QED BY <1>1, <1>2, <1>4, <1>5, <1>7, <1>8, <1>9, HandlerStep

LEMMA LockInvCreateWatcher ==
  ASSUME LockInv, NEW p \in Procs, NEW n \in Names, NEW r \in Roots, NEW m \in Machines,
         NEW flush \in FlushExisting, CreateWatcher(p, n, r, m, flush)
  PROVE  LockInv'
<1>1. PICK i \in 1 .. MaxWatcherId :
        /\ db' = InsertWatcher(db, i, n, r, m)
        /\ IF flush
           THEN /\ Goto(p, "getMachine")
                /\ job' = [job EXCEPT ![p].op = "create", ![p].w = WatcherRow(i, n, r, m)]
           ELSE UNCHANGED <<pc, job>>
  BY DEF CreateWatcher
<1> DEFINE row == WatcherRow(i, n, r, m)
           j == [job[p] EXCEPT !.op = "create", !.w = row]
<1>2. i \in Nat /\ row \in WatcherRows
  BY SyncAssumption DEF WatcherRow, WatcherRows
<1>3. db' \in Databases
  BY <1>1, <1>2, DatabaseTypes DEF LockInv, TypeOK
<1>4. UNCHANGED <<disk, ignored, syncLocks>> /\ pc[p] = "idle" /\ job[p] \in Jobs
  BY DEF CreateWatcher, LockInv, TypeOK
<1>5. CASE flush
  <2>1. pc' = [pc EXCEPT ![p] = "getMachine"] /\ job' = [job EXCEPT ![p] = j] /\ "getMachine" \in Steps
    BY <1>1, <1>5 DEF Goto, Steps
  <2>2. j \in Jobs /\ j.op = "create" /\ j.w = row
    <3> HIDE DEF row
    <3> QED BY <1>2, <1>4 DEF Jobs
  <2>3. pc'[p] = "getMachine" /\ job'[p] = j
    BY <2>1 DEF LockInv, TypeOK
  <2> HIDE DEF j, row
  <2>4. JobOK(p)' /\ ~Syncing(p)' /\ ~Syncing(p)
    BY <1>2, <1>4, <2>2, <2>3 DEF JobOK, Syncing
  <2> QED BY <1>3, <1>4, <2>1, <2>2, <2>4, LocklessStep
<1>6. CASE ~flush
  <2>1. UNCHANGED <<pc, job>>
    BY <1>1, <1>6
  <2> QED BY <1>3, <1>4, <2>1
          DEF LockInv, TypeOK, JobsOK, JobOK, LockMatchesSync, Syncing
<1> QED BY <1>5, <1>6

\* A statement of another handler.
LEMMA LockInvStatement ==
  ASSUME LockInv, NEW new \in Databases, Statement(new)
  PROVE  LockInv'
BY DEF Statement, LockInv, TypeOK, JobsOK, JobOK, LockMatchesSync, Syncing

LEMMA LockInvStopServer ==
  ASSUME LockInv, StopServer
  PROVE  LockInv'
<1>1. \A p \in Procs : pc'[p] = "idle" /\ job'[p] = NoJob
  BY DEF StopServer
<1>2. TypeOK'
  BY NoJobType DEF StopServer, LockInv, TypeOK, Steps
<1>3. JobsOK'
  BY <1>1 DEF JobsOK, JobOK, NoJob
<1>4. LockMatchesSync'
  BY <1>1, SyncAssumption DEF StopServer, LockMatchesSync, Syncing, NoJob
<1> QED BY <1>2, <1>3, <1>4 DEF LockInv

LEMMA LockInvRequests ==
  ASSUME LockInv, Requests
  PROVE  LockInv'
<1>0. db \in Databases
  BY DEF LockInv, TypeOK
<1>1. ASSUME NEW p \in Procs, NEW n \in Names, StartSync(p, n) PROVE LockInv'
  BY <1>1, LockInvStartSync
<1>2. ASSUME NEW p \in Procs, NEW n \in Names, NEW r \in Roots, NEW m \in Machines,
             NEW flush \in FlushExisting, CreateWatcher(p, n, r, m, flush)
      PROVE  LockInv'
  BY <1>2, LockInvCreateWatcher
<1>3. ASSUME NEW w \in db.watchers, NEW n \in Names, NEW r \in Roots,
             UpdateWatcherHandler(w, n, r)
      PROVE  LockInv'
  BY <1>0, <1>3, DatabaseTypes, LockInvStatement DEF UpdateWatcherHandler
<1>4. ASSUME NEW n \in Names, DeleteWatcherHandler(n) PROVE LockInv'
  BY <1>0, <1>4, DatabaseTypes, LockInvStatement, SyncAssumption DEF DeleteWatcherHandler
<1>5. ASSUME NEW m \in Machines, CreateMachineHandler(m) PROVE LockInv'
  BY <1>0, <1>5, DatabaseTypes, LockInvStatement DEF CreateMachineHandler
<1>6. ASSUME NEW m \in Machines, DeleteMachineHandler(m) PROVE LockInv'
  BY <1>0, <1>6, DatabaseTypes, LockInvStatement, SyncAssumption DEF DeleteMachineHandler
<1>7. ASSUME NEW n \in Names, FlushHandler(n) PROVE LockInv'
  BY <1>0, <1>7, DatabaseTypes, LockInvStatement DEF FlushHandler
<1> QED BY <1>1, <1>2, <1>3, <1>4, <1>5, <1>6, <1>7 DEF Requests

LEMMA LockInvStep ==
  ASSUME LockInv, NEW p \in Procs, Step(p)
  PROVE  LockInv'
<1>1. ASSUME NilMachine(p) PROVE LockInv'
  BY <1>1, LockInvStopServer DEF NilMachine
<1> QED BY <1>1, LockInvGetWatcher, LockInvGetMachine, LockInvTryLock, LockInvConnect,
           LockInvListFiles, LockInvLoadRules, LockInvReadDirectory, LockInvSkipDirectory,
           LockInvBulkAdd, LockInvBulkRemove, LockInvReturn DEF Step

LEMMA LockInvNext == LockInv /\ [Next]_vars => LockInv'
<1> SUFFICES ASSUME LockInv, [Next]_vars PROVE LockInv'
  OBVIOUS
<1>1. CASE UNCHANGED vars
  BY <1>1 DEF vars, LockInv, TypeOK, JobsOK, JobOK, LockMatchesSync, Syncing
<1>2. ASSUME NEW f \in Files, ChangeFile(f) PROVE LockInv'
  BY <1>2 DEF ChangeFile, LockInv, TypeOK, JobsOK, JobOK, LockMatchesSync, Syncing
<1>3. ASSUME NEW S \in SUBSET Ignorable, EditIgnore(S) PROVE LockInv'
  BY <1>3, SyncAssumption
     DEF EditIgnore, LockInv, TypeOK, JobsOK, JobOK, LockMatchesSync, Syncing
<1>4. CASE Crash
  BY <1>4, LockInvStopServer DEF Crash
<1> QED BY <1>1, <1>2, <1>3, <1>4, LockInvStep, LockInvRequests DEF Next, Environment

\* Whatever requests, failures, crashes and file changes interleave, every
\* variable keeps its type (module SyncService, TypeOK) ...
THEOREM TypeCorrect == Spec => []TypeOK
<1>1. LockInv => TypeOK
  BY DEF LockInv
<1> QED BY <1>1, LockInvInit, LockInvNext, PTL DEF Spec

\* ... and the mutex of a name is held exactly while a sync of that name runs:
\* "defer unlock()" releases it on every path out of SyncWatcher.
THEOREM LockDiscipline == Spec => []LockMatchesSync
<1>1. LockInv => LockMatchesSync
  BY DEF LockInv
<1> QED BY <1>1, LockInvInit, LockInvNext, PTL DEF Spec

\* Two syncs that run at the same time were asked for under different names.
THEOREM OneSyncPerName ==
  Spec => [](\A p, q \in Procs :
               Syncing(p) /\ Syncing(q) /\ job[p].name = job[q].name => p = q)
<1>1. LockInv => \A p, q \in Procs :
                   Syncing(p) /\ Syncing(q) /\ job[p].name = job[q].name => p = q
  BY DEF LockInv, LockMatchesSync, JobsOK, JobOK, Syncing
<1> QED BY <1>1, LockInvInit, LockInvNext, PTL DEF Spec

(***************************************************************************)
(* Requests go forward.                                                    *)
(***************************************************************************)
\* A handler's step moves no other handler, unless it stops the server.
LEMMA OnlyOneMoves ==
  ASSUME LockInv, NEW q \in Procs, NEW r \in Procs, r # q, Step(r)
  PROVE  StopServer \/ (pc'[q] = pc[q] /\ job'[q] = job[q])
<1>1. pc \in [Procs -> Steps] /\ job \in [Procs -> Jobs]
  BY DEF LockInv, TypeOK
<1>2. CASE GetWatcher(r) \/ GetMachine(r) \/ TryLock(r) \/ Connect(r) \/ ListFiles(r)
             \/ Return(r)
  BY <1>1, <1>2 DEF GetWatcher, GetMachine, TryLock, Connect, ListFiles, Return,
                    RunFails, Reply, Goto
<1>3. CASE NilMachine(r)
  BY <1>3 DEF NilMachine
<1>4. CASE LoadRules(r)
  BY <1>1, <1>4 DEF LoadRules, Goto
<1>5. CASE \E v, d \in Dirs : ReadDirectory(r, v, d) \/ SkipDirectory(r, v, d)
  BY <1>1, <1>5 DEF ReadDirectory, SkipDirectory, Goto
<1>6. CASE BulkAdd(r) \/ BulkRemove(r)
  BY <1>1, <1>6 DEF BulkAdd, BulkRemove, RunFails, Goto
<1> QED BY <1>2, <1>3, <1>4, <1>5, <1>6 DEF Step

\* What is not p's step leaves p where it is, starts it, or ends it.
LEMMA NotItsStep ==
  ASSUME LockInv, NEW p \in Procs, Next, ~Step(p)
  PROVE  \/ pc'[p] = pc[p] /\ job'[p] = job[p]
         \/ pc'[p] = "idle"
         \/ pc[p] = "idle" /\ pc'[p] \in {"getWatcher", "getMachine"}
<1>1. pc \in [Procs -> Steps] /\ job \in [Procs -> Jobs]
  BY DEF LockInv, TypeOK
<1>2. CASE StopServer
  BY <1>1, <1>2 DEF StopServer
<1>3. ASSUME NEW q \in Procs, Step(q) PROVE StopServer \/ (pc'[p] = pc[p] /\ job'[p] = job[p])
  BY <1>3, OnlyOneMoves
<1>4. ASSUME NEW q \in Procs, NEW n \in Names, StartSync(q, n)
      PROVE  \/ pc'[p] = pc[p] /\ job'[p] = job[p]
             \/ pc[p] = "idle" /\ pc'[p] = "getWatcher"
  BY <1>1, <1>4 DEF StartSync, Goto
<1>5. ASSUME NEW q \in Procs, NEW n \in Names, NEW r \in Roots, NEW m \in Machines,
             NEW flush \in FlushExisting, CreateWatcher(q, n, r, m, flush)
      PROVE  \/ pc'[p] = pc[p] /\ job'[p] = job[p]
             \/ pc[p] = "idle" /\ pc'[p] = "getMachine"
  <2>1. /\ pc[q] = "idle"
        /\ \/ UNCHANGED <<pc, job>>
           \/ /\ pc' = [pc EXCEPT ![q] = "getMachine"]
              /\ \E row : job' = [job EXCEPT ![q].op = "create", ![q].w = row]
    BY <1>5 DEF CreateWatcher, Goto
  <2> QED BY <1>1, <2>1
<1>6. CASE Environment
  BY <1>2, <1>6 DEF Environment, Crash, ChangeFile, EditIgnore
<1>7. CASE Requests
  BY <1>4, <1>5, <1>7 DEF Requests, UpdateWatcherHandler, DeleteWatcherHandler,
                          CreateMachineHandler, DeleteMachineHandler, FlushHandler, Statement
<1> QED BY <1>2, <1>3, <1>6, <1>7 DEF Next

WalkingInv == LockInv /\ \A p \in Procs : pc[p] = "walk" => OnePerWalker(job[p].walk)

Forward(p) ==
  \/ UNCHANGED <<pc[p], job[p]>>
  \/ pc'[p] = "idle"
  \/ Rank(pc[p]) < Rank(pc'[p])
  \/ pc[p] = "walk" /\ pc'[p] = "walk" /\ Nearer(job[p].walk, job'[p].walk)

\* A directory read is a step towards the end of the walk.
LEMMA ReadForward ==
  ASSUME WalkingInv, NEW p \in Procs, NEW v \in Dirs, NEW d \in Dirs,
         ReadDirectory(p, v, d) \/ SkipDirectory(p, v, d)
  PROVE  Forward(p) /\ (pc'[p] = "walk" => OnePerWalker(job'[p].walk))
<1> DEFINE wk == job[p].walk
<1>1. /\ pc[p] = "walk" /\ <<v, d>> \in wk.reads /\ wk \in Walks /\ OnePerWalker(wk)
      /\ job[p] \in Jobs
  BY DEF WalkingInv, LockInv, TypeOK, Jobs, ReadDirectory, SkipDirectory
<1>2. PICK next \in {ListedDir(wk, v, d), SkippedDir(wk, v, d)} :
        /\ pc'[p] = (IF WalkOver(next) THEN "bulkAdd" ELSE "walk")
        /\ job'[p].walk = next
  <2>1. CASE ReadDirectory(p, v, d)
    <3>1. \E seen, new : job'[p] = [job[p] EXCEPT !.walk = ListedDir(wk, v, d), !.onDisk = seen,
                                                  !.added = new]
      BY <2>1 DEF ReadDirectory, WalkingInv, LockInv, TypeOK
    <3>2. job'[p].walk = ListedDir(wk, v, d)
      BY <1>1, <3>1 DEF Jobs
    <3> QED BY <2>1, <3>2 DEF ReadDirectory, Goto, WalkingInv, LockInv, TypeOK
  <2>2. CASE SkipDirectory(p, v, d)
    <3>1. job'[p] = [job[p] EXCEPT !.walk = SkippedDir(wk, v, d), !.clean = FALSE]
      BY <2>2 DEF SkipDirectory, WalkingInv, LockInv, TypeOK
    <3>2. job'[p].walk = SkippedDir(wk, v, d)
      BY <1>1, <3>1 DEF Jobs
    <3> QED BY <2>2, <3>2 DEF SkipDirectory, Goto, WalkingInv, LockInv, TypeOK
  <2> QED BY <2>1, <2>2
<1>3. Nearer(wk, next) /\ OnePerWalker(next)
  BY <1>1, <1>2, ListedNearer, SkippedNearer, ListedKeepsOne, SkippedKeepsOne
<1> QED BY <1>1, <1>2, <1>3 DEF Forward, Rank

LEMMA StepForward ==
  ASSUME WalkingInv, NEW p \in Procs, Step(p)
  PROVE  Forward(p) /\ (pc'[p] = "walk" => OnePerWalker(job'[p].walk))
<1>1. pc \in [Procs -> Steps] /\ job \in [Procs -> Jobs]
  BY DEF WalkingInv, LockInv, TypeOK
<1>2. CASE GetWatcher(p) \/ GetMachine(p) \/ TryLock(p) \/ Return(p) \/ NilMachine(p)
  BY <1>1, <1>2 DEF GetWatcher, GetMachine, TryLock, Return, NilMachine, StopServer, Reply, Goto,
                    Forward, Rank
<1>3. CASE Connect(p) \/ ListFiles(p)
  BY <1>1, <1>3 DEF Connect, ListFiles, RunFails, Goto, Forward, Rank
<1>4. CASE LoadRules(p)
  <2>1. pc[p] = "rules" /\ pc'[p] = "walk"
    BY <1>1, <1>4 DEF LoadRules, Goto
  <2>2. PICK r \in SUBSET Ignorable :
          job' = [job EXCEPT ![p].rules = r,
                             ![p].walk = NewWalk(job[p].w.path),
                             ![p].onDisk = {}, ![p].added = {},
                             ![p].clean = (r = ignored)]
    BY <1>4 DEF LoadRules
  <2>3. job'[p] = [job[p] EXCEPT !.rules = r, !.walk = NewWalk(job[p].w.path),
                                 !.onDisk = {}, !.added = {}, !.clean = (r = ignored)]
    BY <1>1, <2>2
  <2>4. job'[p].walk = NewWalk(job[p].w.path)
    BY <1>1, <2>3 DEF Jobs
  <2> QED BY <2>1, <2>4, NewWalkOnce DEF Forward, Rank
<1>5. CASE BulkAdd(p) \/ BulkRemove(p)
  BY <1>1, <1>5 DEF BulkAdd, BulkRemove, RunFails, Goto, Forward, Rank
<1> QED BY <1>2, <1>3, <1>4, <1>5, ReadForward DEF Step

LEMMA AllForward ==
  ASSUME WalkingInv, [Next]_vars
  PROVE  WalkingInv' /\ \A p \in Procs : pc[p] # "idle" => Forward(p)
<1>1. LockInv'
  BY LockInvNext DEF WalkingInv
<1>2. ASSUME NEW p \in Procs
      PROVE  /\ pc[p] # "idle" => Forward(p)
             /\ pc'[p] = "walk" => OnePerWalker(job'[p].walk)
  <2>1. CASE UNCHANGED vars
    BY <2>1 DEF vars, WalkingInv, Forward
  <2>2. CASE Step(p)
    BY <2>2, StepForward
  <2>3. CASE Next /\ ~Step(p)
    BY <2>3, NotItsStep DEF WalkingInv, Forward
  <2> QED BY <2>1, <2>2, <2>3
<1> QED BY <1>1, <1>2 DEF WalkingInv

\* A request never goes back: it makes at most one call of each kind but the directory
\* reads, and each of those leaves fewer to come.
THEOREM RequestsGoForward == Spec => RequestsAdvance
<1>1. Init => WalkingInv
  BY LockInvInit DEF Init, WalkingInv
<1>2. WalkingInv /\ [Next]_vars => WalkingInv'
  BY AllForward
<1>3. WalkingInv /\ [Next]_vars =>
        [\A p \in Procs :
           pc[p] # "idle" =>
             \/ UNCHANGED <<pc[p], job[p]>>
             \/ pc'[p] = "idle"
             \/ Rank(pc[p]) < Rank(pc'[p])
             \/ pc[p] = "walk" /\ pc'[p] = "walk" /\ Nearer(job[p].walk, job'[p].walk)]_vars
  BY AllForward DEF Forward
<1> QED BY <1>1, <1>2, <1>3, PTL DEF Spec, RequestsAdvance

(***************************************************************************)
(* No duplicate rows.  NoDuplicateRows is not inductive by itself: a run    *)
(* decides what to insert from the rows it listed some steps earlier.  What *)
(* it adds is new because, from the listing to the insert, the rows of the  *)
(* watcher's name can only become fewer: only a sync inserts, and the lock  *)
(* keeps the other syncs of that name out.                                 *)
(***************************************************************************)
Known(j) == {f.path : f \in j.watched}

Fresh(p) ==
  /\ job[p].op # "create"
  /\ pc[p] \in {"rules", "walk", "bulkAdd"} => Tracked(job[p].w.name) \subseteq Known(job[p])
  /\ pc[p] \in {"walk", "bulkAdd"} => job[p].added \cap Known(job[p]) = {}

DupInv == LockInv /\ NoDuplicateRows /\ \A p \in Procs : Fresh(p)

\* The step adds no row.
NoNewRow == NoDuplicateRows' /\ \A n : Tracked(n)' \subseteq Tracked(n)

LEMMA SameRows == ASSUME NoDuplicateRows, db'.files = db.files PROVE NoNewRow
BY DEF NoNewRow, NoDuplicateRows, Tracked, FilesOf

LEMMA FewerRows == ASSUME NoDuplicateRows, db'.files \subseteq db.files PROVE NoNewRow
BY DEF NoNewRow, NoDuplicateRows, Tracked, FilesOf

LEMMA DroppedWatchers ==
  ASSUME NEW base \in Databases, NEW ws, NEW fk \in BOOLEAN
  PROVE  DropWatchers(base, ws, fk).files \subseteq base.files
BY DEF DropWatchers, Databases

LEMMA MarkedRows ==
  ASSUME NoDuplicateRows, db \in Databases, NEW ids, db' = MarkFlushed(db, ids)
  PROVE  NoNewRow
<1> DEFINE Mark(f) == IF f.id \in ids THEN [f EXCEPT !.flushed = TRUE] ELSE f
<1>1. db'.files = {Mark(f) : f \in db.files}
  BY DEF MarkFlushed, Databases
<1>2. \A f \in db.files : Mark(f).watcher = f.watcher /\ Mark(f).path = f.path
  BY DEF Databases, FileRows
<1> HIDE DEF Mark
<1>3. NoDuplicateRows'
  BY <1>1, <1>2 DEF NoDuplicateRows
<1>4. \A n : Tracked(n)' \subseteq Tracked(n)
  BY <1>1, <1>2 DEF Tracked, FilesOf
<1> QED BY <1>3, <1>4 DEF NoNewRow

\* A step in which at most p moves and no row is added.
LEMMA FreshStep ==
  ASSUME DupInv, LockInv', NoNewRow, NEW p \in Procs, Fresh(p)',
         \A q \in Procs \ {p} : pc'[q] = pc[q] /\ job'[q] = job[q]
  PROVE  DupInv'
<1>1. ASSUME NEW q \in Procs \ {p} PROVE Fresh(q)'
  <2>1. Fresh(q) /\ pc'[q] = pc[q] /\ job'[q] = job[q]
    BY DEF DupInv
  <2> QED BY <2>1 DEF Fresh, NoNewRow, Known
<1> QED BY <1>1 DEF DupInv, NoNewRow

\* A step that moves nobody and adds no row.
LEMMA FreshStatement ==
  ASSUME DupInv, LockInv', NoNewRow, UNCHANGED <<pc, job>>
  PROVE  DupInv'
BY DEF DupInv, NoNewRow, Fresh, Known

\* A step of p outside the part of a run that works on what it has listed.
LEMMA FreshOutside ==
  ASSUME DupInv, LockInv', NEW p \in Procs, NEW to, NEW j,
         db'.files \subseteq db.files,
         pc' = [pc EXCEPT ![p] = to], job' = [job EXCEPT ![p] = j],
         to \notin {"rules", "walk", "bulkAdd"}, j.op # "create"
  PROVE  DupInv'
<1>1. pc'[p] = to /\ job'[p] = j /\ \A q \in Procs \ {p} : pc'[q] = pc[q] /\ job'[q] = job[q]
  BY DEF DupInv, LockInv, TypeOK
<1>2. Fresh(p)'
  BY <1>1 DEF Fresh
<1>3. NoNewRow
  BY FewerRows DEF DupInv
<1> QED BY <1>1, <1>2, <1>3, FreshStep

LEMMA DupInvInit == Init => DupInv
<1> SUFFICES ASSUME Init PROVE DupInv
  OBVIOUS
<1>1. NoDuplicateRows
  BY DEF Init, EmptyDB, NoDuplicateRows
<1>2. \A p \in Procs : Fresh(p)
  BY DEF Init, Fresh, NoJob
<1> QED BY <1>1, <1>2, LockInvInit DEF DupInv

\* The steps of a handler before it lists the rows, and after its insert.
LEMMA DupInvOutside ==
  ASSUME DupInv, LockInv', NEW p \in Procs,
         StartSync(p, job'[p].name) \/ GetWatcher(p) \/ GetMachine(p) \/ TryLock(p)
           \/ Connect(p) \/ BulkRemove(p) \/ Return(p)
  PROVE  DupInv'
<1>1. job \in [Procs -> Jobs] /\ pc \in [Procs -> Steps] /\ Fresh(p) /\ db \in Databases
  BY DEF DupInv, LockInv, TypeOK
<1>2. db'.files \subseteq db.files
  BY <1>1 DEF StartSync, GetWatcher, GetMachine, TryLock, Connect, BulkRemove, Return,
              DeleteFiles, Databases
<1>3. /\ pc' = [pc EXCEPT ![p] = pc'[p]]
      /\ pc'[p] \notin {"rules", "walk", "bulkAdd"}
  BY <1>1 DEF StartSync, GetWatcher, GetMachine, TryLock, Connect, BulkRemove, Return,
              Reply, RunFails, Goto
<1>4. /\ job' = [job EXCEPT ![p] = job'[p]]
      /\ job'[p].op # "create"
  BY <1>1 DEF StartSync, GetWatcher, GetMachine, TryLock, Connect, BulkRemove, Return,
              Reply, RunFails, NoJob, Fresh, Jobs
<1> QED BY <1>2, <1>3, <1>4, FreshOutside

\* What was listed is all there is.
LEMMA DupInvListFiles ==
  ASSUME DupInv, LockInv', NEW p \in Procs, ListFiles(p)
  PROVE  DupInv'
<1>1. job \in [Procs -> Jobs] /\ pc \in [Procs -> Steps] /\ Fresh(p) /\ NoNewRow
  BY SameRows DEF DupInv, LockInv, TypeOK, ListFiles
<1>2. \A q \in Procs \ {p} : pc'[q] = pc[q] /\ job'[q] = job[q]
  BY <1>1 DEF ListFiles, Goto, RunFails
<1>3. CASE RunFails(p)
  <2>1. Fresh(p)'
    BY <1>1, <1>3 DEF RunFails, Fresh
  <2> QED BY <1>1, <1>2, <2>1, FreshStep
<1>4. CASE Goto(p, "rules") /\ job' = [job EXCEPT ![p].watched = FilesOf(db, job[p].w.name)]
  <2>1. /\ pc'[p] = "rules" /\ job'[p].op = job[p].op /\ job'[p].w = job[p].w
        /\ job'[p].watched = FilesOf(db, job[p].w.name)
    BY <1>1, <1>4 DEF Goto, Jobs
  <2>2. Tracked(job[p].w.name)' = Known(job'[p])
    BY <2>1 DEF ListFiles, Tracked, FilesOf, Known
  <2>3. Fresh(p)'
    BY <1>1, <2>1, <2>2 DEF Fresh
  <2> QED BY <1>1, <1>2, <2>3, FreshStep
<1> QED BY <1>3, <1>4 DEF ListFiles

\* A step of p from the listing to the insert that leaves its watcher and its
\* listing alone.
LEMMA FreshInside ==
  ASSUME DupInv, LockInv', NEW p \in Procs,
         pc[p] \in {"rules", "walk"}, UNCHANGED db,
         \A q \in Procs \ {p} : pc'[q] = pc[q] /\ job'[q] = job[q],
         job'[p].op = job[p].op, job'[p].w = job[p].w, job'[p].watched = job[p].watched,
         job'[p].added \cap Known(job[p]) = {}
  PROVE  DupInv'
<1>1. Fresh(p)'
  BY DEF DupInv, Fresh, Known, Tracked, FilesOf
<1>2. NoNewRow
  BY SameRows DEF DupInv
<1> QED BY <1>1, <1>2, FreshStep

LEMMA DupInvLoadRules ==
  ASSUME DupInv, LockInv', NEW p \in Procs, LoadRules(p)
  PROVE  DupInv'
<1>1. PICK r \in SUBSET Ignorable :
        job' = [job EXCEPT ![p].rules = r,
                           ![p].walk = NewWalk(job[p].w.path),
                           ![p].onDisk = {}, ![p].added = {},
                           ![p].clean = (r = ignored)]
  BY DEF LoadRules
<1> DEFINE j == [job[p] EXCEPT !.rules = r, !.walk = NewWalk(job[p].w.path),
                               !.onDisk = {}, !.added = {}, !.clean = (r = ignored)]
<1>2. job[p] \in Jobs
  BY DEF DupInv, LockInv, TypeOK
<1>3. j.op = job[p].op /\ j.w = job[p].w /\ j.watched = job[p].watched /\ j.added = {}
  BY <1>2 DEF Jobs
<1>4. pc[p] = "rules" /\ UNCHANGED db /\ job'[p] = j
  BY <1>1 DEF LoadRules, DupInv, LockInv, TypeOK
<1>5. \A q \in Procs \ {p} : pc'[q] = pc[q] /\ job'[q] = job[q]
  BY <1>1 DEF LoadRules, Goto, DupInv, LockInv, TypeOK
<1> HIDE DEF j
<1> QED BY <1>3, <1>4, <1>5, FreshInside

\* processFile adds only what was not listed.
LEMMA DupInvReadDirectory ==
  ASSUME DupInv, LockInv', NEW p \in Procs, NEW v \in Dirs, NEW d \in Dirs,
         ReadDirectory(p, v, d)
  PROVE  DupInv'
<1> DEFINE seen == Kept(d, disk, job[p].rules)
           next == ListedDir(job[p].walk, v, d)
           j == [job[p] EXCEPT !.walk = next, !.onDisk = @ \cup seen,
                               !.added = @ \cup (seen \ Known(job[p]))]
<1>1. job[p] \in Jobs /\ pc[p] = "walk" /\ Fresh(p)
  BY DEF DupInv, LockInv, TypeOK, ReadDirectory
<1>2. /\ j.op = job[p].op /\ j.w = job[p].w /\ j.watched = job[p].watched
      /\ j.added = job[p].added \cup (seen \ Known(job[p]))
  <2> HIDE DEF next, seen
  <2> QED BY <1>1 DEF Jobs
<1>3. j.added \cap Known(job[p]) = {}
  <2> HIDE DEF j, seen
  <2> QED BY <1>1, <1>2 DEF Fresh
<1>4. UNCHANGED db /\ job'[p] = j
  BY DEF ReadDirectory, Known, DupInv, LockInv, TypeOK
<1>5. \A q \in Procs \ {p} : pc'[q] = pc[q] /\ job'[q] = job[q]
  BY DEF ReadDirectory, Goto, DupInv, LockInv, TypeOK
<1> HIDE DEF j
<1> QED BY <1>1, <1>2, <1>3, <1>4, <1>5, FreshInside

LEMMA DupInvSkipDirectory ==
  ASSUME DupInv, LockInv', NEW p \in Procs, NEW v \in Dirs, NEW d \in Dirs,
         SkipDirectory(p, v, d)
  PROVE  DupInv'
<1> DEFINE next == SkippedDir(job[p].walk, v, d)
           j == [job[p] EXCEPT !.walk = next, !.clean = FALSE]
<1>1. job[p] \in Jobs /\ pc[p] = "walk" /\ Fresh(p)
  BY DEF DupInv, LockInv, TypeOK, SkipDirectory
<1>2. /\ j.op = job[p].op /\ j.w = job[p].w /\ j.watched = job[p].watched
      /\ j.added = job[p].added
  <2> HIDE DEF next
  <2> QED BY <1>1 DEF Jobs
<1>3. UNCHANGED db /\ job'[p] = j
  BY DEF SkipDirectory, DupInv, LockInv, TypeOK
<1>4. \A q \in Procs \ {p} : pc'[q] = pc[q] /\ job'[q] = job[q]
  BY DEF SkipDirectory, Goto, DupInv, LockInv, TypeOK
<1>5. j.added \cap Known(job[p]) = {}
  BY <1>1, <1>2 DEF Fresh
<1> HIDE DEF j
<1> QED BY <1>1, <1>2, <1>3, <1>4, <1>5, FreshInside

\* The insert.  Every other run between its listing and its insert is a sync of
\* another name, because p holds the lock of this one.
LEMMA DupInvBulkAdd ==
  ASSUME DupInv, LockInv', NEW p \in Procs, BulkAdd(p)
  PROVE  DupInv'
<1> DEFINE name == job[p].w.name
           added == job[p].added
<1>1. job[p] \in Jobs /\ pc[p] = "bulkAdd" /\ Fresh(p) /\ db \in Databases
  BY DEF DupInv, LockInv, TypeOK, BulkAdd
<1>2. pc'[p] \in {"bulkRemove", "return"} /\ UNCHANGED job
  BY DEF BulkAdd, RunFails, Goto, DupInv, LockInv, TypeOK
<1>3. \A q \in Procs \ {p} : pc'[q] = pc[q] /\ job'[q] = job[q]
  BY <1>2 DEF BulkAdd, RunFails, Goto, DupInv, LockInv, TypeOK
<1>4. Fresh(p)'
  BY <1>1, <1>2 DEF Fresh
<1>5. CASE UNCHANGED db
  BY <1>3, <1>4, <1>5, SameRows, FreshStep DEF DupInv
<1>6. ASSUME NEW ids, DOMAIN ids = added, NEW b, db' = InsertFiles(db, name, ids, b)
      PROVE  DupInv'
  <2>1. db'.files = db.files \cup {FileRow(ids[f], name, f, b) : f \in added}
    BY <1>1, <1>6 DEF InsertFiles, Databases
  <2>2. \A f \in db.files : f.watcher = name => f.path \notin added
    BY <1>1 DEF Fresh, Tracked, FilesOf
  <2>3. NoDuplicateRows'
    BY <2>1, <2>2 DEF DupInv, NoDuplicateRows, FileRow
  <2>4. \A n : n # name => Tracked(n)' = Tracked(n)
    BY <2>1 DEF Tracked, FilesOf, FileRow
  <2>5. ASSUME NEW q \in Procs \ {p}, pc[q] \in {"rules", "walk", "bulkAdd"}
        PROVE  job[q].w.name # name
    <3>1. job[q].op = "sync" /\ job[p].op = "sync"
      BY <1>1, <2>5 DEF DupInv, LockInv, JobsOK, JobOK, Fresh
    <3>2. Syncing(q) /\ Syncing(p)
      BY <1>1, <2>5, <3>1 DEF Syncing
    <3>3. job[q].w.name = job[q].name /\ name = job[p].name /\ job[p].name \in Names
      BY <1>1, <2>5, <3>1 DEF DupInv, LockInv, JobsOK, JobOK
    <3> QED BY <3>2, <3>3 DEF DupInv, LockInv, LockMatchesSync
  <2>6. ASSUME NEW q \in Procs \ {p} PROVE Fresh(q)'
    BY <1>3, <2>4, <2>5 DEF DupInv, Fresh, Known
  <2> QED BY <1>4, <2>3, <2>6 DEF DupInv
<1>7. \/ UNCHANGED db
      \/ \E ids, b : DOMAIN ids = added /\ db' = InsertFiles(db, name, ids, b)
  BY DEF BulkAdd, Numberings
<1> QED BY <1>5, <1>6, <1>7

LEMMA DupInvCreateWatcher ==
  ASSUME FlushExisting = {FALSE}, DupInv, LockInv', NEW p \in Procs,
         NEW n \in Names, NEW r \in Roots, NEW m \in Machines,
         NEW flush \in FlushExisting, CreateWatcher(p, n, r, m, flush)
  PROVE  DupInv'
<1>1. db'.files = db.files /\ UNCHANGED <<pc, job>>
  BY DEF CreateWatcher, InsertWatcher, DupInv, LockInv, TypeOK, Databases
<1> QED BY <1>1, SameRows, FreshStatement DEF DupInv

LEMMA DupInvStatements ==
  ASSUME DupInv, LockInv',
         \/ \E w \in db.watchers, n \in Names, r \in Roots : UpdateWatcherHandler(w, n, r)
         \/ \E n \in Names : DeleteWatcherHandler(n)
         \/ \E m \in Machines : CreateMachineHandler(m) \/ DeleteMachineHandler(m)
         \/ \E n \in Names : FlushHandler(n)
  PROVE  DupInv'
<1>1. db \in Databases /\ NoDuplicateRows
  BY DEF DupInv, LockInv, TypeOK
<1>2. UNCHANGED <<pc, job>>
  BY DEF UpdateWatcherHandler, DeleteWatcherHandler, CreateMachineHandler,
         DeleteMachineHandler, FlushHandler, Statement
<1>3. ASSUME NEW w \in db.watchers, NEW n \in Names, NEW r \in Roots,
             UpdateWatcherHandler(w, n, r)
      PROVE  NoNewRow
  BY <1>1, <1>3, SameRows DEF UpdateWatcherHandler, Statement, UpdateWatcher, Databases
<1>4. ASSUME NEW n \in Names, DeleteWatcherHandler(n) PROVE NoNewRow
  BY <1>1, <1>4, DroppedWatchers, FewerRows, SyncAssumption
     DEF DeleteWatcherHandler, Statement, DeleteWatcher
<1>5. ASSUME NEW m \in Machines, CreateMachineHandler(m) PROVE NoNewRow
  BY <1>1, <1>5, SameRows DEF CreateMachineHandler, Statement, InsertMachine, Databases
<1>6. ASSUME NEW m \in Machines, DeleteMachineHandler(m) PROVE NoNewRow
  <2> DEFINE base == [db EXCEPT !.machines = @ \ {m}]
  <2>1. base \in Databases /\ base.files = db.files
    BY <1>1 DEF Databases
  <2>2. PICK fk \in BOOLEAN : db' = DeleteMachine(db, m, fk)
    BY <1>6, SyncAssumption DEF DeleteMachineHandler, Statement
  <2>3. db' = base \/ db' = DropWatchers(base, WatchersOn(db, m), fk)
    BY <2>2 DEF DeleteMachine
  <2> HIDE DEF base
  <2> QED BY <1>1, <2>1, <2>3, DroppedWatchers, FewerRows
<1>7. ASSUME NEW n \in Names, FlushHandler(n) PROVE NoNewRow
  BY <1>1, <1>7, MarkedRows DEF FlushHandler, Statement
<1> QED BY <1>2, <1>3, <1>4, <1>5, <1>6, <1>7, FreshStatement

LEMMA DupInvStopServer ==
  ASSUME DupInv, LockInv', StopServer
  PROVE  DupInv'
<1>1. NoNewRow
  BY SameRows DEF StopServer, DupInv
<1>2. \A p \in Procs : Fresh(p)'
  BY DEF StopServer, Fresh, NoJob
<1> QED BY <1>1, <1>2 DEF DupInv, NoNewRow

LEMMA DupInvNext ==
  ASSUME FlushExisting = {FALSE}, DupInv, [Next]_vars
  PROVE  DupInv'
<1>1. LockInv'
  BY LockInvNext DEF DupInv
<1>2. CASE UNCHANGED vars
  <2>1. NoNewRow
    BY <1>2, SameRows DEF vars, DupInv
  <2> QED BY <1>1, <1>2, <2>1, FreshStatement DEF vars
<1>3. ASSUME NEW p \in Procs, Step(p) PROVE DupInv'
  <2>1. CASE GetWatcher(p) \/ GetMachine(p) \/ TryLock(p) \/ Connect(p)
               \/ BulkRemove(p) \/ Return(p)
    BY <1>1, <2>1, DupInvOutside
  <2>2. CASE NilMachine(p)
    BY <1>1, <2>2, DupInvStopServer DEF NilMachine
  <2>3. CASE ListFiles(p)
    BY <1>1, <2>3, DupInvListFiles
  <2>4. CASE LoadRules(p)
    BY <1>1, <2>4, DupInvLoadRules
  <2>5. ASSUME NEW v \in Dirs, NEW d \in Dirs, ReadDirectory(p, v, d) PROVE DupInv'
    BY <1>1, <2>5, DupInvReadDirectory
  <2>6. ASSUME NEW v \in Dirs, NEW d \in Dirs, SkipDirectory(p, v, d) PROVE DupInv'
    BY <1>1, <2>6, DupInvSkipDirectory
  <2>7. CASE BulkAdd(p)
    BY <1>1, <2>7, DupInvBulkAdd
  <2> QED BY <1>3, <2>1, <2>2, <2>3, <2>4, <2>5, <2>6, <2>7 DEF Step
<1>4. CASE Requests
  <2>1. ASSUME NEW p \in Procs, NEW n \in Names, StartSync(p, n) PROVE DupInv'
    <3>1. job'[p].name = n
      BY <2>1 DEF StartSync, DupInv, LockInv, TypeOK, Jobs
    <3> QED BY <1>1, <2>1, <3>1, DupInvOutside
  <2>2. ASSUME NEW p \in Procs, NEW n \in Names, NEW r \in Roots, NEW m \in Machines,
               NEW flush \in FlushExisting, CreateWatcher(p, n, r, m, flush)
        PROVE  DupInv'
    BY <1>1, <2>2, DupInvCreateWatcher
  <2> QED BY <1>1, <1>4, <2>1, <2>2, DupInvStatements DEF Requests
<1>5. CASE Environment
  <2>1. CASE Crash
    BY <1>1, <2>1, DupInvStopServer DEF Crash
  <2>2. CASE \/ \E f \in Files : ChangeFile(f)
             \/ \E S \in SUBSET Ignorable : EditIgnore(S)
    <3>1. UNCHANGED <<db, pc, job>>
      BY <2>2 DEF ChangeFile, EditIgnore
    <3>2. NoNewRow
      BY <3>1, SameRows DEF DupInv
    <3> QED BY <1>1, <3>1, <3>2, FreshStatement
  <2> QED BY <1>5, <2>1, <2>2 DEF Environment
<1> QED BY <1>2, <1>3, <1>4, <1>5 DEF Next

\* As long as no request sets flush_existing, a tracked path has one row, with
\* or without foreign keys: the check of the listing and the insert of the batch
\* are two statements, and the sync lock makes them one.
THEOREM NoDuplicates ==
  ASSUME FlushExisting = {FALSE}
  PROVE  Spec => []NoDuplicateRows
<1>1. DupInv => NoDuplicateRows
  BY DEF DupInv
<1>2. DupInv /\ [Next]_vars => DupInv'
  BY DupInvNext
<1> QED BY <1>1, <1>2, DupInvInit, PTL DEF Spec

(***************************************************************************)
(* References, when every connection of the pool enforces them.            *)
(***************************************************************************)
RefInv == LockInv /\ NoOrphans

Tables == TablesOver(Names, Roots \cup Files \cup Dirs, Machines)

LEMMA DatabasesAreTables == Databases \subseteq Tables
BY DEF Databases, Tables, TablesOver, WatcherRows, FileRows, RedirectionRows

LEMMA RefStep ==
  ASSUME FkModes = {TRUE}, RefInv, NEW p \in Procs, Step(p)
  PROVE  NoOrphans'
<1>1. db \in Tables /\ ReferencesHold(db)
  BY DatabasesAreTables DEF RefInv, LockInv, TypeOK, NoOrphans
<1>2. CASE BulkAdd(p)
  <2>1. CASE UNCHANGED db
    BY <2>1 DEF NoOrphans, RefInv
  <2>2. CASE ~UNCHANGED db
    <3> DEFINE n == job[p].w.name
               b == (job[p].op = "create")
    <3>1. CanInsertFiles(db, n, TRUE)
      BY <1>2, <2>2 DEF BulkAdd
    <3>2. PICK i \in 1 .. MaxFileId : \E ids \in Numberings(job[p].added, i) :
                 db' = InsertFiles(db, n, ids, b)
      BY <1>2, <2>2 DEF BulkAdd
    <3>3. PICK ids : db' = InsertFiles(db, n, ids, b)
      BY <3>2
    <3> QED BY <1>1, <3>1, <3>3, InsertsKeepReferences DEF Tables, NoOrphans
  <2> QED BY <2>1, <2>2
<1>3. CASE BulkRemove(p)
  <2>1. CASE \E n, S : db' = DeleteFiles(db, n, S)
    BY <1>1, <2>1, ChildStatementsKeepReferences DEF Tables, NoOrphans
  <2>2. CASE UNCHANGED db
    BY <2>2 DEF NoOrphans, RefInv
  <2> QED BY <1>3, <2>1, <2>2 DEF BulkRemove
<1>4. CASE /\ ~BulkAdd(p)
           /\ ~BulkRemove(p)
  <2>1. UNCHANGED db
    BY <1>4 DEF Step, GetWatcher, GetMachine, TryLock, Connect, NilMachine, StopServer,
                ListFiles, LoadRules, ReadDirectory, SkipDirectory, Return
  <2> QED BY <2>1 DEF NoOrphans, RefInv
<1> QED BY <1>2, <1>3, <1>4

LEMMA RefRequests ==
  ASSUME FkModes = {TRUE}, RefInv, Requests
  PROVE  NoOrphans'
<1>1. db \in Tables /\ ReferencesHold(db)
  BY DatabasesAreTables DEF RefInv, LockInv, TypeOK, NoOrphans
<1>2. ASSUME NEW p \in Procs, NEW n \in Names, StartSync(p, n) PROVE NoOrphans'
  BY <1>2 DEF StartSync, NoOrphans, RefInv
<1>3. ASSUME NEW p \in Procs, NEW n \in Names, NEW r \in Roots, NEW m \in Machines,
             NEW flush \in FlushExisting, CreateWatcher(p, n, r, m, flush)
      PROVE  NoOrphans'
  <2>1. CanInsertWatcher(db, n, m, TRUE) /\ \E i : db' = InsertWatcher(db, i, n, r, m)
    BY <1>3 DEF CreateWatcher
  <2> QED BY <1>1, <2>1, InsertsKeepReferences DEF Tables, NoOrphans
<1>4. ASSUME NEW w \in db.watchers, NEW n \in Names, NEW r \in Roots,
             UpdateWatcherHandler(w, n, r)
      PROVE  NoOrphans'
  <2>1. CanUpdateWatcher(db, w, n, TRUE) /\ db' = UpdateWatcher(db, w, n, r)
    BY <1>4 DEF UpdateWatcherHandler, Statement
  <2> QED BY <1>1, <2>1, UpdateWatcherKeepsReferences DEF Tables, NoOrphans
<1>5. ASSUME NEW n \in Names, DeleteWatcherHandler(n) PROVE NoOrphans'
  <2>1. db' = DeleteWatcher(db, n, TRUE)
    BY <1>5 DEF DeleteWatcherHandler, Statement
  <2> QED BY <1>1, <2>1, DeletesKeepReferences DEF Tables, NoOrphans
<1>6. ASSUME NEW m \in Machines, CreateMachineHandler(m) PROVE NoOrphans'
  <2>1. db' = InsertMachine(db, m)
    BY <1>6 DEF CreateMachineHandler, Statement
  <2> QED BY <1>1, <2>1, InsertsKeepReferences DEF Tables, NoOrphans
<1>7. ASSUME NEW m \in Machines, DeleteMachineHandler(m) PROVE NoOrphans'
  <2>1. CanDeleteMachine(db, m, TRUE) /\ db' = DeleteMachine(db, m, TRUE)
    BY <1>7 DEF DeleteMachineHandler, Statement
  <2> QED BY <1>1, <2>1, DeletesKeepReferences DEF Tables, NoOrphans
<1>8. ASSUME NEW n \in Names, FlushHandler(n) PROVE NoOrphans'
  <2>1. \E ids : db' = MarkFlushed(db, ids)
    BY <1>8 DEF FlushHandler, Statement
  <2> QED BY <1>1, <2>1, ChildStatementsKeepReferences DEF Tables, NoOrphans
<1> QED BY <1>2, <1>3, <1>4, <1>5, <1>6, <1>7, <1>8 DEF Requests

\* If every connection enforces foreign keys, no interleaving of syncs with
\* deletions, renames and crashes leaves a row whose watcher or machine is gone.
THEOREM ReferencesKept ==
  ASSUME FkModes = {TRUE}
  PROVE  Spec => []NoOrphans
<1>1. Init => RefInv
  BY LockInvInit, EmptyReferences DEF RefInv, NoOrphans, Init
<1>2. RefInv /\ [Next]_vars => RefInv'
  <2> SUFFICES ASSUME RefInv, [Next]_vars PROVE RefInv'
    OBVIOUS
  <2>1. LockInv'
    BY LockInvNext DEF RefInv
  <2>2. CASE Environment \/ UNCHANGED vars
    <3>1. UNCHANGED db
      BY <2>2 DEF Environment, Crash, StopServer, ChangeFile, EditIgnore, vars
    <3> QED BY <2>1, <3>1 DEF RefInv, NoOrphans
  <2> QED BY <2>1, <2>2, RefStep, RefRequests DEF Next, RefInv
<1>3. RefInv => NoOrphans
  BY DEF RefInv
<1> QED BY <1>1, <1>2, <1>3, PTL DEF Spec

(***************************************************************************)
(* What an undisturbed sync has done when it succeeds (SyncOutcome).       *)
(***************************************************************************)

\* The steps before the listing, which say nothing of the outcome.
Early == {"idle", "getWatcher", "getMachine", "tryLock", "connect", "list"}

\* The walk has kept nothing outside the source, and what it has not kept yet is
\* at or below a directory that it is still to read.
WalkedSoFar(p) ==
  LET j == job[p]
  IN  /\ j.rules = ignored
      /\ \A r \in j.walk.reads : Below[r[2]] \subseteq Below[j.w.path]
      /\ j.onDisk \subseteq SourceTree(p)
      /\ \A f \in SourceTree(p) : f \in j.onDisk \/ \E r \in j.walk.reads : DirOf[f] \in Below[r[2]]

\* The rows after BulkAdd: those listed before, and a new one per added file.
AddedRows(p) ==
  LET j == job[p]
  IN  /\ j.watched \subseteq Rows(p)
      /\ \A f \in Rows(p) \ j.watched : f.path \in j.added /\ f.flushed = (j.op = "create")
      /\ \A x \in j.added : \E f \in Rows(p) : f.path = x

\* The conclusion of SyncReconciles.
Reconciled(p) ==
  LET j == job[p]
  IN  /\ Tracked(j.w.name) = SourceTree(p)
      /\ {f \in j.watched : f.path \in SourceTree(p)} \subseteq Rows(p)
      /\ \A f \in Rows(p) \ j.watched :
           /\ j.op = "sync" => ~f.flushed
           /\ f.path \notin Known(j)

Reconciling(p) ==
  /\ pc[p] = "walk" => WalkedSoFar(p)
  /\ pc[p] \in {"walk", "bulkAdd", "bulkRemove"} => job[p].added = job[p].onDisk \ Known(job[p])
  /\ pc[p] \in {"bulkAdd", "bulkRemove"} => job[p].onDisk = SourceTree(p)
  /\ pc[p] = "bulkRemove" => AddedRows(p)
  /\ pc[p] = "return" /\ job[p].ok => Reconciled(p)

\* As long as nothing else moves, the listing is what the table holds, and, if
\* every read succeeds, each step of Run leaves what the next one starts from.
OnCourse(p) ==
  /\ pc[p] \in {"rules", "walk", "bulkAdd"} => Rows(p) = job[p].watched
  /\ job[p].clean => Reconciling(p)

Progress(p) == (job[p].ok => pc[p] = "return") /\ (alone[p] => OnCourse(p))

OutcomeInv == LockInv /\ \A p \in Procs : Progress(p)

LEMMA OutcomeInvInit == OutcomeInit => OutcomeInv
BY LockInvInit DEF OutcomeInit, Init, OutcomeInv, Progress, OnCourse, Reconciling, NoJob

\* A handler that has not listed its files promises nothing yet.
LEMMA EarlyStep ==
  ASSUME NEW p \in Procs, pc'[p] \in Early, ~job'[p].ok
  PROVE  Progress(p)'
BY DEF Progress, OnCourse, Reconciling, Early

\* Somebody else's step, that has left p's rows, files and rules as they were.
LEMMA QuietStep ==
  ASSUME OutcomeInv, Record, NEW p \in Procs, pc'[p] = pc[p], job'[p] = job[p],
         MovedElsewhere(p) => UNCHANGED <<Rows(p), disk, ignored>>
  PROVE  Progress(p)'
<1>1. Progress(p)
  BY DEF OutcomeInv
<1>2. CASE pc[p] \in Early
  BY <1>1, <1>2, EarlyStep DEF Progress, Early
<1>3. CASE pc[p] \notin Early
  <2> SUFFICES ASSUME alone'[p] PROVE OnCourse(p)'
    BY <1>1 DEF Progress
  <2>1. alone[p] /\ Undisturbed(p)
    BY <1>3 DEF Record, Early
  <2>2. Rows(p)' = Rows(p) /\ SourceTree(p)' = SourceTree(p) /\ ignored' = ignored
    BY <2>1 DEF Undisturbed, Moved, SourceTree
  <2>3. OnCourse(p)
    BY <1>1, <2>1 DEF Progress
  <2>4. Tracked(job[p].w.name) = {f.path : f \in Rows(p)}
    BY DEF Tracked, Rows
  <2>5. Tracked(job[p].w.name)' = {f.path : f \in Rows(p)'}
    BY DEF Tracked, Rows
  <2> QED BY <2>2, <2>3, <2>4, <2>5 DEF OnCourse, Reconciling, WalkedSoFar, AddedRows, Reconciled,
                                        Known
<1> QED BY <1>2, <1>3

\* A step that p's own handler makes was made alone only if all before were.
LEMMA OwnStep ==
  ASSUME OutcomeInv, Record, NEW p \in Procs, pc[p] # "tryLock",
         pc'[p] \notin {"idle", "getWatcher", "tryLock"},
         job'[p].ok => pc'[p] = "return",
         alone[p] /\ OnCourse(p) => OnCourse(p)'
  PROVE  Progress(p)'
BY DEF OutcomeInv, Progress, Record

\* p's handler answers before it has listed anything, or after it has ended.
LEMMA EarlySteps ==
  ASSUME OutcomeInv, NEW p \in Procs,
         GetWatcher(p) \/ GetMachine(p) \/ TryLock(p) \/ NilMachine(p) \/ Return(p)
  PROVE  Progress(p)'
<1>1. ~NoJob.ok
  BY DEF NoJob
<1>2. job[p] \in Jobs /\ (job[p].ok => pc[p] = "return")
  BY DEF OutcomeInv, Progress, LockInv, TypeOK
<1>3. CASE GetWatcher(p) \/ GetMachine(p) \/ TryLock(p)
  <2>1. pc'[p] \in Early
    BY <1>3 DEF GetWatcher, GetMachine, TryLock, Goto, Reply, OutcomeInv, LockInv, TypeOK, Early
  <2>2. ~job[p].ok
    BY <1>2, <1>3 DEF GetWatcher, GetMachine, TryLock
  <2>3. \/ job'[p] = NoJob \/ job'[p] = job[p]
        \/ job'[p] = [job[p] EXCEPT !.hasMachine = TRUE]
        \/ \E w : job'[p] = [job[p] EXCEPT !.w = w]
    BY <1>3 DEF GetWatcher, GetMachine, TryLock, Reply, OutcomeInv, LockInv, TypeOK
  <2>4. ~job'[p].ok
    BY <1>1, <1>2, <2>2, <2>3 DEF Jobs
  <2> QED BY <2>1, <2>4, EarlyStep
<1>4. CASE NilMachine(p) \/ Return(p)
  <2>1. pc'[p] = "idle" /\ job'[p] = NoJob
    BY <1>4 DEF NilMachine, StopServer, Return, Reply, OutcomeInv, LockInv, TypeOK
  <2> QED BY <1>1, <2>1, EarlyStep DEF Early
<1> QED BY <1>3, <1>4

\* A run that fails promises nothing.
LEMMA FailedRun ==
  ASSUME OutcomeInv, Record, NEW p \in Procs, pc[p] \in Steps \ {"tryLock", "return"},
         pc'[p] = "return", job'[p] = job[p]
  PROVE  Progress(p)'
<1>1. ~job[p].ok
  BY DEF OutcomeInv, Progress
<1>2. OnCourse(p)'
  BY <1>1 DEF OnCourse, Reconciling
<1> QED BY <1>1, <1>2, OwnStep

LEMMA ConnectStep ==
  ASSUME OutcomeInv, Record, NEW p \in Procs, Connect(p)
  PROVE  Progress(p)'
<1>1. pc[p] = "connect" /\ job'[p] = job[p] /\ pc'[p] \in {"list", "return"}
  BY DEF Connect, Goto, OutcomeInv, LockInv, TypeOK
<1>2. CASE pc'[p] = "return"
  BY <1>1, <1>2, FailedRun DEF Steps
<1>3. CASE pc'[p] = "list"
  <2>1. ~job[p].ok
    BY <1>1 DEF OutcomeInv, Progress
  <2> QED BY <1>1, <1>3, <2>1, EarlyStep DEF Early
<1> QED BY <1>1, <1>2, <1>3

LEMMA ListStep ==
  ASSUME OutcomeInv, Record, NEW p \in Procs, ListFiles(p)
  PROVE  Progress(p)'
<1>1. pc[p] = "list" /\ UNCHANGED db /\ job[p] \in Jobs /\ ~job[p].ok
  BY DEF ListFiles, OutcomeInv, Progress, LockInv, TypeOK
<1>2. CASE RunFails(p)
  <2>1. pc'[p] = "return" /\ job'[p] = job[p]
    BY <1>2 DEF RunFails, OutcomeInv, LockInv, TypeOK
  <2> QED BY <1>1, <2>1, FailedRun DEF Steps
<1>3. CASE Goto(p, "rules") /\ job' = [job EXCEPT ![p].watched = FilesOf(db, job[p].w.name)]
  <2>1. pc'[p] = "rules"
    BY <1>3 DEF Goto, OutcomeInv, LockInv, TypeOK
  <2>2. job'[p] = [job[p] EXCEPT !.watched = FilesOf(db, job[p].w.name)]
    BY <1>3 DEF OutcomeInv, LockInv, TypeOK
  <2>3. ~job'[p].ok /\ job'[p].w = job[p].w /\ job'[p].watched = FilesOf(db, job[p].w.name)
    BY <1>1, <2>2 DEF Jobs
  <2>4. OnCourse(p)'
    BY <1>1, <2>1, <2>3 DEF OnCourse, Reconciling, Rows
  <2> QED BY <1>1, <2>1, <2>3, <2>4, OwnStep
<1> QED BY <1>2, <1>3 DEF ListFiles

LEMMA RulesStep ==
  ASSUME OutcomeInv, Record, NEW p \in Procs, LoadRules(p)
  PROVE  Progress(p)'
<1>1. /\ pc[p] = "rules" /\ pc'[p] = "walk" /\ UNCHANGED <<db, disk, ignored>>
      /\ job[p] \in Jobs /\ ~job[p].ok /\ job[p].w.path \in Dirs
  BY SyncAssumption DEF LoadRules, Goto, OutcomeInv, Progress, LockInv, TypeOK, JobsOK, JobOK,
                        WatcherRows
<1>2. PICK r \in SUBSET Ignorable :
        job' = [job EXCEPT ![p].rules = r,
                           ![p].walk = NewWalk(job[p].w.path),
                           ![p].onDisk = {}, ![p].added = {},
                           ![p].clean = (r = ignored)]
  BY DEF LoadRules
<1>3. job'[p] = [job[p] EXCEPT !.rules = r, !.walk = NewWalk(job[p].w.path),
                               !.onDisk = {}, !.added = {}, !.clean = (r = ignored)]
  BY <1>2 DEF OutcomeInv, LockInv, TypeOK
<1>4. /\ job'[p].rules = r /\ job'[p].walk = NewWalk(job[p].w.path)
      /\ job'[p].onDisk = {} /\ job'[p].added = {} /\ job'[p].clean = (r = ignored)
      /\ job'[p].w = job[p].w /\ job'[p].watched = job[p].watched /\ ~job'[p].ok
  BY <1>1, <1>3 DEF Jobs
<1>5. ASSUME OnCourse(p) PROVE OnCourse(p)'
  <2>1. Rows(p)' = job'[p].watched
    BY <1>1, <1>4, <1>5 DEF OnCourse, Rows
  <2>2. ASSUME job'[p].clean PROVE Reconciling(p)'
    <3> DEFINE root == job[p].w.path
    <3>1. job'[p].walk.reads = {<<root, root>>} /\ <<root, root>>[2] = root
      BY <1>4 DEF NewWalk
    <3>2. WalkedSoFar(p)'
      <4>1. SourceTree(p)' = Visible(root, disk, ignored)
        BY <1>1, <1>4 DEF SourceTree
      <4>2. \A f \in SourceTree(p)' : DirOf[f] \in Below[root]
        BY <4>1 DEF Visible
      <4> QED BY <1>1, <1>4, <2>2, <3>1, <4>2 DEF WalkedSoFar
    <3> QED BY <1>1, <1>4, <3>2 DEF Reconciling
  <2> QED BY <1>1, <2>1, <2>2 DEF OnCourse
<1> QED BY <1>1, <1>4, <1>5, OwnStep

\* What has been read was below the source, and what is left is still queued.
LEMMA ReadStep ==
  ASSUME OutcomeInv, Record, NEW p \in Procs, NEW v \in Dirs, NEW d \in Dirs,
         ReadDirectory(p, v, d)
  PROVE  Progress(p)'
<1> DEFINE seen == Kept(d, disk, job[p].rules)
           next == ListedDir(job[p].walk, v, d)
<1>1. /\ pc[p] = "walk" /\ UNCHANGED <<db, disk, ignored>>
      /\ pc'[p] = (IF WalkOver(next) THEN "bulkAdd" ELSE "walk")
      /\ job[p] \in Jobs /\ ~job[p].ok /\ <<v, d>> \in job[p].walk.reads
  BY DEF ReadDirectory, Goto, OutcomeInv, Progress, LockInv, TypeOK
<1>2. job'[p] = [job[p] EXCEPT !.walk = next, !.onDisk = @ \cup seen,
                               !.added = @ \cup (seen \ Known(job[p]))]
  BY DEF ReadDirectory, Known, OutcomeInv, LockInv, TypeOK
<1> HIDE DEF next, seen
<1>3. /\ job'[p].walk = next /\ job'[p].onDisk = job[p].onDisk \cup seen
      /\ job'[p].added = job[p].added \cup (seen \ Known(job[p]))
      /\ job'[p].w = job[p].w /\ job'[p].watched = job[p].watched /\ ~job'[p].ok
      /\ job'[p].rules = job[p].rules /\ job'[p].clean = job[p].clean
  BY <1>1, <1>2 DEF Jobs
<1>4. ASSUME OnCourse(p) PROVE OnCourse(p)'
  <2>1. Rows(p)' = job'[p].watched
    BY <1>1, <1>3, <1>4 DEF OnCourse, Rows
  <2>2. ASSUME job'[p].clean PROVE Reconciling(p)'
    <3>1. WalkedSoFar(p) /\ job[p].added = job[p].onDisk \ Known(job[p])
      BY <1>1, <1>3, <1>4, <2>2 DEF OnCourse, Reconciling
    <3>2. job'[p].added = job'[p].onDisk \ Known(job'[p])
      BY <1>3, <3>1 DEF Known
    <3>3. SourceTree(p)' = SourceTree(p)
      BY <1>1, <1>3 DEF SourceTree
    <3>4. Below[d] \subseteq Below[job[p].w.path]
      <4>1. <<v, d>>[2] = d
        OBVIOUS
      <4> QED BY <1>1, <3>1, <4>1 DEF WalkedSoFar
    <3>5. /\ \A r \in next.reads : Below[r[2]] \subseteq Below[job[p].w.path]
          /\ job[p].onDisk \cup seen \subseteq SourceTree(p)
          /\ \A f \in SourceTree(p) :
               f \in job[p].onDisk \cup seen \/ \E r \in next.reads : DirOf[f] \in Below[r[2]]
      <4>1. job[p].walk \in Walks
        BY <1>1 DEF Jobs
      <4>2. /\ \A r \in job[p].walk.reads : r # <<v, d>> => r \in next.reads
            /\ \A c \in Subdirs[d] : <<v, c>> \in next.reads
            /\ \A r \in next.reads :
                 \/ r \in job[p].walk.reads
                 \/ \E c \in Subdirs[d] : r = <<v, c>>
                 \/ \E c \in Subdirs[d] \cup {d} : r = <<c, c>>
        BY <4>1, ListedReads DEF next
      <4>3. /\ d \in Below[d]
            /\ \A c \in Subdirs[d] : Below[c] \subseteq Below[d]
            /\ \A e \in Below[d] : e = d \/ \E c \in Subdirs[d] : e \in Below[c]
        BY BelowStep
      <4>4. \A x, y : <<x, y>>[2] = y
        OBVIOUS
      <4>5. \A r \in next.reads : Below[r[2]] \subseteq Below[job[p].w.path]
        <5> SUFFICES ASSUME NEW r \in next.reads
                     PROVE  Below[r[2]] \subseteq Below[job[p].w.path]
          OBVIOUS
        <5>1. CASE r \in job[p].walk.reads
          BY <3>1, <5>1 DEF WalkedSoFar
        <5>2. CASE \E c \in Subdirs[d] \cup {d} : r[2] = c
          BY <3>4, <4>3, <5>2
        <5> QED BY <4>2, <4>4, <5>1, <5>2
      <4>6. seen \subseteq SourceTree(p)
        BY <3>1, <3>4, <4>3 DEF seen, Kept, SourceTree, Visible, WalkedSoFar
      <4>7. ASSUME NEW f \in SourceTree(p)
            PROVE  f \in job[p].onDisk \cup seen \/ \E r \in next.reads : DirOf[f] \in Below[r[2]]
        <5>1. CASE f \in job[p].onDisk
          BY <5>1
        <5>2. CASE DirOf[f] = d
          <6>1. f \in disk \ ignored
            BY DEF SourceTree, Visible
          <6>2. f \in seen
            BY <3>1, <5>2, <6>1 DEF seen, Kept, WalkedSoFar
          <6> QED BY <6>2
        <5>3. ASSUME NEW r \in job[p].walk.reads, DirOf[f] \in Below[r[2]], r # <<v, d>>
              PROVE  r \in next.reads
          BY <4>2, <5>3
        <5>4. CASE DirOf[f] \in Below[d] /\ DirOf[f] # d
          <6>1. PICK c \in Subdirs[d] : DirOf[f] \in Below[c]
            BY <4>3, <5>4
          <6>2. <<v, c>> \in next.reads /\ <<v, c>>[2] = c
            BY <4>2, <4>4
          <6> QED BY <6>1, <6>2
        <5>5. f \in job[p].onDisk \/ \E r \in job[p].walk.reads : DirOf[f] \in Below[r[2]]
          BY <3>1 DEF WalkedSoFar
        <5> QED BY <4>4, <5>1, <5>2, <5>3, <5>4, <5>5
      <4> QED BY <3>1, <4>5, <4>6, <4>7 DEF WalkedSoFar
    <3>6. CASE WalkOver(next)
      <4>1. job'[p].onDisk = SourceTree(p)'
        BY <1>3, <3>3, <3>5, <3>6 DEF WalkOver
      <4> QED BY <1>1, <3>2, <3>6, <4>1 DEF Reconciling
    <3>7. CASE ~WalkOver(next)
      <4>1. WalkedSoFar(p)'
        BY <1>1, <1>3, <3>1, <3>3, <3>5 DEF WalkedSoFar
      <4> QED BY <1>1, <3>2, <3>7, <4>1 DEF Reconciling
    <3> QED BY <3>6, <3>7
  <2> QED BY <2>1, <2>2 DEF OnCourse
<1> QED BY <1>1, <1>3, <1>4, OwnStep

\* A failed read ends every claim about the outcome.
LEMMA SkipStep ==
  ASSUME OutcomeInv, Record, NEW p \in Procs, NEW v \in Dirs, NEW d \in Dirs,
         SkipDirectory(p, v, d)
  PROVE  Progress(p)'
<1> DEFINE next == SkippedDir(job[p].walk, v, d)
<1>1. /\ pc[p] = "walk" /\ UNCHANGED db /\ pc'[p] \in {"walk", "bulkAdd"}
      /\ job[p] \in Jobs /\ ~job[p].ok
      /\ job'[p] = [job[p] EXCEPT !.walk = next, !.clean = FALSE]
  BY DEF SkipDirectory, Goto, OutcomeInv, Progress, LockInv, TypeOK
<1> HIDE DEF next
<1>2. /\ ~job'[p].clean /\ ~job'[p].ok
      /\ job'[p].w = job[p].w /\ job'[p].watched = job[p].watched
  BY <1>1 DEF Jobs
<1>3. ASSUME OnCourse(p) PROVE OnCourse(p)'
  BY <1>1, <1>2, <1>3 DEF OnCourse, Rows
<1> QED BY <1>1, <1>2, <1>3, OwnStep

\* The batch gives every added path a row, and no other row appears.
LEMMA AddStep ==
  ASSUME OutcomeInv, Record, NEW p \in Procs, BulkAdd(p)
  PROVE  Progress(p)'
<1> DEFINE n == job[p].w.name
           b == (job[p].op = "create")
<1>1. /\ pc[p] = "bulkAdd" /\ UNCHANGED <<disk, ignored>> /\ ~job[p].ok /\ UNCHANGED job
      /\ db \in Databases
  BY DEF BulkAdd, RunFails, OutcomeInv, Progress, LockInv, TypeOK
<1>2. CASE RunFails(p)
  <2>1. pc'[p] = "return"
    BY <1>2 DEF RunFails, OutcomeInv, LockInv, TypeOK
  <2> QED BY <1>1, <2>1, FailedRun DEF Steps
<1>3. CASE Goto(p, "bulkRemove")
  <2>1. pc'[p] = "bulkRemove"
    BY <1>3 DEF Goto, OutcomeInv, LockInv, TypeOK
  <2>2. \/ job[p].added = {} /\ UNCHANGED db
        \/ \E ids : DOMAIN ids = job[p].added /\ db' = InsertFiles(db, n, ids, b)
    <3>1. pc'[p] # "return"
      BY <2>1
    <3>2. ~RunFails(p)
      BY <3>1 DEF RunFails, OutcomeInv, LockInv, TypeOK
    <3> QED BY <3>2 DEF BulkAdd, Numberings
  <2>3. ASSUME OnCourse(p), job[p].clean PROVE AddedRows(p)'
    <3>1. Rows(p) = job[p].watched
      BY <1>1, <2>3 DEF OnCourse
    <3>2. CASE job[p].added = {} /\ UNCHANGED db
      BY <1>1, <3>1, <3>2 DEF AddedRows, Rows
    <3>3. ASSUME NEW ids, DOMAIN ids = job[p].added, db' = InsertFiles(db, n, ids, b)
          PROVE  AddedRows(p)'
      <4>1. db'.files = db.files \cup {FileRow(ids[x], n, x, b) : x \in job[p].added}
        BY <1>1, <3>3 DEF InsertFiles, Databases
      <4>2. \A x \in job[p].added : /\ FileRow(ids[x], n, x, b).watcher = n
                                    /\ FileRow(ids[x], n, x, b).path = x
                                    /\ FileRow(ids[x], n, x, b).flushed = b
        BY DEF FileRow
      <4>3. Rows(p)' = Rows(p) \cup {FileRow(ids[x], n, x, b) : x \in job[p].added}
        BY <1>1, <4>1, <4>2 DEF Rows, FilesOf
      <4> QED BY <1>1, <3>1, <4>2, <4>3 DEF AddedRows
    <3> QED BY <2>2, <3>2, <3>3
  <2>4. ASSUME OnCourse(p) PROVE OnCourse(p)'
    <3>1. ASSUME job[p].clean PROVE Reconciling(p)'
      <4>1. job[p].added = job[p].onDisk \ Known(job[p]) /\ job[p].onDisk = SourceTree(p)
        BY <1>1, <2>4, <3>1 DEF OnCourse, Reconciling
      <4>2. SourceTree(p)' = SourceTree(p)
        BY <1>1 DEF SourceTree
      <4> QED BY <1>1, <2>1, <2>3, <2>4, <3>1, <4>1, <4>2 DEF Reconciling, Known
    <3> QED BY <1>1, <2>1, <3>1 DEF OnCourse
  <2> QED BY <1>1, <2>1, <2>4, OwnStep
<1> QED BY <1>2, <1>3 DEF BulkAdd

\* What is left after the delete are the rows that were kept and the new ones.
LEMMA RemoveStep ==
  ASSUME OutcomeInv, Record, NEW p \in Procs, BulkRemove(p)
  PROVE  Progress(p)'
<1> DEFINE n == job[p].w.name
<1>1. /\ pc[p] = "bulkRemove" /\ UNCHANGED <<disk, ignored>>
      /\ job[p] \in Jobs /\ ~job[p].ok /\ db \in Databases
  BY DEF BulkRemove, OutcomeInv, Progress, LockInv, TypeOK
<1>2. CASE RunFails(p)
  <2>1. pc'[p] = "return" /\ job'[p] = job[p]
    BY <1>2 DEF RunFails, OutcomeInv, LockInv, TypeOK
  <2> QED BY <1>1, <2>1, FailedRun DEF Steps
<1>3. CASE /\ db' = DeleteFiles(db, n, Removed(job[p]))
           /\ Goto(p, "return") /\ job' = [job EXCEPT ![p].ok = TRUE]
  <2>1. pc'[p] = "return"
    BY <1>3 DEF Goto, OutcomeInv, LockInv, TypeOK
  <2>2. job'[p] = [job[p] EXCEPT !.ok = TRUE]
    BY <1>3 DEF OutcomeInv, LockInv, TypeOK
  <2>3. /\ job'[p].w = job[p].w /\ job'[p].watched = job[p].watched
        /\ job'[p].op = job[p].op /\ job'[p].clean = job[p].clean
    BY <1>1, <2>2 DEF Jobs
  <2>4. Rows(p)' = {f \in Rows(p) : f.path \notin Removed(job[p])}
    <3>1. db'.files = {f \in db.files : ~(f.watcher = n /\ f.path \in Removed(job[p]))}
      BY <1>1, <1>3 DEF DeleteFiles, Databases
    <3> QED BY <2>3, <3>1 DEF Rows, FilesOf
  <2>5. SourceTree(p)' = SourceTree(p) /\ Tracked(n)' = {f.path : f \in Rows(p)'}
    BY <1>1, <2>3 DEF SourceTree, Tracked, Rows
  <2>6. ASSUME OnCourse(p), job[p].clean PROVE Reconciled(p)'
    <3> DEFINE S == SourceTree(p)
    <3>1. /\ job[p].added = S \ Known(job[p])
          /\ job[p].onDisk = S
          /\ AddedRows(p)
      BY <1>1, <2>6 DEF OnCourse, Reconciling
    <3>2. \A x : x \in Removed(job[p]) <=> x \in Known(job[p]) /\ x \notin S
      BY <3>1 DEF Removed, Known
    <3> HIDE DEF S
    <3>3. \A f \in Rows(p)' : f.path \in S
      <4>1. ASSUME NEW f \in Rows(p)' PROVE f.path \in S
        <5>1. CASE f \in job[p].watched
          BY <2>4, <3>2, <5>1 DEF Known
        <5>2. CASE f \notin job[p].watched
          BY <2>4, <3>1, <5>2 DEF AddedRows
        <5> QED BY <5>1, <5>2
      <4> QED BY <4>1
    <3>4. \A x \in S : \E f \in Rows(p)' : f.path = x
      <4>1. ASSUME NEW x \in S PROVE \E f \in Rows(p) : f.path = x
        <5>1. CASE x \in Known(job[p])
          BY <3>1, <5>1 DEF Known, AddedRows
        <5>2. CASE x \notin Known(job[p])
          BY <3>1, <5>2 DEF AddedRows
        <5> QED BY <5>1, <5>2
      <4> QED BY <2>4, <3>2, <4>1
    <3>5. Tracked(n)' = S
      BY <2>5, <3>3, <3>4
    <3>6. {f \in job[p].watched : f.path \in S} \subseteq Rows(p)'
      BY <2>4, <3>1, <3>2 DEF AddedRows
    <3>7. \A f \in Rows(p)' \ job[p].watched :
            f.flushed = (job[p].op = "create") /\ f.path \notin Known(job[p])
      BY <2>4, <3>1 DEF AddedRows
    <3>8. Known(job[p])' = Known(job[p])
      BY <2>3 DEF Known
    <3> QED BY <2>3, <2>5, <3>5, <3>6, <3>7, <3>8 DEF Reconciled, S
  <2>7. ASSUME OnCourse(p) PROVE OnCourse(p)'
    BY <2>1, <2>3, <2>6, <2>7 DEF OnCourse, Reconciling
  <2> QED BY <1>1, <2>1, <2>7, OwnStep
<1> QED BY <1>2, <1>3 DEF BulkRemove

\* Every other step of the system leaves p where it is, ends it, or starts it.
LEMMA OtherSteps ==
  ASSUME OutcomeInv, NEW p \in Procs, Next, ~Step(p)
  PROVE  \/ pc'[p] = pc[p] /\ job'[p] = job[p]
         \/ pc'[p] \in Early /\ ~job'[p].ok
<1>1. pc \in [Procs -> Steps] /\ job \in [Procs -> Jobs] /\ ~NoJob.ok
  BY DEF OutcomeInv, LockInv, TypeOK, NoJob
<1>2. CASE StopServer
  BY <1>1, <1>2 DEF StopServer, Early
<1>3. ASSUME NEW q \in Procs, Step(q) PROVE StopServer \/ (pc'[p] = pc[p] /\ job'[p] = job[p])
  BY <1>3, OnlyOneMoves DEF OutcomeInv
<1>4. ASSUME NEW q \in Procs, NEW n \in Names, StartSync(q, n)
      PROVE  \/ pc'[p] = pc[p] /\ job'[p] = job[p]
             \/ pc'[p] \in Early /\ ~job'[p].ok
  <2>1. pc[q] = "idle" /\ ~job[q].ok
    BY <1>4 DEF StartSync, OutcomeInv, Progress
  <2>2. CASE q = p
    BY <1>1, <1>4, <2>1, <2>2 DEF StartSync, Goto, Early, Jobs
  <2>3. CASE q # p
    BY <1>1, <1>4, <2>3 DEF StartSync, Goto
  <2> QED BY <2>2, <2>3
<1>5. ASSUME NEW q \in Procs, NEW n \in Names, NEW r \in Roots, NEW m \in Machines,
             NEW flush \in FlushExisting, CreateWatcher(q, n, r, m, flush)
      PROVE  \/ pc'[p] = pc[p] /\ job'[p] = job[p]
             \/ pc'[p] \in Early /\ ~job'[p].ok
  <2>1. pc[q] = "idle" /\ ~job[q].ok
    BY <1>5 DEF CreateWatcher, OutcomeInv, Progress
  <2>2. \/ UNCHANGED <<pc, job>>
        \/ /\ pc' = [pc EXCEPT ![q] = "getMachine"]
           /\ \E row : job' = [job EXCEPT ![q].op = "create", ![q].w = row]
    BY <1>5 DEF CreateWatcher, Goto
  <2>3. CASE q = p
    BY <1>1, <2>1, <2>2, <2>3 DEF Early, Jobs
  <2>4. CASE q # p
    BY <1>1, <2>2, <2>4
  <2> QED BY <2>3, <2>4
<1>6. CASE Environment
  BY <1>2, <1>6 DEF Environment, Crash, ChangeFile, EditIgnore
<1>7. CASE Requests
  BY <1>4, <1>5, <1>7 DEF Requests, UpdateWatcherHandler, DeleteWatcherHandler,
                          CreateMachineHandler, DeleteMachineHandler, FlushHandler, Statement
<1> QED BY <1>2, <1>3, <1>6, <1>7 DEF Next

\* A handler writes the rows of its own watcher and no others.
LEMMA WritesOwnRows ==
  ASSUME OutcomeInv, NEW q \in Procs, Step(q), NEW n, n # job[q].w.name
  PROVE  FilesOf(db, n)' = FilesOf(db, n) /\ UNCHANGED <<disk, ignored>>
<1>1. db \in Databases
  BY DEF OutcomeInv, LockInv, TypeOK
<1>2. CASE db' = db
  BY <1>2 DEF Step, GetWatcher, GetMachine, TryLock, Connect, NilMachine, StopServer, ListFiles,
              LoadRules, ReadDirectory, SkipDirectory, BulkAdd, BulkRemove, Return
<1>3. CASE BulkAdd(q) /\ db' # db
  <2>1. PICK ids : db' = InsertFiles(db, job[q].w.name, ids, job[q].op = "create")
    BY <1>3 DEF BulkAdd
  <2>2. \A x, b : FileRow(ids[x], job[q].w.name, x, b).watcher = job[q].w.name
    BY DEF FileRow
  <2>3. db'.files = db.files \cup {FileRow(ids[x], job[q].w.name, x, job[q].op = "create") :
                                     x \in DOMAIN ids}
    BY <1>1, <2>1 DEF InsertFiles, Databases
  <2>4. \A f \in db'.files : f \in db.files \/ f.watcher = job[q].w.name
    BY <2>2, <2>3
  <2>5. db.files \subseteq db'.files
    BY <2>3
  <2> QED BY <1>3, <2>4, <2>5 DEF FilesOf, BulkAdd
<1>4. CASE BulkRemove(q) /\ db' # db
  <2>1. db'.files = {f \in db.files : ~(f.watcher = job[q].w.name /\ f.path \in Removed(job[q]))}
    BY <1>1, <1>4 DEF BulkRemove, DeleteFiles, Databases
  <2> QED BY <1>4, <2>1 DEF FilesOf, BulkRemove
<1> QED BY <1>2, <1>3, <1>4 DEF Step, GetWatcher, GetMachine, TryLock, Connect, NilMachine,
              StopServer, ListFiles, LoadRules, ReadDirectory, SkipDirectory, Return

\* The sync of another watcher touches nothing that p's job is about.
LEMMA ElsewhereStep ==
  ASSUME OutcomeInv, Next, NEW p \in Procs, pc'[p] = pc[p], job'[p] = job[p], MovedElsewhere(p)
  PROVE  UNCHANGED <<Rows(p), disk, ignored>>
<1>1. PICK q \in Procs : Moved(q) /\ job[q].w.name # job[p].w.name
  BY DEF MovedElsewhere
<1>2. CASE UNCHANGED <<db, disk, ignored>>
  BY <1>2 DEF Rows
<1>3. CASE StopServer
  BY <1>2, <1>3 DEF StopServer
<1>4. CASE Step(q)
  BY <1>1, <1>4, WritesOwnRows DEF Rows
<1>5. ASSUME NEW r \in Procs, Step(r) PROVE UNCHANGED <<Rows(p), disk, ignored>>
  BY <1>1, <1>3, <1>4, <1>5, OnlyOneMoves DEF OutcomeInv, Moved
<1>6. CASE UNCHANGED <<pc, job>>
  BY <1>1, <1>6 DEF Moved
<1>7. ASSUME NEW r \in Procs, NEW n \in Names, NEW d \in Roots, NEW m \in Machines,
             NEW flush \in FlushExisting, CreateWatcher(r, n, d, m, flush)
      PROVE  UNCHANGED <<Rows(p), disk, ignored>>
  <2>1. db \in Databases
    BY DEF OutcomeInv, LockInv, TypeOK
  <2>2. db'.files = db.files /\ UNCHANGED <<disk, ignored>>
    BY <1>7, <2>1 DEF CreateWatcher, InsertWatcher, Databases
  <2> QED BY <2>2 DEF Rows, FilesOf
<1>8. CASE Requests
  BY <1>2, <1>6, <1>7, <1>8 DEF Requests, StartSync, UpdateWatcherHandler, DeleteWatcherHandler,
                                CreateMachineHandler, DeleteMachineHandler, FlushHandler, Statement
<1>9. CASE Environment
  BY <1>3, <1>6, <1>9 DEF Environment, Crash, ChangeFile, EditIgnore
<1> QED BY <1>5, <1>8, <1>9 DEF Next

LEMMA OutcomeInvNext ==
  ASSUME OutcomeInv, [Next /\ Record]_<<vars, alone>>
  PROVE  OutcomeInv'
<1>1. LockInv'
  BY LockInvNext DEF OutcomeInv
<1>2. CASE UNCHANGED <<vars, alone>>
  BY <1>1, <1>2 DEF OutcomeInv, vars, Progress, OnCourse, Reconciling, WalkedSoFar, AddedRows,
                    Reconciled, Rows, Tracked, SourceTree, Known
<1>3. CASE Next /\ Record
  <2> SUFFICES ASSUME NEW p \in Procs PROVE Progress(p)'
    BY <1>1 DEF OutcomeInv
  <2>1. CASE ~Step(p)
    BY <1>3, <2>1, OtherSteps, ElsewhereStep, QuietStep, EarlyStep
  <2>2. CASE GetWatcher(p) \/ GetMachine(p) \/ TryLock(p) \/ NilMachine(p) \/ Return(p)
    BY <2>2, EarlySteps
  <2>3. CASE Connect(p)
    BY <1>3, <2>3, ConnectStep
  <2>4. CASE ListFiles(p)
    BY <1>3, <2>4, ListStep
  <2>5. CASE LoadRules(p)
    BY <1>3, <2>5, RulesStep
  <2>6. ASSUME NEW v \in Dirs, NEW d \in Dirs, ReadDirectory(p, v, d) PROVE Progress(p)'
    BY <1>3, <2>6, ReadStep
  <2>7. ASSUME NEW v \in Dirs, NEW d \in Dirs, SkipDirectory(p, v, d) PROVE Progress(p)'
    BY <1>3, <2>7, SkipStep
  <2>8. CASE BulkAdd(p)
    BY <1>3, <2>8, AddStep
  <2>9. CASE BulkRemove(p)
    BY <1>3, <2>9, RemoveStep
  <2> QED BY <2>1, <2>2, <2>3, <2>4, <2>5, <2>6, <2>7, <2>8, <2>9 DEF Step
<1> QED BY <1>2, <1>3

\* A sync that succeeds, undisturbed and without a failed read, has made the rows
\* of its watcher equal to its directory, however the directory was nested, what
\* the rows were before and whatever other handlers did until it took its lock.
THEOREM SyncsReconcile == OutcomeSpec => []SyncReconciles
<1>1. OutcomeInv /\ [Next /\ Record]_<<vars, alone>> => OutcomeInv'
  BY OutcomeInvNext
<1>2. OutcomeInv => SyncReconciles
  <2> SUFFICES ASSUME OutcomeInv, NEW p \in Procs, Succeeded(p), alone[p], job[p].clean
               PROVE  Reconciled(p)
    BY DEF SyncReconciles, Reconciled, Known
  <2> QED BY DEF OutcomeInv, Progress, OnCourse, Reconciling, Succeeded
<1> QED BY <1>1, <1>2, OutcomeInvInit, PTL DEF OutcomeSpec

\* A sync of a watcher whose rows are up to date changes none of them ("if yes, do
\* nothing", server/watcher/sync.go:141): not an id, not a flushed flag.
SyncedStaysSynced ==
  \A p \in Procs :
    Succeeded(p) /\ alone[p] /\ job[p].clean /\ Known(job[p]) = SourceTree(p) =>
      Rows(p) = job[p].watched

THEOREM UpToDateRowsStay == OutcomeSpec => []SyncedStaysSynced
<1>1. SyncReconciles => SyncedStaysSynced
  <2> SUFFICES ASSUME NEW p \in Procs, Reconciled(p), Known(job[p]) = SourceTree(p)
               PROVE  Rows(p) = job[p].watched
    BY DEF SyncReconciles, SyncedStaysSynced, Reconciled, Known
  <2>1. \A f \in job[p].watched : f.path \in SourceTree(p)
    BY DEF Known
  <2>2. \A f \in Rows(p) : f.path \in Known(job[p])
    BY DEF Reconciled, Tracked, Rows
  <2> QED BY <2>1, <2>2 DEF Reconciled
<1> QED BY <1>1, SyncsReconcile, PTL

\* "Only 1 row in the DB after two syncs" (server/test/sync_integration_test.go:107):
\* where no watcher is created with flush_existing, a sync that succeeds, undisturbed
\* and without a failed read, leaves exactly one row for every file.
OneRowPerFile ==
  \A p \in Procs :
    Succeeded(p) /\ alone[p] /\ job[p].clean =>
      /\ \A f \in SourceTree(p) : \E r \in Rows(p) : r.path = f
      /\ \A r, s \in Rows(p) : r.path = s.path => r = s

THEOREM SyncLeavesOneRowPerFile ==
  ASSUME FlushExisting = {FALSE}
  PROVE  OutcomeSpec => []OneRowPerFile
<1>1. SyncReconciles /\ NoDuplicateRows => OneRowPerFile
  <2> SUFFICES ASSUME NoDuplicateRows, NEW p \in Procs, Tracked(job[p].w.name) = SourceTree(p)
               PROVE  /\ \A f \in SourceTree(p) : \E r \in Rows(p) : r.path = f
                      /\ \A r, s \in Rows(p) : r.path = s.path => r = s
    BY DEF SyncReconciles, OneRowPerFile
  <2> QED BY DEF Tracked, Rows, FilesOf, NoDuplicateRows
<1>2. OutcomeInit => Init
  BY DEF OutcomeInit
<1>3. [Next /\ Record]_<<vars, alone>> => [Next]_vars
  BY DEF vars
<1>4. OutcomeSpec => Spec
  BY <1>2, <1>3, PTL DEF OutcomeSpec, Spec
<1>5. Spec => []NoDuplicateRows
  BY NoDuplicates
<1> QED BY <1>1, <1>4, <1>5, SyncsReconcile, PTL
=============================================================================
