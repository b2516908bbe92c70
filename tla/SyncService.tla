---------------------------- MODULE SyncService ----------------------------
(***************************************************************************)
(* WatcherService and SyncJob (src/server/watcher): the gRPC and web       *)
(* handlers that create, change, delete and sync watchers, each running on *)
(* a goroutine of its own against one SQLite database, one table of        *)
(* per-name sync locks and directories of other machines that change while *)
(* they are read.  A handler takes one step per call that leaves the       *)
(* process: a SQL statement, an SSH dial, a directory read, TryLock.  Any  *)
(* of those calls but TryLock may fail, the server may stop at any step.   *)
(***************************************************************************)
EXTENDS Schema, Walker

CONSTANTS
  Procs,          \* handler goroutines
  Names,          \* watcher names
  Machines,       \* machine names
  Roots,          \* source paths
  FkModes,        \* values of the foreign_keys pragma among the pool's connections
  Ignorable,      \* the files that some .tfwignore may match
  FlushExisting,  \* values of CreateWatcherRequest.flush_existing in use
  Idle,           \* holder of a free lock
  MaxFileId,      \* bound: an INSERT that needs a larger watched_files id fails
  MaxWatcherId    \* bound: the same for file_watchers

ASSUME SyncAssumption ==
  /\ Roots \subseteq Dirs /\ Ignorable \subseteq Files
  /\ FkModes \in SUBSET BOOLEAN /\ FlushExisting \in SUBSET BOOLEAN
  /\ Idle \notin Procs
  /\ MaxFileId \in Nat /\ MaxWatcherId \in Nat

VARIABLES
  db,        \* the database (module Schema)
  disk,      \* the files that exist
  ignored,   \* the files that the .tfwignore of their source matches
  syncLocks, \* per name, the goroutine that holds its mutex, or Idle
  pc,        \* per goroutine, the call its handler makes next
  job        \* per goroutine, the locals of its handler and SyncJob

vars == <<db, disk, ignored, syncLocks, pc, job>>

(***************************************************************************)
(* Types                                                                   *)
(***************************************************************************)
WatcherRows == [id : Nat, name : Names, path : Roots, machine : Machines]
FileRows == [id : Nat, watcher : Names, path : Files, flushed : BOOLEAN]
RedirectionRows == [watcher : Names, target : Dirs, machine : Machines]

Databases == [machines : SUBSET Machines, watchers : SUBSET WatcherRows,
              files : SUBSET FileRows, redirections : SUBSET RedirectionRows]

Steps == {"idle", "getWatcher", "getMachine", "tryLock", "connect", "list",
          "rules", "walk", "bulkAdd", "bulkRemove", "return"}

\* A handler's local that holds no watcher yet.
NoRow == [id |-> 0]

NoJob == [op |-> "none", name |-> Idle, w |-> NoRow, hasMachine |-> FALSE,
          watched |-> {}, rules |-> {}, walk |-> NoWalk,
          onDisk |-> {}, added |-> {}, clean |-> TRUE, ok |-> FALSE]

\* "clean" is a history field, read by no action: no directory read and no read
\* of .tfwignore has failed.
Jobs == [op : {"none", "sync", "create"}, name : Names \cup {Idle},
         w : WatcherRows \cup {NoRow}, hasMachine : BOOLEAN,
         watched : SUBSET FileRows, rules : SUBSET Files, walk : Walks,
         onDisk : SUBSET Files, added : SUBSET Files,
         clean : BOOLEAN, ok : BOOLEAN]

TypeOK ==
  /\ db \in Databases
  /\ disk \subseteq Files
  /\ ignored \subseteq Files
  /\ syncLocks \in [Names -> Procs \cup {Idle}]
  /\ pc \in [Procs -> Steps]
  /\ job \in [Procs -> Jobs]

(***************************************************************************)
(* Helpers                                                                 *)
(***************************************************************************)
Goto(p, to) == pc' = [pc EXCEPT ![p] = to]

\* The handler returns: the deferred unlock runs and the goroutine ends.
Reply(p) ==
  /\ pc' = [pc EXCEPT ![p] = "idle"]
  /\ job' = [job EXCEPT ![p] = NoJob]

\* Mutant: the error path leaves the handler without the unlock.
RunFailsLocked(p) == Reply(p)

\* Run fails: SyncWatcher answers Internal, AddExistingFiles only logs.
RunFails(p) == pc' = [pc EXCEPT ![p] = "return"] /\ UNCHANGED job

Tracked(n) == {f.path : f \in FilesOf(db, n)}

\* Mutant: only rows still to be flushed are compared with the disk.
RemovedUnflushed(j) == {f.path : f \in {g \in j.watched : ~g.flushed /\ g.path \notin j.onDisk}}

\* The files that Run removes: listed in the database and not seen on disk.
Removed(j) == {f.path : f \in {g \in j.watched : g.path \notin j.onDisk}}

Init ==
  /\ db = [EmptyDB EXCEPT !.machines = Machines]
  /\ disk \in SUBSET Files
  /\ ignored = {}
  /\ syncLocks = [n \in Names |-> Idle]
  /\ pc = [p \in Procs |-> "idle"]
  /\ job = [p \in Procs |-> NoJob]

(***************************************************************************)
(* SyncWatcher and StreamSyncWatcher                                       *)
(***************************************************************************)
StartSync(p, n) ==
  /\ pc[p] = "idle"
  /\ Goto(p, "getWatcher")
  /\ job' = [job EXCEPT ![p].op = "sync", ![p].name = n]
  /\ UNCHANGED <<db, disk, ignored, syncLocks>>

\* NotFound when there is no such row, and also when the query fails.
GetWatcher(p) ==
  /\ pc[p] = "getWatcher"
  /\ UNCHANGED <<db, disk, ignored, syncLocks>>
  /\ \/ \E w \in WatchersNamed(db, job[p].name) :
          /\ Goto(p, "getMachine")
          /\ job' = [job EXCEPT ![p].w = w]
     \/ Reply(p)

\* SyncWatcher gives up without the machine; AddExistingFiles goes on with a
\* nil one.
GetMachine(p) ==
  /\ pc[p] = "getMachine"
  /\ UNCHANGED <<db, disk, ignored, syncLocks>>
  /\ \/ /\ job[p].w.machine \in db.machines
        /\ Goto(p, IF job[p].op = "sync" THEN "tryLock" ELSE "connect")
        /\ job' = [job EXCEPT ![p].hasMachine = TRUE]
     \/ job[p].op = "sync" /\ Reply(p)
     \/ job[p].op = "create" /\ Goto(p, "connect") /\ UNCHANGED job

\* Mutant: the result of TryLock is not looked at.
TryLockIgnored(p) ==
  /\ pc[p] = "tryLock"
  /\ syncLocks' = [syncLocks EXCEPT ![job[p].name] = p]
  /\ Goto(p, "connect")
  /\ UNCHANGED <<db, disk, ignored, job>>

\* Mutant: Lock instead of TryLock.
BlockingLock(p) ==
  /\ pc[p] = "tryLock" /\ syncLocks[job[p].name] = Idle
  /\ syncLocks' = [syncLocks EXCEPT ![job[p].name] = p]
  /\ Goto(p, "connect")
  /\ UNCHANGED <<db, disk, ignored, job>>

\* The watcher row and the machine were read before this point.
TryLock(p) ==
  /\ pc[p] = "tryLock"
  /\ UNCHANGED <<db, disk, ignored>>
  /\ \/ /\ syncLocks[job[p].name] = Idle
        /\ syncLocks' = [syncLocks EXCEPT ![job[p].name] = p]
        /\ Goto(p, "connect")
        /\ UNCHANGED job
     \/ /\ syncLocks[job[p].name] # Idle
        /\ Reply(p)
        /\ UNCHANGED syncLocks

(***************************************************************************)
(* SyncJob.Run                                                             *)
(***************************************************************************)
Connect(p) ==
  /\ pc[p] = "connect" /\ job[p].hasMachine
  /\ Goto(p, "list") \/ Goto(p, "return")
  /\ UNCHANGED <<db, disk, ignored, syncLocks, job>>

ListFiles(p) ==
  /\ pc[p] = "list"
  /\ \/ Goto(p, "rules") /\ job' = [job EXCEPT ![p].watched = FilesOf(db, job[p].w.name)]
     \/ RunFails(p)
  /\ UNCHANGED <<db, disk, ignored, syncLocks>>

\* A .tfwignore that cannot be opened ignores nothing; one whose reading stops
\* half way is not an error and ignores what its first lines match.
LoadRules(p) ==
  /\ pc[p] = "rules"
  /\ Goto(p, "walk")
  /\ \E r \in SUBSET Ignorable :
       job' = [job EXCEPT ![p].rules = r,
                          ![p].walk = NewWalk(job[p].w.path),
                          ![p].onDisk = {}, ![p].added = {},
                          ![p].clean = (r = ignored)]
  /\ UNCHANGED <<db, disk, ignored, syncLocks>>

ReadDirectory(p, v, d) ==
  /\ pc[p] = "walk"
  /\ <<v, d>> \in job[p].walk.reads
  /\ LET seen == Kept(d, disk, job[p].rules)
         next == ListedDir(job[p].walk, v, d)
     IN  /\ job' = [job EXCEPT ![p].walk = next,
                               ![p].onDisk = @ \cup seen,
                               ![p].added = @ \cup (seen \ {f.path : f \in job[p].watched})]
         /\ Goto(p, IF WalkOver(next) THEN "bulkAdd" ELSE "walk")
  /\ UNCHANGED <<db, disk, ignored, syncLocks>>

SkipDirectory(p, v, d) ==
  /\ pc[p] = "walk"
  /\ <<v, d>> \in job[p].walk.reads
  /\ LET next == SkippedDir(job[p].walk, v, d)
     IN  /\ job' = [job EXCEPT ![p].walk = next, ![p].clean = FALSE]
         /\ Goto(p, IF WalkOver(next) THEN "bulkAdd" ELSE "walk")
  /\ UNCHANGED <<db, disk, ignored, syncLocks>>

\* flushed is the argument of Run: TRUE only from AddExistingFiles.
BulkAdd(p) ==
  LET j == job[p]
  IN  /\ pc[p] = "bulkAdd"
      /\ \/ /\ j.added = {}
            /\ Goto(p, "bulkRemove")
            /\ UNCHANGED <<db, job>>
         \/ /\ j.added # {}
            /\ \E fk \in FkModes : CanInsertFiles(db, j.w.name, fk)
            /\ \E i \in 1 .. MaxFileId : \E ids \in Numberings(j.added, i) :
                 /\ IsNextRowId(db.files, i)
                 /\ \A f \in j.added : ids[f] \in 1 .. MaxFileId
                 /\ db' = InsertFiles(db, j.w.name, ids, j.op = "create")
            /\ Goto(p, "bulkRemove")
            /\ UNCHANGED job
         \/ j.added # {} /\ RunFails(p) /\ UNCHANGED db
      /\ UNCHANGED <<disk, ignored, syncLocks>>

BulkRemove(p) ==
  LET j == job[p]
  IN  /\ pc[p] = "bulkRemove"
      /\ \/ /\ db' = DeleteFiles(db, j.w.name, Removed(j))
            /\ Goto(p, "return")
            /\ job' = [job EXCEPT ![p].ok = TRUE]
         \/ Removed(j) # {} /\ RunFails(p) /\ UNCHANGED db
      /\ UNCHANGED <<disk, ignored, syncLocks>>

\* StreamSyncWatcher sends its last events before this; a failed send changes
\* only the status it returns.
Return(p) ==
  /\ pc[p] = "return"
  /\ Reply(p)
  /\ syncLocks' = IF job[p].op = "sync" THEN [syncLocks EXCEPT ![job[p].name] = Idle]
                                        ELSE syncLocks
  /\ UNCHANGED <<db, disk, ignored>>

(***************************************************************************)
(* CreateWatcher, UpdateWatcher, DeleteWatcher                             *)
(***************************************************************************)

\* With flush_existing the same goroutine goes on to AddExistingFiles, which
\* runs a SyncJob without taking the sync lock.
CreateWatcher(p, n, r, m, flush) ==
  /\ pc[p] = "idle"
  /\ \E fk \in FkModes : CanInsertWatcher(db, n, m, fk)
  /\ \E i \in 1 .. MaxWatcherId :
       /\ IsNextRowId(db.watchers, i)
       /\ db' = InsertWatcher(db, i, n, r, m)
       /\ IF flush
          THEN /\ Goto(p, "getMachine")
               /\ job' = [job EXCEPT ![p].op = "create", ![p].w = WatcherRow(i, n, r, m)]
          ELSE UNCHANGED <<pc, job>>
  /\ UNCHANGED <<disk, ignored, syncLocks>>

\* A statement of a handler that holds nothing else across it.
Statement(new) == db' = new /\ UNCHANGED <<disk, ignored, syncLocks, pc, job>>

\* A field of the request that is absent keeps its value.
UpdateWatcherHandler(w, n, r) ==
  /\ \E fk \in FkModes : CanUpdateWatcher(db, w, n, fk)
  /\ Statement(UpdateWatcher(db, w, n, r))

\* The lookup before the DELETE changes nothing and is not repeated by it.
DeleteWatcherHandler(n) ==
  \E fk \in FkModes : Statement(DeleteWatcher(db, n, fk))

(***************************************************************************)
(* The rest of the system                                                  *)
(***************************************************************************)

\* MachineService
CreateMachineHandler(m) == CanInsertMachine(db, m) /\ Statement(InsertMachine(db, m))

DeleteMachineHandler(m) ==
  \E fk \in FkModes : CanDeleteMachine(db, m, fk) /\ Statement(DeleteMachine(db, m, fk))

\* FlushService: the write that ends a flush of watcher n.
FlushHandler(n) ==
  \E ids \in SUBSET {f.id : f \in FilesOf(db, n)} : Statement(MarkFlushed(db, ids))

\* The process ends: locks and locals are gone, the database stays.
StopServer ==
  /\ syncLocks' = [n \in Names |-> Idle]
  /\ pc' = [p \in Procs |-> "idle"]
  /\ job' = [p \in Procs |-> NoJob]
  /\ UNCHANGED <<db, disk, ignored>>

\* openRemoteFS reads the fields of a nil machine; nothing recovers the panic.
NilMachine(p) == pc[p] = "connect" /\ ~job[p].hasMachine /\ StopServer

Crash == (\E p \in Procs : pc[p] # "idle") /\ StopServer

\* Users of the watched machines.
ChangeFile(f) ==
  /\ disk' = IF f \in disk THEN disk \ {f} ELSE disk \cup {f}
  /\ UNCHANGED <<db, ignored, syncLocks, pc, job>>

EditIgnore(S) ==
  /\ S # ignored
  /\ ignored' = S
  /\ UNCHANGED <<db, disk, syncLocks, pc, job>>

(***************************************************************************)
(* Next-state relation                                                     *)
(***************************************************************************)

\* What p's handler does once a request has started it.
Step(p) ==
  \/ GetWatcher(p) \/ GetMachine(p) \/ TryLock(p)
  \/ Connect(p) \/ NilMachine(p) \/ ListFiles(p) \/ LoadRules(p)
  \/ \E v, d \in Dirs : ReadDirectory(p, v, d) \/ SkipDirectory(p, v, d)
  \/ BulkAdd(p) \/ BulkRemove(p) \/ Return(p)

Requests ==
  \/ \E p \in Procs, n \in Names : StartSync(p, n)
  \/ \E p \in Procs, n \in Names, r \in Roots, m \in Machines, flush \in FlushExisting :
        CreateWatcher(p, n, r, m, flush)
  \/ \E w \in db.watchers, n \in Names, r \in Roots : UpdateWatcherHandler(w, n, r)
  \/ \E n \in Names : DeleteWatcherHandler(n)
  \/ \E m \in Machines : CreateMachineHandler(m) \/ DeleteMachineHandler(m)
  \/ \E n \in Names : FlushHandler(n)

Environment ==
  \/ Crash
  \/ \E f \in Files : ChangeFile(f)
  \/ \E S \in SUBSET Ignorable : EditIgnore(S)

Next == (\E p \in Procs : Step(p)) \/ Requests \/ Environment

Spec == Init /\ [][Next]_vars

\* Only a started handler is obliged to go on: its goroutine is scheduled, and
\* every call it waits for answers or fails.
FairSpec == Spec /\ \A p \in Procs : WF_vars(Step(p))

(***************************************************************************)
(* Properties                                                              *)
(***************************************************************************)
\* p runs a SyncJob of a sync request.
Syncing(p) ==
  job[p].op = "sync" /\ pc[p] \in {"connect", "list", "rules", "walk", "bulkAdd", "bulkRemove", "return"}

\* A name's mutex is held by exactly the goroutine whose sync of that name is
\* running: no error path forgets the unlock, none unlocks for somebody else.
LockMatchesSync ==
  \A n \in Names, p \in Procs : syncLocks[n] = p <=> Syncing(p) /\ job[p].name = n

\* A tracked path has one row however syncs, renames, deletions, re-creations
\* and crashes interleave ("if not, create it, if yes, do nothing").
NoDuplicateRows ==
  \A f, g \in db.files : f.watcher = g.watcher /\ f.path = g.path => f = g

\* No row of a table names a watcher or a machine that is gone, although a
\* watcher may be deleted or renamed and a machine deleted between the reads of
\* a sync and its writes ("Deleting the watcher must cascade-remove
\* watched_files and file_redirections", server/test/integration_test.go:109).
NoOrphans == ReferencesHold(db)

\* The order in which a handler makes its calls.
Rank(s) ==
  CASE s = "getWatcher" -> 1 [] s = "getMachine" -> 2 [] s = "tryLock" -> 3
    [] s = "connect" -> 4 [] s = "list" -> 5 [] s = "rules" -> 6 [] s = "walk" -> 7
    [] s = "bulkAdd" -> 8 [] s = "bulkRemove" -> 9 [] s = "return" -> 10 [] OTHER -> 0

\* No failure makes a handler start over, and no change of a directory makes a walk
\* longer: each step of a request is a later call, or a read that leaves fewer reads
\* to come, or the end.
RequestsAdvance ==
  [][\A p \in Procs :
       pc[p] # "idle" =>
         \/ UNCHANGED <<pc[p], job[p]>>
         \/ pc'[p] = "idle"
         \/ Rank(pc[p]) < Rank(pc'[p])
         \/ pc[p] = "walk" /\ pc'[p] = "walk" /\ Nearer(job[p].walk, job'[p].walk)]_vars

\* Every request that started comes to an end, and with it its lock.
EveryRequestEnds == \A p \in Procs : pc[p] # "idle" ~> pc[p] = "idle"
=============================================================================
