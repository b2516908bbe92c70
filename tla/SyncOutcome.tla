---------------------------- MODULE SyncOutcome ----------------------------
(***************************************************************************)
(* What a successful sync promises.  SyncService with a history variable   *)
(* that records, for every running job, whether anything has disturbed it  *)
(* since it took the sync lock, or since its request if it takes none: a   *)
(* change of its watcher's rows, of the files below its source or of the   *)
(* rules that was made neither by the job itself nor by the sync of a      *)
(* watcher of another name.  No action of SyncService reads the variable.  *)
(***************************************************************************)
EXTENDS SyncService

VARIABLE alone   \* per goroutine: undisturbed since its job began

\* q's handler made the step.
Moved(q) == <<pc'[q], job'[q]>> # <<pc[q], job[q]>>

\* What q's job is about.
Rows(q) == FilesOf(db, job[q].w.name)
SourceTree(q) == Visible(job[q].w.path, disk, ignored)

\* A handler that works for a watcher of another name made it.
MovedElsewhere(q) ==
  \E p \in Procs : Moved(p) /\ job[p].w # NoRow /\ job[p].w.name # job[q].w.name

Undisturbed(q) ==
  Moved(q) \/ MovedElsewhere(q) \/ UNCHANGED <<Rows(q), SourceTree(q), ignored>>

OutcomeInit == Init /\ alone = [p \in Procs |-> TRUE]

Record ==
  alone' = [p \in Procs |-> pc'[p] \in {"idle", "getWatcher", "tryLock"} \/ pc[p] = "tryLock"
                              \/ (alone[p] /\ Undisturbed(p))]

OutcomeSpec == OutcomeInit /\ [][Next /\ Record]_<<vars, alone>>

\* With the fairness of SyncService.
FairOutcomeSpec == OutcomeSpec /\ \A p \in Procs : WF_<<vars, alone>>(Step(p) /\ Record)

(***************************************************************************)
(* Properties                                                              *)
(***************************************************************************)
Succeeded(p) == pc[p] = "return" /\ job[p].ok

\* A run that succeeded, undisturbed and without a failed read, has made the rows
\* of the watcher it was given equal to its directory, whatever happened to either
\* before and whatever syncs of other watchers did meanwhile: the rows of files
\* still there are the very rows it found, flushed or not; every other row is new,
\* and pending if a sync added it (as server/watcher/service_test.go:498 expects).
SyncReconciles ==
  \A p \in Procs :
    Succeeded(p) /\ alone[p] /\ job[p].clean =>
      LET j == job[p]
      IN  /\ Tracked(j.w.name) = SourceTree(p)
          /\ {f \in j.watched : f.path \in SourceTree(p)} \subseteq Rows(p)
          /\ \A f \in Rows(p) \ j.watched :
               /\ j.op = "sync" => ~f.flushed
               /\ f.path \notin {g.path : g \in j.watched}

\* client/cmd/watcher.go:40, --flush-existing, "Add files already on disk as pending
\* (to be flushed)": the rows that the initial sync of a new watcher has added are
\* pending.
InitialFilesPending ==
  \A p \in Procs :
    Succeeded(p) /\ alone[p] /\ job[p].op = "create" =>
      \A f \in Rows(p) \ job[p].watched : ~f.flushed

\* README.md:159, "Sync walks the watcher's source directory (over SSH/SFTP) and
\* reconciles its contents with the database": a sync that reports success in an
\* undisturbed system has done so, whether or not each directory could be read.
SuccessMeansReconciled ==
  \A p \in Procs :
    Succeeded(p) /\ alone[p] => Tracked(job[p].w.name) = SourceTree(p)
=============================================================================
