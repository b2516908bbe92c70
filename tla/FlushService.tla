---------------------------- MODULE FlushService ----------------------------
(***************************************************************************)
(* FlushService and FlushJob (src/server/flush): goroutines that copy the  *)
(* pending files of a watcher to its redirection target and then mark them *)
(* flushed, while syncs and redirection handlers change the database and   *)
(* users change the watched files.  No lock keeps two flushes, or a flush  *)
(* and a sync, apart.                                                      *)
(*                                                                         *)
(* A path is <<directory, base name>>.  The content of a file is a version *)
(* that somebody wrote whole, or Broken: empty, cut short or mixed.        *)
(***************************************************************************)
EXTENDS Schema

CONSTANTS
  Procs,     \* handler goroutines
  Names,     \* watcher names
  Machines,  \* machine names
  Dirs,      \* directories, the same set on every machine
  Under,     \* Under[d]: the directories at or below d
  Targets,   \* the directories that redirections name
  Bases,     \* base names
  Versions,  \* contents that users write
  Broken,    \* any other content
  Absent,    \* there is no such file
  NoFile,    \* not a pending file
  FkModes,   \* values of the foreign_keys pragma among the pool's connections
  Watchers,  \* the rows of file_watchers
  MaxFileId  \* bound on watched_files.id

Paths == Dirs \X Bases
WatcherRows == [id : Nat, name : Names, path : Dirs, machine : Machines]

ASSUME FlushAssumption ==
  /\ Watchers \subseteq WatcherRows
  /\ Under \in [Dirs -> SUBSET Dirs] /\ Targets \subseteq Dirs
  /\ FkModes \in SUBSET BOOLEAN
  /\ MaxFileId \in Nat
  /\ Broken \notin Versions /\ Absent \notin Versions /\ Broken # Absent

\* id and name are keys of file_watchers (schema.sql).
ASSUME KeyedWatchers == \A v, w \in Watchers : v.id = w.id \/ v.name = w.name => v = w

VARIABLES
  db,        \* the database (module Schema)
  store,     \* per machine and path, the content of the file
  sessions,  \* per goroutine and machine, the SSH sessions it has open
  pc,        \* per goroutine, the call its handler makes next
  job        \* per goroutine, the locals of its FlushJob

vars == <<db, store, sessions, pc, job>>

Contents == Versions \cup {Broken, Absent}
FileRows == [id : Nat, watcher : Names, path : Paths, flushed : BOOLEAN]
RedirectionRows == [watcher : Names, target : Dirs, machine : Machines]
Databases == [machines : SUBSET Machines, watchers : SUBSET WatcherRows,
              files : SUBSET FileRows, redirections : SUBSET RedirectionRows]
PendingRows == [id : Nat, path : Paths, machine : Machines,
                target : Dirs, targetMachine : Machines]

Steps == {"idle", "list", "source", "target", "create", "copy", "finish", "mark", "return"}

\* cur is the file in transfer, opened what was in it when it was opened.
NoJob == [name |-> NoFile, pending |-> {}, done |-> {}, cur |-> NoFile,
          opened |-> Absent, pool |-> {}, ok |-> FALSE]
Jobs == [name : Names \cup {NoFile}, pending : SUBSET PendingRows, done : SUBSET Nat,
         cur : PendingRows \cup {NoFile}, opened : Contents,
         pool : SUBSET Machines, ok : BOOLEAN]

TypeOK ==
  /\ db \in Databases
  /\ store \in [Machines -> [Paths -> Contents]]
  /\ sessions \in [Procs -> [Machines -> Nat]]
  /\ pc \in [Procs -> Steps]
  /\ job \in [Procs -> Jobs]

(***************************************************************************)
(* Helpers                                                                 *)
(***************************************************************************)
\* The base name alone is joined to the target: no subdirectory is kept.
Destination(pf) == <<pf.target, pf.path[2]>>

At(m, path) == store[m][path]
SourceOf(pf) == At(pf.machine, pf.path)
Copied(pf) == At(pf.targetMachine, Destination(pf))

\* Source and destination are one file.
OntoItself(pf) == pf.machine = pf.targetMachine /\ pf.path = Destination(pf)

Write(m, path, c) == store' = [store EXCEPT ![m][path] = c]

Move(p, to, j) == pc' = [pc EXCEPT ![p] = to] /\ job' = [job EXCEPT ![p] = j]

\* Mutant: Run starts over instead of giving up.
FailsNever(p) == Move(p, "list", [job[p] EXCEPT !.done = {}])

\* Run returns an error; what is left is the deferred closeAll.
Fails(p) == Move(p, "return", job[p])

\* Mutant: the cache is written and never read.
GetUncached(p, m, to, j) ==
  \/ /\ sessions' = [sessions EXCEPT ![p][m] = @ + 1]
     /\ Move(p, to, [j EXCEPT !.pool = @ \cup {m}])
  \/ Fails(p) /\ UNCHANGED sessions

\* pool.get: a client that is cached under the machine's name, or a new session.
Get(p, m, to, j) ==
  \/ /\ m \in job[p].pool
     /\ Move(p, to, j)
     /\ UNCHANGED sessions
  \/ /\ m \notin job[p].pool
     /\ sessions' = [sessions EXCEPT ![p][m] = @ + 1]
     /\ Move(p, to, [j EXCEPT !.pool = @ \cup {m}])
  \/ /\ m \notin job[p].pool
     /\ Fails(p)
     /\ UNCHANGED sessions

Init ==
  /\ db = [EmptyDB EXCEPT !.machines = Machines, !.watchers = Watchers]
  /\ store = [m \in Machines |-> [path \in Paths |-> Absent]]
  /\ sessions = [p \in Procs |-> [m \in Machines |-> 0]]
  /\ pc = [p \in Procs |-> "idle"]
  /\ job = [p \in Procs |-> NoJob]

(***************************************************************************)
(* FlushJob.Run                                                            *)
(***************************************************************************)
StartFlush(p, n) ==
  /\ pc[p] = "idle"
  /\ Move(p, "list", [job[p] EXCEPT !.name = n])
  /\ UNCHANGED <<db, store, sessions>>

\* Nothing pending is a success without a connection.
ListPending(p) ==
  LET listed == PendingFlushes(db, job[p].name)
  IN  /\ pc[p] = "list"
      /\ \/ listed = {} /\ Move(p, "return", [job[p] EXCEPT !.ok = TRUE])
         \/ listed # {} /\ Move(p, "source", [job[p] EXCEPT !.pending = listed])
         \/ Fails(p)
      /\ UNCHANGED <<db, store, sessions>>

\* The loop over pendingFiles; the view has no ORDER BY.
NextFile(p, pf) ==
  /\ pc[p] = "source"
  /\ pf \in job[p].pending /\ pf.id \notin job[p].done
  /\ Get(p, pf.machine, "target", [job[p] EXCEPT !.cur = pf])
  /\ UNCHANGED <<db, store>>

ConnectTarget(p) ==
  /\ pc[p] = "target"
  /\ Get(p, job[p].cur.targetMachine, "create", job[p])
  /\ UNCHANGED <<db, store>>

\* Stat, MkdirAll and Open, and Create, which truncates.
CreateTarget(p) ==
  LET pf == job[p].cur
  IN  /\ pc[p] = "create"
      /\ \/ /\ SourceOf(pf) # Absent
            /\ Write(pf.targetMachine, Destination(pf), Broken)
            /\ Move(p, "copy", [job[p] EXCEPT !.opened = SourceOf(pf)])
         \/ Fails(p) /\ UNCHANGED store
      /\ UNCHANGED <<db, sessions>>

\* What io.Copy reads: the file as it is by now, through the open handle if its
\* name is gone.
Readable(j) == IF SourceOf(j.cur) = Absent THEN j.opened ELSE SourceOf(j.cur)

\* Mutant: the error of io.Copy is dropped.
CopyUnchecked(p) ==
  LET pf == job[p].cur
  IN  /\ pc[p] = "copy"
      /\ \/ Write(pf.targetMachine, Destination(pf), Readable(job[p]))
         \/ UNCHANGED store
      /\ Move(p, "finish", job[p])
      /\ UNCHANGED <<db, sessions>>

\* A file copied onto itself has been emptied by Create.  A destination that
\* somebody has removed stays removed.  Two writers of different contents may
\* leave a mixture.
CopyData(p) ==
  LET pf == job[p].cur
      data == Readable(job[p])
      mixed == IF Copied(pf) \in {data, Broken} THEN {} ELSE {Broken}
  IN  /\ pc[p] = "copy"
      /\ \/ /\ IF OntoItself(pf) \/ Copied(pf) = Absent
               THEN UNCHANGED store
               ELSE \E c \in {data} \cup mixed : Write(pf.targetMachine, Destination(pf), c)
            /\ Move(p, "finish", job[p])
         \/ Fails(p) /\ UNCHANGED store
      /\ UNCHANGED <<db, sessions>>

\* Mutant: only the last transfer is remembered.
RecordedLast(j) == {j.cur.id}

\* The ids of the files transferred, with the one just finished.
Recorded(j) == j.done \cup {j.cur.id}

\* Chmod and Chtimes, by name.
FinishTransfer(p) ==
  LET j == job[p]
      done == Recorded(j)
      all == {pf.id : pf \in j.pending} \subseteq done
  IN  /\ pc[p] = "finish"
      /\ \/ /\ Copied(j.cur) # Absent
            /\ Move(p, IF all THEN "mark" ELSE "source", [j EXCEPT !.done = done])
         \/ Fails(p)
      /\ UNCHANGED <<db, store, sessions>>

\* By id, whatever row has that id by now.
MarkDone(p) ==
  /\ pc[p] = "mark"
  /\ \/ db' = MarkFlushed(db, job[p].done) /\ Move(p, "return", [job[p] EXCEPT !.ok = TRUE])
     \/ Fails(p) /\ UNCHANGED db
  /\ UNCHANGED <<store, sessions>>

\* The deferred closeAll, and the answer.
CloseAll(p) ==
  /\ pc[p] = "return"
  /\ sessions' = [sessions EXCEPT ![p] =
                    [m \in Machines |-> IF m \in job[p].pool THEN @[m] - 1 ELSE @[m]]]
  /\ Move(p, "idle", NoJob)
  /\ UNCHANGED <<db, store>>

(***************************************************************************)
(* The rest of the system                                                  *)
(***************************************************************************)
Statement(new) == db' = new /\ UNCHANGED <<store, sessions, pc, job>>

\* RedirectionService.  CreateFileRedirection looks the machine up first; the
\* INSERT does not rely on it.
CreateRedirection(n, t, m) ==
  /\ \E fk \in FkModes : CanInsertRedirection(db, n, m, fk)
  /\ Statement(InsertRedirection(db, n, t, m))
UpdateRedirectionHandler(n, t) == Statement(UpdateRedirection(db, n, t))
DeleteRedirectionHandler(n) == Statement(DeleteRedirection(db, n))

\* The writes of SyncService's BulkAdd and BulkRemove.
Tracked(w) == {f.path : f \in FilesOf(db, w.name)}
Untracked(w) == (Under[w.path] \X Bases) \ Tracked(w)

SyncAdds(w, S) ==
  /\ \E i \in 1 .. MaxFileId : \E ids \in Numberings(S, i) :
       /\ IsNextRowId(db.files, i)
       /\ \A path \in S : ids[path] \in 1 .. MaxFileId
       /\ Statement(InsertFiles(db, w.name, ids, FALSE))
SyncRemoves(w, S) == Statement(DeleteFiles(db, w.name, S))

\* A user of a watched machine writes or deletes a file.
ChangeSource(m, path, c) ==
  /\ Write(m, path, c)
  /\ UNCHANGED <<db, sessions, pc, job>>

Crash ==
  /\ \E p \in Procs : pc[p] # "idle"
  /\ sessions' = [p \in Procs |-> [m \in Machines |-> 0]]
  /\ pc' = [p \in Procs |-> "idle"]
  /\ job' = [p \in Procs |-> NoJob]
  /\ UNCHANGED <<db, store>>

(***************************************************************************)
(* Next-state relation                                                     *)
(***************************************************************************)
\* What p's handler does once a request has started it.
Step(p) ==
  \/ ListPending(p)
  \/ \E pf \in job[p].pending : NextFile(p, pf)
  \/ ConnectTarget(p) \/ CreateTarget(p) \/ CopyData(p) \/ FinishTransfer(p)
  \/ MarkDone(p) \/ CloseAll(p)

Handlers ==
  \/ \E n \in Names, t \in Targets, m \in Machines : CreateRedirection(n, t, m)
  \/ \E n \in Names, t \in Targets : UpdateRedirectionHandler(n, t)
  \/ \E n \in Names : DeleteRedirectionHandler(n)
  \/ \E w \in Watchers : \E S \in SUBSET Untracked(w) \ {{}} : SyncAdds(w, S)
  \/ \E w \in Watchers : \E S \in SUBSET Tracked(w) \ {{}} : SyncRemoves(w, S)

Environment ==
  \/ \E w \in Watchers, c \in Versions \cup {Absent} :
       \E path \in Under[w.path] \X Bases : ChangeSource(w.machine, path, c)
  \/ Crash

Next ==
  \/ \E p \in Procs : Step(p) \/ \E n \in Names : StartFlush(p, n)
  \/ Handlers
  \/ Environment

Spec == Init /\ [][Next]_vars

\* Only a started handler is obliged to go on: every call answers or fails.
FairSpec == Spec /\ \A p \in Procs : WF_vars(Step(p))

(***************************************************************************)
(* Properties                                                              *)
(***************************************************************************)
\* A goroutine has one session to each machine in its pool, and none to any other
\* machine or after its answer: no error path leaves one open, no machine that is
\* source and target gets two.
SessionsAreThePool ==
  \A p \in Procs, m \in Machines :
    sessions[p][m] = IF pc[p] # "idle" /\ m \in job[p].pool THEN 1 ELSE 0

\* README.md:185, "Copies pending (unflushed) tracked files to the watcher's
\* redirection target": a row that a flush marks is a row whose file it copied.
MarksWhatItCopied ==
  [][\A p \in Procs :
       MarkDone(p) =>
         \A f \in db.files :
           ~f.flushed /\ [f EXCEPT !.flushed = TRUE] \in db'.files =>
             \E pf \in job[p].pending : pf.id = f.id /\ pf.path = f.path]_vars

\* The order in which a handler makes its calls for one file.
Rank(s) ==
  CASE s = "list" -> 1 [] s = "source" -> 2 [] s = "target" -> 3 [] s = "create" -> 4
    [] s = "copy" -> 5 [] s = "finish" -> 6 [] s = "mark" -> 7 [] s = "return" -> 8
    [] OTHER -> 0

Left(j) == {pf \in j.pending : pf.id \notin j.done}

\* A flush never starts over and never transfers a file twice: each of its steps is a
\* later call, or the next round of the loop with fewer files left, or the end.  What
\* others add to the watcher meanwhile is not added to it.
FlushAdvances ==
  [][\A p \in Procs :
       pc[p] # "idle" =>
         \/ UNCHANGED <<pc[p], job[p]>>
         \/ pc'[p] = "idle"
         \/ pc[p] = "list" /\ pc'[p] \in {"source", "return"}
         \/ Rank(pc[p]) < Rank(pc'[p]) /\ Left(job'[p]) \subseteq Left(job[p])
         \/ /\ pc[p] = "finish" /\ pc'[p] = "source"
            /\ Left(job'[p]) \subseteq Left(job[p]) /\ Left(job'[p]) # Left(job[p])]_vars

\* Every flush comes to an end.
FlushEnds == \A p \in Procs : pc[p] # "idle" ~> pc[p] = "idle"
=============================================================================
