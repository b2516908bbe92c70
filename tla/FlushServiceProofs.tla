------------------------- MODULE FlushServiceProofs -------------------------
(***************************************************************************)
(* Theorems about FlushService for any number of goroutines, machines,     *)
(* watchers and files.                                                     *)
(***************************************************************************)
EXTENDS FlushOutcome, SchemaProofs

\* The local variables of p's handler fit the point it has reached.
JobOK(p) ==
  /\ pc[p] = "idle" => job[p] = NoJob
  /\ pc[p] \in {"target", "create", "copy", "finish"} => job[p].cur \in PendingRows

FlushInv == TypeOK /\ SessionsAreThePool /\ \A p \in Procs : JobOK(p)

LEMMA NoJobType == NoJob \in Jobs
BY DEF NoJob, Jobs, Contents

\* What each statement of the database returns is a database.
LEMMA DatabaseTypes ==
  ASSUME NEW base \in Databases
  PROVE  /\ \A n \in Names, t \in Dirs, m \in Machines :
              InsertRedirection(base, n, t, m) \in Databases
         /\ \A n \in Names, t \in Dirs : UpdateRedirection(base, n, t) \in Databases
         /\ \A n \in Names : DeleteRedirection(base, n) \in Databases
         /\ \A n \in Names, S \in SUBSET Paths, b \in BOOLEAN : \A ids \in [S -> Nat] :
              InsertFiles(base, n, ids, b) \in Databases
         /\ \A n, S : DeleteFiles(base, n, S) \in Databases
         /\ \A ids : MarkFlushed(base, ids) \in Databases
<1>1. \A n \in Names, t \in Dirs, m \in Machines :
        InsertRedirection(base, n, t, m) \in Databases
  BY DEF InsertRedirection, RedirectionRow, Databases, RedirectionRows
<1>2. \A n \in Names, t \in Dirs : UpdateRedirection(base, n, t) \in Databases
  <2> SUFFICES ASSUME NEW n \in Names, NEW t \in Dirs, NEW r \in base.redirections
               PROVE  (IF r.watcher = n THEN [r EXCEPT !.target = t] ELSE r)
                        \in RedirectionRows
    BY DEF UpdateRedirection, Databases
  <2> QED BY DEF Databases, RedirectionRows
<1>3. \A n \in Names : DeleteRedirection(base, n) \in Databases
  BY DEF DeleteRedirection, Databases
<1>4. \A n \in Names, S \in SUBSET Paths, b \in BOOLEAN : \A ids \in [S -> Nat] :
        InsertFiles(base, n, ids, b) \in Databases
  BY DEF InsertFiles, FileRow, Databases, FileRows
<1>5. \A n, S : DeleteFiles(base, n, S) \in Databases
  BY DEF DeleteFiles, Databases
<1>6. \A ids : MarkFlushed(base, ids) \in Databases
  <2> SUFFICES ASSUME NEW ids, NEW f \in base.files
               PROVE  (IF f.id \in ids THEN [f EXCEPT !.flushed = TRUE] ELSE f) \in FileRows
    BY DEF MarkFlushed, Databases
  <2> QED BY DEF Databases, FileRows
<1> QED BY <1>1, <1>2, <1>3, <1>4, <1>5, <1>6

LEMMA PendingTypes ==
  ASSUME NEW base \in Databases, NEW n
  PROVE  PendingFlushes(base, n) \subseteq PendingRows
<1> SUFFICES ASSUME NEW f \in FilesOf(base, n), NEW r \in base.redirections,
                    NEW w \in WatchersNamed(base, n)
             PROVE  [id |-> f.id, path |-> f.path, machine |-> w.machine,
                     target |-> r.target, targetMachine |-> r.machine] \in PendingRows
  BY DEF PendingFlushes
<1>1. f \in FileRows /\ r \in RedirectionRows /\ w \in WatcherRows
  BY DEF FilesOf, WatchersNamed, Databases
<1> QED BY <1>1 DEF PendingRows, FileRows, RedirectionRows, WatcherRows

LEMMA DestinationType ==
  \A pf \in PendingRows : Destination(pf) \in Paths /\ pf.path \in Paths
BY DEF Destination, PendingRows, Paths

LEMMA WriteType ==
  ASSUME store \in [Machines -> [Paths -> Contents]], NEW m \in Machines,
         NEW path \in Paths, NEW c \in Contents, Write(m, path, c)
  PROVE  store' \in [Machines -> [Paths -> Contents]]
BY DEF Write

(***************************************************************************)
(* FlushInv is inductive: one lemma per action.                            *)
(***************************************************************************)
LEMMA FlushInvInit == Init => FlushInv
<1> SUFFICES ASSUME Init PROVE FlushInv
  OBVIOUS
<1>1. TypeOK
  BY NoJobType, FlushAssumption DEF Init, TypeOK, EmptyDB, Databases, Steps, Contents
<1>2. SessionsAreThePool
  BY DEF Init, SessionsAreThePool
<1>3. \A p \in Procs : JobOK(p)
  BY DEF Init, JobOK
<1> QED BY <1>1, <1>2, <1>3 DEF FlushInv

\* What is left to show of a step that moves only p: its own local variables and
\* its own sessions.
LEMMA HandlerStep ==
  ASSUME FlushInv, NEW p \in Procs, NEW to \in Steps, NEW j \in Jobs, Move(p, to, j),
         db' \in Databases, store' \in [Machines -> [Paths -> Contents]],
         sessions' \in [Procs -> [Machines -> Nat]],
         \A q \in Procs \ {p} : sessions'[q] = sessions[q],
         \A m \in Machines :
           sessions'[p][m] = IF to # "idle" /\ m \in j.pool THEN 1 ELSE 0,
         to = "idle" => j = NoJob,
         to \in {"target", "create", "copy", "finish"} => j.cur \in PendingRows
  PROVE  FlushInv'
<1>1. pc' = [pc EXCEPT ![p] = to] /\ job' = [job EXCEPT ![p] = j]
  BY DEF Move
<1>2. TypeOK'
  BY <1>1 DEF FlushInv, TypeOK
<1>3. pc'[p] = to /\ job'[p] = j
  BY <1>1 DEF FlushInv, TypeOK
<1>4. \A q \in Procs \ {p} : pc'[q] = pc[q] /\ job'[q] = job[q]
  BY <1>1 DEF FlushInv, TypeOK
<1>5. SessionsAreThePool'
  BY <1>3, <1>4 DEF FlushInv, SessionsAreThePool
<1>6. ASSUME NEW q \in Procs PROVE JobOK(q)'
  BY <1>3, <1>4 DEF FlushInv, JobOK
<1> QED BY <1>2, <1>5, <1>6 DEF FlushInv

\* Most steps neither open nor close a session.
LEMMA QuietStep ==
  ASSUME FlushInv, NEW p \in Procs, NEW to \in Steps, NEW j \in Jobs, Move(p, to, j),
         pc[p] # "idle", to # "idle", j.pool = job[p].pool,
         db' \in Databases, store' \in [Machines -> [Paths -> Contents]],
         UNCHANGED sessions,
         to \in {"target", "create", "copy", "finish"} => j.cur \in PendingRows
  PROVE  FlushInv'
<1>1. sessions' \in [Procs -> [Machines -> Nat]]
  BY DEF FlushInv, TypeOK
<1>2. \A m \in Machines : sessions'[p][m] = IF m \in j.pool THEN 1 ELSE 0
  BY DEF FlushInv, SessionsAreThePool
<1> QED BY <1>1, <1>2, HandlerStep

LEMMA FailsStep ==
  ASSUME FlushInv, NEW p \in Procs, Fails(p), pc[p] # "idle", UNCHANGED <<db, store, sessions>>
  PROVE  FlushInv'
<1>1. job[p] \in Jobs /\ "return" \in Steps /\ db' \in Databases
      /\ store' \in [Machines -> [Paths -> Contents]]
  BY DEF FlushInv, TypeOK, Steps
<1> QED BY <1>1, QuietStep DEF Fails

\* A client from the pool, or a new one.
LEMMA GetStep ==
  ASSUME FlushInv, NEW p \in Procs, NEW m \in Machines, NEW to \in Steps \ {"idle"},
         NEW j \in Jobs, j.pool = job[p].pool, j.cur \in PendingRows,
         pc[p] # "idle", Get(p, m, to, j), UNCHANGED <<db, store>>
  PROVE  FlushInv'
<1>1. db' \in Databases /\ store' \in [Machines -> [Paths -> Contents]]
  BY DEF FlushInv, TypeOK
<1>2. CASE Move(p, to, j) /\ UNCHANGED sessions
  BY <1>1, <1>2, QuietStep
<1>3. CASE Fails(p) /\ UNCHANGED sessions
  BY <1>3, FailsStep
<1>4. CASE /\ m \notin job[p].pool
           /\ sessions' = [sessions EXCEPT ![p][m] = @ + 1]
           /\ Move(p, to, [j EXCEPT !.pool = @ \cup {m}])
  <2> DEFINE k == [j EXCEPT !.pool = @ \cup {m}]
  <2>1. k \in Jobs /\ k.pool = job[p].pool \cup {m} /\ k.cur = j.cur
    BY DEF Jobs
  <2>2. sessions' \in [Procs -> [Machines -> Nat]]
    BY <1>4 DEF FlushInv, TypeOK
  <2>3. \A q \in Procs \ {p} : sessions'[q] = sessions[q]
    BY <1>4 DEF FlushInv, TypeOK
  <2>4. \A x \in Machines : sessions'[p][x] = IF x = m THEN sessions[p][x] + 1 ELSE sessions[p][x]
    BY <1>4 DEF FlushInv, TypeOK
  <2>5. \A x \in Machines : sessions'[p][x] = IF x \in k.pool THEN 1 ELSE 0
    BY <1>4, <2>1, <2>4 DEF FlushInv, SessionsAreThePool
  <2> HIDE DEF k
  <2>6. Move(p, to, k)
    BY <1>4 DEF k
  <2> QED BY <1>1, <2>1, <2>2, <2>3, <2>5, <2>6, HandlerStep
<1> QED BY <1>2, <1>3, <1>4 DEF Get

LEMMA FlushInvStart ==
  ASSUME FlushInv, NEW p \in Procs, NEW n \in Names, StartFlush(p, n)
  PROVE  FlushInv'
<1> DEFINE j == [job[p] EXCEPT !.name = n]
<1>1. pc[p] = "idle" /\ job[p] = NoJob
  BY DEF StartFlush, FlushInv, JobOK
<1>2. j \in Jobs /\ j.pool = {} /\ "list" \in Steps
  <2>1. job[p] \in Jobs /\ job[p].pool = {}
    BY <1>1, NoJobType DEF NoJob
  <2> QED BY <2>1 DEF Jobs, Steps
<1>3. /\ db' \in Databases /\ store' \in [Machines -> [Paths -> Contents]]
      /\ sessions' \in [Procs -> [Machines -> Nat]]
  BY DEF StartFlush, FlushInv, TypeOK
<1>4. \A m \in Machines : sessions'[p][m] = 0
  BY <1>1 DEF StartFlush, FlushInv, SessionsAreThePool
<1>5. Move(p, "list", j) /\ UNCHANGED sessions
  BY DEF StartFlush
<1>6. /\ \A m \in Machines :
           sessions'[p][m] = IF "list" # "idle" /\ m \in j.pool THEN 1 ELSE 0
      /\ \A q \in Procs \ {p} : sessions'[q] = sessions[q]
  BY <1>2, <1>4, <1>5
<1> HIDE DEF j
<1> QED BY <1>2, <1>3, <1>5, <1>6, HandlerStep

LEMMA FlushInvList ==
  ASSUME FlushInv, NEW p \in Procs, ListPending(p)
  PROVE  FlushInv'
<1> DEFINE listed == PendingFlushes(db, job[p].name)
<1>1. /\ job[p] \in Jobs /\ db' \in Databases
      /\ store' \in [Machines -> [Paths -> Contents]] /\ UNCHANGED sessions
  BY DEF ListPending, FlushInv, TypeOK
<1>2. listed \subseteq PendingRows
  BY PendingTypes DEF FlushInv, TypeOK
<1>3. pc[p] # "idle" /\ "return" \in Steps /\ "source" \in Steps
  BY DEF ListPending, Steps
<1> HIDE DEF listed
<1>4. CASE Move(p, "return", [job[p] EXCEPT !.ok = TRUE])
  <2> DEFINE j == [job[p] EXCEPT !.ok = TRUE]
  <2>1. j \in Jobs /\ j.pool = job[p].pool
    BY <1>1 DEF Jobs
  <2> HIDE DEF j
  <2>2. Move(p, "return", j)
    BY <1>4 DEF j
  <2> QED BY <1>1, <1>3, <2>1, <2>2, QuietStep
<1>5. CASE Move(p, "source", [job[p] EXCEPT !.pending = listed])
  <2> DEFINE j == [job[p] EXCEPT !.pending = listed]
  <2>1. j \in Jobs /\ j.pool = job[p].pool
    BY <1>1, <1>2 DEF Jobs
  <2> HIDE DEF j
  <2>2. Move(p, "source", j)
    BY <1>5 DEF j
  <2> QED BY <1>1, <1>3, <2>1, <2>2, QuietStep
<1>6. CASE Fails(p)
  BY <1>3, <1>6, FailsStep DEF ListPending
<1> QED BY <1>4, <1>5, <1>6 DEF ListPending, listed

LEMMA FlushInvNextFile ==
  ASSUME FlushInv, NEW p \in Procs, NEW pf, NextFile(p, pf)
  PROVE  FlushInv'
<1> DEFINE j == [job[p] EXCEPT !.cur = pf]
<1>1. job[p] \in Jobs /\ pf \in PendingRows
  BY DEF NextFile, FlushInv, TypeOK, Jobs
<1>2. j \in Jobs /\ j.pool = job[p].pool /\ j.cur = pf /\ pf.machine \in Machines
  BY <1>1 DEF Jobs, PendingRows
<1>3. pc[p] # "idle" /\ "target" \in Steps \ {"idle"}
  BY DEF NextFile, Steps
<1>4. Get(p, pf.machine, "target", j) /\ UNCHANGED <<db, store>>
  BY DEF NextFile
<1> HIDE DEF j
<1> QED BY <1>1, <1>2, <1>3, <1>4, GetStep

LEMMA FlushInvConnectTarget ==
  ASSUME FlushInv, NEW p \in Procs, ConnectTarget(p)
  PROVE  FlushInv'
<1>1. job[p] \in Jobs /\ job[p].cur \in PendingRows
  BY DEF ConnectTarget, FlushInv, TypeOK, JobOK
<1>2. job[p].cur.targetMachine \in Machines
  BY <1>1 DEF PendingRows
<1>3. pc[p] # "idle" /\ "create" \in Steps \ {"idle"}
  BY DEF ConnectTarget, Steps
<1> QED BY <1>1, <1>2, <1>3, GetStep DEF ConnectTarget

\* The destination of the file in transfer is a place in the store.
LEMMA TransferTypes ==
  ASSUME FlushInv, NEW p \in Procs, pc[p] \in {"create", "copy", "finish"}
  PROVE  /\ job[p] \in Jobs /\ job[p].cur \in PendingRows
         /\ job[p].cur.targetMachine \in Machines /\ Destination(job[p].cur) \in Paths
         /\ SourceOf(job[p].cur) \in Contents
<1>1. job[p] \in Jobs /\ job[p].cur \in PendingRows
  BY DEF FlushInv, TypeOK, JobOK
<1>2. /\ job[p].cur.machine \in Machines /\ job[p].cur.targetMachine \in Machines
      /\ job[p].cur.path \in Paths /\ Destination(job[p].cur) \in Paths
  BY <1>1, DestinationType DEF PendingRows
<1>3. SourceOf(job[p].cur) \in Contents
  BY <1>2 DEF SourceOf, At, FlushInv, TypeOK
<1> QED BY <1>1, <1>2, <1>3

LEMMA FlushInvCreateTarget ==
  ASSUME FlushInv, NEW p \in Procs, CreateTarget(p)
  PROVE  FlushInv'
<1> DEFINE pf == job[p].cur
           j == [job[p] EXCEPT !.opened = SourceOf(pf)]
<1>1. pc[p] = "create" /\ UNCHANGED <<db, sessions>> /\ "copy" \in Steps
  BY DEF CreateTarget, Steps
<1>2. CASE Fails(p) /\ UNCHANGED store
  BY <1>1, <1>2, FailsStep
<1>3. CASE /\ Write(pf.targetMachine, Destination(pf), Broken)
           /\ Move(p, "copy", j)
  <2>1. j \in Jobs /\ j.pool = job[p].pool /\ j.cur = job[p].cur
    BY <1>1, TransferTypes DEF Jobs
  <2>2. store' \in [Machines -> [Paths -> Contents]]
    <3>1. Broken \in Contents /\ store \in [Machines -> [Paths -> Contents]]
      BY DEF Contents, FlushInv, TypeOK
    <3> QED BY <1>1, <1>3, <3>1, TransferTypes, WriteType
  <2>3. db' \in Databases /\ job[p].cur \in PendingRows
    BY <1>1, TransferTypes DEF FlushInv, TypeOK
  <2> HIDE DEF j, pf
  <2> QED BY <1>1, <1>3, <2>1, <2>2, <2>3, QuietStep
<1> QED BY <1>2, <1>3 DEF CreateTarget

LEMMA FlushInvCopyData ==
  ASSUME FlushInv, NEW p \in Procs, CopyData(p)
  PROVE  FlushInv'
<1> DEFINE pf == job[p].cur
           data == Readable(job[p])
<1>1. pc[p] = "copy" /\ UNCHANGED <<db, sessions>> /\ "finish" \in Steps
  BY DEF CopyData, Steps
<1>2. CASE Fails(p) /\ UNCHANGED store
  BY <1>1, <1>2, FailsStep
<1>3. CASE /\ store' = store \/ \E c \in {data, Broken} : Write(pf.targetMachine, Destination(pf), c)
           /\ Move(p, "finish", job[p])
  <2>1. data \in Contents /\ Broken \in Contents
    BY <1>1, TransferTypes DEF Readable, Contents, Jobs
  <2>2. store' \in [Machines -> [Paths -> Contents]]
    <3>1. store \in [Machines -> [Paths -> Contents]]
      BY DEF FlushInv, TypeOK
    <3> HIDE DEF data
    <3> QED BY <1>1, <1>3, <2>1, <3>1, TransferTypes, WriteType
  <2>3. db' \in Databases /\ job[p] \in Jobs /\ job[p].cur \in PendingRows
    BY <1>1, TransferTypes DEF FlushInv, TypeOK
  <2> QED BY <1>1, <1>3, <2>2, <2>3, QuietStep
<1> QED BY <1>2, <1>3 DEF CopyData

LEMMA FlushInvFinish ==
  ASSUME FlushInv, NEW p \in Procs, FinishTransfer(p)
  PROVE  FlushInv'
<1> DEFINE j == [job[p] EXCEPT !.done = job[p].done \cup {job[p].cur.id}]
<1>1. /\ pc[p] = "finish" /\ UNCHANGED <<db, store, sessions>>
      /\ "mark" \in Steps /\ "source" \in Steps
  BY DEF FinishTransfer, Steps
<1>2. CASE Fails(p)
  BY <1>1, <1>2, FailsStep
<1>3. CASE Move(p, "mark", j) \/ Move(p, "source", j)
  <2>1. j \in Jobs /\ j.pool = job[p].pool
    BY <1>1, TransferTypes DEF Jobs, PendingRows
  <2>2. db' \in Databases /\ store' \in [Machines -> [Paths -> Contents]]
    BY <1>1 DEF FlushInv, TypeOK
  <2> HIDE DEF j
  <2> QED BY <1>1, <1>3, <2>1, <2>2, QuietStep
<1> QED BY <1>2, <1>3 DEF FinishTransfer, Recorded

LEMMA FlushInvMark ==
  ASSUME FlushInv, NEW p \in Procs, MarkDone(p)
  PROVE  FlushInv'
<1> DEFINE j == [job[p] EXCEPT !.ok = TRUE]
<1>1. pc[p] = "mark" /\ UNCHANGED <<store, sessions>> /\ "return" \in Steps
  BY DEF MarkDone, Steps
<1>2. CASE Fails(p) /\ UNCHANGED db
  BY <1>1, <1>2, FailsStep
<1>3. CASE db' = MarkFlushed(db, job[p].done) /\ Move(p, "return", j)
  <2>1. db' \in Databases
    BY <1>3, DatabaseTypes DEF FlushInv, TypeOK
  <2>2. j \in Jobs /\ j.pool = job[p].pool
    BY DEF FlushInv, TypeOK, Jobs
  <2>3. store' \in [Machines -> [Paths -> Contents]]
    BY <1>1 DEF FlushInv, TypeOK
  <2> HIDE DEF j
  <2> QED BY <1>1, <1>3, <2>1, <2>2, <2>3, QuietStep
<1> QED BY <1>2, <1>3 DEF MarkDone

LEMMA FlushInvCloseAll ==
  ASSUME FlushInv, NEW p \in Procs, CloseAll(p)
  PROVE  FlushInv'
<1> DEFINE left == [m \in Machines |-> IF m \in job[p].pool THEN sessions[p][m] - 1
                                                          ELSE sessions[p][m]]
<1>1. /\ sessions' = [sessions EXCEPT ![p] = left]
      /\ pc[p] = "return" /\ Move(p, "idle", NoJob) /\ UNCHANGED <<db, store>>
      /\ "idle" \in Steps
  BY DEF CloseAll, Steps
<1>2. \A m \in Machines : left[m] = 0
  BY <1>1 DEF FlushInv, SessionsAreThePool
<1>3. left \in [Machines -> Nat]
  BY <1>2
<1> HIDE DEF left
<1>4. sessions' \in [Procs -> [Machines -> Nat]] /\ sessions'[p] = left
  BY <1>1, <1>3 DEF FlushInv, TypeOK
<1>5. \A q \in Procs \ {p} : sessions'[q] = sessions[q]
  BY <1>1 DEF FlushInv, TypeOK
<1>6. db' \in Databases /\ store' \in [Machines -> [Paths -> Contents]]
  BY <1>1 DEF FlushInv, TypeOK
<1> QED BY <1>1, <1>2, <1>4, <1>5, <1>6, NoJobType, HandlerStep

\* Steps of the database's other users and of the machines' users.
LEMMA OutsideStep ==
  ASSUME FlushInv, db' \in Databases, store' \in [Machines -> [Paths -> Contents]],
         UNCHANGED <<sessions, pc, job>>
  PROVE  FlushInv'
BY DEF FlushInv, TypeOK, SessionsAreThePool, JobOK

LEMMA FlushInvHandlers == FlushInv /\ Handlers => FlushInv'
<1> SUFFICES ASSUME FlushInv, Handlers PROVE FlushInv'
  OBVIOUS
<1>1. db \in Databases /\ Targets \subseteq Dirs
  BY FlushAssumption DEF FlushInv, TypeOK
<1>2. ASSUME NEW n \in Names, NEW t \in Targets,
             \/ \E m \in Machines : CreateRedirection(n, t, m)
             \/ UpdateRedirectionHandler(n, t)
      PROVE  db' \in Databases
  BY <1>1, <1>2, DatabaseTypes DEF CreateRedirection, UpdateRedirectionHandler, Statement
<1>3. ASSUME NEW n \in Names, DeleteRedirectionHandler(n) PROVE db' \in Databases
  BY <1>1, <1>3, DatabaseTypes DEF DeleteRedirectionHandler, Statement
<1>4. ASSUME NEW w \in Watchers, NEW S \in SUBSET Untracked(w) \ {{}}, SyncAdds(w, S)
      PROVE  db' \in Databases
  <2>1. PICK i \in 1 .. MaxFileId : \E ids \in Numberings(S, i) :
          (\A path \in S : ids[path] \in 1 .. MaxFileId)
          /\ db' = InsertFiles(db, w.name, ids, FALSE)
    BY <1>4 DEF SyncAdds, Statement
  <2>2. PICK ids \in Numberings(S, i) :
          (\A path \in S : ids[path] \in 1 .. MaxFileId)
          /\ db' = InsertFiles(db, w.name, ids, FALSE)
    BY <2>1
  <2>3. ids \in [S -> Nat]
    BY <2>2, FlushAssumption DEF Numberings
  <2>4. w \in WatcherRows
    BY FlushAssumption
  <2>5. S \in SUBSET Paths /\ w.name \in Names
    BY <2>4, FlushAssumption DEF Untracked, Paths, WatcherRows
  <2> QED BY <1>1, <2>2, <2>3, <2>5, DatabaseTypes
<1>5. ASSUME NEW w \in Watchers, NEW S, SyncRemoves(w, S) PROVE db' \in Databases
  BY <1>1, <1>5, DatabaseTypes DEF SyncRemoves, Statement
<1>6. db' \in Databases
  BY <1>2, <1>3, <1>4, <1>5 DEF Handlers
<1>7. UNCHANGED <<store, sessions, pc, job>>
  BY DEF Handlers, CreateRedirection, UpdateRedirectionHandler, DeleteRedirectionHandler,
         SyncAdds, SyncRemoves, Statement
<1>8. store' \in [Machines -> [Paths -> Contents]]
  BY <1>7 DEF FlushInv, TypeOK
<1> QED BY <1>6, <1>7, <1>8, OutsideStep

LEMMA FlushInvEnvironment == FlushInv /\ Environment => FlushInv'
<1> SUFFICES ASSUME FlushInv, Environment PROVE FlushInv'
  OBVIOUS
<1>1. ASSUME NEW w \in Watchers, NEW c \in Versions \cup {Absent},
             NEW path \in Under[w.path] \X Bases, ChangeSource(w.machine, path, c)
      PROVE  FlushInv'
  <2>1. w.machine \in Machines /\ path \in Paths /\ c \in Contents
    BY FlushAssumption DEF WatcherRows, Paths, Contents
  <2>2. Write(w.machine, path, c) /\ UNCHANGED <<db, sessions, pc, job>>
    BY <1>1 DEF ChangeSource
  <2>3. store' \in [Machines -> [Paths -> Contents]]
    BY <2>1, <2>2, WriteType DEF FlushInv, TypeOK
  <2>4. db' \in Databases
    BY <2>2 DEF FlushInv, TypeOK
  <2> QED BY <2>2, <2>3, <2>4, OutsideStep
<1>2. CASE Crash
  <2>1. TypeOK'
    BY <1>2, NoJobType DEF Crash, FlushInv, TypeOK, Steps
  <2>2. SessionsAreThePool' /\ \A p \in Procs : JobOK(p)'
    BY <1>2 DEF Crash, SessionsAreThePool, JobOK
  <2> QED BY <2>1, <2>2 DEF FlushInv
<1> QED BY <1>1, <1>2 DEF Environment

LEMMA FlushInvNext == FlushInv /\ [Next]_vars => FlushInv'
<1> SUFFICES ASSUME FlushInv, [Next]_vars PROVE FlushInv'
  OBVIOUS
<1>1. ASSUME NEW p \in Procs, Step(p) PROVE FlushInv'
  BY <1>1, FlushInvList, FlushInvNextFile, FlushInvConnectTarget, FlushInvCreateTarget,
     FlushInvCopyData, FlushInvFinish, FlushInvMark, FlushInvCloseAll DEF Step
<1>2. CASE UNCHANGED vars
  <2>1. db' \in Databases /\ store' \in [Machines -> [Paths -> Contents]]
    BY <1>2 DEF vars, FlushInv, TypeOK
  <2> QED BY <1>2, <2>1, OutsideStep DEF vars
<1> QED BY <1>1, <1>2, FlushInvStart, FlushInvHandlers, FlushInvEnvironment DEF Next

\* Type correctness.
THEOREM FlushTypeCorrect == Spec => []TypeOK
<1>1. FlushInv => TypeOK
  BY DEF FlushInv
<1> QED BY <1>1, FlushInvInit, FlushInvNext, PTL DEF Spec

\* A goroutine's SSH sessions are those of its pool, one to a machine, and none is
\* open once it has answered.
THEOREM SessionsClosed == Spec => []SessionsAreThePool
<1>1. FlushInv => SessionsAreThePool
  BY DEF FlushInv
<1> QED BY <1>1, FlushInvInit, FlushInvNext, PTL DEF Spec

(***************************************************************************)
(* The flush goes forward.  Forward is the claim about one goroutine.  The *)
(* step that finishes a transfer makes Left smaller because the file in    *)
(* transfer was still to do: AdvanceInv adds that.                         *)
(***************************************************************************)
Transfers == {"target", "create", "copy", "finish"}

AdvanceInv ==
  FlushInv /\ \A p \in Procs : pc[p] \in Transfers => job[p].cur \in Left(job[p])

Forward(p) ==
  \/ UNCHANGED <<pc[p], job[p]>>
  \/ pc'[p] = "idle"
  \/ pc[p] = "list" /\ pc'[p] \in {"source", "return"}
  \/ Rank(pc[p]) < Rank(pc'[p]) /\ Left(job'[p]) \subseteq Left(job[p])
  \/ /\ pc[p] = "finish" /\ pc'[p] = "source"
     /\ Left(job'[p]) \subseteq Left(job[p]) /\ Left(job'[p]) # Left(job[p])

\* Every other step of the system leaves p where it is or ends it.
LEMMA OtherSteps ==
  ASSUME FlushInv, NEW p \in Procs, Next, ~Step(p), ~\E n \in Names : StartFlush(p, n)
  PROVE  \/ pc'[p] = pc[p] /\ job'[p] = job[p]
         \/ pc'[p] = "idle" /\ job'[p] = NoJob
<1>1. pc \in [Procs -> Steps] /\ job \in [Procs -> Jobs]
  BY DEF FlushInv, TypeOK
<1>2. ASSUME NEW q \in Procs, Step(q) \/ \E n \in Names : StartFlush(q, n)
      PROVE  pc'[p] = pc[p] /\ job'[p] = job[p]
  <2>1. q # p
    BY <1>2
  <2>2. \E to, j : Move(q, to, j)
    BY <1>2 DEF Step, StartFlush, ListPending, NextFile, ConnectTarget, Get, CreateTarget,
                CopyData, FinishTransfer, MarkDone, CloseAll, Fails
  <2> QED BY <1>1, <2>1, <2>2 DEF Move
<1>3. CASE Handlers
  BY <1>3 DEF Handlers, CreateRedirection, UpdateRedirectionHandler, DeleteRedirectionHandler,
              SyncAdds, SyncRemoves, Statement
<1>4. CASE Environment
  BY <1>1, <1>4 DEF Environment, ChangeSource, Crash
<1> QED BY <1>2, <1>3, <1>4 DEF Next

LEMMA FailsForward ==
  ASSUME FlushInv, NEW p \in Procs, Fails(p), pc[p] \notin {"idle", "return"}
  PROVE  Forward(p) /\ pc'[p] \notin Transfers
<1>1. pc'[p] = "return" /\ job'[p] = job[p] /\ pc[p] \in Steps
  BY DEF Fails, Move, FlushInv, TypeOK
<1>2. Rank(pc[p]) < Rank(pc'[p])
  BY <1>1 DEF Rank, Steps
<1> QED BY <1>1, <1>2 DEF Forward, Transfers

\* A connection leaves the list of files alone.
LEMMA GetForward ==
  ASSUME FlushInv, NEW p \in Procs, NEW m, NEW to, NEW j \in Jobs, Get(p, m, to, j),
         <<pc[p], to>> \in {<<"source", "target">>, <<"target", "create">>},
         Left(j) = Left(job[p]), j.cur \in Left(job[p])
  PROVE  Forward(p) /\ (pc'[p] \in Transfers => job'[p].cur \in Left(job'[p]))
<1>1. CASE Fails(p)
  BY <1>1, FailsForward
<1>2. CASE ~Fails(p)
  <2>1. pc'[p] = to /\ (job'[p] = j \/ job'[p] = [j EXCEPT !.pool = @ \cup {m}])
    BY <1>2 DEF Get, Move, FlushInv, TypeOK
  <2>2. /\ job'[p].pending = j.pending /\ job'[p].done = j.done /\ job'[p].cur = j.cur
    BY <2>1 DEF Jobs
  <2>3. Left(job'[p]) = Left(job[p])
    BY <2>2 DEF Left
  <2>4. Rank(pc[p]) < Rank(pc'[p])
    BY <2>1 DEF Rank
  <2> QED BY <2>2, <2>3, <2>4 DEF Forward
<1> QED BY <1>1, <1>2

LEMMA StepForward ==
  ASSUME AdvanceInv, NEW p \in Procs, Step(p)
  PROVE  Forward(p) /\ (pc'[p] \in Transfers => job'[p].cur \in Left(job'[p]))
<1>1. /\ pc \in [Procs -> Steps] /\ job \in [Procs -> Jobs] /\ job[p] \in Jobs
      /\ FlushInv /\ (pc[p] \in Transfers => job[p].cur \in Left(job[p]))
  BY DEF AdvanceInv, FlushInv, TypeOK
<1>2. CASE Fails(p) /\ pc[p] \notin {"idle", "return"}
  BY <1>1, <1>2, FailsForward
<1>3. CASE ListPending(p) /\ ~Fails(p)
  BY <1>1, <1>3 DEF ListPending, Move, Forward, Transfers
<1>4. ASSUME NEW pf \in job[p].pending, NextFile(p, pf)
      PROVE  Forward(p) /\ (pc'[p] \in Transfers => job'[p].cur \in Left(job'[p]))
  <2> DEFINE j == [job[p] EXCEPT !.cur = pf]
  <2>1. pf \in PendingRows
    BY <1>1 DEF Jobs
  <2>2. j \in Jobs /\ j.pending = job[p].pending /\ j.done = job[p].done /\ j.cur = pf
    BY <1>1, <2>1 DEF Jobs
  <2>3. Left(j) = Left(job[p]) /\ j.cur \in Left(job[p])
    BY <1>4, <2>2 DEF NextFile, Left
  <2>4. pc[p] = "source" /\ Get(p, pf.machine, "target", j)
    BY <1>4 DEF NextFile
  <2> HIDE DEF j
  <2> QED BY <1>1, <2>2, <2>3, <2>4, GetForward
<1>5. CASE ConnectTarget(p)
  <2>1. /\ pc[p] = "target" /\ job[p].cur \in Left(job[p])
        /\ Get(p, job[p].cur.targetMachine, "create", job[p])
    BY <1>1, <1>5 DEF ConnectTarget, Transfers
  <2> QED BY <1>1, <2>1, GetForward
<1>6. CASE CreateTarget(p) /\ ~Fails(p)
  <2>1. /\ pc[p] = "create" /\ pc'[p] = "copy"
        /\ job'[p] = [job[p] EXCEPT !.opened = SourceOf(job[p].cur)]
    BY <1>1, <1>6 DEF CreateTarget, Move
  <2>2. /\ job'[p].pending = job[p].pending /\ job'[p].done = job[p].done
        /\ job'[p].cur = job[p].cur
    BY <1>1, <2>1 DEF Jobs
  <2>3. Left(job'[p]) = Left(job[p])
    BY <2>2 DEF Left
  <2> QED BY <1>1, <2>1, <2>2, <2>3 DEF Forward, Rank, Transfers
<1>7. CASE CopyData(p) /\ ~Fails(p)
  <2>1. pc[p] = "copy" /\ pc'[p] = "finish" /\ job'[p] = job[p]
    BY <1>1, <1>7 DEF CopyData, Move
  <2> QED BY <1>1, <2>1 DEF Forward, Rank, Transfers
<1>8. CASE FinishTransfer(p) /\ ~Fails(p)
  <2>1. /\ pc[p] = "finish" /\ pc'[p] \in {"mark", "source"}
        /\ job'[p] = [job[p] EXCEPT !.done = Recorded(job[p])]
    BY <1>1, <1>8 DEF FinishTransfer, Move
  <2>2. job'[p].pending = job[p].pending /\ job'[p].done = job[p].done \cup {job[p].cur.id}
    BY <1>1, <2>1 DEF Jobs, Recorded
  <2>3. Left(job'[p]) \subseteq Left(job[p])
    BY <2>2 DEF Left
  <2>4. job[p].cur \in Left(job[p]) /\ job[p].cur \notin Left(job'[p])
    BY <1>1, <2>1, <2>2 DEF Left, Transfers
  <2> QED BY <2>1, <2>3, <2>4 DEF Forward, Rank, Transfers
<1>9. CASE MarkDone(p) /\ ~Fails(p)
  <2>1. pc[p] = "mark" /\ pc'[p] = "return" /\ job'[p] = [job[p] EXCEPT !.ok = TRUE]
    BY <1>1, <1>9 DEF MarkDone, Move
  <2>2. job'[p].pending = job[p].pending /\ job'[p].done = job[p].done
    BY <1>1, <2>1 DEF Jobs
  <2> QED BY <2>1, <2>2 DEF Left, Forward, Rank, Transfers
<1>10. CASE CloseAll(p)
  BY <1>1, <1>10 DEF CloseAll, Move, Forward, Transfers
<1>11. pc[p] \in {"idle", "return"} => ~ListPending(p) /\ ~CreateTarget(p) /\ ~CopyData(p)
                                     /\ ~FinishTransfer(p) /\ ~MarkDone(p)
  BY DEF ListPending, CreateTarget, CopyData, FinishTransfer, MarkDone
<1> QED BY <1>2, <1>3, <1>4, <1>5, <1>6, <1>7, <1>8, <1>9, <1>10, <1>11 DEF Step

LEMMA AdvanceInvNext ==
  ASSUME AdvanceInv, [Next]_vars
  PROVE  AdvanceInv' /\ \A p \in Procs : pc[p] # "idle" => Forward(p)
<1>1. FlushInv'
  BY FlushInvNext DEF AdvanceInv
<1>2. ASSUME NEW p \in Procs
      PROVE  /\ pc[p] # "idle" => Forward(p)
             /\ pc'[p] \in Transfers => job'[p].cur \in Left(job'[p])
  <2>1. CASE UNCHANGED vars
    BY <2>1 DEF vars, AdvanceInv, Forward
  <2>2. CASE Step(p)
    BY <2>2, StepForward
  <2>3. ASSUME NEW n \in Names, StartFlush(p, n) PROVE pc[p] = "idle" /\ pc'[p] = "list"
    BY <2>3 DEF StartFlush, Move, AdvanceInv, FlushInv, TypeOK
  <2>4. CASE Next /\ ~Step(p) /\ ~\E n \in Names : StartFlush(p, n)
    BY <2>4, OtherSteps DEF AdvanceInv, Forward, Transfers
  <2> QED BY <2>1, <2>2, <2>3, <2>4 DEF Transfers
<1> QED BY <1>1, <1>2 DEF AdvanceInv

\* A flush goes through its pending files once each: every step is a later call, or the
\* next round with fewer files left, or the end.
THEOREM FlushesAdvance == Spec => FlushAdvances
<1>1. Init => AdvanceInv
  BY FlushInvInit DEF Init, AdvanceInv, Transfers
<1>2. AdvanceInv /\ [Next]_vars => AdvanceInv'
  BY AdvanceInvNext
<1>3. AdvanceInv /\ [Next]_vars =>
        [\A p \in Procs :
           pc[p] # "idle" =>
             \/ UNCHANGED <<pc[p], job[p]>>
             \/ pc'[p] = "idle"
             \/ pc[p] = "list" /\ pc'[p] \in {"source", "return"}
             \/ Rank(pc[p]) < Rank(pc'[p]) /\ Left(job'[p]) \subseteq Left(job[p])
             \/ /\ pc[p] = "finish" /\ pc'[p] = "source"
                /\ Left(job'[p]) \subseteq Left(job[p]) /\ Left(job'[p]) # Left(job[p])]_vars
  BY AdvanceInvNext DEF Forward
<1> QED BY <1>1, <1>2, <1>3, PTL DEF Spec, FlushAdvances

(***************************************************************************)
(* The keys of the tables.                                                 *)
(***************************************************************************)
KeyInv == FlushInv /\ UniqueKeys(db)

Tables == TablesOver(Names, Dirs \cup Paths, Machines)

LEMMA DatabasesAreTables == Databases \subseteq Tables
BY DEF Databases, Tables, TablesOver, WatcherRows, FileRows, RedirectionRows

LEMMA KeyInvInit == Init => KeyInv
<1> SUFFICES ASSUME Init PROVE UniqueKeys(db)
  BY FlushInvInit DEF KeyInv
<1>1. db.watchers = Watchers /\ db.files = {} /\ db.redirections = {}
  BY DEF Init, EmptyDB
<1> QED BY <1>1, KeyedWatchers DEF UniqueKeys

LEMMA KeyInvNext == KeyInv /\ [Next]_vars => KeyInv'
<1> SUFFICES ASSUME KeyInv, [Next]_vars PROVE UniqueKeys(db)'
  BY FlushInvNext DEF KeyInv
<1>1. db \in Tables /\ UniqueKeys(db)
  BY DatabasesAreTables DEF KeyInv, FlushInv, TypeOK
<1>2. CASE UNCHANGED db
  BY <1>1, <1>2
<1>3. ASSUME NEW p \in Procs, MarkDone(p) PROVE UniqueKeys(db)' \/ UNCHANGED db
  BY <1>1, <1>3, UpdatesKeepKeys DEF MarkDone, Tables
<1>4. ASSUME NEW n \in Names, NEW t \in Targets, NEW m \in Machines, CreateRedirection(n, t, m)
      PROVE  UniqueKeys(db)'
  BY <1>1, <1>4, InsertsKeepKeys DEF CreateRedirection, Statement, Tables
<1>5. ASSUME NEW n \in Names, NEW t \in Targets, UpdateRedirectionHandler(n, t)
      PROVE  UniqueKeys(db)'
  BY <1>1, <1>5, UpdatesKeepKeys DEF UpdateRedirectionHandler, Statement, Tables
<1>6. ASSUME NEW n \in Names, DeleteRedirectionHandler(n) PROVE UniqueKeys(db)'
  BY <1>1, <1>6, DeletesKeepKeys DEF DeleteRedirectionHandler, Statement, Tables
<1>7. ASSUME NEW w \in Watchers, NEW S, SyncAdds(w, S) PROVE UniqueKeys(db)'
  <2>1. PICK i \in 1 .. MaxFileId : \E ids \in Numberings(S, i) :
          /\ IsNextRowId(db.files, i)
          /\ db' = InsertFiles(db, w.name, ids, FALSE)
    BY <1>7 DEF SyncAdds, Statement
  <2>2. PICK ids \in Numberings(S, i) :
          /\ IsNextRowId(db.files, i)
          /\ db' = InsertFiles(db, w.name, ids, FALSE)
    BY <2>1
  <2>3. i \in Nat
    BY FlushAssumption
  <2>4. \A x \in S : ids[x] \in Nat /\ ids[x] >= i
    BY <2>3 DEF Numberings
  <2> QED BY <1>1, <2>2, <2>3, <2>4, InsertFilesKeepsKeys DEF Tables
<1>8. ASSUME NEW w \in Watchers, NEW S, SyncRemoves(w, S) PROVE UniqueKeys(db)'
  BY <1>1, <1>8, DeletesKeepKeys DEF SyncRemoves, Statement, Tables
<1>9. CASE ~\E p \in Procs : MarkDone(p)
  <2>1. ASSUME NEW p \in Procs, Step(p) \/ \E n \in Names : StartFlush(p, n) PROVE UNCHANGED db
    BY <1>9, <2>1 DEF Step, ListPending, NextFile, ConnectTarget, CreateTarget, CopyData,
                      FinishTransfer, CloseAll, StartFlush
  <2>2. Environment => UNCHANGED db
    BY DEF Environment, ChangeSource, Crash
  <2>3. CASE Handlers
    BY <1>4, <1>5, <1>6, <1>7, <1>8, <2>3 DEF Handlers
  <2> QED BY <1>2, <2>1, <2>2, <2>3 DEF Next, vars
<1> QED BY <1>2, <1>3, <1>9

(***************************************************************************)
(* What a flush marks.  It knows the rows it has listed by their ids alone *)
(* (MarksWhatItCopied, which IdReuse.cfg refutes): the keys of the tables  *)
(* make that right for as long as none of these ids is without a row.      *)
(***************************************************************************)
\* Every file on the list of a running flush still has a row with its id.
ListedIdsInUse ==
  \A p \in Procs : \A pf \in job[p].pending : \E f \in db.files : f.id = pf.id

\* That row is the row of that file, and only what is listed is done.
Remembered(p) ==
  /\ \A pf \in job[p].pending : \E f \in db.files : f.id = pf.id /\ f.path = pf.path
  /\ \A i \in job[p].done : \E pf \in job[p].pending : pf.id = i
  /\ pc[p] = "list" => job[p].done = {}

ListInv == AdvanceInv /\ UniqueKeys(db) /\ \A p \in Procs : Remembered(p)

\* A row that has its id still has its path: ids do not move, and while a row is
\* there its id is not given out.
LEMMA RowsKeepPaths ==
  ASSUME KeyInv, [Next]_vars, NEW f \in db.files, \E g \in db'.files : g.id = f.id
  PROVE  \E g \in db'.files : g.id = f.id /\ g.path = f.path
<1>1. db \in Databases /\ f \in FileRows /\ \A g \in db.files : g.id = f.id => g = f
  BY DEF KeyInv, FlushInv, TypeOK, Databases, UniqueKeys
<1>2. CASE f \in db'.files
  BY <1>2
<1>3. CASE db'.files \subseteq db.files
  BY <1>1, <1>3
<1>4. ASSUME NEW ids, db' = MarkFlushed(db, ids)
      PROVE  \E g \in db'.files : g.id = f.id /\ g.path = f.path
  <2> DEFINE g == IF f.id \in ids THEN [f EXCEPT !.flushed = TRUE] ELSE f
  <2>1. g \in db'.files
    BY <1>1, <1>4 DEF MarkFlushed, Databases
  <2>2. g.id = f.id /\ g.path = f.path
    BY <1>1 DEF FileRows
  <2> QED BY <2>1, <2>2
<1>5. CASE UNCHANGED db
  BY <1>2, <1>5
<1>6. ASSUME NEW p \in Procs, MarkDone(p)
      PROVE  UNCHANGED db \/ \E ids : db' = MarkFlushed(db, ids)
  BY <1>6 DEF MarkDone
<1>7. ASSUME NEW p \in Procs, ~MarkDone(p), Step(p) \/ \E n \in Names : StartFlush(p, n)
      PROVE  UNCHANGED db
  BY <1>7 DEF Step, ListPending, NextFile, ConnectTarget, CreateTarget, CopyData,
              FinishTransfer, CloseAll, StartFlush
<1>8. ASSUME Handlers PROVE db'.files \subseteq db.files \/ db.files \subseteq db'.files
  <2>1. ASSUME NEW n, NEW t, NEW m PROVE InsertRedirection(db, n, t, m).files = db.files
    BY <1>1 DEF InsertRedirection, Databases
  <2>2. ASSUME NEW n, NEW t PROVE UpdateRedirection(db, n, t).files = db.files
    BY <1>1 DEF UpdateRedirection, Databases
  <2>3. ASSUME NEW n PROVE DeleteRedirection(db, n).files = db.files
    BY <1>1 DEF DeleteRedirection, Databases
  <2>4. ASSUME NEW n, NEW ids PROVE db.files \subseteq InsertFiles(db, n, ids, FALSE).files
    BY <1>1 DEF InsertFiles, Databases
  <2>5. ASSUME NEW n, NEW S PROVE DeleteFiles(db, n, S).files \subseteq db.files
    BY <1>1 DEF DeleteFiles, Databases
  <2> QED BY <1>8, <2>1, <2>2, <2>3, <2>4, <2>5
      DEF Handlers, CreateRedirection, UpdateRedirectionHandler, DeleteRedirectionHandler,
          SyncAdds, SyncRemoves, Statement
<1>9. Environment => UNCHANGED db
  BY DEF Environment, ChangeSource, Crash
<1> QED BY <1>2, <1>3, <1>4, <1>5, <1>6, <1>7, <1>8, <1>9 DEF Next, vars

\* A list is made once, from the rows that are pending, and then only worked off.
LEMMA ListsMove ==
  ASSUME ListInv, NEW p \in Procs, [Next]_vars
  PROVE  \/ job'[p].pending = {} /\ job'[p].done = {}
         \/ /\ pc[p] = "list" /\ pc'[p] # "list" /\ UNCHANGED db
            /\ job'[p].pending = PendingFlushes(db, job[p].name) /\ job'[p].done = job[p].done
         \/ /\ job'[p].pending = job[p].pending /\ (pc'[p] = "list" => pc[p] = "list")
            /\ \/ job'[p].done = job[p].done
               \/ /\ job'[p].done = job[p].done \cup {job[p].cur.id}
                  /\ job[p].cur \in job[p].pending /\ pc'[p] # "list"
<1>1. /\ FlushInv /\ pc \in [Procs -> Steps] /\ job \in [Procs -> Jobs] /\ job[p] \in Jobs
      /\ pc[p] \in Transfers => job[p].cur \in job[p].pending
      /\ pc[p] = "idle" => job[p] = NoJob
  BY DEF ListInv, AdvanceInv, Left, FlushInv, TypeOK, JobOK
<1>2. CASE UNCHANGED vars
  BY <1>2 DEF vars
<1>3. ASSUME Next, ~Step(p), ~\E n \in Names : StartFlush(p, n)
      PROVE  \/ pc'[p] = pc[p] /\ job'[p] = job[p]
             \/ pc'[p] = "idle" /\ job'[p] = NoJob
  BY <1>1, <1>3, OtherSteps
<1>4. NoJob.pending = {} /\ NoJob.done = {}
  BY DEF NoJob
<1>5. ASSUME NEW n \in Names, StartFlush(p, n) PROVE job'[p].pending = {} /\ job'[p].done = {}
  <2>1. job'[p] = [NoJob EXCEPT !.name = n]
    BY <1>1, <1>5 DEF StartFlush, Move
  <2> QED BY <2>1 DEF NoJob
<1>6. ASSUME Fails(p), pc[p] \notin {"idle", "list"}
      PROVE  job'[p].pending = job[p].pending /\ job'[p].done = job[p].done /\ pc'[p] # "list"
  BY <1>1, <1>6 DEF Fails, Move
<1>7. CASE ListPending(p)
  <2>1. pc[p] = "list" /\ UNCHANGED db
    BY <1>7 DEF ListPending
  <2>2. /\ pc'[p] # "list"
        /\ \/ job'[p] = [job[p] EXCEPT !.ok = TRUE]
           \/ job'[p] = [job[p] EXCEPT !.pending = PendingFlushes(db, job[p].name)]
           \/ job'[p] = job[p]
    BY <1>1, <1>7 DEF ListPending, Fails, Move
  <2>3. /\ job'[p].done = job[p].done
        /\ job'[p].pending \in {job[p].pending, PendingFlushes(db, job[p].name)}
    BY <1>1, <2>2 DEF Jobs
  <2> QED BY <2>1, <2>2, <2>3
<1>8. ASSUME NEW m, NEW to \in {"target", "create"}, NEW j \in Jobs, Get(p, m, to, j),
             pc[p] \notin {"idle", "list"},
             j.pending = job[p].pending, j.done = job[p].done
      PROVE  job'[p].pending = job[p].pending /\ job'[p].done = job[p].done /\ pc'[p] # "list"
  <2>1. CASE Fails(p)
    BY <1>6, <1>8, <2>1
  <2>2. CASE ~Fails(p)
    <3>1. pc'[p] = to /\ (job'[p] = j \/ job'[p] = [j EXCEPT !.pool = @ \cup {m}])
      BY <1>1, <1>8, <2>2 DEF Get, Move
    <3> QED BY <1>8, <3>1 DEF Jobs
  <2> QED BY <2>1, <2>2
<1>9. ASSUME NEW pf \in job[p].pending, NextFile(p, pf)
      PROVE  job'[p].pending = job[p].pending /\ job'[p].done = job[p].done /\ pc'[p] # "list"
  <2> DEFINE j == [job[p] EXCEPT !.cur = pf]
  <2>1. j \in Jobs /\ j.pending = job[p].pending /\ j.done = job[p].done
    BY <1>1, <1>9 DEF Jobs
  <2>2. Get(p, pf.machine, "target", j) /\ pc[p] = "source"
    BY <1>9 DEF NextFile
  <2> HIDE DEF j
  <2> QED BY <1>8, <2>1, <2>2
<1>10. CASE ConnectTarget(p)
  BY <1>1, <1>8, <1>10 DEF ConnectTarget
<1>11. CASE CreateTarget(p) \/ CopyData(p) \/ MarkDone(p)
  <2>1. pc[p] \in {"create", "copy", "mark"}
    BY <1>11 DEF CreateTarget, CopyData, MarkDone
  <2>2. CASE Fails(p)
    BY <1>6, <2>1, <2>2
  <2>3. CASE ~Fails(p)
    <3>1. /\ pc'[p] # "list"
          /\ \/ job'[p] = job[p]
             \/ job'[p] = [job[p] EXCEPT !.ok = TRUE]
             \/ job'[p] = [job[p] EXCEPT !.opened = SourceOf(job[p].cur)]
      BY <1>1, <1>11, <2>3 DEF CreateTarget, CopyData, MarkDone, Move
    <3> QED BY <1>1, <3>1 DEF Jobs
  <2> QED BY <2>2, <2>3
<1>12. CASE FinishTransfer(p)
  <2>1. pc[p] = "finish" /\ job[p].cur \in job[p].pending
    BY <1>1, <1>12 DEF FinishTransfer, Transfers
  <2>2. CASE Fails(p)
    BY <1>6, <2>1, <2>2
  <2>3. CASE ~Fails(p)
    <3>1. pc'[p] # "list" /\ job'[p] = [job[p] EXCEPT !.done = @ \cup {job[p].cur.id}]
      BY <1>1, <1>12, <2>3 DEF FinishTransfer, Recorded, Move
    <3>2. job'[p].pending = job[p].pending /\ job'[p].done = job[p].done \cup {job[p].cur.id}
      BY <1>1, <3>1 DEF Jobs
    <3> QED BY <2>1, <3>1, <3>2
  <2> QED BY <2>2, <2>3
<1>13. CASE CloseAll(p)
  BY <1>1, <1>4, <1>13 DEF CloseAll, Move
<1> QED BY <1>2, <1>3, <1>4, <1>5, <1>7, <1>9, <1>10, <1>11, <1>12, <1>13 DEF Step

LEMMA ListInvNext ==
  ASSUME ListInv, [Next]_vars, ListedIdsInUse'
  PROVE  ListInv'
<1>1. KeyInv /\ KeyInv' /\ AdvanceInv'
  BY KeyInvNext, AdvanceInvNext DEF ListInv, AdvanceInv, KeyInv
<1>2. ASSUME NEW p \in Procs PROVE Remembered(p)'
  <2>1. \A pf \in job'[p].pending : \E g \in db'.files : g.id = pf.id
    BY DEF ListedIdsInUse
  <2>2. CASE job'[p].pending = {} /\ job'[p].done = {}
    BY <2>2 DEF Remembered
  <2>3. CASE /\ pc[p] = "list" /\ pc'[p] # "list" /\ UNCHANGED db
             /\ job'[p].pending = PendingFlushes(db, job[p].name) /\ job'[p].done = job[p].done
    <3>1. \A pf \in PendingFlushes(db, job[p].name) :
            \E f \in db.files : f.id = pf.id /\ f.path = pf.path
      BY DEF PendingFlushes, FilesOf
    <3> QED BY <2>3, <3>1 DEF ListInv, Remembered
  <2>4. CASE /\ job'[p].pending = job[p].pending /\ (pc'[p] = "list" => pc[p] = "list")
             /\ \/ job'[p].done = job[p].done
                \/ /\ job'[p].done = job[p].done \cup {job[p].cur.id}
                   /\ job[p].cur \in job[p].pending /\ pc'[p] # "list"
    <3>1. ASSUME NEW pf \in job[p].pending
          PROVE  \E g \in db'.files : g.id = pf.id /\ g.path = pf.path
      <4>1. PICK f \in db.files : f.id = pf.id /\ f.path = pf.path
        BY DEF ListInv, Remembered
      <4>2. \E g \in db'.files : g.id = f.id
        BY <2>1, <2>4, <4>1
      <4> QED BY <1>1, <4>1, <4>2, RowsKeepPaths
    <3>2. \A i \in job'[p].done : \E pf \in job[p].pending : pf.id = i
      BY <2>4 DEF ListInv, Remembered
    <3>3. pc'[p] = "list" => job'[p].done = {}
      BY <2>4 DEF ListInv, Remembered
    <3> QED BY <2>4, <3>1, <3>2, <3>3 DEF Remembered
  <2> QED BY <2>2, <2>3, <2>4, ListsMove
<1> QED BY <1>1, <1>2 DEF ListInv, KeyInv

LEMMA MarksListed ==
  ASSUME ListInv, NEW p \in Procs, MarkDone(p), NEW f \in db.files, ~f.flushed,
         [f EXCEPT !.flushed = TRUE] \in db'.files
  PROVE  \E pf \in job[p].pending : pf.id = f.id /\ pf.path = f.path
<1> DEFINE marked == [f EXCEPT !.flushed = TRUE]
<1>1. db \in Databases /\ f \in FileRows /\ \A g \in db.files : g.id = f.id => g = f
  BY DEF ListInv, AdvanceInv, FlushInv, TypeOK, Databases, UniqueKeys
<1>2. marked.id = f.id /\ marked.flushed /\ marked \notin db.files
  BY <1>1 DEF FileRows
<1>3. db' = MarkFlushed(db, job[p].done)
  BY <1>2 DEF MarkDone
<1>4. f.id \in job[p].done
  <2>1. PICK g \in db.files :
          marked = IF g.id \in job[p].done THEN [g EXCEPT !.flushed = TRUE] ELSE g
    BY <1>1, <1>3 DEF MarkFlushed, Databases
  <2>2. g.id \in job[p].done /\ g \in FileRows
    BY <1>1, <1>2, <2>1 DEF Databases
  <2>3. marked.id = g.id
    BY <2>1, <2>2 DEF FileRows
  <2> QED BY <1>2, <2>2, <2>3
<1>5. PICK pf \in job[p].pending : pf.id = f.id
  BY <1>4 DEF ListInv, Remembered
<1> QED BY <1>1, <1>5 DEF ListInv, Remembered

\* A flush marks only rows whose files it had on its list, unless one of the listed ids
\* was without a row for a moment: the removal of a listed row during the flush is the
\* only way to the wrong mark, whatever else syncs, redirection handlers, other flushes
\* and users do meanwhile.
THEOREM MarksAreRight == Spec /\ []ListedIdsInUse => MarksWhatItCopied
<1>1. Init => ListInv
  BY KeyInvInit DEF Init, ListInv, AdvanceInv, KeyInv, Transfers, Remembered, NoJob
<1>2. ListInv /\ [Next]_vars /\ ListedIdsInUse' => ListInv'
  BY ListInvNext
<1>3. ListInv /\ [Next]_vars =>
        [\A p \in Procs :
           MarkDone(p) =>
             \A f \in db.files :
               ~f.flushed /\ [f EXCEPT !.flushed = TRUE] \in db'.files =>
                 \E pf \in job[p].pending : pf.id = f.id /\ pf.path = f.path]_vars
  BY MarksListed
<1> QED BY <1>1, <1>2, <1>3, PTL DEF Spec, MarksWhatItCopied

(***************************************************************************)
(* What an undisturbed flush has done when it succeeds (FlushOutcome).     *)
(***************************************************************************)
Working == {"source", "target", "create", "copy", "finish", "mark"}
Transfer == {"target", "create", "copy", "finish"}

\* What pf's source held when the flush was asked for.
Asked(p, pf) == before[p][pf.machine][pf.path]

\* No source has changed, the files done so far are copied, and the one in
\* transfer is a pending file whose destination is as far as the step says.
Transferring(p) ==
  LET j == job[p]
  IN  /\ \A pf \in j.pending : SourceOf(pf) = Asked(p, pf)
      /\ \A pf \in j.pending : pf.id \in j.done => Copied(pf) = Asked(p, pf)
      /\ pc[p] \in Transfer => j.cur \in j.pending /\ j.cur.id \notin j.done
      /\ pc[p] = "copy" => SourceOf(j.cur) # Absent /\ Copied(j.cur) = Broken
      /\ pc[p] = "finish" => Copied(j.cur) = Asked(p, j.cur)
      /\ pc[p] = "mark" => \A pf \in j.pending : pf.id \in j.done

OnCourse(p) ==
  /\ pc[p] = "list" => /\ job[p].pending = {} /\ job[p].done = {}
                       /\ \A pf \in Pending(p) : SourceOf(pf) = Asked(p, pf)
  /\ pc[p] \in Working => job[p].pending = Pending(p)
  /\ pc[p] \in Working /\ Apart(job[p].pending) => Transferring(p)
  /\ pc[p] = "return" /\ job[p].ok /\ Apart(job[p].pending) => Delivered(p)

Progress(p) ==
  /\ pc[p] = "idle" => before[p] = store
  /\ job[p].ok => pc[p] = "return"
  /\ alone[p] => OnCourse(p)

OutcomeInv == KeyInv /\ \A p \in Procs : Progress(p)

LEMMA OutcomeInvInit == OutcomeInit => OutcomeInv
BY KeyInvInit DEF OutcomeInit, Init, OutcomeInv, Progress, OnCourse, Working, NoJob

\* p's handler has answered, or the server has stopped.
LEMMA EndStep ==
  ASSUME Record, NEW p \in Procs, pc'[p] = "idle", job'[p] = NoJob
  PROVE  Progress(p)'
BY DEF Record, Progress, OnCourse, Working, NoJob

\* Somebody else's step.
LEMMA OthersStep ==
  ASSUME OutcomeInv, Record, NEW p \in Procs, pc'[p] = pc[p], job'[p] = job[p]
  PROVE  Progress(p)'
<1>1. Progress(p) /\ (pc[p] = "idle" => job[p] = NoJob)
  BY DEF OutcomeInv, KeyInv, FlushInv, JobOK
<1>2. CASE pc[p] = "idle"
  BY <1>1, <1>2, EndStep
<1>3. CASE pc[p] # "idle"
  <2> SUFFICES ASSUME alone'[p] PROVE OnCourse(p)'
    BY <1>1, <1>3 DEF Progress
  <2>1. alone[p] /\ Undisturbed(p) /\ before'[p] = before[p]
    BY <1>3 DEF Record
  <2>2. /\ Pending(p)' = Pending(p)
        /\ \A pf \in Pending(p) : SourceOf(pf)' = SourceOf(pf)
        /\ \A pf \in job[p].pending : SourceOf(pf)' = SourceOf(pf) /\ Copied(pf)' = Copied(pf)
    BY <2>1 DEF Undisturbed, Moved, Concerned
  <2>3. OnCourse(p)
    BY <1>1, <2>1 DEF Progress
  <2>4. \A pf : Asked(p, pf)' = Asked(p, pf)
    BY <2>1 DEF Asked
  <2>5. ASSUME Transferring(p) PROVE Transferring(p)'
    <3>1. pc[p] \in Transfer => job[p].cur \in job[p].pending
      BY <2>5 DEF Transferring
    <3>2. pc[p] \in Transfer =>
            SourceOf(job[p].cur)' = SourceOf(job[p].cur) /\ Copied(job[p].cur)' = Copied(job[p].cur)
      BY <2>2, <3>1
    <3> QED BY <2>2, <2>4, <2>5, <3>2 DEF Transferring, Transfer
  <2>6. Delivered(p) => Delivered(p)'
    BY <2>1, <2>2 DEF Delivered
  <2> QED BY <2>2, <2>3, <2>4, <2>5, <2>6 DEF OnCourse
<1> QED BY <1>2, <1>3

\* A step that p's own handler makes was made alone only if all before were.
LEMMA OwnStep ==
  ASSUME OutcomeInv, Record, NEW p \in Procs, pc'[p] # "idle", job'[p].ok => pc'[p] = "return",
         alone[p] /\ before'[p] = before[p] /\ OnCourse(p) => OnCourse(p)'
  PROVE  Progress(p)'
BY DEF OutcomeInv, Progress, Record

\* A run that fails promises nothing.
LEMMA FailedRun ==
  ASSUME OutcomeInv, Record, NEW p \in Procs, pc[p] # "return", Fails(p)
  PROVE  Progress(p)'
<1>1. pc'[p] = "return" /\ job'[p] = job[p] /\ ~job[p].ok
  BY DEF Fails, Move, OutcomeInv, Progress, KeyInv, FlushInv, TypeOK
<1>2. OnCourse(p)'
  BY <1>1 DEF OnCourse, Working
<1> QED BY <1>1, <1>2, OwnStep

\* Every destination and source of the pending files is a file of the store.
LEMMA PendingFiles ==
  ASSUME OutcomeInv, NEW p \in Procs, NEW pf \in job[p].pending
  PROVE  /\ pf \in PendingRows
         /\ pf.machine \in Machines /\ pf.targetMachine \in Machines
         /\ pf.path \in Paths /\ Destination(pf) \in Paths
<1>1. pf \in PendingRows
  BY DEF OutcomeInv, KeyInv, FlushInv, TypeOK, Jobs
<1> QED BY <1>1, DestinationType DEF PendingRows

\* Writing the destination of one pending file touches no source and no other
\* destination, if they are apart.
LEMMA WriteApart ==
  ASSUME OutcomeInv, NEW p \in Procs, Apart(job[p].pending), NEW cur \in job[p].pending, NEW c,
         Write(cur.targetMachine, Destination(cur), c)
  PROVE  /\ \A pf \in job[p].pending : SourceOf(pf)' = SourceOf(pf)
         /\ \A pf \in job[p].pending \ {cur} : Copied(pf)' = Copied(pf)
         /\ Copied(cur)' = c
<1>1. store \in [Machines -> [Paths -> Contents]]
  BY DEF OutcomeInv, KeyInv, FlushInv, TypeOK
<1>2. cur.targetMachine \in Machines /\ Destination(cur) \in Paths
  BY PendingFiles
<1>3. \A m \in Machines, path \in Paths :
        store'[m][path] = IF m = cur.targetMachine /\ path = Destination(cur)
                          THEN c ELSE store[m][path]
  BY <1>1, <1>2 DEF Write
<1>4. \A pf \in job[p].pending :
        /\ pf.machine \in Machines /\ pf.targetMachine \in Machines
        /\ pf.path \in Paths /\ Destination(pf) \in Paths
  BY PendingFiles
<1>5. \A pf \in job[p].pending : ~(cur.targetMachine = pf.machine /\ Destination(cur) = pf.path)
  BY DEF Apart
<1>6. \A pf \in job[p].pending \ {cur} : Destination(pf) # Destination(cur)
  BY DEF Apart
<1>7. \A pf \in job[p].pending : SourceOf(pf)' = SourceOf(pf)
  BY <1>3, <1>4, <1>5 DEF SourceOf, At
<1>8. \A pf \in job[p].pending \ {cur} : Copied(pf)' = Copied(pf)
  BY <1>3, <1>4, <1>6 DEF Copied, At
<1>9. Copied(cur)' = c
  BY <1>2, <1>3 DEF Copied, At
<1> QED BY <1>7, <1>8, <1>9

LEMMA StartStep ==
  ASSUME OutcomeInv, Record, NEW p \in Procs, NEW n \in Names, StartFlush(p, n)
  PROVE  Progress(p)'
<1>1. /\ pc[p] = "idle" /\ job[p] = NoJob /\ pc'[p] = "list" /\ UNCHANGED <<db, store>>
      /\ job'[p] = [job[p] EXCEPT !.name = n] /\ before[p] = store
  BY DEF StartFlush, Move, OutcomeInv, Progress, KeyInv, FlushInv, TypeOK, JobOK
<1>2. job'[p].pending = {} /\ job'[p].done = {} /\ ~job'[p].ok
  BY <1>1 DEF NoJob
<1>3. ASSUME before'[p] = before[p] PROVE OnCourse(p)'
  BY <1>1, <1>2, <1>3 DEF OnCourse, Working, SourceOf, At, Asked
<1> QED BY <1>1, <1>2, <1>3, OwnStep

LEMMA ListStep ==
  ASSUME OutcomeInv, Record, NEW p \in Procs, ListPending(p)
  PROVE  Progress(p)'
<1> DEFINE listed == Pending(p)
<1>1. /\ pc[p] = "list" /\ UNCHANGED <<db, store>> /\ job[p] \in Jobs /\ ~job[p].ok
  BY DEF ListPending, OutcomeInv, Progress, KeyInv, FlushInv, TypeOK
<1>2. CASE Fails(p)
  BY <1>1, <1>2, FailedRun
<1>3. CASE listed = {} /\ Move(p, "return", [job[p] EXCEPT !.ok = TRUE])
  <2>1. pc'[p] = "return" /\ job'[p] = [job[p] EXCEPT !.ok = TRUE]
    BY <1>3 DEF Move, OutcomeInv, KeyInv, FlushInv, TypeOK
  <2>2. job'[p].pending = job[p].pending /\ job'[p].name = job[p].name /\ Pending(p)' = Pending(p)
    BY <1>1, <2>1 DEF Jobs, Pending
  <2>3. ASSUME OnCourse(p) PROVE OnCourse(p)'
    BY <1>1, <1>3, <2>1, <2>2, <2>3 DEF OnCourse, Working, Delivered
  <2> QED BY <1>1, <2>1, <2>3, OwnStep
<1>4. CASE listed # {} /\ Move(p, "source", [job[p] EXCEPT !.pending = listed])
  <2>1. pc'[p] = "source" /\ job'[p] = [job[p] EXCEPT !.pending = listed]
    BY <1>4 DEF Move, OutcomeInv, KeyInv, FlushInv, TypeOK
  <2>2. /\ job'[p].pending = listed /\ job'[p].done = job[p].done
        /\ job'[p].name = job[p].name /\ ~job'[p].ok /\ Pending(p)' = listed
    BY <1>1, <2>1 DEF Jobs, Pending
  <2>3. ASSUME OnCourse(p), before'[p] = before[p] PROVE OnCourse(p)'
    <3>1. job[p].done = {} /\ \A pf \in listed : SourceOf(pf) = Asked(p, pf)
      BY <1>1, <2>3 DEF OnCourse
    <3>2. \A pf \in job'[p].pending : SourceOf(pf)' = Asked(p, pf)'
      BY <1>1, <2>2, <2>3, <3>1 DEF SourceOf, At, Asked
    <3>3. Transferring(p)'
      BY <2>1, <2>2, <3>1, <3>2 DEF Transferring, Transfer
    <3> QED BY <1>1, <2>1, <2>2, <3>3 DEF OnCourse, Working
  <2> QED BY <1>1, <2>1, <2>2, <2>3, OwnStep
<1> QED BY <1>2, <1>3, <1>4 DEF ListPending, Pending

\* Looking a client up changes nothing that matters but, in NextFile, the file.
LEMMA GetOutcome ==
  ASSUME OutcomeInv, Record, NEW p \in Procs, NEW m, NEW to, NEW j \in Jobs,
         Get(p, m, to, j), UNCHANGED <<db, store>>,
         pc[p] \in {"source", "target"}, to \in {"target", "create"},
         j.pending = job[p].pending, j.done = job[p].done, j.name = job[p].name,
         j.ok = job[p].ok,
         alone[p] /\ OnCourse(p) /\ Apart(job[p].pending) =>
           j.cur \in job[p].pending /\ j.cur.id \notin job[p].done
  PROVE  Progress(p)'
<1>1. ~job[p].ok
  BY DEF OutcomeInv, Progress
<1>2. CASE Fails(p)
  BY <1>2, FailedRun
<1>3. CASE Move(p, to, j) \/ Move(p, to, [j EXCEPT !.pool = @ \cup {m}])
  <2>1. pc'[p] = to
    BY <1>3 DEF Move, OutcomeInv, KeyInv, FlushInv, TypeOK
  <2>2. job'[p] = j \/ job'[p] = [j EXCEPT !.pool = @ \cup {m}]
    BY <1>3 DEF Move, OutcomeInv, KeyInv, FlushInv, TypeOK
  <2>3. /\ job'[p].pending = job[p].pending /\ job'[p].done = job[p].done
        /\ job'[p].name = job[p].name /\ ~job'[p].ok /\ job'[p].cur = j.cur
    BY <1>1, <2>2 DEF Jobs
  <2>4. ASSUME alone[p], OnCourse(p), before'[p] = before[p] PROVE OnCourse(p)'
    <3>1. job[p].pending = PendingFlushes(db, job[p].name)
      BY <2>4 DEF OnCourse, Working, Pending
    <3>2. ASSUME Apart(job[p].pending) PROVE Transferring(p)'
      <4>1. Transferring(p)
        BY <2>4, <3>2 DEF OnCourse, Working
      <4>2. j.cur \in job[p].pending /\ j.cur.id \notin job[p].done
        BY <2>4, <3>2
      <4>3. /\ \A pf \in job[p].pending : SourceOf(pf)' = SourceOf(pf)
            /\ \A pf \in job[p].pending : Copied(pf)' = Copied(pf)
            /\ \A pf \in job[p].pending : Asked(p, pf)' = Asked(p, pf)
        BY <2>4 DEF SourceOf, Copied, At, Asked
      <4>4. pc'[p] \in {"target", "create"}
        BY <2>1
      <4> HIDE DEF Transferring
      <4>5. /\ \A pf \in job'[p].pending : SourceOf(pf)' = Asked(p, pf)'
            /\ \A pf \in job'[p].pending : pf.id \in job'[p].done => Copied(pf)' = Asked(p, pf)'
            /\ job'[p].cur \in job'[p].pending /\ job'[p].cur.id \notin job'[p].done
        BY <2>3, <4>1, <4>2, <4>3 DEF Transferring
      <4> QED BY <4>4, <4>5 DEF Transferring
    <3>3. Apart(job[p].pending)' = Apart(job[p].pending)
      BY <2>3 DEF Apart
    <3> QED BY <2>1, <2>3, <3>1, <3>2, <3>3 DEF OnCourse, Working, Pending
  <2> QED BY <2>1, <2>3, <2>4, OwnStep
<1> QED BY <1>2, <1>3 DEF Get

LEMMA NextFileStep ==
  ASSUME OutcomeInv, Record, NEW p \in Procs, NEW pf, NextFile(p, pf)
  PROVE  Progress(p)'
<1> DEFINE j == [job[p] EXCEPT !.cur = pf]
<1>1. /\ pc[p] = "source" /\ pf \in job[p].pending /\ pf.id \notin job[p].done
      /\ Get(p, pf.machine, "target", j) /\ UNCHANGED <<db, store>>
  BY DEF NextFile
<1>2. job[p] \in Jobs /\ pf \in PendingRows
  BY <1>1, PendingFiles DEF OutcomeInv, KeyInv, FlushInv, TypeOK
<1>3. /\ j \in Jobs /\ j.pending = job[p].pending /\ j.done = job[p].done
      /\ j.name = job[p].name /\ j.ok = job[p].ok /\ j.cur = pf
  BY <1>2 DEF Jobs
<1> HIDE DEF j
<1> QED BY <1>1, <1>3, GetOutcome

LEMMA TargetStep ==
  ASSUME OutcomeInv, Record, NEW p \in Procs, ConnectTarget(p)
  PROVE  Progress(p)'
<1>1. /\ pc[p] = "target" /\ UNCHANGED <<db, store>>
      /\ Get(p, job[p].cur.targetMachine, "create", job[p])
  BY DEF ConnectTarget
<1>2. job[p] \in Jobs
  BY DEF OutcomeInv, KeyInv, FlushInv, TypeOK
<1>3. OnCourse(p) /\ Apart(job[p].pending) =>
        job[p].cur \in job[p].pending /\ job[p].cur.id \notin job[p].done
  BY <1>1 DEF OnCourse, Transferring, Working, Transfer
<1> QED BY <1>1, <1>2, <1>3, GetOutcome

\* Create empties the destination, which holds none of the files to be copied and
\* none of the copies made.
LEMMA CreateStep ==
  ASSUME OutcomeInv, Record, NEW p \in Procs, CreateTarget(p)
  PROVE  Progress(p)'
<1> DEFINE cur == job[p].cur
<1>1. /\ pc[p] = "create" /\ UNCHANGED db /\ job[p] \in Jobs /\ ~job[p].ok
  BY DEF CreateTarget, OutcomeInv, Progress, KeyInv, FlushInv, TypeOK
<1>2. CASE Fails(p)
  BY <1>1, <1>2, FailedRun
<1>3. CASE /\ SourceOf(cur) # Absent
           /\ Write(cur.targetMachine, Destination(cur), Broken)
           /\ Move(p, "copy", [job[p] EXCEPT !.opened = SourceOf(cur)])
  <2>1. pc'[p] = "copy" /\ job'[p] = [job[p] EXCEPT !.opened = SourceOf(cur)]
    BY <1>3 DEF Move, OutcomeInv, KeyInv, FlushInv, TypeOK
  <2>2. /\ job'[p].pending = job[p].pending /\ job'[p].done = job[p].done
        /\ job'[p].name = job[p].name /\ ~job'[p].ok /\ job'[p].cur = cur
    BY <1>1, <2>1 DEF Jobs
  <2>3. ASSUME OnCourse(p), before'[p] = before[p], Apart(job[p].pending)
        PROVE  Transferring(p)'
    <3>1. Transferring(p) /\ cur \in job[p].pending /\ cur.id \notin job[p].done
      BY <1>1, <2>3 DEF OnCourse, Transferring, Working, Transfer
    <3>2. /\ \A pf \in job[p].pending : SourceOf(pf)' = SourceOf(pf)
          /\ \A pf \in job[p].pending \ {cur} : Copied(pf)' = Copied(pf)
      BY <1>3, <2>3, <3>1, WriteApart
    <3>3. ASSUME NEW pf, pf = cur
          PROVE  Copied(pf)' = Broken /\ SourceOf(pf)' # Absent
      <4>1. pf \in job[p].pending /\ Write(pf.targetMachine, Destination(pf), Broken)
        BY <1>3, <3>1, <3>3
      <4> QED BY <1>3, <2>3, <3>3, <4>1, WriteApart
    <3>4. \A pf \in job[p].pending : Asked(p, pf)' = Asked(p, pf)
      BY <2>3 DEF Asked
    <3> QED BY <2>1, <2>2, <3>1, <3>2, <3>3, <3>4 DEF Transferring, Transfer
  <2>4. ASSUME OnCourse(p), before'[p] = before[p] PROVE OnCourse(p)'
    BY <1>1, <2>1, <2>2, <2>3, <2>4 DEF OnCourse, Working, Apart, Pending
  <2> QED BY <2>1, <2>2, <2>4, OwnStep
<1> QED BY <1>2, <1>3 DEF CreateTarget

\* The source is still there and no other goroutine wrote the destination: what
\* is copied is the source as it was.
LEMMA CopyStep ==
  ASSUME OutcomeInv, Record, NEW p \in Procs, CopyData(p)
  PROVE  Progress(p)'
<1> DEFINE cur == job[p].cur
           data == Readable(job[p])
<1>1. /\ pc[p] = "copy" /\ UNCHANGED db /\ job[p] \in Jobs /\ ~job[p].ok
  BY DEF CopyData, OutcomeInv, Progress, KeyInv, FlushInv, TypeOK
<1>2. CASE Fails(p)
  BY <1>1, <1>2, FailedRun
<1>3. CASE ~Fails(p)
  <2>1. Move(p, "finish", job[p])
    BY <1>3 DEF CopyData
  <2>2. pc'[p] = "finish" /\ job'[p] = job[p]
    BY <2>1 DEF Move, OutcomeInv, KeyInv, FlushInv, TypeOK
  <2>3. ASSUME OnCourse(p), before'[p] = before[p], Apart(job[p].pending)
        PROVE  Transferring(p)'
    <3>1. /\ Transferring(p) /\ cur \in job[p].pending /\ cur.id \notin job[p].done
          /\ SourceOf(cur) # Absent /\ Copied(cur) = Broken
      BY <1>1, <2>3 DEF OnCourse, Transferring, Working, Transfer
    <3>2. data = SourceOf(cur) /\ data = Asked(p, cur)
      BY <3>1 DEF Readable, Transferring
    <3>3. ~OntoItself(cur) /\ Copied(cur) # Absent
      BY <2>3, <3>1, FlushAssumption DEF Apart, OntoItself
    <3>4. Write(cur.targetMachine, Destination(cur), data)
      BY <1>3, <3>1, <3>3 DEF CopyData
    <3>5. /\ \A pf \in job[p].pending : SourceOf(pf)' = SourceOf(pf)
          /\ \A pf \in job[p].pending \ {cur} : Copied(pf)' = Copied(pf)
      BY <2>3, <3>1, <3>4, WriteApart
    <3>6. ASSUME NEW pf, pf = cur PROVE Copied(pf)' = Asked(p, pf)
      <4>1. pf \in job[p].pending /\ Write(pf.targetMachine, Destination(pf), data)
        BY <3>1, <3>4, <3>6
      <4>2. ASSUME NEW c, c = data PROVE Copied(pf)' = c
        <5>1. Write(pf.targetMachine, Destination(pf), c)
          BY <4>1, <4>2
        <5> QED BY <2>3, <4>1, <5>1, WriteApart
      <4> QED BY <3>2, <3>6, <4>2
    <3>7. \A pf \in job[p].pending : Asked(p, pf)' = Asked(p, pf)
      BY <2>3 DEF Asked
    <3> QED BY <2>2, <3>1, <3>5, <3>6, <3>7 DEF Transferring, Transfer
  <2>4. ASSUME OnCourse(p), before'[p] = before[p] PROVE OnCourse(p)'
    BY <1>1, <2>2, <2>3, <2>4 DEF OnCourse, Working, Apart, Pending
  <2> QED BY <1>1, <2>2, <2>4, OwnStep
<1> QED BY <1>2, <1>3

\* An id stands for one pending file.
LEMMA PendingKeys ==
  ASSUME OutcomeInv, NEW n
  PROVE  \A pf, qf \in PendingFlushes(db, n) : pf.id = qf.id => pf = qf
<1> DEFINE row(f, r, w) == [id |-> f.id, path |-> f.path, machine |-> w.machine,
                            target |-> r.target, targetMachine |-> r.machine]
           F == {x \in FilesOf(db, n) : ~x.flushed}
           R == {x \in db.redirections : x.watcher = n /\ x.machine \in db.machines}
           W == {x \in WatchersNamed(db, n) : x.machine \in db.machines}
<1>1. PendingFlushes(db, n) = {row(f, r, w) : f \in F, r \in R, w \in W}
  BY DEF PendingFlushes
<1>2. /\ \A f, g \in F : f.id = g.id => f = g
      /\ \A r, s \in R : r = s
      /\ \A v, w \in W : v = w
  BY DEF OutcomeInv, KeyInv, UniqueKeys, FilesOf, WatchersNamed
<1>3. \A f, r, w : row(f, r, w).id = f.id
  OBVIOUS
<1> HIDE DEF F, R, W
<1> SUFFICES ASSUME NEW f \in F, NEW r \in R, NEW w \in W, NEW g \in F, NEW s \in R, NEW v \in W,
                    row(f, r, w).id = row(g, s, v).id
             PROVE  row(f, r, w) = row(g, s, v)
  BY <1>1
<1>4. f = g /\ r = s /\ w = v
  BY <1>2, <1>3
<1> QED BY <1>4

LEMMA FinishStep ==
  ASSUME OutcomeInv, Record, NEW p \in Procs, FinishTransfer(p)
  PROVE  Progress(p)'
<1> DEFINE cur == job[p].cur
           done == job[p].done \cup {cur.id}
           all == {pf.id : pf \in job[p].pending} \subseteq done
<1>1. /\ pc[p] = "finish" /\ UNCHANGED <<db, store>> /\ job[p] \in Jobs /\ ~job[p].ok
  BY DEF FinishTransfer, OutcomeInv, Progress, KeyInv, FlushInv, TypeOK
<1>2. CASE Fails(p)
  BY <1>1, <1>2, FailedRun
<1>3. CASE Move(p, IF all THEN "mark" ELSE "source", [job[p] EXCEPT !.done = done])
  <2>1. /\ pc'[p] = (IF all THEN "mark" ELSE "source")
        /\ job'[p] = [job[p] EXCEPT !.done = done]
    BY <1>3 DEF Move, OutcomeInv, KeyInv, FlushInv, TypeOK
  <2>2. /\ job'[p].pending = job[p].pending /\ job'[p].done = done
        /\ job'[p].name = job[p].name /\ ~job'[p].ok
    BY <1>1, <2>1 DEF Jobs
  <2>3. ASSUME OnCourse(p), before'[p] = before[p], Apart(job[p].pending)
        PROVE  Transferring(p)'
    <3>1. Transferring(p) /\ cur \in job[p].pending /\ Copied(cur) = Asked(p, cur)
      BY <1>1, <2>3 DEF OnCourse, Transferring, Working, Transfer
    <3>2. \A pf \in job[p].pending : pf.id = cur.id => pf = cur
      BY <1>1, <2>3, <3>1, PendingKeys DEF OnCourse, Working, Pending
    <3>3. /\ \A pf \in job[p].pending : SourceOf(pf)' = SourceOf(pf)
          /\ \A pf \in job[p].pending : Copied(pf)' = Copied(pf)
          /\ \A pf \in job[p].pending : Asked(p, pf)' = Asked(p, pf)
      BY <1>1, <2>3 DEF SourceOf, Copied, At, Asked
    <3>4. \A pf \in job[p].pending : pf.id \in done => Copied(pf) = Asked(p, pf)
      BY <3>1, <3>2 DEF Transferring
    <3>5. \A pf \in job[p].pending : SourceOf(pf) = Asked(p, pf)
      BY <3>1 DEF Transferring
    <3>6. all => \A pf \in job[p].pending : pf.id \in done
      OBVIOUS
    <3>7. pc'[p] \in {"mark", "source"} /\ (pc'[p] = "mark" => all)
      BY <2>1
    <3> HIDE DEF done, all
    <3> QED BY <2>2, <3>3, <3>4, <3>5, <3>6, <3>7 DEF Transferring, Transfer
  <2>4. ASSUME OnCourse(p), before'[p] = before[p] PROVE OnCourse(p)'
    <3>1. pc'[p] \in {"mark", "source"}
      BY <2>1
    <3> QED BY <1>1, <2>2, <2>3, <2>4, <3>1 DEF OnCourse, Working, Apart, Pending
  <2>5. pc'[p] # "idle"
    BY <2>1
  <2> QED BY <2>2, <2>4, <2>5, OwnStep
<1> QED BY <1>2, <1>3 DEF FinishTransfer, Recorded

\* Nothing was added to what is pending, and all of it is marked.
LEMMA MarkStep ==
  ASSUME OutcomeInv, Record, NEW p \in Procs, MarkDone(p)
  PROVE  Progress(p)'
<1> DEFINE n == job[p].name
<1>1. /\ pc[p] = "mark" /\ UNCHANGED store /\ job[p] \in Jobs /\ ~job[p].ok /\ db \in Databases
  BY DEF MarkDone, OutcomeInv, Progress, KeyInv, FlushInv, TypeOK
<1>2. CASE Fails(p)
  BY <1>1, <1>2, FailedRun
<1>3. CASE db' = MarkFlushed(db, job[p].done) /\ Move(p, "return", [job[p] EXCEPT !.ok = TRUE])
  <2>1. pc'[p] = "return" /\ job'[p] = [job[p] EXCEPT !.ok = TRUE]
    BY <1>3 DEF Move, OutcomeInv, KeyInv, FlushInv, TypeOK
  <2>2. /\ job'[p].pending = job[p].pending /\ job'[p].name = n
    BY <1>1, <2>1 DEF Jobs
  <2>3. ASSUME OnCourse(p), before'[p] = before[p], Apart(job[p].pending)
        PROVE  Delivered(p)'
    <3>1. /\ Transferring(p) /\ job[p].pending = PendingFlushes(db, n)
          /\ \A pf \in job[p].pending : pf.id \in job[p].done
      BY <1>1, <2>3 DEF OnCourse, Transferring, Working, Pending
    <3>2. PendingFlushes(db', n) = {}
      <4>1. /\ db'.files = {IF f.id \in job[p].done THEN [f EXCEPT !.flushed = TRUE] ELSE f :
                              f \in db.files}
            /\ db'.machines = db.machines /\ db'.watchers = db.watchers
            /\ db'.redirections = db.redirections
        BY <1>1, <1>3 DEF MarkFlushed, Databases
      <4>2. \A f \in db'.files : ~f.flushed => f \in db.files /\ f.id \notin job[p].done
        <5>1. \A f \in db.files : [f EXCEPT !.flushed = TRUE].flushed
          BY <1>1 DEF Databases, FileRows
        <5> QED BY <4>1, <5>1
      <4>3. ASSUME NEW f \in db'.files, f.watcher = n, ~f.flushed,
                   NEW r \in db.redirections, r.watcher = n, r.machine \in db.machines,
                   NEW w \in db.watchers, w.name = n, w.machine \in db.machines
            PROVE  FALSE
        <5> DEFINE pf == [id |-> f.id, path |-> f.path, machine |-> w.machine,
                          target |-> r.target, targetMachine |-> r.machine]
        <5>1. pf \in PendingFlushes(db, n)
          BY <4>2, <4>3 DEF PendingFlushes, FilesOf, WatchersNamed
        <5>2. pf.id = f.id
          OBVIOUS
        <5> QED BY <3>1, <4>2, <4>3, <5>1, <5>2
      <4> QED BY <4>1, <4>3 DEF PendingFlushes, FilesOf, WatchersNamed
    <3>3. \A pf \in job[p].pending : Copied(pf)' = Asked(p, pf)'
      BY <1>1, <2>3, <3>1 DEF Transferring, Copied, At, Asked
    <3> QED BY <2>2, <3>2, <3>3 DEF Delivered, Asked, Pending
  <2>4. ASSUME OnCourse(p), before'[p] = before[p] PROVE OnCourse(p)'
    BY <2>1, <2>2, <2>3, <2>4 DEF OnCourse, Working, Apart
  <2> QED BY <2>1, <2>4, OwnStep
<1> QED BY <1>2, <1>3 DEF MarkDone

LEMMA OutcomeInvNext ==
  ASSUME OutcomeInv, [Next /\ Record]_<<vars, history>>
  PROVE  OutcomeInv'
<1>1. KeyInv'
  BY KeyInvNext DEF OutcomeInv
<1>2. CASE UNCHANGED <<vars, history>>
  BY <1>1, <1>2 DEF OutcomeInv, vars, history, Progress, OnCourse, Transferring, Delivered,
                    Pending, SourceOf, Copied, At, Asked
<1>3. CASE Next /\ Record
  <2> SUFFICES ASSUME NEW p \in Procs PROVE Progress(p)'
    BY <1>1 DEF OutcomeInv
  <2>1. CASE ~Step(p) /\ ~\E n \in Names : StartFlush(p, n)
    BY <1>3, <2>1, OtherSteps, OthersStep, EndStep DEF OutcomeInv, KeyInv
  <2>2. CASE CloseAll(p)
    <3>1. pc'[p] = "idle" /\ job'[p] = NoJob
      BY <2>2 DEF CloseAll, Move, OutcomeInv, KeyInv, FlushInv, TypeOK
    <3> QED BY <1>3, <3>1, EndStep
  <2> QED BY <1>3, <2>1, <2>2, StartStep, ListStep, NextFileStep, TargetStep, CreateStep,
             CopyStep, FinishStep, MarkStep DEF Step
<1> QED BY <1>2, <1>3

\* A flush that succeeds undisturbed, among destinations and sources that are all
\* different files, has copied every pending file as it was when the flush was asked
\* for, and left none pending.
THEOREM FlushesDeliver == OutcomeSpec => []DeliversApart
<1>1. OutcomeInv /\ [Next /\ Record]_<<vars, history>> => OutcomeInv'
  BY OutcomeInvNext
<1>2. OutcomeInv => DeliversApart
  BY DEF OutcomeInv, Progress, OnCourse, DeliversApart, Succeeded
<1>3. OutcomeInit => OutcomeInv
  BY OutcomeInvInit
<1> QED BY <1>1, <1>2, <1>3, PTL DEF OutcomeSpec
=============================================================================
