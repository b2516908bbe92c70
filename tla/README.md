# tiny-file-watcher in TLA+

TLA+ modules, TLC runs and TLAPS proofs for `tiny-file-watcher`: a gRPC and web
server (`tfws`) that keeps, in one SQLite database, a list of the files below the
source directories of *watchers*, each on some *machine* reached over SSH, and
copies the files not yet *flushed* to the watcher's *redirection*. Paths below are
relative to `src/`.

## 1. The system

| Component | State | Operations | Talks to |
|---|---|---|---|
| Database (`server/database`) | tables `machines`, `file_watchers`, `watched_files`, `file_redirections`; view `pending_file_flushes` | one SQL statement per repository method, no transaction spans two | everybody below |
| Connection pool (`database/sql` under `database.DB`) | open connections, the `foreign_keys` pragma of each | acquire, run, give back | database |
| `WatcherService` (`server/watcher/service.go`) | `syncLocks`: one mutex per watcher name | create, update, delete, list, sync (unary and streaming) | database, `SyncJob` |
| `SyncJob` (`server/watcher/sync.go`, `tfwignore.go`) | rows listed, rules, walkers queue, `analyzed`, `onDisk`, `addedFiles` | connect, list, load rules, walk, bulk add, bulk remove | database, SFTP |
| `FlushService`, `FlushJob` (`server/flush`) | pending list, ids done, pool of SSH clients | list, dial, transfer (stat, create, copy, chmod), mark, close | database, SFTP on two machines |
| `RedirectionService`, `MachineService` | none | create, update, delete, list | database |
| SSH client (`server/ssh`) | one connection and one SFTP session | dial, close | machines |
| gRPC interceptors (`server/interceptor`) | none | bearer check, logging | every gRPC call |
| Web UI (`server/web`) | session store with a reaper, login state cookies | login, callback, logout, sync and flush buttons, upload, pages | the services, OIDC |
| CLI (`client`) | `~/.tfw/tokens.json` | login, refresh, logout, one request per command with a deadline | server, OIDC |
| Configuration, `internal.Set`, generated code, rendering | none that matters | | |

Every gRPC call and every web request runs on a goroutine of its own. Goroutines
meet in four places only: the database (statement by statement), the per-name
sync locks, the connection pool, and the directories of the watched machines,
which also change by themselves. The process keeps locks, sessions and job locals
in memory; a crash loses them and keeps the database.

**What is hard here.** (1) Two jobs of one watcher, or a job and an administrative
request, interleave between statements; only syncs exclude each other, by the name
in the request, and the initial sync of `flush_existing` does not even do that.
(2) A row read before the lock or before a transfer is used after it, by name or by
an id that SQLite may have given to another row. (3) Any remote call may fail half
way: of a walk, between the INSERT and the DELETE of a sync, in the middle of a
copy. (4) Whether foreign keys hold depends on the connection a statement gets.
(5) Files appear and vanish while they are listed and copied. (6) Loops over data
that grows while it is drained must end, and every path must release what it holds.
`PROJECT.json` lists each of these hazards at its line.

**What makes each component correct.**

- Database: keys are unique, references point to rows that exist.
- Locks: a name's lock is held exactly while a sync of that name runs, and every
  request ends.
- Walk: every read brings its end nearer; it reports only files that were there, and all that were there
  throughout unless a read failed.
- Sync: a path has one row; after a success that nothing but syncs of other watchers
  disturbed the rows are the files, what it added is pending; a second one changes nothing.
- Flush: a row is marked only if its file was copied; a success whose own files nobody
  else touched has delivered every pending file; none is transferred twice; sessions are
  closed.
- Commands: the exit code and the output say what the server did; a request is carried out
  at most once, and never after its answer; an answered command
  leaves nothing behind that turns the next one away; every command ends, and so does
  every handler that has done its work, whatever has become of its client.
- Tokens: `tokens.json` holds what the last login or logout left there, unless a save of
  older tokens, a second one at the same time or an interrupted one has touched it since.
- Sessions: none serves a request after its logout, its expiry or a restart; the reaper
  takes what has expired and nothing else.
- Uploads: one that reports success has left whole files.

## 2. Modules

```
Schema ── SchemaProofs
 ├─ ConnPool ── ConnPoolMC
 │    └─ ConnPoolProofs (with SchemaProofs)
 ├─ SyncService (with Walker)
 │    └─ SyncOutcome ── SyncOutcomeMC
 │         └─ SyncServiceProofs (with SchemaProofs, WalkerProofs)
 ├─ FlushService ── FlushServiceMC
 │    └─ FlushOutcome ── FlushOutcomeMC (with FlushServiceMC)
 │         └─ FlushServiceProofs (with SchemaProofs)
 └─ Command (implements RequestReply) ── CommandMC
      └─ CommandProofs (with SchemaProofs)
Walker ── WalkerProofs
 └─ TreeWalk (implements DirectoryScan) ── TreeWalkMC
      └─ TreeWalkProofs (with WalkerProofs)
WebUI ── WebUIMC, WebUIProofs
```

**Schema** — the database as a record of four sets of rows, and one operator per
SQL statement: `InsertX(db, ...)` is the database afterwards, `CanInsertX` what the
constraints require. `fk` is the pragma of the connection: with it off, references
are not checked and deletes do not cascade. `IsNextRowId` is the rowid rule of
`INTEGER PRIMARY KEY` without `AUTOINCREMENT`: one more than the largest id now in
the table, so a deleted last id comes back. A file's directory and base name are
one path; timestamps and SSH coordinates are left out.

**Walker, TreeWalk, DirectoryScan** — `handleCurrentPaths` and `drainWalker`. A
kr/fs walker descends by itself, and `drainWalker` gives every directory it is
shown a walker of its own as well, so a directory at depth *k* is listed *k*+1
times. A pair `<<v, d>>` is the read of `d` that the walker rooted at `v` has still
to make. `TreeWalk` runs this over files that change and reads that fail;
`DirectoryScan` is the abstract promise: one answer that holds only files that were
present at some instant and, if no read failed, all that were present at every
instant. `ImplementsScan` is the refinement (`failures # {}` ↦ `faulty`, queue
empty ↦ `done`, `onDisk` at the end ↦ `result`).

**SyncService** — the handlers of `WatcherService` with `SyncJob.Run` unfolded into
one step per call that leaves the process:

| `pc` | action | code |
|---|---|---|
| `idle` | `StartSync`, `CreateWatcher` | a request arrives; with `flush_existing` the creating goroutine goes on to `AddExistingFiles` |
| `getWatcher` | `GetWatcher` | service.go 188, 227 |
| `getMachine` | `GetMachine` | 193, 232; 90 for `AddExistingFiles`, which goes on with a nil machine |
| `tryLock` | `TryLock` | `tryAcquireSyncLock` |
| `connect` | `Connect`, `NilMachine` | `openRemoteFS`; with a nil machine the process panics |
| `list` | `ListFiles` | sync.go 123 |
| `rules` | `LoadRules` | 134-139, `LoadIgnore` |
| `walk` | `ReadDirectory`, `SkipDirectory` | 144, one step per directory read |
| `bulkAdd`, `bulkRemove` | `BulkAdd`, `BulkRemove` | `saveUpdates`, two statements |
| `return` | `Return` | the answer and the deferred unlock |

`job[p]` holds the locals (the watcher row read at `getWatcher`, the rows listed,
`onDisk`, `addedFiles`); `clean` is a history field, false once a
directory could not be read or the rules loaded are not those of `.tfwignore`.
`UpdateWatcherHandler`, `DeleteWatcherHandler`, `CreateMachineHandler`,
`DeleteMachineHandler` and `FlushHandler` are handlers of a single write.
`StreamSyncWatcher` differs from `SyncWatcher` by sends whose failure changes only
the status it answers, so both are `StartSync` ... `Return`. Every call but
`TryLock` may fail. `Crash` stops the server at any step.

**SyncOutcome** — adds a history variable to state what a *successful* sync promises:
`alone[p]`, since it took the sync lock, or since its request when it takes none, the rows
of its watcher, the files below its source and the ignore rules have been changed by
nobody but `p` and handlers at work for a watcher of another name. Everything else in the
database and on the disks may change at will, and such a handler is not even asked what it
changes: that it leaves `p`'s rows alone is proved (`ElsewhereStep`) and checked. The
watcher row is read before the lock, so `SyncReconciles` speaks of the row the sync was
given; that row may be out of date by then, and the sync scans the path it names.

**ConnPool** — which connection each statement runs on. `Init` is `Open` with its one
`PRAGMA foreign_keys = ON`; `Acquire` takes a free connection or opens another, whose
pragma is off; `GiveBack` keeps at most `MaxIdle`. `Statement(fk)` is every statement
of the repositories. In SyncService and FlushService the constant `FkModes` stands for
this module: `{TRUE}` when every connection enforces, `{TRUE, FALSE}` otherwise.

**FlushService** — `FlushJob.Run` unfolded: `ListPending`, then per file `NextFile` and
`ConnectTarget` (`clientPool.get`), `CreateTarget` (stat, mkdir, open, and Create, which
truncates), `CopyData`, `FinishTransfer` (chmod, chtimes), then `MarkDone` and
`CloseAll`. The content of a file is a version that somebody wrote whole, or `Broken`.
`sessions` counts the open SSH sessions per goroutine and machine. The handlers of
`RedirectionService`, the two writes of a sync and the users of the watched machines
run beside it. **FlushOutcome** adds history to state what a successful flush delivers:
`alone[p]` says that nobody else has changed what is pending for its watcher or one of the
files it is to read or write, whatever syncs, flushes and users do elsewhere.

**Command** — the command line client against the gRPC server: what `tfw` does before,
during and after a call, what the interceptors do to the call, and how the answer gets
back. `cmd[c]` is the process, `handler[c]` the handler of the call it made last, `wire[c]`
what that handler has sent and the process has not read. A handler ignores its context,
so it may be at work long after the process has gone.

| side | actions | code |
|---|---|---|
| client | `Start`, `Dial` | `root.go` 18, 66; with OIDC the tokens must be readable |
| | `Load`, `Refresh`, `OpenTokens`, `WriteTokens`, `FailWrite` | `GetRequestMetadata` at each call; `os.WriteFile` as its open-and-truncate and its write |
| | `Login`, `Logout` | `login.go`; `os.Remove` takes the name, who has the file open writes on |
| | `Call`, `Receive`, `CutOff`, `Kill`, `Leave` | the call, `Recv` until the status, the deadline or a broken connection |
| server | `Verify` | `unaryAuth`, `streamAuth` |
| | `Query`, `Change`, `Lock` | the handler up to its statement or lock |
| | `JobLog`, `JobDone`, `JobFails` | a sync or flush job: LOG events, and its end |
| | `SendSummary`, `Return`, `Answer` | last LOG, RESULT; deferred unlock; status |
| | `Crash` | the server stops; what is on the wire may be lost |

`Change` uses the statements of Schema. The inside of a job, which SyncService and
FlushService detail, is one step. `updateWatcher` is two calls, as in `watcher.go` 161-171.
`carried` counts how often a request was carried out; `account` is the last login unless a
logout followed; `orderly` is false from the moment a save of older tokens, a second
save at the same time or an interrupted one has touched the file, until a login or logout
puts it right.

**RequestReply** — what the user of a command may rely on, as an abstract specification
with one entry per terminal: whether its command waits or what it has said, whether its
request may yet be carried out, and how often it was. A request is carried out at most once
(`Do`), never after `Tell`; `Tell` is true; a command that gives up says nothing, and its
request may still be carried out. `KeepsContract` is the refinement: `Client` reads the
entry's first field off the process, `Request` adds whether a handler is at work and
`carried`. An error after which the server reads the row again (`Rereads`) maps to
"unknown".

**WebUI** — the store of sessions, login, middleware and uploads of `server/web` with
OIDC on. A tab has one request at a time; tabs of one browser share its two cookies. A
request takes the cookies of the moment it is sent, the response sets them when it
arrives (`Arrive`) or never (`Abandon`). `LookUp` and `Admit` are `requireAuth`: `valid`
reads the expiry under the lock and compares it with the time after it, so anything may
happen between the two. `AcceptUpload`, `CreateFile`, `CopyFile`, `FinishUpload` are
`handleUpload`; `BeginLogin`, `CheckState`, `Exchange`, `CreateSession` are the login;
`Wake` and `Reap` are one turn of `reapLoop`, whose time is older than its lock.
`Restart` loses sessions and requests and keeps cookies and files. `over`, `shared` and
`loggedOut` are history.

The `*MC` modules give the instances their trees and symmetry sets. Definitions
commented `Mutant:` are deliberate mistakes, one for each property of a passing run: TLC
must find the property violated when the definition below is replaced by the mistake.

## 3. Runs

Passing:

| Run | Module | Properties | Instance |
|---|---|---|---|
| Sync | SyncOutcomeMC | `TypeOK`, `LockMatchesSync`, `NoDuplicateRows`, `NoOrphans`, `SyncReconciles` | 2 goroutines, 2 names, 1 watcher row at a time, a subdirectory with 1 file that may be ignored, no `flush_existing` |
| Ends | SyncOutcomeMC | `EveryRequestEnds`, `RequestsAdvance`, `SyncReconciles` | 2 goroutines, 1 name, 1 file, `flush_existing` included |
| TreeWalk | TreeWalkMC | `WalkTypeOK`, `SurvivesOneFailure`, `ImplementsScan`, `WalkEnds`, `WalkAdvances` | 4 directories nested 3 deep, 3 files, one ignored |
| Flush | FlushOutcomeMC | `TypeOK`, `DeliversApart`, `FlushAdvances` | 1 goroutine, 2 base names, target elsewhere or the source itself |
| FlushTwo | FlushServiceMC | `SessionsAreThePool`, `FlushEnds` | 2 goroutines, 2 machines |
| Commands | CommandMC | `TypeOK`, `LeavesNothing`, `AnswerIsTrue`, `TokensFollowAccount`, `CommandEnds`, `FinishedHandlersEnd`, `KeepsContract` | 2 commands at a time, 8 workloads of 2 or 3 kinds of command, OIDC on both sides, a window of 1 event, 2 logins |
| Web | WebUIMC | `TypeOK`, `NoRevival`, `UploadStored`, `SparesLive`, `ExpiredReaped` | 2 tabs of 1 browser, 2 files, 4 workloads, sessions that last 1 tick of 2, 2 sessions, 1 login |

Violated, each a disagreement between the code and a sentence of its documentation,
comments or tests (quoted under `findings` in `PROJECT.json`):

| Run | Property | What happens |
|---|---|---|
| InitialFiles | `InitialFilesPending` | `--flush-existing` is to add the files already on disk "as pending (to be flushed)"; `AddExistingFiles` records them as flushed, so that no flush copies them |
| Duplicates | `NoDuplicateRows` | `AddExistingFiles` runs without the sync lock; a sync beside it tracks the same path twice |
| FailedRead | `SuccessMeansReconciled` | an unreadable directory counts as empty: its rows are deleted, the sync succeeds |
| Orphans | `NoOrphans` (ConnPool) | a second pooled connection has foreign keys off |
| IdReuse | `MarksWhatItCopied` | a flush marks by an id that another row has by now |

What the models have and no run states as a property, because the code makes no such
promise: a sync delayed before its lock works from a replaced source path; of two
flushes the second may truncate a copy of the first and then fail; pending files of one
base name overwrite each other, and a redirection to the source directory empties the
files (`DeliversApart` holds only where destinations and sources are all different); a
command that was cut off leaves its handler at work, so that a retry is refused or carried
out a second time; a logout is undone by the save of a refresh that was under way; two
uploads of one file both report success and leave a mixture; a `.tfwignore` whose reading
stops half way ignores less than it says; between the two calls of `tfw watcher update` the
row may become another's. The properties beside these cases except them by name and say
nothing of them: `alone` and `clean` in `SyncReconciles`, `alone` and `Apart` in
`DeliversApart`, `orderly` in `TokensFollowAccount`, `shared` in `UploadStored`, `Rereads` in
`AnswerIsTrue` and `KeepsContract`. `NoOrphans` in Sync is about `FkModes = {TRUE}`; what a
connection without the pragma does is shown by Orphans alone.

Disagreements that reading shows and no run needs to:

- `client/cmd/watcher.go` 40 goes on: "by default they are recorded as already flushed". By
  default nothing is recorded, and the first sync adds the files as pending. (What it says of
  the flag itself is the finding InitialFiles.)
- `server/watcher/service.go` 181-182 says that a sync diffs against "the current unflushed
  watched_files"; `Run` lists all rows of the watcher (`server/watcher/sync.go` 123), flushed
  or not, and so does `ListFiles`. `SyncReconciles` says what the code and README.md 159 say.
- The test at `server/watcher/service_test.go` 484 is named `FilesAddedAsFlushed` and expects
  (508) that they are added as not flushed.
- With OIDC disabled on both sides every command is answered `Unauthenticated`: the
  interceptor (`server/interceptor/grpc_auth.go` 24) demands a bearer header that the client
  does not send. README.md 117 wants a login only "when `oidc.enabled=true`".
  `Command` has this as `Verify` with both constants false.
- `server/watcher/service.go` 257 says a failed LOG send surfaces through `Run`; it does not.
- `server/web/upload_handler.go` 32 writes an upload to the disk of the server, whatever
  machine the watcher is on.
- `server/web/machine_handler.go` 116 and 129 redirect without the base path.
- README.md names flags and files that the client does not have: `--stream` (163; the flag
  is `--no-stream`), `--target` and `--auto-flush` (174-179), `machine.json` (136, 166).

**Bounds.** `MaxFileId`, `MaxWatcherId`, `MaxLogins`, `MaxSessions` and `MaxTime` bound what
would grow (a step that would need more is not taken); everything else is bounded by the
sets of the instance.

- Ids up to 2 let a row be deleted and its id come back; two goroutines are enough for
  every race named above, because each is between two jobs or between a job and
  single-statement handlers, which need no goroutine of their own in the models. Two names
  are needed for renames and re-creations, a subdirectory for a read that fails while
  another succeeds (Sync). A run that keeps one row and removes another takes two files,
  which together with two names is beyond a run of a few minutes; that case is left to the
  theorem `SyncsReconcile`.
- TreeWalk: three levels are what it takes for a directory to be shown by walkers of two
  ancestors and to be skipped by one of them.
- FlushTwo: two machines, for a redirection to another machine and for sessions that
  differ by machine. Flush: two files, for one that is copied before another fails.
- Orphans: two goroutines and two connections, of which the pool keeps both, as the real one
  does (`MaxIdle` is 2). ConnPool has no passing run: what holds of it is proved.
- Commands: two commands are a command and the one before or beside it. A workload is the
  set of commands the user goes on giving, in any order and without end: tokens (login,
  logout and a query, with expiring tokens), syncs unary and streamed, a creation with its
  initial sync, renaming, deletion, flushes, machines, redirections. Commands on different
  tables do not meet, so the workloads keep them apart. A window of one event makes `Send`
  block at once; two logins are what an older save needs to undo a newer one.
- Web: two tabs suffice, because every race is between a request and the reaper, the clock
  or one other request; two sessions for a login beside a session there is; three moments of
  time for a session that is live, at its limit and over.

Symmetry is used only in runs without temporal properties and only over values the
modules compare for equality.

**Fairness.** No specification has strong fairness, and none makes the environment move:
requests, crashes, changes of files, ticks and kills are never required.

- SyncService, FlushService: weak fairness on each goroutine's `Step`. The Go scheduler runs
  a started handler, and each call it waits for answers or fails; nothing else blocks,
  since `TryLock` answers at once. The SSH dial has no deadline in the code
  (`server/ssh/client.go` 58): with a host that never answers the assumption, and
  `EveryRequestEnds` with it, does not hold.
- Command therefore assumes less: weak fairness on `ClientStep` (the process runs on), on
  `CutOff` (every call has a deadline, from 10 seconds to 5 minutes) and on `LastStep` (a handler that
  has its result sends it and returns). Its statements and its jobs may take for ever;
  `CommandEnds` holds all the same, by the deadline.
- TreeWalk: the loop goes on. WebUI: `Wake` and `Reap`, the goroutine of the reaper and
  its ticker.

## 4. Proofs

All theorems hold for any number of goroutines, names, machines, directories, files,
commands and tabs, under the `ASSUME`s of the modules, which TLC evaluates in the passing
runs (and, for ConnPool, under the hypothesis `PoolAssumption`). Every invariant, every action property and every refinement of a passing run is a
theorem; where one needs more than the assumptions, the theorem says so.

- **SchemaProofs**: each statement keeps the tables' types, keys and (with the pragma on)
  references. These lemmas carry the theorems below; they are about `Schema` alone.
- **WalkerProofs**: what one read does to the queue. `Below` is defined by recursion over the
  tree; its equation for any directory structure (`BelowEquation`) is derived from
  reachability, without assuming a forest. On a forest (`ForestAssumption`, in Walker) no
  walker has two reads of one directory to come (`OnePerWalker`), so `Ahead`, the reads to
  come with all that they will bring, gets smaller with every read (`ListedNearer`,
  `SkippedNearer`): a directory's own walker and the walkers that see it from above are
  counted apart.
- **TreeWalkProofs**. `WalkTypeCorrect`. `WalkImplementsScan` maps each step of the walk to
  a step or stutter of DirectoryScan, using `WalkInv`: no read leaves the root; what is
  kept was inside and present; unless a read failed, everything that was not absent at
  some moment is kept or lies below a read to come. `WalksAdvance` is the variant of the walk.
  `OneFailureIsSurvived` needs the forest too, for a walker may show a directory twice
  otherwise: its `SurvivalInv` says that no walker reads a directory twice, that the top is read first and once, and that
  before any failure everything missing is awaited by two different reads.
- **SyncServiceProofs**. `TypeCorrect` and `LockDiscipline` come from one inductive
  invariant, `LockInv`: `TypeOK` with the type of each local at each step, and
  `LockMatchesSync`. The locals are needed because `Return` unlocks the name the job was
  started with. `OneSyncPerName` is its corollary. `NoDuplicates` (assuming
  `FlushExisting = {FALSE}`) needs `DupInv`: a job that may still insert belongs to a sync
  whose row names the watcher it holds the lock of; while it is between `list` and
  `bulkAdd`, every tracked path of that watcher is one it has listed, because only
  the holder of that lock inserts; and what it wants to add was not listed. Deletions and
  renames only take rows away from under it. The run Duplicates shows that the assumption
  cannot be dropped. `ReferencesKept` (assuming `FkModes = {TRUE}`) is inductive by itself
  with the lemmas of SchemaProofs. `RequestsGoForward` is the variant of a request: a later
  call, or a walk with fewer reads to come. `SyncsReconcile` is the promise of SyncOutcome. Its
  invariant `OutcomeInv` follows an undisturbed job from step to step: the rows are what it
  listed until it inserts; while it walks, what it has not kept of the source lies below a
  read to come (`WalkedSoFar`); after `BulkAdd` the rows are those listed and one per
  added file (`AddedRows`); `BulkRemove` leaves the rest. What a handler of another watcher
  does meanwhile keeps all of this, because every write of a sync names its watcher
  (`WritesOwnRows`, `ElsewhereStep`). Two corollaries say what the tests of the code look
  at: `UpToDateRowsStay`, a sync of an up-to-date watcher changes no row, and
  `SyncLeavesOneRowPerFile` (again without `flush_existing`), one row per file.
- **FlushServiceProofs**. `FlushTypeCorrect`, and `SessionsClosed`: `sessions[p][m]` is 1
  exactly for the members of `p`'s pool while it is not idle; inductive with the type of
  the job. `FlushesAdvance` is the variant of a flush; its `AdvanceInv` adds that the file in
  transfer is one of those left, so that finishing it makes them fewer. `MarksAreRight` says
  how far the finding IdReuse reaches: while every id that a running flush has listed
  belongs to some row (`ListedIdsInUse`), a flush marks only rows of files on its list. The
  argument (`ListInv`) is that no statement changes a row's id or path and that `IsNextRowId`
  gives out no id in use, so the row that has a listed id is the row that was listed.
  `FlushesDeliver` is the promise of FlushOutcome. Ids must be keys for it
  (`KeyInv`, from `KeyedWatchers`), or marking one row would mark another. `Transferring`
  says of an undisturbed job that every source holds what it held, that the files done are
  copied, and how far the one in transfer is; when the loop is over all are done.
- **ConnPoolProofs**. `PoolTypeCorrect`; `KeysAlwaysHold`, whatever the pragma;
  `OneGoroutineKeepsReferences`: with a single goroutine every open connection is the one
  `Open` prepared. The invariant of the last, `PoolInv`, says that there is always a
  connection to take, so that none is opened. All three assume `PoolAssumption`: `NoConn` is no
  connection, the bounds are numbers and the pool keeps at least one connection. The run Orphans shows what a second goroutine does.
- **CommandProofs**. `CommandTypeCorrect`. `NothingIsLeft` and `AnswersAreTrue` follow from
  `CallInv`, which relates the process, its handler and the wire: a status is the last thing
  on the wire and its handler is gone by then (`Exchange`); a lock's holder is between `lock`
  and `return` (`Holds`); and wherever the handler is, what is still to come says what
  `carried` says (`Truth`, `Serves`). `CommandsKeepContract` is the refinement of
  RequestReply, from `CallInv` and `OnceInv`: no handler that
  has not come to its statement or job has carried its request out, whether its command
  still waits or is gone, and every process that dials has a request. Each step is one of four kinds (`OnItsWay`, start or end,
  `HandlerAt`, answer) and maps to a step of that request's entry (`May`) or to none; a server
  stop drops all requests given up at once. `TokensAreAccounts` follows from `TokenInv`: as long as
  the file is orderly only one process has it open, on an empty file, with the tokens of the
  account or those of a login.
- **WebUIProofs**. `WebTypeCorrect`. `SessionsAreSpared`: the time of the reaper is never
  ahead of the clock. `EndedStaysEnded`: ids are given out once, so a session that is gone
  stays gone, and an expiry read before it ended is past already (`SessionInv`).
  `UploadsAreStored`: a file that is saved and not shared is whole, and whoever else has a
  file open knows that it is shared (`UploadInv`).

Only model-checked, since fairness and `ENABLED` are beyond the prover: `EveryRequestEnds`,
`WalkEnds`, `FlushEnds`, `CommandEnds`, `FinishedHandlersEnd`, `ExpiredReaped`. What of the
first three is not about fairness is proved: no step goes back (`RequestsGoForward`,
`WalksAdvance`, `FlushesAdvance`), so each of these loops ends if it is kept running and its
tree or list is finite.

## 5. Plan

Done: Schema, ConnPool, Walker, TreeWalk and DirectoryScan, SyncService and SyncOutcome,
FlushService and FlushOutcome, Command, WebUI, and the theorems of section 4.

What could follow:

- a composition of SyncService and FlushService over one database, in place of the
  single-statement stand-ins each has for the other;
- the SSH session of a sync, counted like those of a flush once the code closes it;
- an abstract store of sessions that WebUI implements, as Command implements RequestReply;
- the sync, flush and machine buttons of WebUI as clients of the services.

## 6. Not modelled

- Rendering of pages, printing, logging and flags; the login page and the debug UI, which
  only render.
- Configuration files and paths, read once at start; generated protocol code;
  `internal.Set`, a map used by one goroutine at a time.
- The gitignore pattern language: the set of ignored files is a parameter.
- Permissions and modification times of copies: their calls are steps that may fail, what
  they set is not kept.
- The number of variables SQLite accepts in a statement: `BulkAdd` may fail at any time
  instead.
- The SSH session of a sync, which nothing closes (`server/watcher/sync.go` 201).
