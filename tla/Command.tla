------------------------------- MODULE Command -------------------------------
(***************************************************************************)
(* The command line client (src/client) against the gRPC server: the       *)
(* tokens file that concurrent commands share, the bearer check of the     *)
(* interceptors, the deadline of each command, and the way an answer, one  *)
(* message or a stream of events, gets from a handler to its command.      *)
(* Sync and flush jobs, which SyncService and FlushService detail, are one *)
(* step here, and the files they track are left out.                       *)
(*                                                                         *)
(* handler[c] is the handler of the call that command c made last.  It is  *)
(* still at work after c has given up: handlers ignore their context.      *)
(***************************************************************************)
EXTENDS Schema, Sequences

CONSTANTS
  Cmds,         \* processes of one user that run tfw
  Names,        \* watcher names
  Machines,     \* machine names
  Paths,        \* source paths and target paths
  Workloads,    \* what the user does: the commands, the watchers that exist before
                \* them, and whether tokens expire meanwhile
  FkModes,      \* values of the foreign_keys pragma among the pool's connections
  ClientOIDC,   \* oidc.enabled of the client
  ServerOIDC,   \* oidc.enabled of the server
  Free,         \* holder of a free sync lock
  Window,       \* events that a stream holds before Send blocks
  MaxLogins,    \* bound: the provider issues no more token sets
  MaxWatcherId  \* bound: an INSERT that needs a larger id fails

\* The commands of tfw that make a call.  "read" is any of list, get, files and
\* pending; updateMachine changes only SSH coordinates, which Schema leaves out.
WatcherOps == {"createWatcher", "updateWatcher", "deleteWatcher"}
MachineOps == {"createMachine", "updateMachine", "deleteMachine"}
RedirectionOps == {"createRedirection", "updateRedirection", "deleteRedirection"}
JobOps == {"sync", "flush"}
CallOps == WatcherOps \cup MachineOps \cup RedirectionOps \cup JobOps \cup {"read"}
TokenOps == {"login", "logout"}

\* "to" is the new name of updateWatcher, "stream" the choice of RPC of sync and
\* flush, "flush" the flag of createWatcher.
Requests == [op : CallOps \cup TokenOps, name : Names, to : Names, path : Paths, machine : Machines,
             stream : BOOLEAN, flush : BOOLEAN]

RowIds == 0 .. MaxWatcherId
WatcherRows == [id : RowIds, name : Names, path : Paths, machine : Machines]

ASSUME CommandAssumption ==
  /\ Workloads \subseteq [requests : SUBSET Requests, watchers : SUBSET WatcherRows, expire : BOOLEAN]
  /\ FkModes \in SUBSET BOOLEAN /\ ClientOIDC \in BOOLEAN /\ ServerOIDC \in BOOLEAN
  /\ Free \notin Cmds
  /\ Window \in Nat \ {0} /\ MaxLogins \in Nat /\ MaxWatcherId \in Nat

VARIABLES
  given,      \* the workload, which does not change
  db,         \* the database (module Schema)
  syncLocks,  \* per name, the command whose handler holds its mutex, or Free
  tokens,     \* ~/.tfw/tokens.json
  issued,     \* the token sets that logins have obtained so far
  cmd,        \* per command, the locals of its process
  handler,    \* per command, the locals of its handler
  wire,       \* per command, what its handler has sent and it has not yet read
  carried,    \* history: how often the request of a command was carried out
  account,    \* history: the last login if no logout followed it, else 0
  orderly     \* history: see OpenTokens

serverVars == <<db, syncLocks, handler>>
tokenVars == <<tokens, issued, account, orderly>>
vars == <<given, db, syncLocks, tokens, issued, cmd, handler, wire, carried, account, orderly>>

(***************************************************************************)
(* Types                                                                   *)
(***************************************************************************)
NoRequest == [op |-> "none"]

\* id is the row that updateWatcher has looked up, login the login whose tokens
\* the process has in hand, linked whether the file it writes still has its name.
NoCommand == [pc |-> "idle", req |-> NoRequest, id |-> 0, login |-> 0, linked |-> FALSE,
              printed |-> 0, exit |-> "none"]
NoHandler == [pc |-> "idle", req |-> NoRequest, id |-> 0, bearer |-> FALSE, status |-> "ok"]

CommandSteps == {"idle", "login", "logout", "dial", "load", "refresh", "save", "write",
                 "call", "wait", "exited"}
HandlerSteps == {"idle", "verify", "work", "lock", "job", "log", "result", "return", "answer"}
Statuses == {"ok", "refused"}
Logins == 0 .. MaxLogins

Commands == [pc : CommandSteps, req : Requests \cup {NoRequest}, id : RowIds,
             login : Logins, linked : BOOLEAN, printed : Nat,
             exit : {"none", "ok", "error", "cut"}]
Handlers == [pc : HandlerSteps, req : Requests \cup {NoRequest}, id : RowIds,
             bearer : BOOLEAN, status : Statuses]
Events == [is : {"log", "result"} \cup Statuses, id : RowIds]

TokenFiles == [is : {"none", "empty", "mixed", "whole"}, login : Logins]
NoTokens == [is |-> "none", login |-> 0]
Whole(l) == [is |-> "whole", login |-> l]
Torn(how) == [is |-> how, login |-> 0]

RedirectionRows == [watcher : Names, target : Paths, machine : Machines]

TypeOK ==
  /\ given \in Workloads
  /\ db \in [machines : SUBSET Machines, watchers : SUBSET WatcherRows, files : {{}},
             redirections : SUBSET RedirectionRows]
  /\ syncLocks \in [Names -> Cmds \cup {Free}]
  /\ tokens \in TokenFiles /\ issued \in Logins
  /\ cmd \in [Cmds -> Commands]
  /\ handler \in [Cmds -> Handlers]
  /\ wire \in [Cmds -> Seq(Events)]
  /\ carried \in [Cmds -> Nat]
  /\ account \in Logins /\ orderly \in BOOLEAN

(***************************************************************************)
(* Helpers                                                                 *)
(***************************************************************************)
\* c's process goes on at pc "to" with its other locals as in j.
Become(c, to, j) == cmd' = [cmd EXCEPT ![c] = [j EXCEPT !.pc = to]]

\* c's process with the locals j ends: with 0 ("ok"), with an error, or with an
\* error because its deadline has passed or its connection is gone ("cut").
Ended(j, how) == [j EXCEPT !.exit = how, !.id = 0, !.login = 0, !.linked = FALSE]
Exit(c, how) == Become(c, "exited", Ended(cmd[c], how))

\* dial attaches TokenCredentials only where OIDC is enabled; they are asked for
\* the header of every call.
NextCall == IF ClientOIDC THEN "load" ELSE "call"

\* c's handler goes on, or answers with an error.
Proceed(c, to) == handler' = [handler EXCEPT ![c].pc = to]
Refuse(c) == handler' = [handler EXCEPT ![c].pc = "return", ![c].status = "refused"]

Asks(c, ops) == handler[c].pc = "work" /\ handler[c].req.op \in ops

\* The client still reads what the handler of its call sends.
Linked(c) == cmd[c].pc = "wait"

\* d has the file open that is now named tokens.json.
HasOpen(d) == cmd[d].pc = "write" /\ cmd[d].linked

Init ==
  /\ given \in Workloads
  /\ db = [EmptyDB EXCEPT !.machines = Machines, !.watchers = given.watchers]
  /\ syncLocks = [n \in Names |-> Free]
  /\ \E l \in Logins \cap {0, 1} :
       /\ tokens = (IF l = 0 THEN NoTokens ELSE Whole(l))
       /\ issued = l /\ account = l
  /\ cmd = [c \in Cmds |-> NoCommand]
  /\ handler = [c \in Cmds |-> NoHandler]
  /\ wire = [c \in Cmds |-> <<>>]
  /\ carried = [c \in Cmds |-> 0]
  /\ orderly = TRUE

(***************************************************************************)
(* The process of a command                                                *)
(***************************************************************************)
\* The user gives the command; login and logout do not dial.
Start(c) ==
  /\ cmd[c].pc = "idle" /\ handler[c].pc = "idle"
  /\ \E r \in given.requests :
       Become(c, IF r.op \in TokenOps THEN r.op ELSE "dial", [NoCommand EXCEPT !.req = r])
  /\ carried' = [carried EXCEPT ![c] = 0]
  /\ UNCHANGED <<given, wire>> /\ UNCHANGED serverVars /\ UNCHANGED tokenVars

\* NewTokenCredentials reads the tokens only to see that they can be read.
Dial(c) ==
  /\ cmd[c].pc = "dial"
  /\ IF ClientOIDC /\ tokens.is # "whole" THEN Exit(c, "error") ELSE Become(c, NextCall, cmd[c])
  /\ UNCHANGED <<given, wire, carried>> /\ UNCHANGED serverVars /\ UNCHANGED tokenVars

AfterLoad == {"call"} \cup (IF given.expire THEN {"refresh"} ELSE {})

\* GetRequestMetadata loads the tokens and sends the id token, or refreshes first
\* when the access token has less than ten seconds left.
Load(c) ==
  /\ cmd[c].pc = "load"
  /\ IF tokens.is = "whole"
     THEN \E to \in AfterLoad : Become(c, to, [cmd[c] EXCEPT !.login = tokens.login])
     ELSE Exit(c, "error")
  /\ UNCHANGED <<given, wire, carried>> /\ UNCHANGED serverVars /\ UNCHANGED tokenVars

\* The provider answers the refresh or, as with a refresh token that another
\* command has used up, refuses it.
Refresh(c) ==
  /\ cmd[c].pc = "refresh"
  /\ Become(c, "save", cmd[c]) \/ Exit(c, "error")
  /\ UNCHANGED <<given, wire, carried>> /\ UNCHANGED serverVars /\ UNCHANGED tokenVars

\* The device flow: the user confirms in a browser, or does not.
Login(c) ==
  /\ cmd[c].pc = "login"
  /\ \/ /\ issued < MaxLogins
        /\ issued' = issued + 1
        /\ Become(c, "save", [cmd[c] EXCEPT !.login = issued + 1])
     \/ Exit(c, "error") /\ UNCHANGED issued
  /\ UNCHANGED <<given, wire, carried, tokens, account, orderly>> /\ UNCHANGED serverVars

\* A failed save ends a login; a refresh only prints a warning and goes on.
GoOnUnsaved(c) == IF cmd[c].req.op = "login" THEN Exit(c, "error") ELSE Become(c, "call", cmd[c])

\* os.WriteFile opens tokens.json, creating or truncating it.  From there on the
\* file may say something else than the last login or logout (orderly is FALSE)
\* if the tokens stem from an earlier login or another process has the file open.
OpenTokens(c) ==
  /\ cmd[c].pc = "save"
  /\ \/ /\ tokens' = Torn("empty")
        /\ Become(c, "write", [cmd[c] EXCEPT !.linked = TRUE])
        /\ orderly' = /\ orderly
                      /\ cmd[c].req.op = "login" \/ cmd[c].login = account
                      /\ \A d \in Cmds : ~HasOpen(d)
     \/ /\ GoOnUnsaved(c)
        /\ UNCHANGED <<tokens, orderly>>
  /\ UNCHANGED <<given, wire, carried, issued, account>> /\ UNCHANGED serverVars

\* What a write at the start of the file leaves there: over other bytes the longer
\* of the two may show at the end.
Written(l) == {Whole(l)} \cup (IF tokens.is = "empty" THEN {} ELSE {Torn("mixed")})

\* The write itself; the file may have lost its name to a logout meanwhile.  A
\* login with the file to itself puts it in order again.
WriteTokens(c) ==
  /\ cmd[c].pc = "write"
  /\ IF cmd[c].linked THEN tokens' \in Written(cmd[c].login) ELSE UNCHANGED tokens
  /\ IF cmd[c].req.op = "login"
     THEN /\ Exit(c, "ok")
          /\ account' = (IF cmd[c].linked THEN cmd[c].login ELSE account)
          /\ orderly' = (orderly \/ (cmd[c].linked /\ tokens.is = "empty"
                                      /\ \A d \in Cmds \ {c} : ~HasOpen(d)))
     ELSE Become(c, "call", [cmd[c] EXCEPT !.linked = FALSE]) /\ UNCHANGED <<account, orderly>>
  /\ UNCHANGED <<given, wire, carried, issued>> /\ UNCHANGED serverVars

\* The write fails, and the file stays as it was opened or as others left it.
FailWrite(c) ==
  /\ cmd[c].pc = "write"
  /\ GoOnUnsaved(c)
  /\ orderly' = (orderly /\ ~cmd[c].linked)
  /\ UNCHANGED <<given, wire, carried, issued, tokens, account>> /\ UNCHANGED serverVars

\* Mutant: ClearTokens truncates the file.
LogoutTruncates(c) ==
  /\ cmd[c].pc = "logout"
  /\ tokens' = (IF tokens.is = "none" THEN tokens ELSE Torn("empty"))
  /\ Exit(c, "ok")
  /\ account' = 0 /\ orderly' = TRUE
  /\ UNCHANGED <<given, wire, carried, issued>> /\ UNCHANGED serverVars

\* ClearTokens removes the file; who has it open goes on writing to a file
\* without a name.
Logout(c) ==
  /\ cmd[c].pc = "logout"
  /\ tokens' = NoTokens
  /\ cmd' = [d \in Cmds |-> IF d = c THEN [Ended(cmd[d], "ok") EXCEPT !.pc = "exited"]
                                     ELSE [cmd[d] EXCEPT !.linked = FALSE]]
  /\ account' = 0 /\ orderly' = TRUE
  /\ UNCHANGED <<given, wire, carried, issued>> /\ UNCHANGED serverVars

\* updateWatcher makes two calls: it looks the id up and then updates that row.
Call(c) ==
  /\ cmd[c].pc = "call"
  /\ Become(c, "wait", [cmd[c] EXCEPT !.login = 0])
  /\ handler' = [handler EXCEPT ![c] = [pc |-> "verify", req |-> cmd[c].req, id |-> cmd[c].id,
                                        bearer |-> cmd[c].login # 0, status |-> "ok"]]
  /\ UNCHANGED <<given, db, syncLocks, wire, carried>> /\ UNCHANGED tokenVars

Streams(r) == r.op \in JobOps /\ r.stream

\* Mutant: the command tries again.
RefusedRetries(c) == Become(c, NextCall, cmd[c])

\* A status that is not ok ends the command.
Refused(c) == Exit(c, "error")

\* Mutant: the command ends with the RESULT event.
ReceiveResultOnly(c) ==
  /\ Linked(c) /\ wire[c] # <<>>
  /\ LET e == Head(wire[c])
         more == e.is = "ok" /\ cmd[c].req.op = "updateWatcher" /\ cmd[c].id = 0
         shown == [cmd[c] EXCEPT !.printed = @ + 1]
         last == IF Streams(cmd[c].req) THEN cmd[c] ELSE shown
     IN  CASE e.is = "log" -> Become(c, "wait", cmd[c])
           [] e.is = "result" -> Become(c, "exited", Ended(shown, "ok"))
           [] more -> Become(c, NextCall, [cmd[c] EXCEPT !.id = e.id])
           [] e.is = "ok" /\ ~more -> Become(c, "exited", Ended(last, "ok"))
           [] e.is = "refused" -> Refused(c)
  /\ wire' = [wire EXCEPT ![c] = Tail(@)]
  /\ UNCHANGED <<given, carried>> /\ UNCHANGED serverVars /\ UNCHANGED tokenVars

\* Recv: LOG and RESULT events are printed, the status ends the call.  A unary
\* command prints its one answer when the status is ok.
Receive(c) ==
  /\ Linked(c) /\ wire[c] # <<>>
  /\ LET e == Head(wire[c])
         more == e.is = "ok" /\ cmd[c].req.op = "updateWatcher" /\ cmd[c].id = 0
         shown == [cmd[c] EXCEPT !.printed = @ + 1]
         last == IF Streams(cmd[c].req) THEN cmd[c] ELSE shown
     IN  CASE e.is = "log" -> Become(c, "wait", cmd[c])
           [] e.is = "result" -> Become(c, "wait", shown)
           [] more -> Become(c, NextCall, [cmd[c] EXCEPT !.id = e.id])
           [] e.is = "ok" /\ ~more -> Become(c, "exited", Ended(last, "ok"))
           [] e.is = "refused" -> Refused(c)
  /\ wire' = [wire EXCEPT ![c] = Tail(@)]
  /\ UNCHANGED <<given, carried>> /\ UNCHANGED serverVars /\ UNCHANGED tokenVars

\* Mutant: a context without a deadline; only a broken connection ends the call.
CutOffByCrash(c) ==
  /\ Linked(c) /\ handler[c].pc = "idle" /\ wire[c] = <<>>
  /\ Exit(c, "cut")
  /\ UNCHANGED <<given, wire, carried>> /\ UNCHANGED serverVars /\ UNCHANGED tokenVars

\* The deadline passes or the connection breaks.
CutOff(c) ==
  /\ Linked(c)
  /\ Exit(c, "cut")
  /\ wire' = [wire EXCEPT ![c] = <<>>]
  /\ UNCHANGED <<given, carried>> /\ UNCHANGED serverVars /\ UNCHANGED tokenVars

\* The process is killed; its handler does not notice.
Kill(c) ==
  /\ cmd[c].pc \notin {"idle", "exited"}
  /\ cmd' = [cmd EXCEPT ![c] = NoCommand]
  /\ wire' = [wire EXCEPT ![c] = <<>>]
  /\ orderly' = (orderly /\ ~HasOpen(c))
  /\ UNCHANGED <<given, carried, tokens, issued, account>> /\ UNCHANGED serverVars

\* The user has seen how the command ended.
Leave(c) ==
  /\ cmd[c].pc = "exited"
  /\ cmd' = [cmd EXCEPT ![c] = NoCommand]
  /\ UNCHANGED <<given, wire, carried>> /\ UNCHANGED serverVars /\ UNCHANGED tokenVars

(***************************************************************************)
(* The handler of a call                                                   *)
(***************************************************************************)
clientVars == <<given, cmd>>

\* The interceptors demand a bearer token, with OIDC or without, and with OIDC
\* the provider's keys decide whether it is good.
Verify(c) ==
  /\ handler[c].pc = "verify"
  /\ \/ handler[c].bearer /\ Proceed(c, "work")
     \/ (ServerOIDC \/ ~handler[c].bearer) /\ Refuse(c)
  /\ UNCHANGED <<db, syncLocks, wire, carried>> /\ UNCHANGED clientVars /\ UNCHANGED tokenVars

\* A query finds what it looks for, or fails.  updateWatcher's first call is
\* GetWatcherByName; sync reads the watcher and its machine before its lock.
Query(c) ==
  /\ \/ /\ Asks(c, {"read"}) /\ Proceed(c, "return")
        /\ carried' = [carried EXCEPT ![c] = @ + 1]
     \/ /\ Asks(c, {"updateWatcher"}) /\ handler[c].id = 0
        /\ \E w \in WatchersNamed(db, handler[c].req.name) :
             handler' = [handler EXCEPT ![c].pc = "return", ![c].id = w.id]
        /\ UNCHANGED carried
     \/ /\ Asks(c, {"sync"})
        /\ \E w \in WatchersNamed(db, handler[c].req.name) : w.machine \in db.machines
        /\ Proceed(c, "lock")
        /\ UNCHANGED carried
     \/ Asks(c, {"flush"}) /\ Proceed(c, "job") /\ UNCHANGED carried
     \/ Asks(c, CallOps) /\ Refuse(c) /\ UNCHANGED carried
  /\ UNCHANGED <<db, syncLocks, wire>> /\ UNCHANGED clientVars /\ UNCHANGED tokenVars

\* The statement of a request about watchers; id is the row to be updated.
WatcherStatement(r, id, fk) ==
  \/ /\ r.op = "createWatcher" /\ CanInsertWatcher(db, r.name, r.machine, fk)
     /\ \E i \in 1 .. MaxWatcherId :
          IsNextRowId(db.watchers, i) /\ db' = InsertWatcher(db, i, r.name, r.path, r.machine)
  \/ /\ r.op = "updateWatcher"
     /\ \E w \in db.watchers :
          w.id = id /\ CanUpdateWatcher(db, w, r.to, fk) /\ db' = UpdateWatcher(db, w, r.to, r.path)
  \/ /\ r.op = "deleteWatcher" /\ WatchersNamed(db, r.name) # {}
     /\ db' = DeleteWatcher(db, r.name, fk)

\* About machines; deleting one that is not there is no error.
MachineStatement(r, fk) ==
  \/ /\ r.op = "createMachine" /\ CanInsertMachine(db, r.machine)
     /\ db' = InsertMachine(db, r.machine)
  \/ r.op = "updateMachine" /\ r.machine \in db.machines /\ UNCHANGED db
  \/ /\ r.op = "deleteMachine" /\ CanDeleteMachine(db, r.machine, fk)
     /\ db' = DeleteMachine(db, r.machine, fk)

\* About redirections.
RedirectionStatement(r, fk) ==
  \/ /\ r.op = "createRedirection" /\ CanInsertRedirection(db, r.name, r.machine, fk)
     /\ db' = InsertRedirection(db, r.name, r.path, r.machine)
  \/ /\ \E x \in db.redirections : x.watcher = r.name
     /\ \/ r.op = "updateRedirection" /\ db' = UpdateRedirection(db, r.name, r.path)
        \/ r.op = "deleteRedirection" /\ db' = DeleteRedirection(db, r.name)

\* These read the row again after their statement, and fail if it is gone.
Rereads == {"updateWatcher", "createMachine", "updateMachine", "updateRedirection"}

\* The statement is carried out.  createWatcher with flush_existing goes on with
\* the initial sync.
Change(c) ==
  /\ handler[c].pc = "work"
  /\ LET r == handler[c].req
     IN  /\ r.op = "updateWatcher" => handler[c].id # 0
         /\ \E fk \in FkModes : \/ WatcherStatement(r, handler[c].id, fk)
                                \/ MachineStatement(r, fk)
                                \/ RedirectionStatement(r, fk)
         /\ IF r.op = "createWatcher" /\ r.flush THEN Proceed(c, "job")
            ELSE \/ Proceed(c, "return")
                 \/ r.op \in Rereads /\ Refuse(c)
  /\ carried' = [carried EXCEPT ![c] = @ + 1]
  /\ UNCHANGED <<syncLocks, wire>> /\ UNCHANGED clientVars /\ UNCHANGED tokenVars

\* tryAcquireSyncLock
Lock(c) ==
  /\ handler[c].pc = "lock"
  /\ LET n == handler[c].req.name
     IN  IF syncLocks[n] = Free
         THEN syncLocks' = [syncLocks EXCEPT ![n] = c] /\ Proceed(c, "job")
         ELSE Refuse(c) /\ UNCHANGED syncLocks
  /\ UNCHANGED <<db, wire, carried>> /\ UNCHANGED clientVars /\ UNCHANGED tokenVars

\* Send: it blocks while the client still reads and the window is full.  Without
\* a reader an event is lost, whether Send says so or not.
CanSend(c) == ~Linked(c) \/ Len(wire[c]) < Window
Sent(c, e) == wire' = IF Linked(c) THEN [wire EXCEPT ![c] = Append(@, e)] ELSE wire

\* The job reports progress; what Send answers is ignored.
JobLog(c) ==
  /\ handler[c].pc = "job" /\ Streams(handler[c].req)
  /\ Linked(c) /\ CanSend(c)
  /\ Sent(c, [is |-> "log", id |-> 0])
  /\ UNCHANGED <<db, syncLocks, handler, carried>> /\ UNCHANGED clientVars /\ UNCHANGED tokenVars

\* The job of a sync or flush ends and has saved its result; that of createWatcher
\* comes after what the request is about.
JobDone(c) ==
  /\ handler[c].pc = "job"
  /\ Proceed(c, IF Streams(handler[c].req) THEN "log" ELSE "return")
  /\ IF handler[c].req.op = "createWatcher" THEN UNCHANGED carried
                                            ELSE carried' = [carried EXCEPT ![c] = @ + 1]
  /\ UNCHANGED <<db, syncLocks, wire>> /\ UNCHANGED clientVars /\ UNCHANGED tokenVars

\* Mutant: a failed job refuses the creation as well.
JobFailsAlways(c) ==
  /\ handler[c].pc = "job"
  /\ Refuse(c)
  /\ UNCHANGED <<db, syncLocks, wire, carried>> /\ UNCHANGED clientVars /\ UNCHANGED tokenVars

\* The job fails.  createWatcher only logs that.
JobFails(c) ==
  /\ handler[c].pc = "job"
  /\ IF handler[c].req.op = "createWatcher" THEN Proceed(c, "return") ELSE Refuse(c)
  /\ UNCHANGED <<db, syncLocks, wire, carried>> /\ UNCHANGED clientVars /\ UNCHANGED tokenVars

\* Mutant: an event for a client that is gone is never given up.
SendSummaryLinked(c) ==
  /\ handler[c].pc \in {"log", "result"}
  /\ Linked(c) /\ CanSend(c)
  /\ Sent(c, [is |-> handler[c].pc, id |-> 0])
  /\ Proceed(c, IF handler[c].pc = "log" THEN "result" ELSE "return")
  /\ UNCHANGED <<db, syncLocks, carried>> /\ UNCHANGED clientVars /\ UNCHANGED tokenVars

\* The last LOG event, then the RESULT event; here a failed Send is an error,
\* although the job is done.
SendSummary(c) ==
  /\ handler[c].pc \in {"log", "result"}
  /\ \/ /\ CanSend(c)
        /\ Sent(c, [is |-> handler[c].pc, id |-> 0])
        /\ Proceed(c, IF handler[c].pc = "log" THEN "result" ELSE "return")
     \/ ~Linked(c) /\ Refuse(c) /\ UNCHANGED wire
  /\ UNCHANGED <<db, syncLocks, carried>> /\ UNCHANGED clientVars /\ UNCHANGED tokenVars

\* The handler returns: the deferred unlock, before anything else is sent.
Return(c) ==
  /\ handler[c].pc = "return"
  /\ syncLocks' = [n \in Names |-> IF syncLocks[n] = c THEN Free ELSE syncLocks[n]]
  /\ Proceed(c, "answer")
  /\ UNCHANGED <<db, wire, carried>> /\ UNCHANGED clientVars /\ UNCHANGED tokenVars

\* The server library sends the status, with the message of a unary call.
Answer(c) ==
  /\ handler[c].pc = "answer"
  /\ Sent(c, [is |-> handler[c].status, id |-> handler[c].id])
  /\ handler' = [handler EXCEPT ![c] = NoHandler]
  /\ UNCHANGED <<db, syncLocks, carried>> /\ UNCHANGED clientVars /\ UNCHANGED tokenVars

\* The server stops: handlers and locks are gone.  Events that have not arrived
\* are lost.
Crash ==
  /\ handler' = [c \in Cmds |-> NoHandler]
  /\ syncLocks' = [n \in Names |-> Free]
  /\ \E lost \in SUBSET Cmds : wire' = [c \in Cmds |-> IF c \in lost THEN <<>> ELSE wire[c]]
  /\ UNCHANGED <<db, carried>> /\ UNCHANGED clientVars /\ UNCHANGED tokenVars

(***************************************************************************)
(* The specification                                                       *)
(***************************************************************************)
\* Steps of a process that it takes without the user, and within the deadline of
\* its calls.
ClientStep(c) ==
  \/ Dial(c) \/ Load(c) \/ Refresh(c) \/ OpenTokens(c) \/ WriteTokens(c) \/ FailWrite(c)
  \/ Logout(c) \/ Call(c) \/ Receive(c)

\* Steps of a handler that has done its work, and steps that may take for ever.
LastStep(c) == SendSummary(c) \/ Return(c) \/ Answer(c)
ServerStep(c) ==
  Verify(c) \/ Query(c) \/ Change(c) \/ Lock(c) \/ JobLog(c) \/ JobDone(c) \/ JobFails(c)

Next ==
  \/ \E c \in Cmds : Start(c) \/ Login(c) \/ ClientStep(c) \/ CutOff(c) \/ Kill(c) \/ Leave(c)
  \/ \E c \in Cmds : ServerStep(c) \/ LastStep(c)
  \/ Crash

\* A process runs on and its deadline passes.  Of a handler only what follows its
\* database and SSH calls is sure to come: a dial has no deadline.
Fairness == \A c \in Cmds : WF_vars(ClientStep(c)) /\ WF_vars(CutOff(c)) /\ WF_vars(LastStep(c))

Spec == Init /\ [][Next]_vars
FairSpec == Spec /\ Fairness

(***************************************************************************)
(* Properties                                                              *)
(***************************************************************************)
\* When a command has ended with an answer, whatever it says, no handler of it is
\* at work and no sync lock is its own: the user's next command is not turned
\* away by the one before it.  (The unlock is deferred, the client of a stream
\* reads on to the end.)
LeavesNothing ==
  \A c \in Cmds :
    cmd[c].pc = "exited" /\ cmd[c].exit \in {"ok", "error"} =>
      handler[c].pc = "idle" /\ \A n \in Names : syncLocks[n] # c

\* A command that ends with 0 was carried out once and has shown its result once;
\* one that ends with an error was not carried out, or not to its end, unless the
\* handler reads a row again afterwards.  A command that was cut off knows neither.
AnswerIsTrue ==
  \A c \in Cmds :
    cmd[c].pc = "exited" /\ cmd[c].req.op \in CallOps =>
      /\ cmd[c].exit = "ok" => carried[c] = 1 /\ cmd[c].printed = 1
      /\ cmd[c].exit = "error" /\ cmd[c].req.op \notin Rereads => carried[c] = 0

\* What c's command is doing or has said.  An error after which the row is read again
\* says nothing.
Client(k) ==
  IF k.pc = "idle" \/ k.req.op \notin CallOps THEN "away"
  ELSE IF k.pc # "exited" THEN "waiting"
  ELSE IF k.exit = "ok" THEN "done"
  ELSE IF k.exit = "error" /\ k.req.op \notin Rereads THEN "undone"
  ELSE "unknown"

\* The request of a process k with the handler h that was carried out n times.
Request(k, h, n) ==
  LET pending == Client(k) = "waiting" \/ h.pc # "idle"
  IN  [client |-> Client(k), pending |-> pending,
       done |-> IF pending \/ Client(k) # "away" THEN n ELSE 0]

Contract == INSTANCE RequestReply
              WITH Clients <- Cmds,
                   request <- [c \in Cmds |-> Request(cmd[c], handler[c], carried[c])]

\* A request is carried out at most once, never after its command has ended with an
\* answer, and the answer is true: no handler is left behind by an answered command,
\* no failure makes a command or a handler repeat what was done.
KeepsContract == Contract!ReplySpec

\* tokens.json says what the last login or logout said: concurrent commands that
\* load, refresh and save it do not change that, as long as no save of older
\* tokens, overlapping save or interrupted save has come between.
TokensFollowAccount ==
  orderly /\ (\A c \in Cmds : ~HasOpen(c)) =>
    tokens = IF account = 0 THEN NoTokens ELSE Whole(account)

\* Every command but login, which waits for the user without a deadline, ends,
\* whatever the server and the watched machines do.
CommandEnds ==
  \A c \in Cmds : cmd[c].pc # "idle" /\ cmd[c].req.op # "login" ~> cmd[c].pc \in {"idle", "exited"}

\* A handler that has done its work ends, and lets go of its lock, although its
\* client has stopped reading, was cut off or is gone.
FinishedHandlersEnd ==
  \A c \in Cmds : handler[c].pc \in {"log", "result", "return", "answer"} ~> handler[c].pc = "idle"
=============================================================================
