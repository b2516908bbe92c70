--------------------------- MODULE CommandProofs ---------------------------
(***************************************************************************)
(* Theorems about Command for any number of commands, names, machines,     *)
(* paths and logins, any window of a stream, with OIDC on either side or   *)
(* without.                                                                *)
(***************************************************************************)
EXTENDS Command, TLAPS

(***************************************************************************)
(* Types                                                                   *)
(***************************************************************************)
LEMMA Zeroes == 0 \in RowIds /\ 0 \in Logins /\ RowIds \subseteq Nat /\ Logins \subseteq Nat
BY CommandAssumption DEF RowIds, Logins

LEMMA CommandTypes ==
  /\ NoCommand \in Commands /\ NoHandler \in Handlers
  /\ NoTokens \in TokenFiles /\ \A how \in {"empty", "mixed"} : Torn(how) \in TokenFiles
  /\ \A l \in Logins : Whole(l) \in TokenFiles
  /\ \A j \in Commands, how \in {"none", "ok", "error", "cut"} : Ended(j, how) \in Commands
  /\ \A j \in Commands, to \in CommandSteps : [j EXCEPT !.pc = to] \in Commands
BY Zeroes
DEF NoCommand, NoHandler, Commands, Handlers, CommandSteps, HandlerSteps, Statuses, NoTokens, Torn,
    Whole, TokenFiles, Ended

LEMMA BecomeType ==
  ASSUME TypeOK, NEW c \in Cmds, NEW to \in CommandSteps, NEW j \in Commands, Become(c, to, j)
  PROVE  cmd' \in [Cmds -> Commands]
<1>1. [j EXCEPT !.pc = to] \in Commands
  BY CommandTypes
<1> QED BY <1>1 DEF TypeOK, Become

LEMMA ExitType ==
  ASSUME TypeOK, NEW c \in Cmds, NEW how \in {"ok", "error", "cut"}, Exit(c, how)
  PROVE  cmd' \in [Cmds -> Commands]
<1>1. cmd[c] \in Commands
  BY DEF TypeOK
<1>2. Ended(cmd[c], how) \in Commands
  BY <1>1, CommandTypes
<1> QED BY <1>2, BecomeType DEF Exit, CommandSteps

\* The locals of c's process with another value of one of them.
LEMMA CommandFields ==
  ASSUME NEW j \in Commands
  PROVE  /\ \A l \in Logins : [j EXCEPT !.login = l] \in Commands
         /\ \A b \in BOOLEAN : [j EXCEPT !.linked = b] \in Commands
         /\ \A i \in RowIds : [j EXCEPT !.id = i] \in Commands
         /\ [j EXCEPT !.printed = @ + 1] \in Commands
BY DEF Commands

LEMMA TypeOKInit == Init => TypeOK
<1> SUFFICES ASSUME Init PROVE TypeOK
  OBVIOUS
<1>1. given \in Workloads /\ given.watchers \subseteq WatcherRows
  BY CommandAssumption DEF Init
<1>2. db \in [machines : SUBSET Machines, watchers : SUBSET WatcherRows, files : {{}},
              redirections : SUBSET RedirectionRows]
  BY <1>1 DEF Init, EmptyDB
<1>3. PICK l \in Logins : tokens = (IF l = 0 THEN NoTokens ELSE Whole(l)) /\ issued = l /\ account = l
  BY DEF Init
<1>4. tokens \in TokenFiles
  BY <1>3, CommandTypes
<1>5. cmd \in [Cmds -> Commands] /\ handler \in [Cmds -> Handlers] /\ wire \in [Cmds -> Seq(Events)]
  BY CommandTypes DEF Init
<1> QED BY <1>1, <1>2, <1>3, <1>4, <1>5 DEF Init, TypeOK

LEMMA TypeOKStart ==
  ASSUME TypeOK, NEW c \in Cmds, Start(c)
  PROVE  TypeOK'
<1>1. PICK r \in given.requests :
        Become(c, IF r.op \in TokenOps THEN r.op ELSE "dial", [NoCommand EXCEPT !.req = r])
  BY DEF Start
<1>2. r \in Requests
  BY CommandAssumption DEF TypeOK
<1>3. [NoCommand EXCEPT !.req = r] \in Commands
  BY <1>2, CommandTypes DEF Commands
<1>4. (IF r.op \in TokenOps THEN r.op ELSE "dial") \in CommandSteps
  BY DEF TokenOps, CommandSteps
<1>5. cmd' \in [Cmds -> Commands]
  BY <1>1, <1>3, <1>4, BecomeType
<1> QED BY <1>5 DEF Start, TypeOK, serverVars, tokenVars

\* Steps of a process on its way to the call, and its end.
LEMMA TypeOKProcess ==
  ASSUME TypeOK, NEW c \in Cmds,
         Dial(c) \/ Load(c) \/ Refresh(c) \/ CutOff(c) \/ Kill(c) \/ Leave(c)
  PROVE  TypeOK'
<1>1. cmd[c] \in Commands /\ tokens \in TokenFiles /\ NextCall \in CommandSteps
  BY DEF TypeOK, NextCall, CommandSteps
<1>2. CASE Dial(c)
  <2>1. cmd' \in [Cmds -> Commands]
    BY <1>1, <1>2, BecomeType, ExitType DEF Dial
  <2> QED BY <1>2, <2>1 DEF Dial, TypeOK, serverVars, tokenVars
<1>3. CASE Load(c)
  <2>1. [cmd[c] EXCEPT !.login = tokens.login] \in Commands
    BY <1>1, CommandFields DEF TokenFiles
  <2>2. AfterLoad \subseteq CommandSteps
    BY DEF AfterLoad, CommandSteps
  <2>3. cmd' \in [Cmds -> Commands]
    BY <1>3, <2>1, <2>2, BecomeType, ExitType DEF Load
  <2> QED BY <1>3, <2>3 DEF Load, TypeOK, serverVars, tokenVars
<1>4. CASE Refresh(c)
  <2>1. cmd' \in [Cmds -> Commands]
    BY <1>1, <1>4, BecomeType, ExitType DEF Refresh, CommandSteps
  <2> QED BY <1>4, <2>1 DEF Refresh, TypeOK, serverVars, tokenVars
<1>5. CASE CutOff(c)
  <2>1. cmd' \in [Cmds -> Commands]
    BY <1>5, ExitType DEF CutOff
  <2>2. wire' \in [Cmds -> Seq(Events)]
    BY <1>5 DEF CutOff, TypeOK
  <2> QED BY <1>5, <2>1, <2>2 DEF CutOff, TypeOK, serverVars, tokenVars
<1>6. CASE Kill(c)
  <2>1. cmd' \in [Cmds -> Commands] /\ wire' \in [Cmds -> Seq(Events)] /\ orderly' \in BOOLEAN
    BY <1>6, CommandTypes DEF Kill, TypeOK
  <2> QED BY <1>6, <2>1 DEF Kill, TypeOK, serverVars
<1>7. CASE Leave(c)
  <2>1. cmd' \in [Cmds -> Commands]
    BY <1>7, CommandTypes DEF Leave, TypeOK
  <2> QED BY <1>7, <2>1 DEF Leave, TypeOK, serverVars, tokenVars
<1> QED BY <1>2, <1>3, <1>4, <1>5, <1>6, <1>7

\* Steps on tokens.json.
LEMMA TypeOKTokens ==
  ASSUME TypeOK, NEW c \in Cmds,
         Login(c) \/ OpenTokens(c) \/ WriteTokens(c) \/ FailWrite(c) \/ Logout(c)
  PROVE  TypeOK'
<1>1. cmd[c] \in Commands /\ cmd[c].login \in Logins /\ issued \in Nat
  BY Zeroes DEF TypeOK, Commands
<1>2. \A how \in {"ok", "error"} : Exit(c, how) => cmd' \in [Cmds -> Commands]
  BY ExitType
<1>3. \A to \in CommandSteps, j \in Commands : Become(c, to, j) => cmd' \in [Cmds -> Commands]
  BY BecomeType
<1>4. GoOnUnsaved(c) => cmd' \in [Cmds -> Commands]
  BY <1>1, <1>2, <1>3 DEF GoOnUnsaved, CommandSteps
<1>5. CASE Login(c)
  <2>1. issued' \in Logins /\ cmd' \in [Cmds -> Commands]
    <3>1. CASE issued < MaxLogins /\ issued' = issued + 1
               /\ Become(c, "save", [cmd[c] EXCEPT !.login = issued + 1])
      <4>1. issued' \in Logins
        BY <1>1, <3>1, CommandAssumption DEF Logins
      <4>2. [cmd[c] EXCEPT !.login = issued'] \in Commands
        BY <1>1, <4>1, CommandFields
      <4>3. Become(c, "save", [cmd[c] EXCEPT !.login = issued'])
        BY <3>1
      <4> QED BY <1>3, <4>1, <4>2, <4>3 DEF CommandSteps
    <3>2. CASE Exit(c, "error") /\ UNCHANGED issued
      BY <1>2, <3>2 DEF TypeOK
    <3> QED BY <1>5, <3>1, <3>2 DEF Login
  <2> QED BY <1>5, <2>1 DEF Login, TypeOK, serverVars
<1>6. CASE OpenTokens(c)
  <2>1. tokens' \in TokenFiles /\ orderly' \in BOOLEAN
    BY <1>6, CommandTypes DEF OpenTokens, TypeOK
  <2>2. [cmd[c] EXCEPT !.linked = TRUE] \in Commands
    BY <1>1, CommandFields
  <2>3. cmd' \in [Cmds -> Commands]
    BY <1>3, <1>4, <1>6, <2>2 DEF OpenTokens, CommandSteps
  <2> QED BY <1>6, <2>1, <2>3 DEF OpenTokens, TypeOK, serverVars
<1>7. CASE WriteTokens(c)
  <2>1. Written(cmd[c].login) \subseteq TokenFiles
    BY <1>1, CommandTypes DEF Written
  <2>2. tokens' \in TokenFiles
    BY <1>7, <2>1 DEF WriteTokens, TypeOK
  <2>3. [cmd[c] EXCEPT !.linked = FALSE] \in Commands
    BY <1>1, CommandFields
  <2>4. cmd' \in [Cmds -> Commands]
    BY <1>2, <1>3, <1>7, <2>3 DEF WriteTokens, CommandSteps
  <2>5. account' \in Logins /\ orderly' \in BOOLEAN
    BY <1>1, <1>7 DEF WriteTokens, TypeOK
  <2> QED BY <1>7, <2>2, <2>4, <2>5 DEF WriteTokens, TypeOK, serverVars
<1>8. CASE FailWrite(c)
  BY <1>4, <1>8 DEF FailWrite, TypeOK, serverVars
<1>9. CASE Logout(c)
  <2>1. \A d \in Cmds :
          /\ [Ended(cmd[d], "ok") EXCEPT !.pc = "exited"] \in Commands
          /\ [cmd[d] EXCEPT !.linked = FALSE] \in Commands
    BY CommandTypes, CommandFields DEF TypeOK, CommandSteps
  <2>2. cmd' \in [Cmds -> Commands]
    BY <1>9, <2>1 DEF Logout
  <2>3. tokens' \in TokenFiles /\ account' \in Logins /\ orderly' \in BOOLEAN
    BY <1>9, CommandTypes, Zeroes DEF Logout
  <2> QED BY <1>9, <2>2, <2>3 DEF Logout, TypeOK, serverVars
<1> QED BY <1>5, <1>6, <1>7, <1>8, <1>9

LEMMA TypeOKCall ==
  ASSUME TypeOK, NEW c \in Cmds, Call(c)
  PROVE  TypeOK'
<1>1. cmd[c] \in Commands
  BY DEF TypeOK
<1>2. [cmd[c] EXCEPT !.login = 0] \in Commands
  BY <1>1, CommandFields, Zeroes
<1>3. cmd' \in [Cmds -> Commands]
  BY <1>2, BecomeType DEF Call, CommandSteps
<1>4. [pc |-> "verify", req |-> cmd[c].req, id |-> cmd[c].id, bearer |-> cmd[c].login # 0,
       status |-> "ok"] \in Handlers
  BY <1>1 DEF Commands, Handlers, HandlerSteps, Statuses
<1>5. handler' \in [Cmds -> Handlers]
  BY <1>4 DEF Call, TypeOK
<1> QED BY <1>3, <1>5 DEF Call, TypeOK, tokenVars

\* Receiving an event changes the locals of the process to one of these.
LEMMA Received ==
  ASSUME TypeOK, NEW c \in Cmds, Receive(c)
  PROVE  LET e == Head(wire[c])
             more == e.is = "ok" /\ cmd[c].req.op = "updateWatcher" /\ cmd[c].id = 0
             shown == [cmd[c] EXCEPT !.printed = @ + 1]
             last == IF Streams(cmd[c].req) THEN cmd[c] ELSE shown
         IN  /\ e \in Events
             /\ \/ e.is = "log" /\ Become(c, "wait", cmd[c])
                \/ e.is = "result" /\ Become(c, "wait", shown)
                \/ more /\ Become(c, NextCall, [cmd[c] EXCEPT !.id = e.id])
                \/ e.is = "ok" /\ ~more /\ Become(c, "exited", Ended(last, "ok"))
                \/ e.is = "refused" /\ Exit(c, "error")
<1>1. wire[c] \in Seq(Events) /\ wire[c] # <<>>
  BY DEF Receive, TypeOK
<1>2. Head(wire[c]) \in Events
  BY <1>1
<1>3. Head(wire[c]).is \in {"log", "result", "ok", "refused"}
  BY <1>2 DEF Events, Statuses
<1> QED BY <1>2, <1>3 DEF Receive, Refused

LEMMA TypeOKReceive ==
  ASSUME TypeOK, NEW c \in Cmds, Receive(c)
  PROVE  TypeOK'
<1> DEFINE e == Head(wire[c])
           more == e.is = "ok" /\ cmd[c].req.op = "updateWatcher" /\ cmd[c].id = 0
           shown == [cmd[c] EXCEPT !.printed = @ + 1]
           last == IF Streams(cmd[c].req) THEN cmd[c] ELSE shown
<1>1. /\ e \in Events
      /\ \/ Become(c, "wait", cmd[c])
         \/ Become(c, "wait", shown)
         \/ Become(c, NextCall, [cmd[c] EXCEPT !.id = e.id])
         \/ Become(c, "exited", Ended(last, "ok"))
         \/ Exit(c, "error")
  BY Received
<1>2. cmd[c] \in Commands /\ shown \in Commands /\ [cmd[c] EXCEPT !.id = e.id] \in Commands
  BY <1>1, CommandFields DEF TypeOK, Events
<1>3. Ended(last, "ok") \in Commands
  BY <1>2, CommandTypes
<1>4. "wait" \in CommandSteps /\ "exited" \in CommandSteps /\ NextCall \in CommandSteps
  BY DEF CommandSteps, NextCall
<1> HIDE DEF e, more, shown, last
<1>5. cmd' \in [Cmds -> Commands]
  BY <1>1, <1>2, <1>3, <1>4, BecomeType, ExitType
<1>6. wire' \in [Cmds -> Seq(Events)]
  <2>1. Tail(wire[c]) \in Seq(Events)
    BY DEF Receive, TypeOK
  <2> QED BY <2>1 DEF Receive, TypeOK
<1> QED BY <1>5, <1>6 DEF Receive, TypeOK, serverVars, tokenVars

(***************************************************************************)
(* Types: the handler                                                      *)
(***************************************************************************)
Tables == [machines : SUBSET Machines, watchers : SUBSET WatcherRows, files : {{}},
           redirections : SUBSET RedirectionRows]

\* No statement leaves the tables.
LEMMA StatementTypes ==
  ASSUME TypeOK, NEW r \in Requests, NEW i \in RowIds, NEW fk \in BOOLEAN,
         WatcherStatement(r, i, fk) \/ MachineStatement(r, fk) \/ RedirectionStatement(r, fk)
  PROVE  db' \in Tables
<1> USE DEF Tables
<1>1. db \in Tables
  BY DEF TypeOK
<1>2. r.name \in Names /\ r.to \in Names /\ r.path \in Paths /\ r.machine \in Machines
  BY DEF Requests
<1>3. \A ws : DropWatchers(db, ws, fk) \in Tables
  BY <1>1 DEF DropWatchers
<1>4. ASSUME WatcherStatement(r, i, fk) PROVE db' \in Tables
  <2>1. ASSUME NEW j \in 1 .. MaxWatcherId, db' = InsertWatcher(db, j, r.name, r.path, r.machine)
        PROVE  db' \in Tables
    <3>1. WatcherRow(j, r.name, r.path, r.machine) \in WatcherRows
      BY <1>2, <2>1, CommandAssumption DEF WatcherRow, WatcherRows, RowIds
    <3> QED BY <1>1, <2>1, <3>1 DEF InsertWatcher
  <2>2. ASSUME NEW w \in db.watchers, db' = UpdateWatcher(db, w, r.to, r.path)
        PROVE  db' \in Tables
    <3>1. [w EXCEPT !.name = r.to, !.path = r.path] \in WatcherRows
      BY <1>1, <1>2 DEF WatcherRows
    <3> QED BY <1>1, <2>2, <3>1 DEF UpdateWatcher
  <2>3. ASSUME db' = DeleteWatcher(db, r.name, fk) PROVE db' \in Tables
    BY <1>3, <2>3 DEF DeleteWatcher
  <2> QED BY <1>4, <2>1, <2>2, <2>3 DEF WatcherStatement
<1>5. ASSUME MachineStatement(r, fk) PROVE db' \in Tables
  <2>1. InsertMachine(db, r.machine) \in Tables
    BY <1>1, <1>2 DEF InsertMachine
  <2>2. DeleteMachine(db, r.machine, fk) \in Tables
    <3> DEFINE base == [db EXCEPT !.machines = @ \ {r.machine}]
    <3>1. base \in Tables
      BY <1>1
    <3> HIDE DEF base
    <3>2. \A ws : DropWatchers(base, ws, fk) \in Tables
      BY <3>1 DEF DropWatchers
    <3> QED BY <3>1, <3>2 DEF DeleteMachine, base
  <2> QED BY <1>1, <1>5, <2>1, <2>2 DEF MachineStatement
<1>6. ASSUME RedirectionStatement(r, fk) PROVE db' \in Tables
  <2>1. RedirectionRow(r.name, r.path, r.machine) \in RedirectionRows
    BY <1>2 DEF RedirectionRow, RedirectionRows
  <2>2. InsertRedirection(db, r.name, r.path, r.machine) \in Tables
    BY <1>1, <2>1 DEF InsertRedirection
  <2>3. \A x \in db.redirections : [x EXCEPT !.target = r.path] \in RedirectionRows
    BY <1>1, <1>2 DEF RedirectionRows
  <2>4. UpdateRedirection(db, r.name, r.path) \in Tables
    BY <1>1, <2>3 DEF UpdateRedirection
  <2>5. DeleteRedirection(db, r.name) \in Tables
    BY <1>1 DEF DeleteRedirection
  <2> QED BY <1>6, <2>2, <2>4, <2>5 DEF RedirectionStatement
<1> QED BY <1>4, <1>5, <1>6

LEMMA HandlerStepType ==
  ASSUME TypeOK, NEW c \in Cmds
  PROVE  /\ \A to \in HandlerSteps : Proceed(c, to) => handler' \in [Cmds -> Handlers]
         /\ Refuse(c) => handler' \in [Cmds -> Handlers]
         /\ \A i \in RowIds : handler' = [handler EXCEPT ![c].pc = "return", ![c].id = i] =>
              handler' \in [Cmds -> Handlers]
<1>1. handler[c] \in Handlers
  BY DEF TypeOK
<1>2. \A to \in HandlerSteps : [handler[c] EXCEPT !.pc = to] \in Handlers
  BY <1>1 DEF Handlers
<1>3. [handler[c] EXCEPT !.pc = "return", !.status = "refused"] \in Handlers
  BY <1>1 DEF Handlers, HandlerSteps, Statuses
<1>4. \A i \in RowIds : [handler[c] EXCEPT !.pc = "return", !.id = i] \in Handlers
  BY <1>1 DEF Handlers, HandlerSteps
<1>5. \A to \in HandlerSteps : Proceed(c, to) => handler' \in [Cmds -> Handlers]
  BY <1>2 DEF Proceed, TypeOK
<1>6. Refuse(c) => handler' \in [Cmds -> Handlers]
  <2>1. Refuse(c) =>
          handler' = [handler EXCEPT ![c] = [handler[c] EXCEPT !.pc = "return", !.status = "refused"]]
    BY DEF Refuse, TypeOK
  <2> QED BY <1>3, <2>1 DEF TypeOK
<1>7. \A i \in RowIds : handler' = [handler EXCEPT ![c].pc = "return", ![c].id = i] =>
        handler' \in [Cmds -> Handlers]
  <2> SUFFICES ASSUME NEW i \in RowIds,
                      handler' = [handler EXCEPT ![c].pc = "return", ![c].id = i]
               PROVE  handler' \in [Cmds -> Handlers]
    OBVIOUS
  <2>1. handler' = [handler EXCEPT ![c] = [handler[c] EXCEPT !.pc = "return", !.id = i]]
    BY DEF TypeOK
  <2> QED BY <1>4, <2>1 DEF TypeOK
<1> QED BY <1>5, <1>6, <1>7

\* What is sent is an event.
LEMMA SentType ==
  ASSUME TypeOK, NEW c \in Cmds, NEW e \in Events, Sent(c, e)
  PROVE  wire' \in [Cmds -> Seq(Events)]
<1>1. Append(wire[c], e) \in Seq(Events)
  BY DEF TypeOK
<1> QED BY <1>1 DEF Sent, TypeOK

LEMMA TypeOKServer ==
  ASSUME TypeOK, NEW c \in Cmds, ServerStep(c) \/ LastStep(c)
  PROVE  TypeOK'
<1> USE DEF clientVars
<1>1. handler[c] \in Handlers /\ carried[c] + 1 \in Nat
  BY DEF TypeOK
<1>2. \A to \in HandlerSteps : Proceed(c, to) => handler' \in [Cmds -> Handlers]
  BY HandlerStepType
<1>3. Refuse(c) => handler' \in [Cmds -> Handlers]
  BY HandlerStepType
<1>4. CASE Verify(c)
  <2>1. handler' \in [Cmds -> Handlers]
    BY <1>2, <1>3, <1>4 DEF Verify, HandlerSteps
  <2> QED BY <1>4, <2>1 DEF Verify, TypeOK, tokenVars
<1>5. CASE Query(c)
  <2>1. handler' \in [Cmds -> Handlers]
    <3>1. ASSUME NEW w \in WatchersNamed(db, handler[c].req.name),
                 handler' = [handler EXCEPT ![c].pc = "return", ![c].id = w.id]
          PROVE  handler' \in [Cmds -> Handlers]
      <4>1. w.id \in RowIds
        BY <3>1 DEF WatchersNamed, TypeOK, WatcherRows
      <4> QED BY <3>1, <4>1, HandlerStepType
    <3>2. CASE Proceed(c, "return") \/ Proceed(c, "lock") \/ Proceed(c, "job")
      BY <1>2, <3>2 DEF HandlerSteps
    <3> QED BY <1>3, <1>5, <3>1, <3>2 DEF Query
  <2>2. carried' \in [Cmds -> Nat]
    BY <1>1, <1>5 DEF Query, TypeOK
  <2> QED BY <1>5, <2>1, <2>2 DEF Query, TypeOK, tokenVars
<1>6. CASE Change(c)
  <2>1. PICK fk \in FkModes :
          \/ WatcherStatement(handler[c].req, handler[c].id, fk)
          \/ MachineStatement(handler[c].req, fk) \/ RedirectionStatement(handler[c].req, fk)
    BY <1>6 DEF Change
  <2>2. handler[c].req # NoRequest
    BY <1>6 DEF Change, NoRequest, WatcherStatement, MachineStatement, RedirectionStatement
  <2>3. db' \in Tables
    <3>1. handler[c].req \in Requests /\ handler[c].id \in RowIds /\ fk \in BOOLEAN
      BY <1>1, <2>2, CommandAssumption DEF Handlers
    <3> QED BY <2>1, <3>1, StatementTypes
  <2>4. handler' \in [Cmds -> Handlers]
    BY <1>2, <1>3, <1>6 DEF Change, HandlerSteps
  <2>5. carried' \in [Cmds -> Nat]
    BY <1>1, <1>6 DEF Change, TypeOK
  <2> QED BY <1>6, <2>3, <2>4, <2>5 DEF Change, TypeOK, tokenVars, Tables
<1>7. CASE Lock(c)
  <2>1. handler' \in [Cmds -> Handlers]
    BY <1>2, <1>3, <1>7 DEF Lock, HandlerSteps
  <2>2. syncLocks' \in [Names -> Cmds \cup {Free}]
    BY <1>7 DEF Lock, TypeOK
  <2> QED BY <1>7, <2>1, <2>2 DEF Lock, TypeOK, tokenVars
<1>8. CASE JobLog(c)
  <2>1. [is |-> "log", id |-> 0] \in Events
    BY Zeroes DEF Events
  <2>2. wire' \in [Cmds -> Seq(Events)]
    BY <1>8, <2>1, SentType DEF JobLog
  <2> QED BY <1>8, <2>2 DEF JobLog, TypeOK, tokenVars
<1>9. CASE JobDone(c) \/ JobFails(c)
  <2>1. handler' \in [Cmds -> Handlers]
    BY <1>2, <1>3, <1>9 DEF JobDone, JobFails, HandlerSteps
  <2>2. carried' \in [Cmds -> Nat]
    BY <1>1, <1>9 DEF JobDone, JobFails, TypeOK
  <2> QED BY <1>9, <2>1, <2>2 DEF JobDone, JobFails, TypeOK, tokenVars
<1>10. CASE SendSummary(c)
  <2>1. handler' \in [Cmds -> Handlers]
    BY <1>2, <1>3, <1>10 DEF SendSummary, HandlerSteps
  <2>2. handler[c].pc \in {"log", "result"} => [is |-> handler[c].pc, id |-> 0] \in Events
    BY Zeroes DEF Events
  <2>3. wire' \in [Cmds -> Seq(Events)]
    BY <1>10, <2>2, SentType DEF SendSummary, TypeOK
  <2> QED BY <1>10, <2>1, <2>3 DEF SendSummary, TypeOK, tokenVars
<1>11. CASE Return(c)
  <2>1. handler' \in [Cmds -> Handlers]
    BY <1>2, <1>11 DEF Return, HandlerSteps
  <2>2. syncLocks' \in [Names -> Cmds \cup {Free}]
    BY <1>11 DEF Return, TypeOK
  <2> QED BY <1>11, <2>1, <2>2 DEF Return, TypeOK, tokenVars
<1>12. CASE Answer(c)
  <2>1. [is |-> handler[c].status, id |-> handler[c].id] \in Events
    BY <1>1 DEF Handlers, Events
  <2>2. wire' \in [Cmds -> Seq(Events)]
    BY <1>12, <2>1, SentType DEF Answer
  <2>3. handler' \in [Cmds -> Handlers]
    BY <1>12, CommandTypes DEF Answer, TypeOK
  <2> QED BY <1>12, <2>2, <2>3 DEF Answer, TypeOK, tokenVars
<1> QED
  BY <1>4, <1>5, <1>6, <1>7, <1>8, <1>9, <1>10, <1>11, <1>12 DEF ServerStep, LastStep

LEMMA TypeOKCrash ==
  ASSUME TypeOK, Crash
  PROVE  TypeOK'
<1>1. handler' \in [Cmds -> Handlers] /\ syncLocks' \in [Names -> Cmds \cup {Free}]
  BY CommandTypes DEF Crash
<1>2. wire' \in [Cmds -> Seq(Events)]
  BY DEF Crash, TypeOK
<1> QED BY <1>1, <1>2 DEF Crash, TypeOK, clientVars, tokenVars

LEMMA TypeOKNext == TypeOK /\ [Next]_vars => TypeOK'
<1> SUFFICES ASSUME TypeOK, [Next]_vars PROVE TypeOK'
  OBVIOUS
<1>1. ASSUME NEW c \in Cmds,
             Start(c) \/ Login(c) \/ ClientStep(c) \/ CutOff(c) \/ Kill(c) \/ Leave(c)
      PROVE  TypeOK'
  BY <1>1, TypeOKStart, TypeOKProcess, TypeOKTokens, TypeOKCall, TypeOKReceive DEF ClientStep
<1>2. CASE UNCHANGED vars
  BY <1>2 DEF vars, TypeOK
<1> QED BY <1>1, <1>2, TypeOKServer, TypeOKCrash DEF Next

\* The processes, the tokens file, the wire, the handlers and the database keep their
\* types.
THEOREM CommandTypeCorrect == Spec => []TypeOK
BY TypeOKInit, TypeOKNext, PTL DEF Spec

(***************************************************************************)
(* The tokens file.  As long as it is in order, one process at most has it *)
(* open under its name; it is empty then, and what will be written is the  *)
(* account's, or that of the login that will be the account.               *)
(***************************************************************************)
AccountFile(a) == IF a = 0 THEN NoTokens ELSE Whole(a)

TokenInv ==
  /\ tokens.is = "whole" => tokens.login # 0
  /\ \A d \in Cmds : cmd[d].pc \in {"refresh", "save", "write"} => cmd[d].login # 0
  /\ orderly =>
       /\ \A d, e \in Cmds : HasOpen(d) /\ HasOpen(e) => d = e
       /\ \A d \in Cmds : HasOpen(d) =>
            /\ tokens = Torn("empty")
            /\ cmd[d].req.op = "login" \/ cmd[d].login = account
       /\ (\A d \in Cmds : ~HasOpen(d)) => tokens = AccountFile(account)

\* A step of a process that has the file not open, or leaves it not in order.
LEMMA TokenAside ==
  ASSUME TypeOK, TokenInv, NEW c \in Cmds, NEW j, cmd' = [cmd EXCEPT ![c] = j],
         tokens' = tokens, account' = account,
         orderly' => orderly /\ ~HasOpen(c),
         j.pc # "write", j.pc \in {"refresh", "save"} => j.login # 0
  PROVE  TokenInv'
<1>1. \A d \in Cmds : cmd'[d] = IF d = c THEN j ELSE cmd[d]
  BY DEF TypeOK
<1>2. \A d \in Cmds : HasOpen(d)' <=> d # c /\ HasOpen(d)
  BY <1>1 DEF HasOpen
<1>3. \A d \in Cmds : cmd'[d].pc \in {"refresh", "save", "write"} => cmd'[d].login # 0
  BY <1>1 DEF TokenInv
<1> QED BY <1>1, <1>2, <1>3 DEF TokenInv

LEMMA TokenBecome ==
  ASSUME TypeOK, TokenInv, NEW c \in Cmds, NEW to \in CommandSteps, NEW j \in Commands,
         Become(c, to, j),
         tokens' = tokens, account' = account, orderly' => orderly /\ ~HasOpen(c),
         to # "write", to \in {"refresh", "save"} => j.login # 0
  PROVE  TokenInv'
<1> DEFINE k == [j EXCEPT !.pc = to]
<1>1. cmd' = [cmd EXCEPT ![c] = k] /\ k.pc = to /\ k.login = j.login
  BY DEF Become, Commands
<1> HIDE DEF k
<1> QED BY <1>1, TokenAside

LEMMA TokenExit ==
  ASSUME TypeOK, TokenInv, NEW c \in Cmds, NEW how \in {"ok", "error", "cut"}, Exit(c, how),
         tokens' = tokens, account' = account, orderly' => orderly /\ ~HasOpen(c)
  PROVE  TokenInv'
<1>1. Ended(cmd[c], how) \in Commands
  BY CommandTypes DEF TypeOK
<1> QED BY <1>1, TokenBecome DEF Exit, CommandSteps

LEMMA TokenInvInit == Init => TokenInv
<1> SUFFICES ASSUME Init PROVE TokenInv
  OBVIOUS
<1>1. \A d \in Cmds : cmd[d].pc = "idle"
  BY DEF Init, NoCommand
<1>2. tokens = AccountFile(account) /\ (tokens.is = "whole" => tokens.login # 0)
  BY DEF Init, AccountFile, NoTokens, Whole
<1> QED BY <1>1, <1>2 DEF TokenInv, HasOpen

\* Steps of a process that has not the file open.
LEMMA TokenInvProcess ==
  ASSUME TypeOK, TokenInv, NEW c \in Cmds,
         \/ Start(c) \/ Login(c) \/ Dial(c) \/ Load(c) \/ Refresh(c) \/ Call(c) \/ Receive(c)
         \/ CutOff(c) \/ Leave(c)
  PROVE  TokenInv'
<1>1. tokens' = tokens /\ account' = account /\ orderly' = orderly /\ cmd[c] \in Commands
  BY DEF Start, Login, Dial, Load, Refresh, Call, Receive, CutOff, Leave, tokenVars, TypeOK
<1>2. ~HasOpen(c)
  BY DEF Start, Login, Dial, Load, Refresh, Call, Receive, CutOff, Leave, HasOpen, Linked
<1>3. \A how \in {"ok", "error", "cut"} : Exit(c, how) => TokenInv'
  BY <1>1, <1>2, TokenExit
<1>4. \A to \in CommandSteps \ {"write", "refresh", "save"}, j \in Commands :
        Become(c, to, j) => TokenInv'
  BY <1>1, <1>2, TokenBecome
<1>5. CASE Start(c)
  <2>1. PICK r \in given.requests :
          Become(c, IF r.op \in TokenOps THEN r.op ELSE "dial", [NoCommand EXCEPT !.req = r])
    BY <1>5 DEF Start
  <2>2. [NoCommand EXCEPT !.req = r] \in Commands
    BY CommandAssumption, CommandTypes DEF Commands, TypeOK
  <2>3. (IF r.op \in TokenOps THEN r.op ELSE "dial") \in CommandSteps \ {"write", "refresh", "save"}
    BY DEF TokenOps, CommandSteps
  <2> QED BY <1>4, <2>1, <2>2, <2>3
<1>6. CASE Login(c)
  <2>1. CASE issued < MaxLogins /\ Become(c, "save", [cmd[c] EXCEPT !.login = issued + 1])
    <3>1. issued + 1 \in Logins /\ issued + 1 # 0
      BY <2>1, CommandAssumption DEF TypeOK, Logins
    <3> DEFINE j == [cmd[c] EXCEPT !.login = issued + 1]
    <3>2. j \in Commands /\ j.login # 0
      BY <1>1, <3>1 DEF Commands
    <3> HIDE DEF j
    <3>3. Become(c, "save", j)
      BY <2>1 DEF j
    <3> QED BY <1>1, <1>2, <3>2, <3>3, TokenBecome DEF CommandSteps
  <2> QED BY <1>3, <1>6, <2>1 DEF Login
<1>7. CASE Dial(c)
  <2>1. NextCall \in CommandSteps \ {"write", "refresh", "save"}
    BY DEF NextCall, CommandSteps
  <2> QED BY <1>1, <1>3, <1>4, <1>7, <2>1 DEF Dial
<1>8. CASE Load(c)
  <2>1. CASE tokens.is = "whole"
    <3> DEFINE j == [cmd[c] EXCEPT !.login = tokens.login]
    <3>1. PICK to \in AfterLoad : Become(c, to, j)
      BY <1>8, <2>1 DEF Load
    <3>2. j \in Commands /\ j.login # 0
      BY <1>1, <2>1 DEF TypeOK, TokenFiles, Commands, TokenInv
    <3>3. to \in CommandSteps /\ to # "write"
      BY DEF AfterLoad, CommandSteps
    <3> HIDE DEF j
    <3> QED BY <1>1, <1>2, <3>1, <3>2, <3>3, TokenBecome
  <2> QED BY <1>3, <1>8, <2>1 DEF Load
<1>9. CASE Refresh(c)
  <2>1. cmd[c].login # 0
    BY <1>9 DEF Refresh, TokenInv
  <2>2. Become(c, "save", cmd[c]) => TokenInv'
    BY <1>1, <1>2, <2>1, TokenBecome DEF CommandSteps
  <2> QED BY <1>3, <1>9, <2>2 DEF Refresh
<1>10. CASE Call(c)
  <2>1. [cmd[c] EXCEPT !.login = 0] \in Commands
    BY <1>1, CommandFields, Zeroes
  <2> QED BY <1>4, <1>10, <2>1 DEF Call, CommandSteps
<1>11. CASE Receive(c)
  <2> DEFINE e == Head(wire[c])
             more == e.is = "ok" /\ cmd[c].req.op = "updateWatcher" /\ cmd[c].id = 0
             shown == [cmd[c] EXCEPT !.printed = @ + 1]
             last == IF Streams(cmd[c].req) THEN cmd[c] ELSE shown
  <2>1. /\ e \in Events
        /\ \/ Become(c, "wait", cmd[c])
           \/ Become(c, "wait", shown)
           \/ Become(c, NextCall, [cmd[c] EXCEPT !.id = e.id])
           \/ Become(c, "exited", Ended(last, "ok"))
           \/ Exit(c, "error")
    BY <1>11, Received
  <2>2. shown \in Commands /\ [cmd[c] EXCEPT !.id = e.id] \in Commands
    BY <1>1, <2>1, CommandFields DEF Events
  <2>3. Ended(last, "ok") \in Commands
    BY <1>1, <2>2, CommandTypes
  <2>4. {"wait", "exited", NextCall} \subseteq CommandSteps \ {"write", "refresh", "save"}
    BY DEF CommandSteps, NextCall
  <2> HIDE DEF e, more, shown, last
  <2> QED BY <1>1, <1>3, <1>4, <2>1, <2>2, <2>3, <2>4
<1>12. CASE CutOff(c)
  BY <1>3, <1>12 DEF CutOff
<1>13. CASE Leave(c)
  <2>1. NoCommand.pc = "idle"
    BY DEF NoCommand
  <2> QED BY <1>1, <1>2, <1>13, <2>1, TokenAside DEF Leave
<1> QED BY <1>5, <1>6, <1>7, <1>8, <1>9, <1>10, <1>11, <1>12, <1>13

\* A write or a kill of a process that has the file open.
LEMMA TokenInvUnsaved ==
  ASSUME TypeOK, TokenInv, NEW c \in Cmds, GoOnUnsaved(c),
         tokens' = tokens, account' = account, orderly' => orderly /\ ~HasOpen(c)
  PROVE  TokenInv'
<1>1. cmd[c] \in Commands
  BY DEF TypeOK
<1>2. CASE Exit(c, "error")
  BY <1>2, TokenExit
<1>3. CASE Become(c, "call", cmd[c])
  BY <1>1, <1>3, TokenBecome DEF CommandSteps
<1> QED BY <1>2, <1>3 DEF GoOnUnsaved

LEMMA TokenInvOpen ==
  ASSUME TypeOK, TokenInv, NEW c \in Cmds, OpenTokens(c)
  PROVE  TokenInv'
<1>1. ~HasOpen(c)
  BY DEF OpenTokens, HasOpen
<1>2. CASE GoOnUnsaved(c) /\ UNCHANGED <<tokens, orderly>>
  BY <1>1, <1>2, TokenInvUnsaved DEF OpenTokens
<1>3. ASSUME tokens' = Torn("empty"), Become(c, "write", [cmd[c] EXCEPT !.linked = TRUE]),
             orderly' => /\ orderly
                         /\ cmd[c].req.op = "login" \/ cmd[c].login = account
                         /\ \A d \in Cmds : ~HasOpen(d)
      PROVE  TokenInv'
  <2> DEFINE j == [[cmd[c] EXCEPT !.linked = TRUE] EXCEPT !.pc = "write"]
  <2>1. j.login = cmd[c].login /\ j.req = cmd[c].req /\ j.pc = "write" /\ j.linked
    BY DEF TypeOK, Commands
  <2>2. cmd' = [cmd EXCEPT ![c] = j]
    BY <1>3 DEF Become
  <2> HIDE DEF j
  <2>3. \A d \in Cmds : cmd'[d] = IF d = c THEN j ELSE cmd[d]
    BY <2>2 DEF TypeOK
  <2>4. tokens'.is = "empty" /\ account' = account
    BY <1>3 DEF Torn, OpenTokens
  <2>5. \A d \in Cmds : cmd'[d].pc \in {"refresh", "save", "write"} => cmd'[d].login # 0
    BY <2>1, <2>3 DEF TokenInv, OpenTokens
  <2>6. HasOpen(c)' /\ \A d \in Cmds \ {c} : HasOpen(d)' <=> HasOpen(d)
    BY <2>1, <2>3 DEF HasOpen
  <2>7. cmd'[c].req = cmd[c].req /\ cmd'[c].login = cmd[c].login
    BY <2>1, <2>3
  <2> QED BY <1>3, <2>4, <2>5, <2>6, <2>7 DEF TokenInv
<1> QED BY <1>2, <1>3 DEF OpenTokens

LEMMA TokenInvWrite ==
  ASSUME TypeOK, TokenInv, NEW c \in Cmds, WriteTokens(c)
  PROVE  TokenInv'
<1>1. cmd[c] \in Commands /\ cmd[c].pc = "write" /\ cmd[c].login # 0
  BY DEF TypeOK, WriteTokens, TokenInv
<1> DEFINE login == cmd[c].req.op = "login"
           j == IF login THEN [Ended(cmd[c], "ok") EXCEPT !.pc = "exited"]
                ELSE [[cmd[c] EXCEPT !.linked = FALSE] EXCEPT !.pc = "call"]
<1>2. j.pc \notin {"refresh", "save", "write"}
  BY <1>1 DEF Ended, Commands
<1>3. cmd' = [cmd EXCEPT ![c] = j]
  BY DEF WriteTokens, Exit, Become
<1> HIDE DEF j
<1>4. \A d \in Cmds : cmd'[d] = IF d = c THEN j ELSE cmd[d]
  BY <1>3 DEF TypeOK
<1>5. CASE ~cmd[c].linked
  <2>1. ~HasOpen(c)
    BY <1>5 DEF HasOpen
  <2>2. tokens' = tokens /\ account' = account /\ (orderly' => orderly)
    BY <1>5 DEF WriteTokens
  <2> QED BY <1>2, <1>3, <2>1, <2>2, TokenAside
<1>6. CASE cmd[c].linked
  <2> DEFINE l == cmd[c].login
  <2>1. HasOpen(c)
    BY <1>1, <1>6 DEF HasOpen
  <2>2. tokens' \in Written(l) /\ account' = (IF login THEN l ELSE account)
    BY <1>6 DEF WriteTokens
  <2>3. tokens'.is = "whole" => tokens'.login # 0
    BY <1>1, <2>2 DEF Written, Whole, Torn
  <2>4. \A d \in Cmds : cmd'[d].pc \in {"refresh", "save", "write"} => cmd'[d].login # 0
    BY <1>2, <1>4 DEF TokenInv
  <2>5. ASSUME orderly'
        PROVE  tokens.is = "empty" /\ (login \/ l = account) /\ \A d \in Cmds \ {c} : ~HasOpen(d)
    <3>1. CASE orderly
      BY <2>1, <3>1 DEF TokenInv, Torn
    <3>2. CASE ~orderly
      BY <2>5, <3>2 DEF WriteTokens
    <3> QED BY <3>1, <3>2
  <2>6. ASSUME orderly' PROVE tokens' = AccountFile(account')
    <3>1. tokens' = Whole(l)
      BY <2>2, <2>5, <2>6 DEF Written
    <3>2. account' = l
      BY <2>2, <2>5, <2>6
    <3> QED BY <1>1, <3>1, <3>2 DEF AccountFile
  <2>7. ASSUME orderly' PROVE \A d \in Cmds : ~HasOpen(d)'
    BY <1>2, <1>4, <2>5, <2>7 DEF HasOpen
  <2> HIDE DEF l
  <2> QED BY <2>3, <2>4, <2>6, <2>7 DEF TokenInv
<1> QED BY <1>5, <1>6

LEMMA TokenInvLogout ==
  ASSUME TypeOK, TokenInv, NEW c \in Cmds, Logout(c)
  PROVE  TokenInv'
<1>1. \A d \in Cmds : cmd[d] \in Commands
  BY DEF TypeOK
<1>2. \A d \in Cmds \ {c} :
        cmd'[d].pc = cmd[d].pc /\ cmd'[d].login = cmd[d].login /\ cmd'[d].linked = FALSE
  <2>1. \A d \in Cmds \ {c} : cmd'[d] = [cmd[d] EXCEPT !.linked = FALSE]
    BY DEF Logout
  <2> QED BY <1>1, <2>1 DEF Commands
<1>3. cmd'[c].pc = "exited"
  <2>1. cmd'[c] = [Ended(cmd[c], "ok") EXCEPT !.pc = "exited"]
    BY DEF Logout
  <2> QED BY <1>1, <2>1 DEF Commands, Ended
<1>4. tokens' = NoTokens /\ account' = 0
  BY DEF Logout
<1>5. \A d \in Cmds : ~HasOpen(d)'
  BY <1>2, <1>3 DEF HasOpen
<1>6. \A d \in Cmds : cmd'[d].pc \in {"refresh", "save", "write"} => cmd'[d].login # 0
  BY <1>2, <1>3 DEF TokenInv
<1> QED BY <1>4, <1>5, <1>6 DEF TokenInv, NoTokens, AccountFile

LEMMA TokenInvNext == TypeOK /\ TokenInv /\ [Next]_vars => TokenInv'
<1> SUFFICES ASSUME TypeOK, TokenInv, [Next]_vars PROVE TokenInv'
  OBVIOUS
<1>1. ASSUME NEW c \in Cmds,
             \/ Start(c) \/ Login(c) \/ Dial(c) \/ Load(c) \/ Refresh(c) \/ Call(c) \/ Receive(c)
             \/ CutOff(c) \/ Leave(c) \/ OpenTokens(c) \/ WriteTokens(c) \/ Logout(c)
      PROVE  TokenInv'
  BY <1>1, TokenInvProcess, TokenInvOpen, TokenInvWrite, TokenInvLogout
<1>2. ASSUME NEW c \in Cmds, FailWrite(c) PROVE TokenInv'
  <2>1. orderly' => orderly /\ ~HasOpen(c)
    BY <1>2 DEF FailWrite, HasOpen
  <2> QED BY <1>2, <2>1, TokenInvUnsaved DEF FailWrite
<1>3. ASSUME NEW c \in Cmds, Kill(c) PROVE TokenInv'
  <2>1. NoCommand.pc = "idle"
    BY DEF NoCommand
  <2>2. orderly' => orderly /\ ~HasOpen(c)
    BY <1>3 DEF Kill
  <2> QED BY <1>3, <2>1, <2>2, TokenAside DEF Kill
<1>4. CASE UNCHANGED <<cmd, tokens, account, orderly>>
  BY <1>4 DEF TokenInv, HasOpen
<1>5. ASSUME NEW c \in Cmds, ServerStep(c) \/ LastStep(c) PROVE TokenInv'
  <2>1. UNCHANGED <<cmd, tokens, account, orderly>>
    BY <1>5 DEF ServerStep, LastStep, Verify, Query, Change, Lock, JobLog, JobDone, JobFails,
       SendSummary, Return, Answer, clientVars, tokenVars
  <2> QED BY <1>4, <2>1
<1>6. CASE Crash \/ UNCHANGED vars
  BY <1>4, <1>6 DEF Crash, vars, clientVars, tokenVars
<1> QED BY <1>1, <1>2, <1>3, <1>5, <1>6 DEF Next, ClientStep

\* tokens.json says what the last login or logout said, however commands that load,
\* refresh and save it interleave, as long as it is in order.
THEOREM TokensAreAccounts == Spec => []TokensFollowAccount
<1>1. Spec => [](TypeOK /\ TokenInv)
  BY TypeOKInit, TypeOKNext, TokenInvInit, TokenInvNext, PTL DEF Spec
<1>2. TokenInv => TokensFollowAccount
  BY DEF TokenInv, TokensFollowAccount, AccountFile
<1> QED BY <1>1, <1>2, PTL

(***************************************************************************)
(* Calls and their answers.                                                *)
(***************************************************************************)
\* A process k, its handler h and the wire w between them: only who waits has
\* events coming, a status is the last of them and the handler's end, and a process
\* that does not wait has no handler at work unless it was cut off.
Exchange(k, h, w) ==
  /\ k.pc # "wait" => w = <<>>
  /\ \A i \in 1 .. Len(w) : w[i].is \in Statuses => i = Len(w) /\ h.pc = "idle"
  /\ k.pc \notin {"idle", "wait"} => h.pc = "idle" \/ (k.pc = "exited" /\ k.exit = "cut")

\* The handlers that may hold a sync lock.
Holders == {"job", "log", "result", "return"}

ResultsOn(w) == {i \in 1 .. Len(w) : w[i].is = "result"}

\* The result of a stream has been printed or is on the wire; that of a unary call
\* is in the answer that is still to come.
ToBeShown(k, w) ==
  IF Streams(k.req) THEN \/ k.printed = 1 /\ ResultsOn(w) = {}
                         \/ k.printed = 0 /\ \E i \in ResultsOn(w) : ResultsOn(w) = {i}
  ELSE k.printed = 0 /\ ResultsOn(w) = {}

Fresh(k, w, n) == n = 0 /\ k.printed = 0 /\ ResultsOn(w) = {}

\* What the status "ok" says: the work has been done, once; or the first of the two
\* calls of updateWatcher has.
SaysDone(k, w, n) ==
  IF k.req.op = "updateWatcher" /\ k.id = 0 THEN Fresh(k, w, n)
  ELSE n = 1 /\ ToBeShown(k, w)
SaysRefused(k, n) == n = 0 \/ k.req.op \in Rereads

Says(status, k, w, n) == IF status = "ok" THEN SaysDone(k, w, n) ELSE SaysRefused(k, n)

\* The handler of a process that waits, by where it is.
Serves(k, h, w, n) ==
  /\ h.req = k.req
  /\ h.pc \in {"verify", "work", "lock"} => Fresh(k, w, n) /\ h.id = k.id /\ h.status = "ok"
  /\ h.pc = "lock" => k.req.op = "sync"
  /\ h.pc = "job" => /\ k.req.op \in JobOps \cup {"createWatcher"} /\ h.status = "ok"
                     /\ k.printed = 0 /\ ResultsOn(w) = {}
                     /\ n = IF k.req.op = "createWatcher" THEN 1 ELSE 0
  /\ h.pc \in {"log", "result"} => /\ Streams(k.req) /\ h.status = "ok"
                                   /\ n = 1 /\ k.printed = 0 /\ ResultsOn(w) = {}
  /\ h.pc \in {"return", "answer"} => Says(h.status, k, w, n)

Truth(k, h, w, n) ==
  k.req.op \in CallOps =>
    /\ k.pc # "logout"
    /\ k.pc \notin {"idle", "wait", "exited"} => n = 0 /\ k.printed = 0
    /\ k.pc = "wait" /\ h.pc # "idle" => Serves(k, h, w, n)
    /\ k.pc = "wait" /\ w # <<>> /\ w[Len(w)].is \in Statuses => Says(w[Len(w)].is, k, w, n)
    /\ k.pc = "exited" /\ k.exit = "ok" => n = 1 /\ k.printed = 1
    /\ k.pc = "exited" /\ k.exit = "error" => SaysRefused(k, n)

Holds(c) == \A n \in Names : syncLocks[n] = c => handler[c].pc \in Holders

CallInv ==
  \A c \in Cmds :
    /\ Exchange(cmd[c], handler[c], wire[c]) /\ Holds(c)
    /\ Truth(cmd[c], handler[c], wire[c], carried[c])

LEMMA CallInvInit == Init => CallInv
<1> SUFFICES ASSUME Init, NEW c \in Cmds
             PROVE  /\ Exchange(cmd[c], handler[c], wire[c]) /\ Holds(c)
                    /\ Truth(cmd[c], handler[c], wire[c], carried[c])
  BY DEF CallInv
<1>1. /\ cmd[c].pc = "idle" /\ cmd[c].req.op = "none" /\ handler[c].pc = "idle"
      /\ wire[c] = <<>> /\ \A n \in Names : syncLocks[n] # c
  BY CommandAssumption DEF Init, NoCommand, NoHandler, NoRequest
<1>2. Exchange(cmd[c], handler[c], wire[c]) /\ Holds(c)
  BY <1>1 DEF Exchange, Holds
<1>3. cmd[c].req.op \notin CallOps
  BY <1>1 DEF CallOps, WatcherOps, MachineOps, RedirectionOps, JobOps
<1> QED BY <1>2, <1>3 DEF Truth

\* A step of c and its handler.
LEMMA CallFrame ==
  ASSUME TypeOK, CallInv, NEW c \in Cmds,
         \A d \in Cmds \ {c} : /\ cmd'[d] = cmd[d] /\ handler'[d] = handler[d]
                               /\ wire'[d] = wire[d] /\ carried'[d] = carried[d]
                               /\ \A n \in Names : syncLocks'[n] = d => syncLocks[n] = d,
         Exchange(cmd'[c], handler'[c], wire'[c]), Holds(c)',
         Truth(cmd'[c], handler'[c], wire'[c], carried'[c])
  PROVE  CallInv'
<1> SUFFICES ASSUME NEW d \in Cmds \ {c}
             PROVE  /\ Exchange(cmd'[d], handler'[d], wire'[d]) /\ Holds(d)'
                    /\ Truth(cmd'[d], handler'[d], wire'[d], carried'[d])
  BY DEF CallInv
<1> QED BY DEF CallInv, Holds

\* A step of the process alone, to the locals k.
LEMMA CallProcess ==
  ASSUME TypeOK, CallInv, NEW c \in Cmds, NEW k, cmd' = [cmd EXCEPT ![c] = k],
         handler' = handler, syncLocks' = syncLocks,
         \A d \in Cmds \ {c} : wire'[d] = wire[d] /\ carried'[d] = carried[d],
         Exchange(k, handler[c], wire'[c]), Truth(k, handler[c], wire'[c], carried'[c])
  PROVE  CallInv'
<1>1. cmd'[c] = k /\ \A d \in Cmds \ {c} : cmd'[d] = cmd[d]
  BY DEF TypeOK
<1>2. Holds(c)'
  BY DEF CallInv, Holds
<1> QED BY <1>1, <1>2, CallFrame

\* The same without an event.
LEMMA CallQuiet ==
  ASSUME TypeOK, CallInv, NEW c \in Cmds, NEW k, cmd' = [cmd EXCEPT ![c] = k],
         handler' = handler, syncLocks' = syncLocks, wire' = wire, carried' = carried,
         Exchange(k, handler[c], wire[c]), Truth(k, handler[c], wire[c], carried[c])
  PROVE  CallInv'
BY CallProcess

\* A process on its way to the call goes on, or gives up.
LEMMA CallBefore ==
  ASSUME TypeOK, CallInv, NEW c \in Cmds, NEW j \in Commands, NEW to \in CommandSteps,
         cmd[c].pc \notin {"idle", "wait", "exited"}, Become(c, to, j),
         j.req = cmd[c].req, j.printed = cmd[c].printed, to # "logout",
         to \notin {"idle", "wait", "exited"} \/ (to = "exited" /\ j.exit \in {"error", "cut"})
         \/ (to = "exited" /\ j.req.op \notin CallOps),
         handler' = handler, syncLocks' = syncLocks, wire' = wire, carried' = carried
  PROVE  CallInv'
<1> DEFINE k == [j EXCEPT !.pc = to]
<1>1. /\ cmd' = [cmd EXCEPT ![c] = k]
      /\ k.pc = to /\ k.req = cmd[c].req /\ k.printed = cmd[c].printed /\ k.exit = j.exit
  BY DEF Become, Commands
<1> HIDE DEF k
<1>2. Exchange(cmd[c], handler[c], wire[c]) /\ Truth(cmd[c], handler[c], wire[c], carried[c])
  BY DEF CallInv
<1>3. Exchange(k, handler[c], wire[c])
  BY <1>1, <1>2 DEF Exchange
<1>4. Truth(k, handler[c], wire[c], carried[c])
  BY <1>1, <1>2 DEF Truth, SaysRefused
<1> QED BY <1>1, <1>3, <1>4, CallQuiet

LEMMA CallInvProcess ==
  ASSUME TypeOK, CallInv, NEW c \in Cmds,
         \/ Dial(c) \/ Load(c) \/ Refresh(c) \/ Login(c) \/ OpenTokens(c) \/ WriteTokens(c)
         \/ FailWrite(c)
  PROVE  CallInv'
<1>1. /\ handler' = handler /\ syncLocks' = syncLocks /\ wire' = wire /\ carried' = carried
      /\ cmd[c].pc \notin {"idle", "wait", "exited"}
  BY DEF Dial, Load, Refresh, Login, OpenTokens, WriteTokens, FailWrite, serverVars
<1>2. cmd[c] \in Commands
  BY DEF TypeOK
<1>3. ASSUME NEW j \in Commands, j.req = cmd[c].req, j.printed = cmd[c].printed,
             NEW to \in CommandSteps \ {"idle", "wait", "exited", "logout"}, Become(c, to, j)
      PROVE  CallInv'
  BY <1>1, <1>3, CallBefore
<1>4. ASSUME NEW how \in {"ok", "error"}, Exit(c, how),
             how = "error" \/ cmd[c].req.op = "login"
      PROVE  CallInv'
  <2> DEFINE j == Ended(cmd[c], how)
  <2>1. j \in Commands /\ j.req = cmd[c].req /\ j.printed = cmd[c].printed /\ j.exit = how
    BY <1>2, CommandTypes DEF Ended, Commands
  <2>2. Become(c, "exited", j)
    BY <1>4 DEF Exit
  <2> HIDE DEF j
  <2>3. "login" \notin CallOps
    BY DEF CallOps, WatcherOps, MachineOps, RedirectionOps, JobOps
  <2> QED BY <1>1, <1>4, <2>1, <2>2, <2>3, CallBefore DEF CommandSteps
<1>5. /\ \A l \in Logins : LET j == [cmd[c] EXCEPT !.login = l]
                           IN  j \in Commands /\ j.req = cmd[c].req /\ j.printed = cmd[c].printed
      /\ \A b \in BOOLEAN : LET j == [cmd[c] EXCEPT !.linked = b]
                            IN  j \in Commands /\ j.req = cmd[c].req /\ j.printed = cmd[c].printed
  BY <1>2 DEF Commands
<1>6. {"load", "call", "refresh", "save", "write"} \subseteq
        CommandSteps \ {"idle", "wait", "exited", "logout"}
  BY DEF CommandSteps
<1>7. GoOnUnsaved(c) => CallInv'
  BY <1>2, <1>3, <1>4, <1>6 DEF GoOnUnsaved
<1>8. CASE Dial(c)
  BY <1>2, <1>3, <1>4, <1>6, <1>8 DEF Dial, NextCall
<1>9. CASE Load(c)
  <2>1. tokens.login \in Logins /\ AfterLoad \subseteq {"call", "refresh"}
    BY DEF TypeOK, TokenFiles, AfterLoad
  <2> QED BY <1>3, <1>4, <1>5, <1>6, <1>9, <2>1 DEF Load
<1>10. CASE Refresh(c)
  BY <1>2, <1>3, <1>4, <1>6, <1>10 DEF Refresh
<1>11. CASE Login(c)
  <2>1. issued < MaxLogins => issued + 1 \in Logins
    BY CommandAssumption DEF TypeOK, Logins
  <2> QED BY <1>3, <1>4, <1>5, <1>6, <1>11, <2>1 DEF Login
<1>12. CASE OpenTokens(c)
  BY <1>3, <1>5, <1>6, <1>7, <1>12 DEF OpenTokens
<1>13. CASE WriteTokens(c)
  BY <1>3, <1>4, <1>5, <1>6, <1>13 DEF WriteTokens
<1>14. CASE FailWrite(c)
  BY <1>7, <1>14 DEF FailWrite
<1> QED BY <1>8, <1>9, <1>10, <1>11, <1>12, <1>13, <1>14

\* Starting and ending a process.
LEMMA CallInvEnds ==
  ASSUME TypeOK, CallInv, NEW c \in Cmds, Start(c) \/ CutOff(c) \/ Kill(c) \/ Leave(c)
  PROVE  CallInv'
<1>1. handler' = handler /\ syncLocks' = syncLocks /\ Exchange(cmd[c], handler[c], wire[c])
  BY DEF Start, CutOff, Kill, Leave, serverVars, CallInv
<1>2. NoCommand.pc = "idle" /\ NoCommand.printed = 0 /\ NoCommand.req.op \notin CallOps
  BY DEF NoCommand, NoRequest, CallOps, WatcherOps, MachineOps, RedirectionOps, JobOps
<1>3. \A h, n : Exchange(NoCommand, h, <<>>) /\ Truth(NoCommand, h, <<>>, n)
  BY <1>2 DEF Exchange, Truth
<1>4. CASE Start(c)
  <2>1. PICK r \in given.requests :
          Become(c, IF r.op \in TokenOps THEN r.op ELSE "dial", [NoCommand EXCEPT !.req = r])
    BY <1>4 DEF Start
  <2> DEFINE to == IF r.op \in TokenOps THEN r.op ELSE "dial"
             k == [[NoCommand EXCEPT !.req = r] EXCEPT !.pc = to]
  <2>2. cmd' = [cmd EXCEPT ![c] = k]
    BY <2>1 DEF Become
  <2>3. /\ k.pc = to /\ k.req = r /\ k.printed = 0 /\ to \notin {"idle", "wait", "exited"}
        /\ r.op \in CallOps => to # "logout"
    BY DEF NoCommand, TokenOps, CallOps, WatcherOps, MachineOps, RedirectionOps, JobOps
  <2> HIDE DEF k, to
  <2>4. /\ wire' = wire /\ wire[c] = <<>> /\ handler[c].pc = "idle"
        /\ carried' = [carried EXCEPT ![c] = 0]
    BY <1>1, <1>4 DEF Start, Exchange
  <2>5. Exchange(k, handler[c], wire'[c])
    BY <2>3, <2>4 DEF Exchange
  <2>6. carried'[c] = 0 /\ \A d \in Cmds \ {c} : carried'[d] = carried[d]
    BY <2>4 DEF TypeOK
  <2>7. Truth(k, handler[c], wire'[c], carried'[c])
    BY <2>3, <2>4, <2>6 DEF Truth
  <2> QED BY <1>1, <2>2, <2>4, <2>5, <2>6, <2>7, CallProcess
<1>5. CASE CutOff(c)
  <2> DEFINE k == [Ended(cmd[c], "cut") EXCEPT !.pc = "exited"]
  <2>1. cmd' = [cmd EXCEPT ![c] = k] /\ carried' = carried
    BY <1>5 DEF CutOff, Exit, Become
  <2>2. k.pc = "exited" /\ k.exit = "cut"
    BY DEF Ended, TypeOK, Commands
  <2> HIDE DEF k
  <2>3. wire'[c] = <<>> /\ \A d \in Cmds \ {c} : wire'[d] = wire[d]
    BY <1>5 DEF CutOff, TypeOK
  <2>4. Exchange(k, handler[c], wire'[c]) /\ Truth(k, handler[c], wire'[c], carried'[c])
    BY <2>2, <2>3 DEF Exchange, Truth
  <2> QED BY <1>1, <2>1, <2>3, <2>4, CallProcess
<1>6. CASE Kill(c)
  <2>1. wire'[c] = <<>> /\ \A d \in Cmds \ {c} : wire'[d] = wire[d]
    BY <1>6 DEF Kill, TypeOK
  <2>2. Exchange(NoCommand, handler[c], wire'[c]) /\ Truth(NoCommand, handler[c], wire'[c], carried'[c])
    BY <1>3, <2>1
  <2> QED BY <1>1, <1>6, <2>1, <2>2, CallProcess DEF Kill
<1>7. CASE Leave(c)
  <2>1. wire[c] = <<>>
    BY <1>1, <1>7 DEF Leave, Exchange
  <2>2. Exchange(NoCommand, handler[c], wire[c]) /\ Truth(NoCommand, handler[c], wire[c], carried[c])
    BY <1>3, <2>1
  <2> QED BY <1>1, <1>7, <2>2, CallQuiet DEF Leave
<1> QED BY <1>4, <1>5, <1>6, <1>7

LEMMA CallInvCall ==
  ASSUME TypeOK, CallInv, NEW c \in Cmds, Call(c)
  PROVE  CallInv'
<1> DEFINE k == [[cmd[c] EXCEPT !.login = 0] EXCEPT !.pc = "wait"]
           h == [pc |-> "verify", req |-> cmd[c].req, id |-> cmd[c].id,
                 bearer |-> cmd[c].login # 0, status |-> "ok"]
<1>1. cmd' = [cmd EXCEPT ![c] = k] /\ handler' = [handler EXCEPT ![c] = h]
  BY DEF Call, Become
<1>2. /\ k.pc = "wait" /\ k.req = cmd[c].req /\ k.id = cmd[c].id /\ k.printed = cmd[c].printed
      /\ h.pc = "verify" /\ h.req = cmd[c].req /\ h.id = cmd[c].id /\ h.status = "ok"
  BY DEF TypeOK, Commands
<1> HIDE DEF k, h
<1>3. /\ cmd[c].pc = "call" /\ wire[c] = <<>> /\ handler[c].pc = "idle"
      /\ syncLocks' = syncLocks /\ wire' = wire /\ carried' = carried
  BY DEF Call, CallInv, Exchange
<1>4. Exchange(k, h, wire[c])
  BY <1>2, <1>3 DEF Exchange
<1>5. Truth(k, h, wire[c], carried[c])
  <2>1. Truth(cmd[c], handler[c], wire[c], carried[c])
    BY DEF CallInv
  <2>2. ResultsOn(wire[c]) = {}
    BY <1>3 DEF ResultsOn
  <2> QED BY <1>2, <1>3, <2>1, <2>2 DEF Truth, Serves, Fresh
<1>6. \A d \in Cmds : /\ cmd'[d] = IF d = c THEN k ELSE cmd[d]
                      /\ handler'[d] = IF d = c THEN h ELSE handler[d]
  BY <1>1 DEF TypeOK
<1>7. Holds(c)'
  BY <1>3 DEF CallInv, Holds, Holders
<1> QED BY <1>3, <1>4, <1>5, <1>6, <1>7, CallFrame

(***************************************************************************)
(* An event less, or one more, on a wire.                                  *)
(***************************************************************************)
LEMMA TailFacts ==
  ASSUME NEW w \in Seq(Events), w # <<>>
  PROVE  /\ Len(w) \in Nat \ {0} /\ Head(w) = w[1] /\ Tail(w) \in Seq(Events)
         /\ Len(Tail(w)) = Len(w) - 1
         /\ \A i \in 1 .. Len(Tail(w)) : i + 1 \in 1 .. Len(w) /\ Tail(w)[i] = w[i + 1]
         /\ Tail(w) # <<>> => Tail(w)[Len(Tail(w))] = w[Len(w)]
OBVIOUS

LEMMA TailResults ==
  ASSUME NEW w \in Seq(Events), w # <<>>
  PROVE  /\ ResultsOn(w) = {} => ResultsOn(Tail(w)) = {}
         /\ ResultsOn(w) = {1} => ResultsOn(Tail(w)) = {}
         /\ \A i \in ResultsOn(w) :
              ResultsOn(w) = {i} /\ i # 1 => ResultsOn(Tail(w)) = {i - 1}
<1>1. \A i \in 1 .. Len(Tail(w)) : i \in ResultsOn(Tail(w)) <=> i + 1 \in ResultsOn(w)
  BY TailFacts DEF ResultsOn
<1>2. ResultsOn(Tail(w)) \subseteq 1 .. Len(Tail(w)) /\ ResultsOn(w) \subseteq 1 .. Len(w)
  BY DEF ResultsOn
<1>3. Len(w) \in Nat /\ Len(Tail(w)) = Len(w) - 1
  BY TailFacts
<1>4. ASSUME NEW i \in ResultsOn(w), ResultsOn(w) = {i}, i # 1 PROVE ResultsOn(Tail(w)) = {i - 1}
  <2>1. i - 1 \in 1 .. Len(Tail(w)) /\ (i - 1) + 1 = i
    BY <1>2, <1>3, <1>4
  <2>2. i - 1 \in ResultsOn(Tail(w))
    BY <1>1, <1>4, <2>1
  <2>3. ASSUME NEW j \in ResultsOn(Tail(w)) PROVE j = i - 1
    BY <1>1, <1>2, <1>4, <2>3
  <2> QED BY <2>2, <2>3
<1> QED BY <1>1, <1>2, <1>3, <1>4

LEMMA AppendFacts ==
  ASSUME NEW w \in Seq(Events), NEW e \in Events
  PROVE  /\ Len(w) \in Nat /\ Len(Append(w, e)) = Len(w) + 1 /\ Append(w, e)[Len(w) + 1] = e
         /\ \A i \in 1 .. Len(w) : Append(w, e)[i] = w[i]
         /\ ResultsOn(Append(w, e)) =
              IF e.is = "result" THEN ResultsOn(w) \cup {Len(w) + 1} ELSE ResultsOn(w)
<1>1. /\ Len(w) \in Nat /\ Len(Append(w, e)) = Len(w) + 1 /\ Append(w, e)[Len(w) + 1] = e
      /\ \A i \in 1 .. Len(w) : Append(w, e)[i] = w[i]
  OBVIOUS
<1>2. 1 .. (Len(w) + 1) = (1 .. Len(w)) \cup {Len(w) + 1}
  BY <1>1
<1> HIDE DEF ResultsOn
<1> DEFINE v == Append(w, e)
<1> HIDE DEF v
<1>3. ResultsOn(v) = {i \in (1 .. Len(w)) \cup {Len(w) + 1} : v[i].is = "result"}
  BY <1>1, <1>2 DEF ResultsOn, v
<1>4. ResultsOn(v) = IF e.is = "result" THEN ResultsOn(w) \cup {Len(w) + 1} ELSE ResultsOn(w)
  BY <1>1, <1>3 DEF ResultsOn, v
<1> QED BY <1>1, <1>4 DEF v

(***************************************************************************)
(* The process receives an event.                                          *)
(***************************************************************************)
\* A LOG event, and a RESULT event with the process that has printed it.
LEMMA ReceiveMore ==
  ASSUME NEW k \in Commands, NEW h \in Handlers, NEW w \in Seq(Events), w # <<>>, NEW n,
         k.pc = "wait", Exchange(k, h, w), Truth(k, h, w, n),
         NEW k2, k2.pc = "wait", k2.req = k.req, k2.id = k.id, k2.exit = k.exit,
         \/ Head(w).is = "log" /\ k2.printed = k.printed
         \/ Head(w).is = "result" /\ k2.printed = k.printed + 1
  PROVE  Exchange(k2, h, Tail(w)) /\ Truth(k2, h, Tail(w), n)
<1> DEFINE v == Tail(w)
<1>1. /\ Len(w) \in Nat \ {0} /\ Head(w) = w[1] /\ v \in Seq(Events)
      /\ Len(v) = Len(w) - 1
      /\ \A i \in 1 .. Len(v) : i + 1 \in 1 .. Len(w) /\ v[i] = w[i + 1]
      /\ v # <<>> => v[Len(v)] = w[Len(w)]
  BY TailFacts
<1>2. /\ ResultsOn(w) = {} => ResultsOn(v) = {}
      /\ ResultsOn(w) = {1} => ResultsOn(v) = {}
      /\ \A i \in ResultsOn(w) : ResultsOn(w) = {i} /\ i # 1 => ResultsOn(v) = {i - 1}
  BY TailResults
<1>3. Head(w).is = "log" => 1 \notin ResultsOn(w)
  BY <1>1 DEF ResultsOn
<1>4. Head(w).is = "result" => 1 \in ResultsOn(w)
  BY <1>1 DEF ResultsOn
<1>5. \A i \in ResultsOn(w) : ResultsOn(w) = {i} /\ i # 1 => i - 1 \in ResultsOn(v)
  BY <1>2
<1> HIDE DEF v
<1>6. Exchange(k2, h, v)
  <2>1. \A i \in 1 .. Len(w) : w[i].is \in Statuses => i = Len(w) /\ h.pc = "idle"
    BY DEF Exchange
  <2>2. ASSUME NEW i \in 1 .. Len(v), v[i].is \in Statuses PROVE i = Len(v) /\ h.pc = "idle"
    <3>1. i + 1 = Len(w) /\ h.pc = "idle"
      BY <1>1, <2>1, <2>2
    <3> QED BY <1>1, <3>1
  <2> QED BY <2>2 DEF Exchange
<1>7. Fresh(k, w, n) => Head(w).is = "log" /\ Fresh(k2, v, n)
  BY <1>2, <1>4 DEF Fresh
<1>8. ToBeShown(k, w) => ToBeShown(k2, v)
  <2>1. CASE Head(w).is = "log"
    BY <1>2, <1>3, <1>5, <2>1 DEF ToBeShown
  <2>2. CASE Head(w).is = "result"
    BY <1>2, <1>4, <2>2 DEF ToBeShown
  <2> QED BY <2>1, <2>2
<1>9. SaysDone(k, w, n) => SaysDone(k2, v, n)
  BY <1>7, <1>8 DEF SaysDone
<1>10. SaysRefused(k, n) => SaysRefused(k2, n)
  BY DEF SaysRefused
<1>11. \A status : Says(status, k, w, n) => Says(status, k2, v, n)
  BY <1>9, <1>10 DEF Says
<1>12. k.printed = 0 /\ ResultsOn(w) = {} => k2.printed = 0 /\ ResultsOn(v) = {}
  BY <1>2, <1>4
<1>13. Serves(k, h, w, n) => Serves(k2, h, v, n)
  BY <1>7, <1>11, <1>12 DEF Serves
<1>14. ASSUME v # <<>>, v[Len(v)].is \in Statuses, k.req.op \in CallOps
       PROVE  Says(v[Len(v)].is, k2, v, n)
  BY <1>1, <1>11, <1>14 DEF Truth
<1>15. Truth(k2, h, v, n)
  BY <1>13, <1>14 DEF Truth
<1> QED BY <1>6, <1>15 DEF v

\* The status: nothing follows it, and the handler is done.
LEMMA ReceiveStatus ==
  ASSUME NEW k \in Commands, NEW h \in Handlers, NEW w \in Seq(Events), w # <<>>, NEW n,
         k.pc = "wait", Exchange(k, h, w), Truth(k, h, w, n), Head(w).is \in Statuses
  PROVE  /\ Tail(w) = <<>> /\ h.pc = "idle" /\ ResultsOn(w) = {}
         /\ k.req.op \in CallOps => Says(Head(w).is, k, w, n)
<1>1. /\ Len(w) \in Nat \ {0} /\ Head(w) = w[1] /\ Tail(w) \in Seq(Events)
      /\ Len(Tail(w)) = Len(w) - 1
  BY TailFacts
<1>2. Len(w) = 1 /\ h.pc = "idle"
  <2>1. \A i \in 1 .. Len(w) : w[i].is \in Statuses => i = Len(w) /\ h.pc = "idle"
    BY DEF Exchange
  <2>2. 1 \in 1 .. Len(w) /\ w[1].is \in Statuses
    BY <1>1
  <2> QED BY <2>1, <2>2
<1>3. Tail(w) = <<>>
  <2>1. Len(Tail(w)) = 0 /\ Tail(w) \in Seq(Events)
    BY <1>1, <1>2
  <2>2. \A v \in Seq(Events) : Len(v) = 0 => v = <<>>
    OBVIOUS
  <2> QED BY <2>1, <2>2
<1>4. ResultsOn(w) = {}
  <2>1. w[1].is # "result"
    BY <1>1 DEF Statuses
  <2>2. 1 .. Len(w) = {1}
    BY <1>2
  <2> QED BY <2>1, <2>2 DEF ResultsOn
<1>5. k.req.op \in CallOps => Says(Head(w).is, k, w, n)
  BY <1>1, <1>2 DEF Truth
<1> QED BY <1>2, <1>3, <1>4, <1>5

LEMMA CallInvReceive ==
  ASSUME TypeOK, CallInv, NEW c \in Cmds, Receive(c)
  PROVE  CallInv'
<1> DEFINE e == Head(wire[c])
           more == e.is = "ok" /\ cmd[c].req.op = "updateWatcher" /\ cmd[c].id = 0
           shown == [cmd[c] EXCEPT !.printed = @ + 1]
           last == IF Streams(cmd[c].req) THEN cmd[c] ELSE shown
           n == carried[c]
<1>1. \/ e.is = "log" /\ Become(c, "wait", cmd[c])
      \/ e.is = "result" /\ Become(c, "wait", shown)
      \/ more /\ Become(c, NextCall, [cmd[c] EXCEPT !.id = e.id])
      \/ e.is = "ok" /\ ~more /\ Become(c, "exited", Ended(last, "ok"))
      \/ e.is = "refused" /\ Exit(c, "error")
  BY Received
<1>2. /\ cmd[c] \in Commands /\ handler[c] \in Handlers /\ cmd[c].pc = "wait"
      /\ wire[c] \in Seq(Events) /\ wire[c] # <<>>
      /\ Exchange(cmd[c], handler[c], wire[c]) /\ Truth(cmd[c], handler[c], wire[c], n)
  BY DEF TypeOK, CallInv, Receive, Linked
<1>3. /\ handler' = handler /\ syncLocks' = syncLocks /\ carried' = carried
      /\ wire'[c] = Tail(wire[c]) /\ \A d \in Cmds \ {c} : wire'[d] = wire[d]
  BY DEF Receive, serverVars, TypeOK
<1>4. ASSUME NEW k, cmd' = [cmd EXCEPT ![c] = k],
             Exchange(k, handler[c], Tail(wire[c])), Truth(k, handler[c], Tail(wire[c]), n)
      PROVE  CallInv'
  BY <1>3, <1>4, CallProcess
<1>5. ASSUME NEW j \in Commands, j.req = cmd[c].req, j.id = cmd[c].id, j.exit = cmd[c].exit,
             \/ e.is = "log" /\ j.printed = cmd[c].printed
             \/ e.is = "result" /\ j.printed = cmd[c].printed + 1,
             Become(c, "wait", j)
      PROVE  CallInv'
  <2> DEFINE k == [j EXCEPT !.pc = "wait"]
  <2>1. /\ cmd' = [cmd EXCEPT ![c] = k] /\ k.pc = "wait" /\ k.req = j.req /\ k.id = j.id
        /\ k.exit = j.exit /\ k.printed = j.printed
    BY <1>5 DEF Become, Commands
  <2> HIDE DEF k, n
  <2>2. Exchange(k, handler[c], Tail(wire[c])) /\ Truth(k, handler[c], Tail(wire[c]), n)
    BY <1>2, <1>5, <2>1, ReceiveMore
  <2> QED BY <1>4, <2>1, <2>2 DEF n
<1>6. ASSUME e.is \in Statuses
      PROVE  /\ Tail(wire[c]) = <<>> /\ handler[c].pc = "idle" /\ ResultsOn(wire[c]) = {}
             /\ cmd[c].req.op \in CallOps => Says(e.is, cmd[c], wire[c], n)
  BY <1>2, <1>6, ReceiveStatus
<1>7. ASSUME e.is \in Statuses, NEW j \in Commands, NEW to \in CommandSteps, Become(c, to, j),
             j.req = cmd[c].req, to \notin {"idle", "wait", "logout"},
             j.req.op \in CallOps =>
               /\ to # "exited" => n = 0 /\ j.printed = 0
               /\ to = "exited" /\ j.exit = "ok" => n = 1 /\ j.printed = 1
               /\ to = "exited" /\ j.exit = "error" => SaysRefused(cmd[c], n)
      PROVE  CallInv'
  <2> DEFINE k == [j EXCEPT !.pc = to]
  <2>1. /\ cmd' = [cmd EXCEPT ![c] = k] /\ k.pc = to /\ k.req = j.req
        /\ k.exit = j.exit /\ k.printed = j.printed
    BY <1>7 DEF Become, Commands
  <2> HIDE DEF k
  <2>2. Tail(wire[c]) = <<>> /\ handler[c].pc = "idle"
    BY <1>6, <1>7
  <2> HIDE DEF n
  <2>3. Exchange(k, handler[c], <<>>)
    BY <1>7, <2>1, <2>2 DEF Exchange
  <2>4. Truth(k, handler[c], <<>>, n)
    BY <1>7, <2>1 DEF Truth, SaysRefused
  <2> QED BY <1>4, <2>1, <2>2, <2>3, <2>4 DEF n
<1>8. "wait" \in CommandSteps /\ "exited" \in CommandSteps /\ NextCall \in {"load", "call"}
      /\ {"load", "call"} \subseteq CommandSteps /\ "ok" \in Statuses /\ "refused" \in Statuses
  BY DEF CommandSteps, NextCall, Statuses
<1>9. shown \in Commands /\ shown.req = cmd[c].req /\ shown.id = cmd[c].id
      /\ shown.exit = cmd[c].exit /\ shown.printed = cmd[c].printed + 1
  BY <1>2 DEF Commands
<1>10. CASE e.is = "log" /\ Become(c, "wait", cmd[c])
  BY <1>2, <1>5, <1>10
<1>11. CASE e.is = "result" /\ Become(c, "wait", shown)
  BY <1>5, <1>9, <1>11
<1>12. CASE more /\ Become(c, NextCall, [cmd[c] EXCEPT !.id = e.id])
  <2> DEFINE j == [cmd[c] EXCEPT !.id = e.id]
  <2>1. e.id \in RowIds
    BY <1>2, Received DEF Events
  <2>2. j \in Commands /\ j.req = cmd[c].req /\ j.printed = cmd[c].printed
    BY <1>2, <2>1 DEF Commands
  <2>3. cmd[c].req.op \in CallOps => n = 0 /\ cmd[c].printed = 0
    BY <1>6, <1>8, <1>12 DEF Says, SaysDone, Fresh
  <2> HIDE DEF j
  <2>4. Become(c, NextCall, j)
    BY <1>12 DEF j
  <2> QED BY <1>7, <1>8, <1>12, <2>2, <2>3, <2>4
<1>13. CASE e.is = "ok" /\ ~more /\ Become(c, "exited", Ended(last, "ok"))
  <2> DEFINE j == Ended(last, "ok")
  <2>1. last \in Commands /\ last.req = cmd[c].req
    BY <1>2, <1>9
  <2>2. j \in Commands /\ j.req = cmd[c].req /\ j.printed = last.printed /\ j.exit = "ok"
    BY <2>1, CommandTypes DEF Ended, Commands
  <2>3. cmd[c].req.op \in CallOps => n = 1 /\ last.printed = 1
    <3>1. cmd[c].req.op \in CallOps => n = 1 /\ ToBeShown(cmd[c], wire[c])
      BY <1>6, <1>8, <1>13 DEF Says, SaysDone
    <3>2. ResultsOn(wire[c]) = {}
      BY <1>6, <1>8, <1>13
    <3> QED BY <1>2, <1>9, <3>1, <3>2 DEF ToBeShown
  <2> HIDE DEF j, last
  <2>4. Become(c, "exited", j)
    BY <1>13 DEF j
  <2> QED BY <1>7, <1>8, <1>13, <2>2, <2>3, <2>4
<1>14. CASE e.is = "refused" /\ Exit(c, "error")
  <2> DEFINE j == Ended(cmd[c], "error")
  <2>1. j \in Commands /\ j.req = cmd[c].req /\ j.exit = "error"
    BY <1>2, CommandTypes DEF Ended, Commands
  <2>2. cmd[c].req.op \in CallOps => SaysRefused(cmd[c], n)
    BY <1>6, <1>8, <1>14 DEF Says
  <2> HIDE DEF j
  <2>3. Become(c, "exited", j)
    BY <1>14 DEF j, Exit
  <2> QED BY <1>7, <1>8, <1>14, <2>1, <2>2, <2>3
<1> QED BY <1>1, <1>10, <1>11, <1>12, <1>13, <1>14

(***************************************************************************)
(* Steps of the handler.                                                   *)
(***************************************************************************)
\* A handler h becomes h2, with an event that is no status sent or none.
LEMMA HandlerMove ==
  ASSUME NEW k, NEW h, NEW w \in Seq(Events), NEW n, NEW h2, NEW w2, NEW n2,
         Exchange(k, h, w), Truth(k, h, w, n), h.pc # "idle", h2.pc # "idle",
         \/ w2 = w
         \/ k.pc = "wait" /\ \E e \in Events : e.is \notin Statuses /\ w2 = Append(w, e),
         k.pc = "wait" /\ k.req.op \in CallOps => Serves(k, h2, w2, n2)
  PROVE  Exchange(k, h2, w2) /\ Truth(k, h2, w2, n2)
<1>1. \A i \in 1 .. Len(w) : w[i].is \notin Statuses
  BY DEF Exchange
<1>2. \A i \in 1 .. Len(w2) : w2[i].is \notin Statuses
  <2>1. ASSUME NEW e \in Events, e.is \notin Statuses, w2 = Append(w, e), NEW i \in 1 .. Len(w2)
        PROVE  w2[i].is \notin Statuses
    <3>1. /\ Len(w) \in Nat /\ Len(w2) = Len(w) + 1 /\ w2[Len(w) + 1] = e
          /\ \A j \in 1 .. Len(w) : w2[j] = w[j]
      BY <2>1, AppendFacts
    <3>2. CASE i = Len(w) + 1
      BY <2>1, <3>1, <3>2
    <3>3. CASE i \in 1 .. Len(w)
      BY <1>1, <3>1, <3>3
    <3> QED BY <3>1, <3>2, <3>3
  <2> QED BY <1>1, <2>1
<1>3. w2 # <<>> => w2[Len(w2)].is \notin Statuses
  <2>1. w2 \in Seq(Events)
    OBVIOUS
  <2>2. w2 # <<>> => Len(w2) \in 1 .. Len(w2)
    BY <2>1
  <2> QED BY <1>2, <2>2
<1>4. Exchange(k, h2, w2)
  BY <1>2 DEF Exchange
<1>5. k.pc = "wait" \/ k.pc = "idle" \/ (k.pc = "exited" /\ k.exit = "cut")
  BY DEF Exchange
<1>6. Truth(k, h2, w2, n2)
  BY <1>3, <1>5 DEF Truth
<1> QED BY <1>4, <1>6

LEMMA CallHandler ==
  ASSUME TypeOK, CallInv, NEW c \in Cmds, NEW h, handler' = [handler EXCEPT ![c] = h],
         cmd' = cmd, handler[c].pc # "idle", h.pc # "idle",
         \A d \in Cmds \ {c} : /\ wire'[d] = wire[d] /\ carried'[d] = carried[d]
                               /\ \A n \in Names : syncLocks'[n] = d => syncLocks[n] = d,
         Holds(c)',
         \/ wire'[c] = wire[c]
         \/ /\ cmd[c].pc = "wait"
            /\ \E e \in Events : e.is \notin Statuses /\ wire'[c] = Append(wire[c], e),
         cmd[c].pc = "wait" /\ cmd[c].req.op \in CallOps => Serves(cmd[c], h, wire'[c], carried'[c])
  PROVE  CallInv'
<1>1. handler'[c] = h /\ \A d \in Cmds \ {c} : handler'[d] = handler[d]
  BY DEF TypeOK
<1>2. /\ Exchange(cmd[c], handler[c], wire[c]) /\ wire[c] \in Seq(Events)
      /\ Truth(cmd[c], handler[c], wire[c], carried[c])
  BY DEF CallInv, TypeOK
<1>3. Exchange(cmd[c], h, wire'[c]) /\ Truth(cmd[c], h, wire'[c], carried'[c])
  BY <1>2, HandlerMove
<1> QED BY <1>1, <1>3, CallFrame

\* The handler goes on from where it may hold its lock, or to where it may.
LEMMA HoldsOn ==
  ASSUME TypeOK, CallInv, NEW c \in Cmds, syncLocks' = syncLocks,
         handler[c].pc \notin Holders \/ handler'[c].pc \in Holders
  PROVE  Holds(c)'
BY DEF CallInv, Holds

LEMMA CallProceed ==
  ASSUME TypeOK, CallInv, NEW c \in Cmds, NEW to \in HandlerSteps \ {"idle"}, Proceed(c, to),
         cmd' = cmd, syncLocks' = syncLocks, handler[c].pc # "idle",
         handler[c].pc \notin Holders \/ to \in Holders,
         \A d \in Cmds \ {c} : wire'[d] = wire[d] /\ carried'[d] = carried[d],
         \/ wire'[c] = wire[c]
         \/ /\ cmd[c].pc = "wait"
            /\ \E e \in Events : e.is \notin Statuses /\ wire'[c] = Append(wire[c], e),
         \A h : /\ cmd[c].pc = "wait" /\ cmd[c].req.op \in CallOps
                /\ Serves(cmd[c], handler[c], wire[c], carried[c])
                /\ h.pc = to /\ h.req = handler[c].req /\ h.id = handler[c].id
                /\ h.status = handler[c].status
                => Serves(cmd[c], h, wire'[c], carried'[c])
  PROVE  CallInv'
<1> DEFINE h == [handler[c] EXCEPT !.pc = to]
<1>1. /\ handler' = [handler EXCEPT ![c] = h] /\ h.pc = to /\ h.req = handler[c].req
      /\ h.id = handler[c].id /\ h.status = handler[c].status
  BY DEF TypeOK, Handlers, Proceed
<1> HIDE DEF h
<1>2. Holds(c)'
  BY <1>1, HoldsOn DEF TypeOK
<1>3. cmd[c].pc = "wait" /\ cmd[c].req.op \in CallOps => Serves(cmd[c], handler[c], wire[c], carried[c])
  BY DEF CallInv, Truth
<1> QED BY <1>1, <1>2, <1>3, CallHandler

LEMMA CallRefuse ==
  ASSUME TypeOK, CallInv, NEW c \in Cmds, Refuse(c),
         cmd' = cmd, syncLocks' = syncLocks, wire' = wire, handler[c].pc # "idle",
         \A d \in Cmds \ {c} : carried'[d] = carried[d],
         /\ cmd[c].pc = "wait" /\ cmd[c].req.op \in CallOps
         /\ Serves(cmd[c], handler[c], wire[c], carried[c])
         => SaysRefused(cmd[c], carried'[c])
  PROVE  CallInv'
<1> DEFINE h == [handler[c] EXCEPT !.pc = "return", !.status = "refused"]
<1>1. /\ handler' = [handler EXCEPT ![c] = h] /\ h.pc = "return" /\ h.req = handler[c].req
      /\ h.id = handler[c].id /\ h.status = "refused"
  BY DEF TypeOK, Handlers, Refuse
<1> HIDE DEF h
<1>2. Holds(c)'
  BY <1>1, HoldsOn DEF TypeOK, Holders
<1>3. cmd[c].pc = "wait" /\ cmd[c].req.op \in CallOps => Serves(cmd[c], handler[c], wire[c], carried[c])
  BY DEF CallInv, Truth
<1>4. cmd[c].pc = "wait" /\ cmd[c].req.op \in CallOps => Serves(cmd[c], h, wire'[c], carried'[c])
  BY <1>1, <1>3 DEF Serves, Says
<1> QED BY <1>1, <1>2, <1>4, CallHandler

\* Work for a process that waits: nothing has been done or shown, or the job runs.
LEMMA CallInvVerify ==
  ASSUME TypeOK, CallInv, NEW c \in Cmds, Verify(c) \/ Lock(c)
  PROVE  CallInv'
<1>1. /\ cmd' = cmd /\ wire' = wire /\ carried' = carried
      /\ handler[c].pc \in {"verify", "lock"}
  BY DEF Verify, Lock, clientVars
<1>2. CASE Refuse(c) /\ syncLocks' = syncLocks
  BY <1>1, <1>2, CallRefuse DEF Serves, Fresh, SaysRefused
<1>3. CASE Verify(c) /\ Proceed(c, "work")
  BY <1>1, <1>3, CallProceed DEF Serves, Verify, Holders, HandlerSteps
<1>4. CASE Lock(c) /\ syncLocks[handler[c].req.name] = Free
  <2> DEFINE h == [handler[c] EXCEPT !.pc = "job"]
  <2>1. /\ handler' = [handler EXCEPT ![c] = h] /\ h.pc = "job" /\ h.req = handler[c].req
        /\ h.status = handler[c].status
    BY <1>4 DEF Lock, Proceed, TypeOK, Handlers
  <2> HIDE DEF h
  <2>2. handler'[c].pc = "job"
    BY <2>1 DEF TypeOK
  <2>3. Holds(c)'
    BY <2>2 DEF Holds, Holders
  <2>4. \A d \in Cmds \ {c}, n \in Names : syncLocks'[n] = d => syncLocks[n] = d
    BY <1>4 DEF Lock, TypeOK
  <2>5. cmd[c].pc = "wait" /\ cmd[c].req.op \in CallOps => Serves(cmd[c], handler[c], wire[c], carried[c])
    BY <1>1 DEF CallInv, Truth
  <2>6. cmd[c].pc = "wait" /\ cmd[c].req.op \in CallOps => Serves(cmd[c], h, wire'[c], carried'[c])
    BY <1>1, <1>4, <2>1, <2>5 DEF Lock, Serves, Fresh, JobOps
  <2>7. handler[c].pc # "idle" /\ h.pc # "idle" /\ wire'[c] = wire[c]
    BY <1>1, <2>1
  <2>8. \A d \in Cmds \ {c} : /\ wire'[d] = wire[d] /\ carried'[d] = carried[d]
                             /\ \A n \in Names : syncLocks'[n] = d => syncLocks[n] = d
    BY <1>1, <2>4
  <2> QED BY <1>1, <2>1, <2>3, <2>6, <2>7, <2>8, CallHandler
<1>5. CASE Verify(c)
  BY <1>2, <1>3, <1>5 DEF Verify
<1>6. CASE Lock(c)
  BY <1>2, <1>4, <1>6 DEF Lock
<1> QED BY <1>5, <1>6

LEMMA CallInvQuery ==
  ASSUME TypeOK, CallInv, NEW c \in Cmds, Query(c)
  PROVE  CallInv'
<1>1. /\ cmd' = cmd /\ wire' = wire /\ syncLocks' = syncLocks /\ handler[c].pc = "work"
  BY DEF Query, Asks, clientVars
<1>2. \A d \in Cmds \ {c} : carried'[d] = carried[d]
  BY DEF Query, TypeOK
<1>3. CASE Refuse(c) /\ UNCHANGED carried
  BY <1>1, <1>2, <1>3, CallRefuse DEF Serves, Fresh, SaysRefused
<1>4. CASE /\ Asks(c, {"read"}) /\ Proceed(c, "return")
           /\ carried' = [carried EXCEPT ![c] = @ + 1]
  <2>1. carried'[c] = carried[c] + 1
    BY <1>4 DEF TypeOK
  <2> QED
    BY <1>1, <1>2, <1>4, <2>1, CallProceed
    DEF Asks, Serves, Fresh, Says, SaysDone, ToBeShown, Streams, JobOps, Holders, HandlerSteps
<1>5. CASE Asks(c, {"sync"}) /\ Proceed(c, "lock") /\ UNCHANGED carried
  BY <1>1, <1>5, CallProceed DEF Asks, Serves, Holders, HandlerSteps
<1>6. CASE Asks(c, {"flush"}) /\ Proceed(c, "job") /\ UNCHANGED carried
  BY <1>1, <1>6, CallProceed DEF Asks, Serves, Fresh, JobOps, Holders, HandlerSteps
<1>7. ASSUME Asks(c, {"updateWatcher"}), handler[c].id = 0, UNCHANGED carried,
             NEW w \in WatchersNamed(db, handler[c].req.name),
             handler' = [handler EXCEPT ![c].pc = "return", ![c].id = w.id]
      PROVE  CallInv'
  <2> DEFINE h == [handler[c] EXCEPT !.pc = "return", !.id = w.id]
  <2>1. handler' = [handler EXCEPT ![c] = h]
    BY <1>7 DEF TypeOK
  <2>2. h.pc = "return" /\ h.req = handler[c].req /\ h.status = handler[c].status
    BY DEF TypeOK, Handlers
  <2> HIDE DEF h
  <2>3. Holds(c)'
    BY <1>1, HoldsOn DEF Holders
  <2>4. cmd[c].pc = "wait" /\ cmd[c].req.op \in CallOps => Serves(cmd[c], handler[c], wire[c], carried[c])
    BY <1>1 DEF CallInv, Truth
  <2>5. cmd[c].pc = "wait" /\ cmd[c].req.op \in CallOps => Serves(cmd[c], h, wire'[c], carried'[c])
    BY <1>1, <1>7, <2>2, <2>4 DEF Asks, Serves, Says, SaysDone
  <2> QED BY <1>1, <1>7, <2>1, <2>2, <2>3, <2>5, CallHandler
<1> QED BY <1>3, <1>4, <1>5, <1>6, <1>7 DEF Query

LEMMA CallInvChange ==
  ASSUME TypeOK, CallInv, NEW c \in Cmds, Change(c)
  PROVE  CallInv'
<1>1. /\ cmd' = cmd /\ wire' = wire /\ syncLocks' = syncLocks /\ handler[c].pc = "work"
  BY DEF Change, clientVars
<1>2. carried'[c] = carried[c] + 1 /\ \A d \in Cmds \ {c} : carried'[d] = carried[d]
  BY DEF Change, TypeOK
<1>3. handler[c].req.op \notin JobOps /\ (handler[c].req.op = "updateWatcher" => handler[c].id # 0)
  BY DEF Change, WatcherStatement, MachineStatement, RedirectionStatement, JobOps
<1>4. CASE handler[c].req.op \in Rereads /\ Refuse(c)
  BY <1>1, <1>2, <1>4, CallRefuse DEF Serves, SaysRefused
<1>5. CASE Proceed(c, "return")
  BY <1>1, <1>2, <1>3, <1>5, CallProceed
  DEF Serves, Fresh, Says, SaysDone, ToBeShown, Streams, Holders, HandlerSteps
<1>6. CASE handler[c].req.op = "createWatcher" /\ Proceed(c, "job")
  BY <1>1, <1>2, <1>6, CallProceed DEF Serves, Fresh, Holders, HandlerSteps
<1> QED BY <1>4, <1>5, <1>6 DEF Change

LEMMA CallInvJob ==
  ASSUME TypeOK, CallInv, NEW c \in Cmds, JobDone(c) \/ JobFails(c)
  PROVE  CallInv'
<1>1. /\ cmd' = cmd /\ wire' = wire /\ syncLocks' = syncLocks /\ handler[c].pc = "job"
  BY DEF JobDone, JobFails, clientVars
<1>2. \A d \in Cmds \ {c} : carried'[d] = carried[d]
  BY DEF JobDone, JobFails, TypeOK
<1>3. CASE JobFails(c) /\ Refuse(c) /\ handler[c].req.op # "createWatcher"
  BY <1>1, <1>2, <1>3, CallRefuse DEF Serves, SaysRefused, JobFails
<1>4. CASE handler[c].req.op = "createWatcher" /\ Proceed(c, "return") /\ carried' = carried
  BY <1>1, <1>4, CallProceed
  DEF Serves, Says, SaysDone, ToBeShown, Streams, JobOps, Holders, HandlerSteps
<1>5. CASE JobDone(c) /\ handler[c].req.op # "createWatcher"
  <2>1. carried'[c] = carried[c] + 1
    BY <1>5 DEF JobDone, TypeOK
  <2>2. CASE Proceed(c, "log") /\ Streams(handler[c].req)
    BY <1>1, <1>2, <1>5, <2>1, <2>2, CallProceed DEF Serves, Holders, HandlerSteps
  <2>3. CASE Proceed(c, "return") /\ ~Streams(handler[c].req)
    BY <1>1, <1>2, <1>5, <2>1, <2>3, CallProceed
    DEF Serves, Says, SaysDone, ToBeShown, JobOps, Holders, HandlerSteps
  <2> QED BY <1>5, <2>2, <2>3 DEF JobDone
<1>6. handler[c].req.op = "createWatcher" => ~Streams(handler[c].req)
  BY DEF Streams, JobOps
<1> QED BY <1>3, <1>4, <1>5, <1>6 DEF JobDone, JobFails

\* What is sent reaches the wire of a process that waits.
LEMMA SentWhere ==
  ASSUME TypeOK, NEW c \in Cmds, NEW e \in Events, Sent(c, e)
  PROVE  /\ wire'[c] = IF cmd[c].pc = "wait" THEN Append(wire[c], e) ELSE wire[c]
         /\ \A d \in Cmds \ {c} : wire'[d] = wire[d]
BY DEF Sent, Linked, TypeOK

LEMMA CallInvSend ==
  ASSUME TypeOK, CallInv, NEW c \in Cmds, JobLog(c) \/ SendSummary(c)
  PROVE  CallInv'
<1>1. cmd' = cmd /\ syncLocks' = syncLocks /\ carried' = carried
  BY DEF JobLog, SendSummary, clientVars
<1>2. \A is \in {"log", "result"} : [is |-> is, id |-> 0] \in Events
  BY Zeroes DEF Events
<1>3. wire[c] \in Seq(Events)
  BY DEF TypeOK
<1>4. ASSUME NEW e \in Events, e.is # "result"
      PROVE  ResultsOn(Append(wire[c], e)) = ResultsOn(wire[c])
  BY <1>3, <1>4, AppendFacts
<1>5. ASSUME NEW e \in Events, e.is = "result", ResultsOn(wire[c]) = {}
      PROVE  \E i \in ResultsOn(Append(wire[c], e)) : ResultsOn(Append(wire[c], e)) = {i}
  <2>1. ResultsOn(Append(wire[c], e)) = {Len(wire[c]) + 1}
    BY <1>3, <1>5, AppendFacts
  <2> QED BY <2>1
<1>6. CASE JobLog(c)
  <2> DEFINE e == [is |-> "log", id |-> 0]
  <2>1. e \in Events /\ e.is = "log"
    BY <1>2
  <2>2. Sent(c, e)
    BY <1>6 DEF JobLog
  <2> HIDE DEF e
  <2>3. /\ wire'[c] = Append(wire[c], e) /\ \A d \in Cmds \ {c} : wire'[d] = wire[d]
    BY <1>6, <2>1, <2>2, SentWhere DEF JobLog, Linked
  <2>4. ResultsOn(wire'[c]) = ResultsOn(wire[c])
    BY <1>4, <2>1, <2>3
  <2>5. handler' = handler /\ handler[c].pc = "job" /\ cmd[c].pc = "wait"
    BY <1>6 DEF JobLog, Linked
  <2>6. cmd[c].req.op \in CallOps => Serves(cmd[c], handler[c], wire'[c], carried[c])
    BY <2>4, <2>5 DEF CallInv, Truth, Serves
  <2>7. e.is \notin Statuses
    BY <2>1 DEF Statuses
  <2>8. handler' = [handler EXCEPT ![c] = handler[c]]
    BY <2>5 DEF TypeOK
  <2>9. Holds(c)'
    BY <1>1, <2>5, HoldsOn DEF Holders
  <2> QED BY <1>1, <2>1, <2>3, <2>5, <2>6, <2>7, <2>8, <2>9, CallHandler
<1>7. CASE SendSummary(c) /\ Refuse(c) /\ ~Linked(c) /\ wire' = wire
  <2>1. cmd[c].pc # "wait" /\ handler[c].pc # "idle"
    BY <1>7 DEF SendSummary, Linked
  <2> QED BY <1>1, <1>7, <2>1, CallRefuse
<1>8. CASE SendSummary(c) /\ Sent(c, [is |-> handler[c].pc, id |-> 0])
           /\ Proceed(c, IF handler[c].pc = "log" THEN "result" ELSE "return")
  <2> DEFINE e == [is |-> handler[c].pc, id |-> 0]
             to == IF handler[c].pc = "log" THEN "result" ELSE "return"
  <2>1. handler[c].pc \in {"log", "result"}
    BY <1>8 DEF SendSummary
  <2>2. e \in Events /\ e.is = handler[c].pc
    BY <1>2, <2>1
  <2>3. Sent(c, e)
    BY <1>8
  <2> HIDE DEF e
  <2>4. /\ wire'[c] = IF cmd[c].pc = "wait" THEN Append(wire[c], e) ELSE wire[c]
        /\ \A d \in Cmds \ {c} : wire'[d] = wire[d]
    BY <2>2, <2>3, SentWhere
  <2>5. e.is \notin Statuses
    BY <2>1, <2>2 DEF Statuses
  <2>6. CASE handler[c].pc = "log"
    <3>1. Proceed(c, "result") /\ e.is = "log"
      BY <1>8, <2>2, <2>6
    <3>2. ResultsOn(wire'[c]) = ResultsOn(wire[c])
      BY <1>4, <2>2, <2>4, <3>1
    <3>3. \A h : /\ Serves(cmd[c], handler[c], wire[c], carried[c])
                 /\ h.pc = "result" /\ h.req = handler[c].req /\ h.status = handler[c].status
                 => Serves(cmd[c], h, wire'[c], carried'[c])
      BY <1>1, <2>6, <3>2 DEF Serves
    <3> QED BY <1>1, <2>2, <2>4, <2>5, <2>6, <3>1, <3>3, CallProceed DEF Holders, HandlerSteps
  <2>7. CASE handler[c].pc = "result"
    <3>1. Proceed(c, "return") /\ e.is = "result"
      BY <1>8, <2>2, <2>7
    <3>2. cmd[c].pc = "wait" /\ ResultsOn(wire[c]) = {} =>
            \E i \in ResultsOn(wire'[c]) : ResultsOn(wire'[c]) = {i}
      BY <1>5, <2>2, <2>4, <3>1
    <3>3. \A h : /\ cmd[c].pc = "wait" /\ Serves(cmd[c], handler[c], wire[c], carried[c])
                 /\ h.pc = "return" /\ h.req = handler[c].req /\ h.status = handler[c].status
                 => Serves(cmd[c], h, wire'[c], carried'[c])
      BY <1>1, <2>7, <3>2 DEF Serves, Says, SaysDone, ToBeShown, Streams, JobOps
    <3> QED BY <1>1, <2>2, <2>4, <2>5, <2>7, <3>1, <3>3, CallProceed DEF Holders, HandlerSteps
  <2> QED BY <2>1, <2>6, <2>7
<1> QED BY <1>6, <1>7, <1>8 DEF SendSummary

LEMMA CallInvReturn ==
  ASSUME TypeOK, CallInv, NEW c \in Cmds, Return(c)
  PROVE  CallInv'
<1> DEFINE h == [handler[c] EXCEPT !.pc = "answer"]
<1>1. /\ handler' = [handler EXCEPT ![c] = h] /\ h.pc = "answer" /\ h.req = handler[c].req
      /\ h.status = handler[c].status
  BY DEF Return, Proceed, TypeOK, Handlers
<1> HIDE DEF h
<1>2. cmd' = cmd /\ wire' = wire /\ carried' = carried /\ handler[c].pc = "return"
  BY DEF Return, clientVars
<1>3. \A n \in Names : syncLocks'[n] # c /\ \A d \in Cmds : syncLocks'[n] = d => syncLocks[n] = d
  BY CommandAssumption DEF Return, TypeOK
<1>4. Holds(c)'
  BY <1>3 DEF Holds
<1>5. cmd[c].pc = "wait" /\ cmd[c].req.op \in CallOps => Serves(cmd[c], h, wire'[c], carried'[c])
  <2>1. cmd[c].pc = "wait" /\ cmd[c].req.op \in CallOps => Serves(cmd[c], handler[c], wire[c], carried[c])
    BY <1>2 DEF CallInv, Truth
  <2> QED BY <1>1, <1>2, <2>1 DEF Serves
<1> QED BY <1>1, <1>2, <1>3, <1>4, <1>5, CallHandler

\* The status goes onto the wire as the handler ends.
LEMMA CallInvAnswer ==
  ASSUME TypeOK, CallInv, NEW c \in Cmds, Answer(c)
  PROVE  CallInv'
<1> DEFINE e == [is |-> handler[c].status, id |-> handler[c].id]
           w == wire[c]
<1>1. e \in Events /\ e.is = handler[c].status /\ e.is \in Statuses /\ w \in Seq(Events)
  BY DEF TypeOK, Handlers, Events
<1>2. Sent(c, e)
  BY DEF Answer
<1> HIDE DEF e
<1>3. /\ wire'[c] = IF cmd[c].pc = "wait" THEN Append(w, e) ELSE w
      /\ \A d \in Cmds \ {c} : wire'[d] = wire[d]
  BY <1>1, <1>2, SentWhere
<1>4. /\ cmd' = cmd /\ syncLocks' = syncLocks /\ carried' = carried /\ handler[c].pc = "answer"
      /\ handler'[c].pc = "idle" /\ \A d \in Cmds \ {c} : handler'[d] = handler[d]
  BY DEF Answer, clientVars, TypeOK, NoHandler
<1>5. /\ Exchange(cmd[c], handler[c], w)
      /\ Truth(cmd[c], handler[c], w, carried[c])
  BY DEF CallInv
<1>6. /\ Len(w) \in Nat /\ Len(Append(w, e)) = Len(w) + 1 /\ Append(w, e)[Len(w) + 1] = e
      /\ \A i \in 1 .. Len(w) : Append(w, e)[i] = w[i]
      /\ ResultsOn(Append(w, e)) = ResultsOn(w)
  BY <1>1, AppendFacts DEF Statuses
<1> DEFINE v == Append(w, e)
<1> HIDE DEF v, w
<1>7. \A i \in 1 .. Len(v) : v[i].is \in Statuses => i = Len(v)
  BY <1>4, <1>5, <1>6 DEF Exchange, v
<1>8. Exchange(cmd'[c], handler'[c], wire'[c])
  <2>1. CASE cmd[c].pc = "wait"
    BY <1>3, <1>4, <1>7, <2>1 DEF Exchange, v
  <2>2. CASE cmd[c].pc # "wait"
    BY <1>3, <1>4, <1>5, <2>2 DEF Exchange
  <2> QED BY <2>1, <2>2
<1>9. Truth(cmd'[c], handler'[c], wire'[c], carried'[c])
  <2>1. CASE cmd[c].pc = "wait"
    <3>1. v[Len(v)] = e /\ ResultsOn(v) = ResultsOn(w)
      BY <1>6 DEF v
    <3>2. cmd[c].req.op \in CallOps => Says(e.is, cmd[c], w, carried[c])
      BY <1>1, <1>4, <1>5, <2>1 DEF Truth, Serves
    <3>3. cmd[c].req.op \in CallOps => Says(e.is, cmd[c], v, carried[c])
      BY <3>1, <3>2 DEF Says, SaysDone, Fresh, ToBeShown
    <3> QED BY <1>3, <1>4, <2>1, <3>1, <3>3 DEF Truth, v
  <2>2. CASE cmd[c].pc # "wait"
    BY <1>3, <1>4, <1>5, <2>2 DEF Truth
  <2> QED BY <2>1, <2>2
<1>10. Holds(c)'
  BY <1>4, HoldsOn DEF Holders
<1> QED BY <1>3, <1>4, <1>8, <1>9, <1>10, CallFrame

\* The logout's process ends; of the others it changes no more than whether their
\* file has its name.
LEMMA CallInvLogout ==
  ASSUME TypeOK, CallInv, NEW c \in Cmds, Logout(c)
  PROVE  CallInv'
<1>1. /\ handler' = handler /\ syncLocks' = syncLocks /\ wire' = wire /\ carried' = carried
      /\ cmd[c].pc = "logout"
  BY DEF Logout, serverVars
<1>2. \A d \in Cmds : cmd[d] \in Commands
  BY DEF TypeOK
<1>3. \A d \in Cmds : Exchange(cmd[d], handler[d], wire[d]) /\ Truth(cmd[d], handler[d], wire[d], carried[d])
  BY DEF CallInv
<1>4. \A d \in Cmds : Holds(d)'
  BY <1>1 DEF CallInv, Holds
<1>5. ASSUME NEW d \in Cmds \ {c}
      PROVE  Exchange(cmd'[d], handler[d], wire[d]) /\ Truth(cmd'[d], handler[d], wire[d], carried[d])
  <2> DEFINE k == cmd[d]
             k2 == cmd'[d]
  <2>1. cmd'[d] = [cmd[d] EXCEPT !.linked = FALSE]
    BY <1>5 DEF Logout
  <2>2. /\ k2.pc = k.pc /\ k2.req = k.req /\ k2.id = k.id /\ k2.printed = k.printed
        /\ k2.exit = k.exit
    BY <1>2, <2>1 DEF Commands
  <2>3. Exchange(k, handler[d], wire[d]) /\ Truth(k, handler[d], wire[d], carried[d])
    BY <1>3
  <2> HIDE DEF k, k2
  <2>4. Exchange(k2, handler[d], wire[d])
    BY <2>2, <2>3 DEF Exchange
  <2>5. Truth(k2, handler[d], wire[d], carried[d])
    BY <2>2, <2>3 DEF Truth, Serves, Says, SaysDone, SaysRefused, Fresh, ToBeShown
  <2> QED BY <2>4, <2>5 DEF k2
<1>6. Exchange(cmd'[c], handler[c], wire[c]) /\ Truth(cmd'[c], handler[c], wire[c], carried[c])
  <2>1. cmd'[c] = [Ended(cmd[c], "ok") EXCEPT !.pc = "exited"]
    BY DEF Logout
  <2>2. cmd'[c].pc = "exited" /\ cmd'[c].req = cmd[c].req
    BY <1>2, <2>1 DEF Commands, Ended
  <2>3. cmd[c].req.op \notin CallOps
    BY <1>1, <1>3 DEF Truth
  <2> QED BY <1>1, <1>3, <2>2, <2>3 DEF Exchange, Truth
<1> QED BY <1>1, <1>4, <1>5, <1>6 DEF CallInv

\* No handler is left to hold a lock; a wire keeps what it has or loses it all.
LEMMA CallInvCrash ==
  ASSUME TypeOK, CallInv, Crash
  PROVE  CallInv'
<1>1. /\ cmd' = cmd /\ carried' = carried
      /\ \A c \in Cmds : handler'[c].pc = "idle" /\ \A n \in Names : syncLocks'[n] # c
  BY CommandAssumption DEF Crash, clientVars, NoHandler
<1> SUFFICES ASSUME NEW c \in Cmds
             PROVE  /\ Exchange(cmd[c], handler'[c], wire'[c]) /\ Holds(c)'
                    /\ Truth(cmd[c], handler'[c], wire'[c], carried[c])
  BY <1>1 DEF CallInv
<1>2. Exchange(cmd[c], handler[c], wire[c]) /\ Truth(cmd[c], handler[c], wire[c], carried[c])
  BY DEF CallInv
<1>3. Holds(c)'
  BY <1>1 DEF Holds
<1>4. CASE wire'[c] = wire[c]
  BY <1>1, <1>2, <1>3, <1>4 DEF Exchange, Truth
<1>5. CASE wire'[c] = <<>>
  BY <1>1, <1>2, <1>3, <1>5 DEF Exchange, Truth
<1> QED BY <1>4, <1>5 DEF Crash

LEMMA CallInvNext == TypeOK /\ CallInv /\ [Next]_vars => CallInv'
<1> SUFFICES ASSUME TypeOK, CallInv, [Next]_vars PROVE CallInv'
  OBVIOUS
<1>1. ASSUME NEW c \in Cmds,
             Start(c) \/ Login(c) \/ ClientStep(c) \/ CutOff(c) \/ Kill(c) \/ Leave(c)
      PROVE  CallInv'
  BY <1>1, CallInvProcess, CallInvEnds, CallInvCall, CallInvReceive, CallInvLogout DEF ClientStep
<1>2. ASSUME NEW c \in Cmds, ServerStep(c) \/ LastStep(c) PROVE CallInv'
  BY <1>2, CallInvVerify, CallInvQuery, CallInvChange, CallInvJob, CallInvSend, CallInvReturn,
     CallInvAnswer
  DEF ServerStep, LastStep
<1>3. CASE UNCHANGED vars
  BY <1>3 DEF vars, CallInv, Holds
<1> QED BY <1>1, <1>2, <1>3, CallInvCrash DEF Next

LEMMA CallInvAlways == Spec => [](TypeOK /\ CallInv)
BY TypeOKInit, TypeOKNext, CallInvInit, CallInvNext, PTL DEF Spec

\* What a command says when it ends is true: "ok" that its request was carried out
\* once and its result shown once, an error that it was not carried out to its end,
\* whatever others do, and whenever the server stops.
THEOREM AnswersAreTrue == Spec => []AnswerIsTrue
<1>1. CallInv => AnswerIsTrue
  BY DEF CallInv, Truth, SaysRefused, AnswerIsTrue
<1> QED BY <1>1, CallInvAlways, PTL

\* A command that has been answered has left no handler and no sync lock behind.
THEOREM NothingIsLeft == Spec => []LeavesNothing
<1>1. CallInv => LeavesNothing
  BY DEF CallInv, Exchange, Holds, Holders, LeavesNothing
<1> QED BY <1>1, CallInvAlways, PTL

(***************************************************************************)
(* The contract.  CallInv tells what a command that waits may expect; a    *)
(* handler whose command is gone has not done its work before it is at it  *)
(* either, and every process that dials has a request to be carried out.   *)
(***************************************************************************)
Onward(k) ==
  /\ k.pc \in {"dial", "load", "refresh", "call", "wait"} => k.req.op \in CallOps
  /\ k.pc \in {"save", "write"} => k.req.op \in CallOps \cup {"login"}
  /\ k.pc = "login" => k.req.op = "login"

NotYet(h, n) ==
  /\ h.pc \in {"verify", "work", "lock"} => n = 0
  /\ h.pc = "job" /\ h.req.op # "createWatcher" => n = 0

OnceInv == \A c \in Cmds : Onward(cmd[c]) /\ NotYet(handler[c], carried[c])

LEMMA OnceInvInit == Init => OnceInv
BY DEF Init, OnceInv, Onward, NotYet, NoCommand, NoHandler

OthersStay(c) ==
  \A d \in Cmds \ {c} : cmd'[d] = cmd[d] /\ handler'[d] = handler[d] /\ carried'[d] = carried[d]

\* A process on its way, up to its end.
OnItsWay(c) ==
  \/ Dial(c) \/ Load(c) \/ Refresh(c) \/ Login(c) \/ OpenTokens(c) \/ WriteTokens(c)
  \/ FailWrite(c) \/ Call(c) \/ Receive(c) \/ CutOff(c)

LEMMA ProcessMoves ==
  ASSUME TypeOK, OnceInv, NEW c \in Cmds, OnItsWay(c)
  PROVE  /\ cmd'[c].req = cmd[c].req /\ Onward(cmd'[c])
         /\ cmd[c].pc \notin {"idle", "exited"} /\ cmd'[c].pc # "idle"
         /\ OthersStay(c) /\ carried' = carried
         /\ Call(c) \/ handler' = handler
<1>1. cmd[c] \in Commands /\ cmd \in [Cmds -> Commands] /\ Onward(cmd[c])
  BY DEF TypeOK, OnceInv
<1>2. ASSUME NEW to, NEW j, j \in Commands, j.req = cmd[c].req, Become(c, to, j)
      PROVE  cmd'[c].req = cmd[c].req /\ cmd'[c].pc = to /\ \A d \in Cmds \ {c} : cmd'[d] = cmd[d]
  BY <1>1, <1>2 DEF Become, Commands
<1>3. ASSUME NEW how \in {"ok", "error", "cut"}, Exit(c, how)
      PROVE  cmd'[c].req = cmd[c].req /\ cmd'[c].pc = "exited" /\ \A d \in Cmds \ {c} : cmd'[d] = cmd[d]
  <2>1. Ended(cmd[c], how) \in Commands /\ Ended(cmd[c], how).req = cmd[c].req
    BY <1>1, CommandTypes DEF Ended, Commands
  <2> QED BY <1>2, <1>3, <2>1 DEF Exit
<1>4. /\ \A l \in Logins : LET j == [cmd[c] EXCEPT !.login = l] IN j \in Commands /\ j.req = cmd[c].req
      /\ \A b \in BOOLEAN : LET j == [cmd[c] EXCEPT !.linked = b] IN j \in Commands /\ j.req = cmd[c].req
      /\ \A i \in RowIds : LET j == [cmd[c] EXCEPT !.id = i] IN j \in Commands /\ j.req = cmd[c].req
  BY <1>1 DEF Commands
<1>5. "login" \notin CallOps /\ NextCall \in {"load", "call"} /\ AfterLoad \subseteq {"call", "refresh"}
  BY DEF CallOps, WatcherOps, MachineOps, RedirectionOps, JobOps, NextCall, AfterLoad
<1> DEFINE Goal == /\ cmd'[c].req = cmd[c].req /\ Onward(cmd'[c]) /\ cmd'[c].pc # "idle"
                   /\ \A d \in Cmds \ {c} : cmd'[d] = cmd[d]
<1>6. ASSUME NEW how \in {"ok", "error", "cut"}, Exit(c, how) PROVE Goal
  BY <1>3, <1>6 DEF Onward
<1>7. ASSUME NEW to, NEW j, j \in Commands, j.req = cmd[c].req, Become(c, to, j),
             \/ to \in {"load", "refresh", "call", "wait"} /\ cmd[c].req.op \in CallOps
             \/ to \in {"save", "write"} /\ cmd[c].req.op \in CallOps \cup {"login"}
             \/ to = "exited"
      PROVE  Goal
  BY <1>2, <1>7 DEF Onward
<1> HIDE DEF Goal
<1>8. GoOnUnsaved(c) /\ cmd[c].pc \in {"save", "write"} => Goal
  BY <1>1, <1>6, <1>7 DEF GoOnUnsaved, Onward
<1>10. ASSUME Dial(c) PROVE Goal
  BY <1>1, <1>5, <1>6, <1>7, <1>10 DEF Dial, Onward
<1>11. ASSUME Load(c) PROVE Goal
  <2>1. tokens.login \in Logins
    BY DEF TypeOK, TokenFiles
  <2> QED BY <1>1, <1>4, <1>5, <1>6, <1>7, <1>11, <2>1 DEF Load, Onward
<1>12. ASSUME Refresh(c) PROVE Goal
  BY <1>1, <1>6, <1>7, <1>12 DEF Refresh, Onward
<1>13. ASSUME Login(c) PROVE Goal
  <2>1. issued < MaxLogins => issued + 1 \in Logins
    BY CommandAssumption DEF TypeOK, Logins
  <2> QED BY <1>1, <1>4, <1>6, <1>7, <1>13, <2>1 DEF Login, Onward
<1>14. ASSUME OpenTokens(c) PROVE Goal
  BY <1>1, <1>4, <1>7, <1>8, <1>14 DEF OpenTokens, Onward
<1>15. ASSUME WriteTokens(c) PROVE Goal
  BY <1>1, <1>4, <1>6, <1>7, <1>15 DEF WriteTokens, Onward
<1>16. ASSUME FailWrite(c) PROVE Goal
  BY <1>8, <1>16 DEF FailWrite
<1>17. ASSUME Call(c) PROVE Goal
  <2>1. 0 \in Logins
    BY Zeroes
  <2> QED BY <1>1, <1>4, <1>7, <1>17, <2>1 DEF Call, Onward
<1>18. ASSUME Receive(c) PROVE Goal
  <2> DEFINE e == Head(wire[c])
             shown == [cmd[c] EXCEPT !.printed = @ + 1]
             last == IF Streams(cmd[c].req) THEN cmd[c] ELSE shown
  <2>1. /\ e \in Events
        /\ \/ Become(c, "wait", cmd[c])
           \/ Become(c, "wait", shown)
           \/ Become(c, NextCall, [cmd[c] EXCEPT !.id = e.id])
           \/ Become(c, "exited", Ended(last, "ok"))
           \/ Exit(c, "error")
    BY <1>18, Received
  <2>2. cmd[c].req.op \in CallOps /\ e.id \in RowIds
    BY <1>1, <1>18, <2>1 DEF Receive, Linked, Onward, Events
  <2>3. shown \in Commands /\ shown.req = cmd[c].req /\ last \in Commands /\ last.req = cmd[c].req
    BY <1>1 DEF Commands
  <2>4. Ended(last, "ok") \in Commands /\ Ended(last, "ok").req = cmd[c].req
    BY <2>3, CommandTypes DEF Ended, Commands
  <2> HIDE DEF e, shown, last
  <2> QED BY <1>1, <1>4, <1>5, <1>6, <1>7, <2>1, <2>2, <2>3, <2>4
<1>19. ASSUME CutOff(c) PROVE Goal
  BY <1>6, <1>19 DEF CutOff
<1>20. Goal
  BY <1>10, <1>11, <1>12, <1>13, <1>14, <1>15, <1>16, <1>17, <1>18, <1>19 DEF OnItsWay
<1>21. /\ cmd[c].pc \notin {"idle", "exited"} /\ carried' = carried
       /\ Call(c) \/ handler' = handler
  BY DEF OnItsWay, Dial, Load, Refresh, Login, OpenTokens, WriteTokens, FailWrite, Call, Receive,
         CutOff, Linked, serverVars
<1>22. \A d \in Cmds \ {c} : handler'[d] = handler[d]
  BY <1>21 DEF Call, TypeOK
<1> QED BY <1>20, <1>21, <1>22 DEF Goal, OthersStay

\* The handler of c moves; its process may be gone.
HandlerAt(c) == Verify(c) \/ Query(c) \/ Change(c) \/ Lock(c) \/ JobLog(c) \/ JobDone(c)
                \/ JobFails(c) \/ SendSummary(c) \/ Return(c)

LEMMA HandlerMoves ==
  ASSUME TypeOK, OnceInv, NEW c \in Cmds, HandlerAt(c)
  PROVE  /\ cmd' = cmd /\ handler[c].pc # "idle" /\ handler'[c].pc # "idle" /\ OthersStay(c)
         /\ NotYet(handler'[c], carried'[c])
         /\ carried'[c] = carried[c] \/ (carried[c] = 0 /\ carried'[c] = 1)
<1>1. /\ handler[c] \in Handlers /\ handler \in [Cmds -> Handlers] /\ carried \in [Cmds -> Nat]
      /\ NotYet(handler[c], carried[c])
  BY DEF TypeOK, OnceInv
<1>2. cmd' = cmd /\ handler[c].pc # "idle"
  BY DEF HandlerAt, Verify, Query, Change, Lock, JobLog, JobDone, JobFails, SendSummary, Return,
         Asks, clientVars
<1>3. ASSUME NEW to, Proceed(c, to)
      PROVE  /\ handler'[c].pc = to /\ handler'[c].req = handler[c].req
             /\ \A d \in Cmds \ {c} : handler'[d] = handler[d]
  BY <1>1, <1>3 DEF Proceed, Handlers
<1>4. ASSUME Refuse(c)
      PROVE  handler'[c].pc = "return" /\ \A d \in Cmds \ {c} : handler'[d] = handler[d]
  <2>1. handler' = [handler EXCEPT ![c] = [handler[c] EXCEPT !.pc = "return", !.status = "refused"]]
    BY <1>1, <1>4 DEF Refuse
  <2> QED BY <1>1, <2>1 DEF Handlers
<1> DEFINE Goal == /\ handler'[c].pc # "idle" /\ OthersStay(c) /\ NotYet(handler'[c], carried'[c])
                   /\ carried'[c] = carried[c] \/ (carried[c] = 0 /\ carried'[c] = 1)
           Once == carried' = [carried EXCEPT ![c] = @ + 1] /\ carried[c] = 0
<1>5. ASSUME NEW to, Proceed(c, to), to \notin {"idle", "verify"},
             to \in {"work", "lock", "job"} => handler[c].pc \in {"verify", "work", "lock"},
             carried' = carried
      PROVE  Goal
  BY <1>1, <1>2, <1>3, <1>5 DEF NotYet, OthersStay
<1>6. ASSUME NEW to, Proceed(c, to), to \notin {"idle", "verify", "work", "lock"},
             to = "job" => handler[c].req.op = "createWatcher", Once
      PROVE  Goal
  BY <1>1, <1>2, <1>3, <1>6 DEF NotYet, OthersStay
<1>7. ASSUME Refuse(c), carried' = carried \/ Once
      PROVE  Goal
  BY <1>1, <1>2, <1>4, <1>7 DEF NotYet, OthersStay
<1> HIDE DEF Goal
<1>8. handler[c].pc \in {"verify", "work", "lock"} => carried[c] = 0
  BY <1>1 DEF NotYet
<1>9. ASSUME Verify(c) PROVE Goal
  BY <1>5, <1>7, <1>9 DEF Verify
<1>10. ASSUME Query(c) PROVE Goal
  <2>2. ASSUME NEW w, handler' = [handler EXCEPT ![c].pc = "return", ![c].id = w.id],
               carried' = carried
        PROVE  Goal
    <3>1. handler' = [handler EXCEPT ![c] = [handler[c] EXCEPT !.pc = "return", !.id = w.id]]
      BY <1>1, <2>2
    <3>2. handler'[c].pc = "return" /\ \A d \in Cmds \ {c} : handler'[d] = handler[d]
      BY <1>1, <3>1 DEF Handlers
    <3> QED BY <1>2, <2>2, <3>2 DEF Goal, NotYet, OthersStay
  <2>3. handler[c].pc = "work"
    BY <1>10 DEF Query, Asks
  <2> QED BY <1>5, <1>6, <1>7, <1>8, <1>10, <2>2, <2>3 DEF Query
<1>11. ASSUME Change(c) PROVE Goal
  BY <1>6, <1>7, <1>8, <1>11 DEF Change
<1>12. ASSUME Lock(c) PROVE Goal
  BY <1>5, <1>7, <1>12 DEF Lock
<1>13. ASSUME JobLog(c) PROVE Goal
  BY <1>1, <1>2, <1>13 DEF JobLog, Goal, OthersStay
<1>14. ASSUME JobDone(c) PROVE Goal
  <2>1. handler[c].pc = "job" /\ (handler[c].req.op # "createWatcher" => carried[c] = 0)
    BY <1>1, <1>14 DEF JobDone, NotYet
  <2> QED BY <1>5, <1>6, <1>14, <2>1 DEF JobDone
<1>15. ASSUME JobFails(c) PROVE Goal
  BY <1>5, <1>7, <1>15 DEF JobFails
<1>16. ASSUME SendSummary(c) PROVE Goal
  BY <1>5, <1>7, <1>16 DEF SendSummary
<1>17. ASSUME Return(c) PROVE Goal
  BY <1>5, <1>17 DEF Return
<1>18. Goal
  BY <1>9, <1>10, <1>11, <1>12, <1>13, <1>14, <1>15, <1>16, <1>17 DEF HandlerAt
<1> QED BY <1>2, <1>18 DEF Goal

\* The calls of a process start with nothing done.
LEMMA OnceInvCall ==
  ASSUME TypeOK, CallInv, OnceInv, NEW c \in Cmds, OnItsWay(c)
  PROVE  OnceInv'
<1>1. /\ Onward(cmd'[c]) /\ OthersStay(c) /\ carried' = carried
      /\ Call(c) \/ handler' = handler
  BY ProcessMoves
<1>2. NotYet(handler'[c], carried'[c])
  <2>1. CASE Call(c)
    <3>1. cmd[c].pc = "call" /\ cmd[c].req.op \in CallOps
      BY <2>1 DEF Call, OnceInv, Onward
    <3>2. carried[c] = 0
      BY <3>1 DEF CallInv, Truth
    <3> QED BY <1>1, <3>2 DEF NotYet
  <2>2. CASE handler' = handler
    BY <1>1, <2>2 DEF OnceInv
  <2> QED BY <1>1, <2>1, <2>2
<1> QED BY <1>1, <1>2 DEF OnceInv, OthersStay

LEMMA OnceInvNext == TypeOK /\ CallInv /\ OnceInv /\ [Next]_vars => OnceInv'
<1> SUFFICES ASSUME TypeOK, CallInv, OnceInv, [Next]_vars PROVE OnceInv'
  OBVIOUS
<1>1. CASE UNCHANGED vars
  BY <1>1 DEF vars, OnceInv
<1>2. ASSUME NEW c \in Cmds, HandlerAt(c) PROVE OnceInv'
  BY <1>2, HandlerMoves DEF OnceInv, OthersStay
<1>3. ASSUME NEW c \in Cmds, Answer(c) PROVE OnceInv'
  <2>1. handler'[c].pc = "idle" /\ \A d \in Cmds \ {c} : handler'[d] = handler[d]
    BY <1>3 DEF Answer, NoHandler, TypeOK
  <2>2. cmd' = cmd /\ carried' = carried
    BY <1>3 DEF Answer, clientVars
  <2> QED BY <2>1, <2>2 DEF OnceInv, NotYet
<1>4. ASSUME NEW c \in Cmds, Start(c) PROVE OnceInv'
  <2>1. PICK r \in given.requests :
          Become(c, IF r.op \in TokenOps THEN r.op ELSE "dial", [NoCommand EXCEPT !.req = r])
    BY <1>4 DEF Start
  <2>2. /\ cmd'[c].pc = IF r.op \in TokenOps THEN r.op ELSE "dial"
        /\ cmd'[c].req = r /\ \A d \in Cmds \ {c} : cmd'[d] = cmd[d]
    BY <2>1 DEF Become, NoCommand, TypeOK
  <2>3. r.op \in CallOps \cup TokenOps
    BY CommandAssumption DEF TypeOK, Requests
  <2>4. Onward(cmd'[c])
    BY <2>2, <2>3 DEF Onward, TokenOps
  <2>5. /\ handler' = handler /\ handler[c].pc = "idle"
        /\ \A d \in Cmds \ {c} : carried'[d] = carried[d]
    BY <1>4 DEF Start, serverVars, TypeOK
  <2> QED BY <2>2, <2>4, <2>5 DEF OnceInv, NotYet
<1>5. ASSUME NEW c \in Cmds, Kill(c) \/ Leave(c) PROVE OnceInv'
  <2>1. /\ handler' = handler /\ carried' = carried /\ cmd'[c].pc = "idle"
        /\ \A d \in Cmds \ {c} : cmd'[d] = cmd[d]
    BY <1>5 DEF Kill, Leave, serverVars, NoCommand, TypeOK
  <2> QED BY <2>1 DEF OnceInv, Onward
<1>6. ASSUME NEW c \in Cmds, Logout(c) PROVE OnceInv'
  <2>1. handler' = handler /\ carried' = carried
    BY <1>6 DEF Logout, serverVars
  <2>2. ASSUME NEW d \in Cmds PROVE Onward(cmd'[d])
    <3>1. CASE d = c
      <4>1. cmd'[d] = [Ended(cmd[d], "ok") EXCEPT !.pc = "exited"] /\ cmd[d] \in Commands
        BY <1>6, <3>1 DEF Logout, TypeOK
      <4>2. cmd'[d].pc = "exited"
        BY <4>1 DEF Ended, Commands
      <4> QED BY <4>2 DEF Onward
    <3>2. CASE d # c
      <4>1. cmd'[d] = [cmd[d] EXCEPT !.linked = FALSE]
        BY <1>6, <3>2 DEF Logout
      <4>2. cmd'[d].pc = cmd[d].pc /\ cmd'[d].req = cmd[d].req
        BY <4>1 DEF TypeOK, Commands
      <4> QED BY <4>2 DEF OnceInv, Onward
    <3> QED BY <3>1, <3>2
  <2> QED BY <2>1, <2>2 DEF OnceInv
<1>7. CASE Crash
  BY <1>7 DEF Crash, clientVars, NoHandler, OnceInv, NotYet
<1> QED BY <1>1, <1>2, <1>3, <1>4, <1>5, <1>6, <1>7, OnceInvCall
    DEF Next, ClientStep, ServerStep, LastStep, OnItsWay, HandlerAt

\* What the contract lets happen to one request.
Req(c) == Request(cmd[c], handler[c], carried[c])
Table == [c \in Cmds |-> Req(c)]

Entry(who, b, n) == [client |-> who, pending |-> b, done |-> n]

May(r, s) ==
  \/ r = Contract!Nothing /\ s = Entry("waiting", TRUE, 0)
  \/ r.pending /\ r.done = 0 /\ s = Contract!Settled(Entry(r.client, r.pending, 1))
  \/ /\ r.client = "waiting"
     /\ \/ r.done = 1 /\ s = Entry("done", FALSE, 1)
        \/ r.done = 0 /\ s = Entry("undone", FALSE, 0)
        \/ \E how \in {"unknown", "away"}, b \in BOOLEAN : s = Contract!Settled(Entry(how, b, r.done))
  \/ r.client \in Contract!Answers /\ s = Contract!Settled(Entry("away", r.pending, r.done))
  \/ r.client # "waiting" /\ s = Contract!Settled(Entry(r.client, FALSE, r.done))

Whos == {"away", "waiting"} \cup Contract!Answers

Entries == [client : Whos, pending : BOOLEAN, done : Nat]

LEMMA EntryFields ==
  ASSUME NEW r \in Entries
  PROVE  /\ \A x \in Whos : [r EXCEPT !.client = x] = Entry(x, r.pending, r.done)
         /\ \A x \in BOOLEAN : [r EXCEPT !.pending = x] = Entry(r.client, x, r.done)
         /\ \A x \in Nat : [r EXCEPT !.done = x] = Entry(r.client, r.pending, x)
         /\ \A x \in Whos, y \in BOOLEAN :
              [r EXCEPT !.client = x, !.pending = y] = Entry(x, y, r.done)
<1>1. \A s \in Entries, y \in BOOLEAN : [s EXCEPT !.pending = y] = Entry(s.client, y, s.done)
  BY DEF Entries, Entry
<1>2. \A s \in Entries, x \in Whos : [s EXCEPT !.client = x] = Entry(x, s.pending, s.done)
  BY DEF Entries, Entry
<1>3. \A s \in Entries, x \in Nat : [s EXCEPT !.done = x] = Entry(s.client, s.pending, x)
  BY DEF Entries, Entry
<1>4. ASSUME NEW x \in Whos, NEW y \in BOOLEAN
      PROVE  [r EXCEPT !.client = x, !.pending = y] = Entry(x, y, r.done)
  <2> DEFINE s == [r EXCEPT !.client = x]
  <2>1. s \in Entries /\ s.client = x /\ s.done = r.done
    BY DEF Entries
  <2>2. [s EXCEPT !.pending = y] = Entry(s.client, y, s.done)
    BY <1>1, <2>1
  <2> HIDE DEF s
  <2>3. [s EXCEPT !.pending = y] = Entry(x, y, r.done)
    BY <2>1, <2>2
  <2> QED BY <2>3 DEF s
<1> QED BY <1>1, <1>2, <1>3, <1>4

LEMMA RequestIs ==
  ASSUME NEW k, NEW h, NEW n \in Nat
  PROVE  /\ Request(k, h, n) \in Entries
         /\ Request(k, h, n).client = Client(k)
         /\ Request(k, h, n).pending <=> Client(k) = "waiting" \/ h.pc # "idle"
         /\ Client(k) # "away" \/ h.pc # "idle" => Request(k, h, n).done = n
<1>1. Client(k) \in Whos
  BY DEF Client, Whos, Contract!Answers
<1> QED BY <1>1 DEF Request, Entries

\* What c does is a step of the contract, or nothing.
LEMMA RequestMoves ==
  ASSUME TypeOK, NEW c \in Cmds, OthersStay(c), Req(c)' = Req(c) \/ May(Req(c), Req(c)')
  PROVE  [Contract!ReplyNext]_Table
<1>1. \A d \in Cmds \ {c} : Req(d)' = Req(d)
  BY DEF OthersStay, Req
<1>2. CASE Req(c)' = Req(c)
  <2>1. \A d \in Cmds : Req(d)' = Req(d)
    BY <1>1, <1>2
  <2> QED BY <2>1 DEF Table
<1>3. CASE May(Req(c), Req(c)')
  <2> DEFINE T == [d \in Cmds |-> Request(cmd[d], handler[d], carried[d])]
  <2>1. T[c] = Req(c) /\ T' = [T EXCEPT ![c] = Req(c)']
    BY <1>1 DEF Req
  <2>2. /\ Contract!Settled(Entry("waiting", TRUE, 0)) = Entry("waiting", TRUE, 0)
        /\ Contract!Settled(Entry("done", FALSE, 1)) = Entry("done", FALSE, 1)
        /\ Contract!Settled(Entry("undone", FALSE, 0)) = Entry("undone", FALSE, 0)
    BY DEF Contract!Settled, Entry
  <2>3. T' = [d \in Cmds |-> IF d \in {c} THEN Req(c)' ELSE T[d]]
    BY <2>1
  <2> DEFINE r == Req(c)
             s == Req(c)'
  <2>4. \A x : s = Contract!Settled(x) => Contract!Becomes(c, x)
    BY <2>1 DEF Contract!Becomes
  <2>5. r \in Entries
    BY RequestIs DEF Req, TypeOK
  <2>6. T[c] = r
    BY <2>1
  <2> HIDE DEF r, s
  <2>7. /\ [r EXCEPT !.done = 1] = Entry(r.client, r.pending, 1)
        /\ [r EXCEPT !.client = "away"] = Entry("away", r.pending, r.done)
        /\ [r EXCEPT !.pending = FALSE] = Entry(r.client, FALSE, r.done)
        /\ \A how \in {"unknown", "away"}, b \in BOOLEAN :
             [r EXCEPT !.client = how, !.pending = b] = Entry(how, b, r.done)
    BY <2>5, EntryFields DEF Whos, Contract!Answers
  <2>8. CASE r = Contract!Nothing /\ s = Entry("waiting", TRUE, 0)
    <3>1. Contract!Ask(c)
      BY <2>2, <2>4, <2>6, <2>8 DEF Contract!Ask, Entry
    <3> QED BY <3>1 DEF Contract!ReplyNext
  <2>9. CASE r.pending /\ r.done = 0 /\ s = Contract!Settled(Entry(r.client, r.pending, 1))
    <3>1. Contract!Do(c)
      BY <2>4, <2>6, <2>7, <2>9 DEF Contract!Do
    <3> QED BY <3>1 DEF Contract!ReplyNext
  <2>10. CASE /\ r.client = "waiting"
              /\ \/ r.done = 1 /\ s = Entry("done", FALSE, 1)
                 \/ r.done = 0 /\ s = Entry("undone", FALSE, 0)
    <3>1. Contract!Tell(c)
      BY <2>2, <2>4, <2>6, <2>10 DEF Contract!Tell, Entry
    <3> QED BY <3>1 DEF Contract!ReplyNext
  <2>11. CASE /\ r.client = "waiting"
              /\ \E how \in {"unknown", "away"}, b \in BOOLEAN :
                   s = Contract!Settled(Entry(how, b, r.done))
    <3>1. PICK how \in {"unknown", "away"}, b \in BOOLEAN :
            s = Contract!Settled(Entry(how, b, r.done))
      BY <2>11
    <3>2. [r EXCEPT !.client = how, !.pending = b] = Entry(how, b, r.done)
      BY <2>7
    <3>3. Contract!Becomes(c, [r EXCEPT !.client = how, !.pending = b])
      BY <2>4, <3>1, <3>2
    <3>4. Contract!Becomes(c, [T[c] EXCEPT !.client = how, !.pending = b]) /\ T[c].client = "waiting"
      BY <2>6, <2>11, <3>3
    <3>5. Contract!GiveUp(c)
      BY <3>4 DEF Contract!GiveUp
    <3> QED BY <3>5 DEF Contract!ReplyNext
  <2>12. CASE r.client \in Contract!Answers /\ s = Contract!Settled(Entry("away", r.pending, r.done))
    <3>1. Contract!Forget(c)
      BY <2>4, <2>6, <2>7, <2>12 DEF Contract!Forget
    <3> QED BY <3>1 DEF Contract!ReplyNext
  <2>13. CASE r.client # "waiting" /\ s = Contract!Settled(Entry(r.client, FALSE, r.done))
    <3>1. T' = [d \in Cmds |-> IF d \in {c} THEN Contract!Settled([T[d] EXCEPT !.pending = FALSE])
                                             ELSE T[d]]
      BY <2>3, <2>6, <2>7, <2>13 DEF s
    <3>2. Contract!Drop({c})
      BY <2>6, <2>13, <3>1 DEF Contract!Drop
    <3> QED BY <3>2 DEF Contract!ReplyNext
  <2> QED BY <1>3, <2>8, <2>9, <2>10, <2>11, <2>12, <2>13 DEF May, r, s
<1> QED BY <1>2, <1>3

LEMMA RequestProcess ==
  ASSUME TypeOK, TypeOK', CallInv, CallInv', OnceInv, NEW c \in Cmds, OnItsWay(c)
  PROVE  Req(c)' = Req(c) \/ May(Req(c), Req(c)')
<1>1. /\ cmd'[c].req = cmd[c].req
      /\ cmd[c].pc \notin {"idle", "exited"} /\ cmd'[c].pc # "idle"
      /\ carried' = carried /\ (Call(c) \/ handler' = handler)
  BY ProcessMoves
<1> DEFINE k == cmd[c]
           k2 == cmd'[c]
           n == carried[c]
           h == handler[c]
           h2 == handler'[c]
<1>2. Req(c) = Request(k, h, n) /\ Req(c)' = Request(k2, h2, n)
  BY <1>1 DEF Req
<1>3. k2.exit \in {"none", "ok", "error", "cut"} /\ n \in Nat
  BY DEF TypeOK, Commands
<1>4. Exchange(k2, h2, wire'[c]) /\ Truth(k2, h2, wire'[c], n)
  BY <1>1 DEF CallInv
<1>5. k.req.op \notin CallOps => h2 = h
  BY <1>1 DEF Call, OnceInv, Onward
<1> HIDE DEF k, k2, n, h, h2
<1>6. k2.req = k.req /\ k.pc \notin {"idle", "exited"} /\ k2.pc # "idle"
  BY <1>1 DEF k, k2
<1>7. CASE k.req.op \notin CallOps
  BY <1>2, <1>5, <1>6, <1>7 DEF Request, Client
<1>8. CASE k.req.op \in CallOps
  <2>1. Client(k) = "waiting" /\ Req(c) = [client |-> "waiting", pending |-> TRUE, done |-> n]
    BY <1>2, <1>6, <1>8 DEF Client, Request
  <2>2. CASE k2.pc # "exited"
    BY <1>2, <1>6, <1>8, <2>1, <2>2 DEF Client, Request
  <2>3. CASE k2.pc = "exited" /\ k2.exit = "ok"
    <3>1. n = 1 /\ h2.pc = "idle"
      BY <1>4, <1>6, <1>8, <2>3 DEF Exchange, Truth
    <3>2. Req(c)' = Entry("done", FALSE, 1)
      BY <1>2, <1>6, <1>8, <2>3, <3>1 DEF Client, Request, Entry
    <3> QED BY <2>1, <3>1, <3>2 DEF May
  <2>4. CASE k2.pc = "exited" /\ k2.exit = "error" /\ k.req.op \notin Rereads
    <3>1. n = 0 /\ h2.pc = "idle"
      BY <1>4, <1>6, <1>8, <2>4 DEF Exchange, Truth, SaysRefused
    <3>2. Req(c)' = Entry("undone", FALSE, 0)
      BY <1>2, <1>6, <1>8, <2>4, <3>1 DEF Client, Request, Entry
    <3> QED BY <2>1, <3>1, <3>2 DEF May
  <2>5. CASE k2.pc = "exited" /\ k2.exit # "ok" /\ (k2.exit = "error" => k.req.op \in Rereads)
    <3> DEFINE b == h2.pc # "idle"
    <3>1. Req(c)' = [client |-> "unknown", pending |-> b, done |-> n]
      BY <1>2, <1>6, <1>8, <2>5 DEF Client, Request
    <3>2. b \in BOOLEAN
      OBVIOUS
    <3> HIDE DEF b
    <3>3. Req(c)' = Contract!Settled(Entry("unknown", b, n))
      BY <3>1 DEF Contract!Settled, Entry
    <3>4. Req(c).client = "waiting" /\ Req(c).done = n
      BY <2>1
    <3> QED BY <3>2, <3>3, <3>4 DEF May
  <2> QED BY <2>2, <2>3, <2>4, <2>5
<1> QED BY <1>7, <1>8

\* The beginning of a command, and an end that nobody sees.
LEMMA RequestEnds ==
  ASSUME TypeOK, CallInv, OnceInv, NEW c \in Cmds, Start(c) \/ Kill(c) \/ Leave(c)
  PROVE  OthersStay(c) /\ (Req(c)' = Req(c) \/ May(Req(c), Req(c)'))
<1> DEFINE n == carried[c]
           h == handler[c]
           k == cmd[c]
<1>1. /\ handler' = handler /\ Req(c) = Request(k, h, n)
      /\ Req(c)' = Request(cmd'[c], h, carried'[c])
  BY DEF Start, Kill, Leave, serverVars, Req
<1>2. n \in Nat
  BY DEF TypeOK
<1>3. CASE Start(c)
  <2>1. PICK r \in given.requests :
          Become(c, IF r.op \in TokenOps THEN r.op ELSE "dial", [NoCommand EXCEPT !.req = r])
    BY <1>3 DEF Start
  <2>2. /\ cmd'[c].pc = IF r.op \in TokenOps THEN r.op ELSE "dial"
        /\ cmd'[c].req = r /\ \A d \in Cmds \ {c} : cmd'[d] = cmd[d]
    BY <2>1 DEF Become, NoCommand, TypeOK
  <2>3. r.op \in CallOps \cup TokenOps /\ CallOps \cap TokenOps = {}
    BY CommandAssumption
    DEF TypeOK, Requests, CallOps, TokenOps, WatcherOps, MachineOps, RedirectionOps, JobOps
  <2>4. /\ k.pc = "idle" /\ h.pc = "idle" /\ carried'[c] = 0
        /\ \A d \in Cmds \ {c} : carried'[d] = carried[d]
    BY <1>3 DEF Start, TypeOK
  <2>5. Req(c) = Contract!Nothing
    BY <1>1, <2>4 DEF Request, Client, Contract!Nothing
  <2>6. CASE r.op \in TokenOps
    BY <1>1, <2>2, <2>3, <2>4, <2>5, <2>6 DEF Request, Client, Contract!Nothing, OthersStay
  <2>7. CASE r.op \in CallOps
    <3>1. Client(cmd'[c]) = "waiting"
      BY <2>2, <2>3, <2>7 DEF Client
    <3>2. Req(c)' = Entry("waiting", TRUE, 0)
      BY <1>1, <2>4, <3>1 DEF Request, Entry
    <3> QED BY <1>1, <2>2, <2>4, <2>5, <3>2 DEF May, OthersStay
  <2> QED BY <2>3, <2>6, <2>7
<1>4. CASE Kill(c) \/ Leave(c)
  <2> DEFINE b == h.pc # "idle"
             gone == [client |-> "away", pending |-> b, done |-> IF b THEN n ELSE 0]
  <2>1. /\ cmd'[c] = NoCommand /\ carried' = carried
        /\ \A d \in Cmds \ {c} : cmd'[d] = cmd[d]
    BY <1>4 DEF Kill, Leave, TypeOK
  <2>2. Req(c)' = gone
    BY <1>1, <2>1 DEF Request, Client, NoCommand
  <2>3. CASE Client(k) = "away"
    BY <1>1, <2>1, <2>2, <2>3 DEF Request, OthersStay
  <2>4. CASE Client(k) # "away"
    <3>1. Req(c).client = Client(k) /\ Req(c).done = n
      BY <1>1, <2>4 DEF Request
    <3>2. gone = Contract!Settled(Entry("away", b, n)) /\ b \in BOOLEAN
      BY DEF Contract!Settled, Contract!Nothing, Entry
    <3> HIDE DEF b, gone
    <3>3. CASE Client(k) = "waiting"
      BY <1>1, <2>1, <2>2, <3>1, <3>2, <3>3 DEF May, OthersStay
    <3>4. CASE Client(k) # "waiting"
      <4>1. Req(c).pending = b
        BY <1>1, <2>4, <3>4 DEF Request, b
      <4>2. Client(k) \in Contract!Answers
        BY <2>4, <3>4 DEF Client, Contract!Answers
      <4> QED BY <1>1, <2>1, <2>2, <3>1, <3>2, <4>1, <4>2 DEF May, OthersStay
    <3> QED BY <3>3, <3>4
  <2> QED BY <2>3, <2>4
<1> QED BY <1>3, <1>4

\* The handler carries out what was asked, or nothing shows.
LEMMA RequestHandler ==
  ASSUME TypeOK, OnceInv, NEW c \in Cmds, HandlerAt(c)
  PROVE  OthersStay(c) /\ (Req(c)' = Req(c) \/ May(Req(c), Req(c)'))
<1>1. /\ cmd' = cmd /\ handler[c].pc # "idle" /\ handler'[c].pc # "idle" /\ OthersStay(c)
      /\ carried'[c] = carried[c] \/ (carried[c] = 0 /\ carried'[c] = 1)
  BY HandlerMoves
<1> DEFINE who == Client(cmd[c])
<1>2. /\ Req(c) = [client |-> who, pending |-> TRUE, done |-> carried[c]]
      /\ Req(c)' = [client |-> who, pending |-> TRUE, done |-> carried'[c]]
  BY <1>1 DEF Req, Request
<1> HIDE DEF who
<1>3. [client |-> who, pending |-> TRUE, done |-> 1] = Contract!Settled(Entry(who, TRUE, 1))
  BY DEF Contract!Settled, Entry
<1>4. Req(c).client = who /\ Req(c).pending = TRUE /\ Req(c).done = carried[c]
  BY <1>2
<1> QED BY <1>1, <1>2, <1>3, <1>4 DEF May

\* The answer of a handler that nobody waits for ends its request.
LEMMA HandlerGone ==
  ASSUME TypeOK, NEW c \in Cmds, cmd'[c] = cmd[c], carried'[c] = carried[c],
         handler'[c].pc = "idle"
  PROVE  /\ Req(c)' = Req(c) \/ May(Req(c), Req(c)')
         /\ Req(c).client = "waiting" => Req(c)' = Req(c)
         /\ Req(c).client # "waiting" => Req(c)' = Contract!Settled(Entry(Req(c).client, FALSE, Req(c).done))
<1> DEFINE who == Client(cmd[c])
           b == handler[c].pc # "idle"
           n == carried[c]
<1>1. /\ Req(c) = [client |-> who, pending |-> who = "waiting" \/ b,
                   done |-> IF who = "waiting" \/ b \/ who # "away" THEN n ELSE 0]
      /\ Req(c)' = [client |-> who, pending |-> who = "waiting",
                    done |-> IF who = "waiting" \/ who # "away" THEN n ELSE 0]
  BY DEF Req, Request
<1> HIDE DEF who, b, n
<1>2. CASE who = "waiting"
  BY <1>1, <1>2
<1>3. CASE who # "waiting"
  <2> DEFINE m == IF b \/ who # "away" THEN n ELSE 0
  <2>1. Req(c).client = who /\ Req(c).done = m
    BY <1>1, <1>3
  <2>2. Req(c)' = [client |-> who, pending |-> FALSE, done |-> IF who # "away" THEN n ELSE 0]
    BY <1>1, <1>3
  <2>3. Req(c)' = Contract!Settled(Entry(who, FALSE, m))
    BY <2>2 DEF Contract!Settled, Contract!Nothing, Entry
  <2> QED BY <1>3, <2>1, <2>3 DEF May
<1> QED BY <1>2, <1>3

LEMMA ContractStep ==
  ASSUME TypeOK, TypeOK', CallInv, CallInv', OnceInv, [Next]_vars
  PROVE  [Contract!ReplyNext]_Table
<1>1. CASE UNCHANGED vars
  BY <1>1 DEF vars, Table, Req
<1>2. ASSUME NEW c \in Cmds, OnItsWay(c) PROVE [Contract!ReplyNext]_Table
  BY <1>2, ProcessMoves, RequestProcess, RequestMoves
<1>3. ASSUME NEW c \in Cmds, Start(c) \/ Kill(c) \/ Leave(c) PROVE [Contract!ReplyNext]_Table
  BY <1>3, RequestEnds, RequestMoves
<1>4. ASSUME NEW c \in Cmds, HandlerAt(c) PROVE [Contract!ReplyNext]_Table
  BY <1>4, RequestHandler, RequestMoves
<1>5. ASSUME NEW c \in Cmds, Answer(c) PROVE [Contract!ReplyNext]_Table
  <2>1. handler'[c].pc = "idle" /\ \A d \in Cmds \ {c} : handler'[d] = handler[d]
    BY <1>5 DEF Answer, NoHandler, TypeOK
  <2>2. cmd' = cmd /\ carried' = carried
    BY <1>5 DEF Answer, clientVars
  <2> QED BY <2>1, <2>2, HandlerGone, RequestMoves DEF OthersStay
<1>6. ASSUME NEW c \in Cmds, Logout(c) PROVE [Contract!ReplyNext]_Table
  <2>1. handler' = handler /\ carried' = carried /\ cmd[c].pc = "logout"
    BY <1>6 DEF Logout, serverVars
  <2>2. ASSUME NEW d \in Cmds PROVE Client(cmd'[d]) = Client(cmd[d])
    <3>1. CASE d = c
      <4>1. cmd'[c] = [Ended(cmd[c], "ok") EXCEPT !.pc = "exited"] /\ cmd[c] \in Commands
        BY <1>6 DEF Logout, TypeOK
      <4>2. cmd'[c].req = cmd[c].req /\ cmd'[c].pc = "exited"
        BY <4>1 DEF Ended, Commands
      <4>3. cmd[c].req.op \notin CallOps
        BY <2>1 DEF CallInv, Truth
      <4> QED BY <3>1, <4>2, <4>3 DEF Client
    <3>2. CASE d # c
      <4>1. cmd'[d] = [cmd[d] EXCEPT !.linked = FALSE] /\ cmd[d] \in Commands
        BY <1>6, <3>2 DEF Logout, TypeOK
      <4>2. /\ cmd'[d].pc = cmd[d].pc /\ cmd'[d].req = cmd[d].req
            /\ cmd'[d].exit = cmd[d].exit
        BY <4>1 DEF Commands
      <4> QED BY <4>2 DEF Client
    <3> QED BY <3>1, <3>2
  <2>3. \A d \in Cmds : Req(d)' = Req(d)
    BY <2>1, <2>2 DEF Req, Request
  <2> QED BY <2>3 DEF Table
<1>7. CASE Crash
  <2> DEFINE S == {c \in Cmds : Req(c).client # "waiting"}
             T == [d \in Cmds |-> Request(cmd[d], handler[d], carried[d])]
  <2>1. cmd' = cmd /\ carried' = carried /\ \A c \in Cmds : handler'[c].pc = "idle"
    BY <1>7 DEF Crash, clientVars, NoHandler
  <2>2. ASSUME NEW c \in Cmds
        PROVE  [Req(c) EXCEPT !.pending = FALSE] = Entry(Req(c).client, FALSE, Req(c).done)
    <3>1. Req(c) \in Entries
      BY RequestIs DEF Req, TypeOK
    <3> QED BY <3>1, EntryFields
  <2>3. \A c \in Cmds : Req(c)' = IF c \in S THEN Contract!Settled([Req(c) EXCEPT !.pending = FALSE])
                                             ELSE Req(c)
    BY <2>1, <2>2, HandlerGone
  <2>4. \A c \in Cmds : T[c] = Req(c)
    BY DEF Req
  <2>5. T' = [c \in Cmds |-> Req(c)']
    BY DEF Req
  <2>6. T' = [c \in Cmds |-> IF c \in S THEN Contract!Settled([T[c] EXCEPT !.pending = FALSE])
                                        ELSE T[c]]
    BY <2>3, <2>4, <2>5
  <2>7. S \in SUBSET Cmds /\ \A c \in S : T[c].client # "waiting"
    BY <2>4
  <2>8. Contract!Drop(S)
    BY <2>6, <2>7 DEF Contract!Drop
  <2> QED BY <2>7, <2>8 DEF Contract!ReplyNext
<1> QED BY <1>1, <1>2, <1>3, <1>4, <1>5, <1>6, <1>7
    DEF Next, ClientStep, ServerStep, LastStep, OnItsWay, HandlerAt

\* Every command and its handler keep the contract: a request is carried out at most
\* once, never after its command was answered, and the answer is true, whoever else is
\* at work, is killed or gives up, and whenever the server stops.
THEOREM CommandsKeepContract == Spec => KeepsContract
<1>1. Init => Contract!ReplyInit
  <2> SUFFICES ASSUME Init PROVE \A c \in Cmds : Request(cmd[c], handler[c], carried[c]) = Contract!Nothing
    BY DEF Contract!ReplyInit
  <2> QED BY DEF Init, Request, Client, NoCommand, NoHandler, Contract!Nothing
<1>2. TypeOK /\ CallInv /\ TypeOK' /\ CallInv' /\ OnceInv /\ [Next]_vars
        => [Contract!ReplyNext]_[c \in Cmds |-> Request(cmd[c], handler[c], carried[c])]
  BY ContractStep DEF Table, Req
<1>3. Spec => []OnceInv
  BY CallInvAlways, OnceInvInit, OnceInvNext, PTL DEF Spec
<1> QED BY <1>1, <1>2, <1>3, CallInvAlways, PTL DEF Spec, KeepsContract, Contract!ReplySpec
=============================================================================
