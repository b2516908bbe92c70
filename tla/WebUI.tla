-------------------------------- MODULE WebUI --------------------------------
(***************************************************************************)
(* The web UI of the server (src/server/web) with OIDC enabled: the store  *)
(* of sessions with its reaper, the login at the provider, the middleware  *)
(* in front of every page and action, and uploads.  Tabs of one browser    *)
(* share its cookies; a request carries the cookies of the moment it is    *)
(* sent, and its response changes them when it arrives.                    *)
(*                                                                         *)
(* What the sync, flush and machine buttons do once they are admitted is   *)
(* in SyncService and FlushService; here they are pages.                   *)
(***************************************************************************)
EXTENDS Integers, FiniteSets

CONSTANTS
  Tabs,         \* tabs, one request each at a time
  Browsers,     \* cookie jars
  BrowserOf,    \* the browser of a tab
  Workloads,    \* what the users do: kinds of requests, and whether a browser is logged
                \* in to begin with
  Files,        \* paths that an upload may write on the server's own disk
  TTL,          \* sessionTTL in ticks of the clock
  MaxTime,      \* bound: the clock stops there
  MaxSessions,  \* bound: sessions that are created
  MaxLogins     \* bound: logins that are begun

Kinds == {"page", "upload", "login", "callback", "logout"}

ASSUME WebAssumption ==
  /\ Workloads \subseteq [kinds : SUBSET Kinds, users : SUBSET Browsers]
  /\ BrowserOf \in [Tabs -> Browsers]
  /\ TTL \in Nat \ {0} /\ MaxTime \in Nat /\ MaxSessions \in Nat /\ MaxLogins \in Nat

VARIABLES
  given,      \* the workload, which does not change
  clock,      \* time.Now()
  sessions,   \* the session map: id |-> expiry
  created,    \* the ids given out so far; they are never given out again
  began,      \* the states of logins given out so far
  used,       \* the logins whose authorization code the provider has redeemed
  reaper,     \* the reaper: the time it has read, or Waiting
  jar,        \* per browser, its two cookies
  tab,        \* per tab, its request and the handler at work on it
  disk,       \* per path, what uploads have left there
  loggedOut   \* history: the sessions that a logout has named

authVars == <<given, sessions, created, began, used, loggedOut>>
vars == <<given, clock, sessions, created, began, used, reaper, jar, tab, disk, loggedOut>>

SessionIds == 1 .. MaxSessions
LoginIds == 1 .. MaxLogins
Waiting == -1

(***************************************************************************)
(* Types                                                                   *)
(***************************************************************************)
Steps == {"idle", "sent", "check", "serve", "copy", "exchange", "create", "answer"}
Keep == -1

\* The request: session and state are the cookies it carries, flow the login that
\* the tab's address belongs to, files what it uploads; over is a history variable,
\* whether its session had ended when it was sent.  The handler: expiry is what
\* valid has read, open the files it has created, saved those of them it has
\* filled, shared those that another upload has had open as well.  The response:
\* ok, and the values it gives to cookies, 0 to delete one.
NoTab == [pc |-> "idle", kind |-> "none", session |-> 0, state |-> 0, flow |-> 0, files |-> {},
          over |-> FALSE, expiry |-> 0, open |-> {}, saved |-> {}, shared |-> {},
          ok |-> FALSE, setSession |-> Keep, setState |-> Keep]

TabRecords ==
  [pc : Steps, kind : Kinds \cup {"none"}, session : 0 .. MaxSessions, state : 0 .. MaxLogins,
   flow : 0 .. MaxLogins, files : SUBSET Files, over : BOOLEAN, expiry : Nat,
   open : SUBSET Files, saved : SUBSET Files, shared : SUBSET Files,
   ok : BOOLEAN, setSession : Keep .. MaxSessions, setState : Keep .. MaxLogins]

TypeOK ==
  /\ given \in Workloads
  /\ clock \in 0 .. MaxTime
  /\ created \in 0 .. MaxSessions
  /\ DOMAIN sessions \subseteq 1 .. created
  /\ \A i \in DOMAIN sessions : sessions[i] \in TTL .. (MaxTime + TTL)
  /\ began \in 0 .. MaxLogins /\ used \subseteq 1 .. began
  /\ reaper \in {Waiting} \cup (0 .. MaxTime)
  /\ jar \in [Browsers -> [session : 0 .. created, state : 0 .. began]]
  /\ tab \in [Tabs -> TabRecords]
  /\ disk \in [Files -> {"none", "part", "whole", "mixed"}]
  /\ loggedOut \subseteq 1 .. created

(***************************************************************************)
(* Helpers                                                                 *)
(***************************************************************************)
\* Nothing of a request is needed for its response but these.
Answered(r, ok) == [r EXCEPT !.pc = "answer", !.ok = ok, !.session = 0, !.state = 0, !.over = FALSE,
                             !.expiry = 0]

\* t's handler is at pc and goes on, or answers.
At(t, pc) == tab[t].pc = pc
Proceed(t, to) == tab' = [tab EXCEPT ![t].pc = to]
Answer(t, ok) == tab' = [tab EXCEPT ![t] = Answered(@, ok)]

\* The map without the sessions in ids.
Without(ids) == [i \in DOMAIN sessions \ ids |-> sessions[i]]

Live(i) == i \in DOMAIN sessions /\ clock < sessions[i]

\* The uploads other than t's that have f open, and of these the ones still at it.
Holding(t, f) == {u \in Tabs \ {t} : f \in tab[u].open}
Filling(t, f) == {u \in Holding(t, f) : At(u, "copy") /\ f \notin tab[u].saved}

\* A browser that is logged in has a session of its own.
Init ==
  /\ given \in Workloads
  /\ clock = 0 /\ began = 0 /\ used = {} /\ reaper = Waiting /\ loggedOut = {}
  /\ created \in 0 .. MaxSessions
  /\ sessions = [i \in 1 .. created |-> TTL]
  /\ jar \in [Browsers -> [session : 0 .. created, state : {0}]]
  /\ \A b \in Browsers : (b \in given.users) = (jar[b].session # 0)
  /\ \A i \in 1 .. created : \E b \in Browsers : jar[b].session = i
  /\ \A b, d \in Browsers : jar[b].session = jar[d].session => b = d \/ jar[b].session = 0
  /\ tab = [t \in Tabs |-> NoTab]
  /\ disk = [f \in Files |-> "none"]

(***************************************************************************)
(* The browser                                                             *)
(***************************************************************************)
\* A request leaves with the cookies of now.  The provider sends a tab back to
\* the callback with the state of the login it began there; the user may load that
\* address again.
Send(t) ==
  /\ At(t, "idle")
  /\ \E kind \in given.kinds, S \in SUBSET Files :
       /\ kind = "callback" => tab[t].flow # 0
       /\ (kind = "upload") = (S # {})
       /\ tab' = [tab EXCEPT ![t] =
            [NoTab EXCEPT !.pc = "sent", !.kind = kind, !.files = S, !.flow = @ + tab[t].flow,
                          !.session = jar[BrowserOf[t]].session, !.state = jar[BrowserOf[t]].state,
                          !.over = LET i == jar[BrowserOf[t]].session
                                   IN  i \in loggedOut \/ ~Live(i)]]
  /\ UNCHANGED <<clock, reaper, jar, disk>> /\ UNCHANGED authVars

\* The response arrives and sets its cookies; that of a login leads to the provider.
Arrive(t) ==
  /\ At(t, "answer")
  /\ LET b == BrowserOf[t]
         Value(old, new) == IF new = Keep THEN old ELSE new
     IN  jar' = [jar EXCEPT ![b] = [session |-> Value(@.session, tab[t].setSession),
                                    state |-> Value(@.state, tab[t].setState)]]
  /\ tab' = [tab EXCEPT ![t] = [NoTab EXCEPT !.flow = IF tab[t].kind = "login" THEN tab[t].setState
                                                      ELSE tab[t].flow]]
  /\ UNCHANGED <<clock, reaper, disk>> /\ UNCHANGED authVars

\* The tab is closed, or its connection breaks, before the response is there.
Abandon(t) ==
  /\ At(t, "answer")
  /\ tab' = [tab EXCEPT ![t] = NoTab]
  /\ UNCHANGED <<clock, reaper, jar, disk>> /\ UNCHANGED authVars

\* The cookie of a login is good for five minutes.
StateExpires(b) ==
  /\ jar[b].state # 0
  /\ jar' = [jar EXCEPT ![b].state = 0]
  /\ UNCHANGED <<clock, reaper, tab, disk>> /\ UNCHANGED authVars

(***************************************************************************)
(* Pages and actions behind requireAuth                                    *)
(***************************************************************************)
\* valid reads the map under its lock ...
LookUp(t) ==
  /\ At(t, "sent") /\ tab[t].kind \in {"page", "upload"}
  /\ IF tab[t].session \in DOMAIN sessions
     THEN tab' = [tab EXCEPT ![t].pc = "check", ![t].expiry = sessions[tab[t].session]]
     ELSE Answer(t, FALSE)
  /\ UNCHANGED <<clock, reaper, jar, disk>> /\ UNCHANGED authVars

\* ... and compares with the time after it; without a valid session the request
\* is redirected to the login page.
Admit(t) ==
  /\ At(t, "check")
  /\ IF clock < tab[t].expiry THEN Proceed(t, "serve") ELSE Answer(t, FALSE)
  /\ UNCHANGED <<clock, reaper, jar, disk>> /\ UNCHANGED authVars

\* A page, or a button for a service: one or two calls of it, whose error, if any,
\* is the answer.
ServePage(t) ==
  /\ At(t, "serve") /\ tab[t].kind = "page"
  /\ Answer(t, TRUE)
  /\ UNCHANGED <<clock, reaper, jar, disk>> /\ UNCHANGED authVars

\* handleUpload finds the watcher and its directory, or a folder below it, and
\* parses the form; or one of these fails.
AcceptUpload(t) ==
  /\ At(t, "serve") /\ tab[t].kind = "upload"
  /\ Proceed(t, "copy") \/ Answer(t, FALSE)
  /\ UNCHANGED <<clock, reaper, jar, disk>> /\ UNCHANGED authVars

\* The next file of an upload is created, or truncated, or cannot be.
CreateFile(t) ==
  /\ At(t, "copy") /\ tab[t].open = tab[t].saved
  /\ \E f \in tab[t].files \ tab[t].open :
       \/ /\ disk' = [disk EXCEPT ![f] = "part"]
          /\ tab' = [u \in Tabs |->
               IF u = t THEN [tab[t] EXCEPT !.open = @ \cup {f},
                                            !.shared = IF Filling(t, f) = {} THEN @ ELSE @ \cup {f}]
               ELSE IF u \in Holding(t, f) THEN [tab[u] EXCEPT !.shared = @ \cup {f}]
               ELSE tab[u]]
       \/ Answer(t, FALSE) /\ UNCHANGED disk
  /\ UNCHANGED <<clock, reaper, jar>> /\ UNCHANGED authVars

\* io.Copy fills the file that was created last.  What two uploads write to one
\* file at a time is mixed.
Filled(t, f, how) == IF Filling(t, f) = {} /\ disk[f] = "part" THEN how ELSE "mixed"

\* Mutant: a file that cannot be written is passed over.
CopyFileOrSkip(t) ==
  /\ At(t, "copy")
  /\ \E f \in tab[t].open \ tab[t].saved, how \in {"part", "whole"} :
       /\ disk' = [disk EXCEPT ![f] = Filled(t, f, how)]
       /\ tab' = [tab EXCEPT ![t].saved = @ \cup {f}]
  /\ UNCHANGED <<clock, reaper, jar>> /\ UNCHANGED authVars

\* A failure ends the upload; what it has written stays.
CopyFile(t) ==
  /\ At(t, "copy")
  /\ \E f \in tab[t].open \ tab[t].saved, how \in {"part", "whole"} :
       /\ disk' = [disk EXCEPT ![f] = Filled(t, f, how)]
       /\ IF how = "whole" THEN tab' = [tab EXCEPT ![t].saved = @ \cup {f}] ELSE Answer(t, FALSE)
  /\ UNCHANGED <<clock, reaper, jar>> /\ UNCHANGED authVars

\* "Uploaded", with the names of the files.
FinishUpload(t) ==
  /\ At(t, "copy") /\ tab[t].saved = tab[t].files
  /\ Answer(t, TRUE)
  /\ UNCHANGED <<clock, reaper, jar, disk>> /\ UNCHANGED authVars

(***************************************************************************)
(* Login and logout                                                        *)
(***************************************************************************)
\* handleLogin: a fresh state goes into the cookie and to the provider.
BeginLogin(t) ==
  /\ At(t, "sent") /\ tab[t].kind = "login"
  /\ began < MaxLogins
  /\ began' = began + 1
  /\ tab' = [tab EXCEPT ![t] = [Answered(@, TRUE) EXCEPT !.setState = began + 1]]
  /\ UNCHANGED <<given, clock, sessions, created, used, reaper, jar, disk, loggedOut>>

\* handleCallback compares the cookie with the state in the address and clears it.
CheckState(t) ==
  /\ At(t, "sent") /\ tab[t].kind = "callback"
  /\ IF tab[t].state = tab[t].flow
     THEN tab' = [tab EXCEPT ![t].pc = "exchange", ![t].setState = 0]
     ELSE Answer(t, FALSE)
  /\ UNCHANGED <<clock, reaper, jar, disk>> /\ UNCHANGED authVars

\* The provider redeems a code once, and the id token is verified; or either fails.
Exchange(t) ==
  /\ At(t, "exchange")
  /\ \/ /\ tab[t].flow \notin used
        /\ used' = used \cup {tab[t].flow}
        /\ Proceed(t, "create")
     \/ Answer(t, FALSE) /\ UNCHANGED used
  /\ UNCHANGED <<given, clock, sessions, created, began, reaper, jar, disk, loggedOut>>

\* Mutant: the new session has no lifetime.
CreateSessionExpired(t) ==
  /\ At(t, "create") /\ created < MaxSessions
  /\ created' = created + 1
  /\ sessions' = [i \in DOMAIN sessions \cup {created'} |->
                    IF i = created' THEN clock ELSE sessions[i]]
  /\ tab' = [tab EXCEPT ![t] = [Answered(@, TRUE) EXCEPT !.setSession = created']]
  /\ UNCHANGED <<given, clock, began, used, reaper, jar, disk, loggedOut>>

\* sessionStore.create
CreateSession(t) ==
  /\ At(t, "create")
  /\ created < MaxSessions
  /\ created' = created + 1
  /\ sessions' = [i \in DOMAIN sessions \cup {created'} |->
                    IF i = created' THEN clock + TTL ELSE sessions[i]]
  /\ tab' = [tab EXCEPT ![t] = [Answered(@, TRUE) EXCEPT !.setSession = created']]
  /\ UNCHANGED <<given, clock, began, used, reaper, jar, disk, loggedOut>>

\* Mutant: only the cookie is deleted.
LogoutCookie(t) ==
  /\ At(t, "sent") /\ tab[t].kind = "logout"
  /\ loggedOut' = loggedOut \cup ({tab[t].session} \ {0})
  /\ tab' = [tab EXCEPT ![t] = [Answered(@, TRUE) EXCEPT !.setSession = 0]]
  /\ UNCHANGED <<given, clock, sessions, created, began, used, reaper, jar, disk>>

\* handleLogout: the session leaves the map, the cookie goes with the response.
Logout(t) ==
  /\ At(t, "sent") /\ tab[t].kind = "logout"
  /\ sessions' = Without({tab[t].session})
  /\ loggedOut' = loggedOut \cup ({tab[t].session} \ {0})
  /\ tab' = [tab EXCEPT ![t] = [Answered(@, TRUE) EXCEPT !.setSession = 0]]
  /\ UNCHANGED <<given, clock, created, began, used, reaper, jar, disk>>

(***************************************************************************)
(* The reaper                                                              *)
(***************************************************************************)
\* The ticker fires; the time is read before the lock is taken.
Wake ==
  /\ reaper = Waiting
  /\ reaper' = clock
  /\ UNCHANGED <<clock, jar, tab, disk>> /\ UNCHANGED authVars

\* Mutants: the comparison the wrong way round; a time that was read for good
\* before the loop.
ExpiredLater(i) == reaper < sessions[i]
ExpiredAtFirst(i) == 0 > sessions[i]
\* Its session has expired by that time.
Expired(i) == reaper > sessions[i]

Reap ==
  /\ reaper # Waiting
  /\ sessions' = Without({i \in DOMAIN sessions : Expired(i)})
  /\ reaper' = Waiting
  /\ UNCHANGED <<given, clock, created, began, used, jar, tab, disk, loggedOut>>

Tick ==
  /\ clock < MaxTime
  /\ clock' = clock + 1
  /\ UNCHANGED <<reaper, jar, tab, disk>> /\ UNCHANGED authVars

\* The server starts again: its sessions and requests are gone, cookies are not,
\* nor what an upload has left.
Restart ==
  /\ sessions' = <<>> /\ reaper' = Waiting
  /\ tab' = [t \in Tabs |-> [NoTab EXCEPT !.flow = tab[t].flow]]
  /\ UNCHANGED <<given, clock, created, began, used, jar, disk, loggedOut>>

(***************************************************************************)
(* The specification                                                       *)
(***************************************************************************)
Handle(t) ==
  \/ LookUp(t) \/ Admit(t) \/ ServePage(t) \/ AcceptUpload(t) \/ CreateFile(t) \/ CopyFile(t) \/ FinishUpload(t)
  \/ BeginLogin(t) \/ CheckState(t) \/ Exchange(t) \/ CreateSession(t) \/ Logout(t)

Next ==
  \/ \E t \in Tabs : Send(t) \/ Handle(t) \/ Arrive(t) \/ Abandon(t)
  \/ \E b \in Browsers : StateExpires(b)
  \/ Wake \/ Reap \/ Tick \/ Restart

\* The reaper's goroutine runs on, and its ticker with it.
Fairness == WF_vars(Wake) /\ WF_vars(Reap)

Spec == Init /\ [][Next]_vars
FairSpec == Spec /\ Fairness

(***************************************************************************)
(* Properties                                                              *)
(***************************************************************************)
\* A request sent with a session that had been logged out of, had expired or was
\* lost in a restart is not served, although the map is read and the time compared
\* in two steps and the reaper may not have passed yet.
NoRevival == \A t \in Tabs : tab[t].pc \in {"serve", "copy"} => ~tab[t].over

\* A session leaves the map by its own logout, by a restart, or after it has
\* expired: the reaper, whose time is older than the map it then locks, and the
\* logins and logouts of others leave it alone.
SparesLive ==
  [][Restart \/ \A i \in DOMAIN sessions \ DOMAIN sessions' :
                  clock > sessions[i] \/ i \in loggedOut']_vars

\* The message of a finished upload is true: every file it names is whole, unless
\* another upload has had the file open meanwhile.
UploadStored ==
  \A t \in Tabs : At(t, "answer") /\ tab[t].kind = "upload" /\ tab[t].ok =>
    \A f \in tab[t].files : f \in tab[t].shared \/ disk[f] = "whole"

\* The map does not keep sessions that have expired.
ExpiredReaped ==
  \A i \in 1 .. MaxSessions :
    (i \in DOMAIN sessions /\ clock > sessions[i]) ~> i \notin DOMAIN sessions
=============================================================================
