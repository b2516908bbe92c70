----------------------------- MODULE WebUIProofs -----------------------------
(***************************************************************************)
(* Theorems about WebUI for any number of tabs, browsers, sessions, logins *)
(* and files.                                                              *)
(***************************************************************************)
EXTENDS WebUI, TLAPS

USE DEF SessionIds, LoginIds, Waiting, Keep

(***************************************************************************)
(* Types.  The cookies that a request carries, and those that a response   *)
(* is to set, have been given out; only a tab that has begun a login comes *)
(* to the callback.                                                        *)
(***************************************************************************)
Bounded(r, c, b) ==
  /\ r.session \in 0 .. c /\ r.setSession \in Keep .. c
  /\ r.state \in 0 .. b /\ r.flow \in 0 .. b /\ r.setState \in Keep .. b
  /\ r.pc \in {"exchange", "create"} => r.kind = "callback"
  /\ r.kind = "callback" => r.flow # 0
  /\ r.kind = "login" => r.pc \in {"sent", "answer"}
  /\ r.kind = "login" /\ r.pc = "answer" => r.setState # Keep

TabsBounded == \A t \in Tabs : Bounded(tab[t], created, began)

TypeInv == TypeOK /\ created \in 0 .. MaxSessions /\ TabsBounded

LEMMA NoTabType == NoTab \in TabRecords
BY WebAssumption DEF NoTab, TabRecords, Steps

\* An answered request keeps its type and its bounds.
LEMMA AnsweredType ==
  ASSUME NEW r \in TabRecords, NEW ok \in BOOLEAN,
         NEW c \in Nat, NEW b \in Nat, Bounded(r, c, b), r.kind # "login"
  PROVE  /\ Answered(r, ok) \in TabRecords
         /\ Bounded(Answered(r, ok), c, b)
<1>1. Answered(r, ok) \in TabRecords
  <2>1. 0 \in 0 .. MaxSessions /\ 0 \in 0 .. MaxLogins /\ 0 \in Nat
    BY WebAssumption
  <2> QED BY <2>1 DEF Answered, TabRecords, Steps
<1>2. Bounded(Answered(r, ok), c, b)
  BY DEF Answered, TabRecords, Bounded
<1> QED BY <1>1, <1>2

\* Bounds grow with the ids given out.
LEMMA BoundsGrow ==
  ASSUME NEW r, NEW c \in Nat, NEW b \in Nat, NEW c2 \in Nat, NEW b2 \in Nat,
         c <= c2, b <= b2, Bounded(r, c, b)
  PROVE  Bounded(r, c2, b2)
BY DEF Bounded

LEMMA TypeInvInit == Init => TypeInv
<1> SUFFICES ASSUME Init PROVE TypeInv
  OBVIOUS
<1>1. tab \in [Tabs -> TabRecords]
  BY NoTabType DEF Init
<1>2. TabsBounded
  BY WebAssumption DEF Init, TabsBounded, Bounded, NoTab
<1>3. TypeOK
  BY <1>1, WebAssumption DEF Init, TypeOK
<1> QED BY <1>2, <1>3 DEF TypeInv, Init

\* A handler that only goes on to another step or answer.
LEMMA TabStep ==
  ASSUME TypeInv, NEW t \in Tabs, NEW r \in TabRecords,
         tab' = [tab EXCEPT ![t] = r], Bounded(r, created', began'),
         created' \in 0 .. MaxSessions, began' \in 0 .. MaxLogins,
         created <= created', began <= began'
  PROVE  tab' \in [Tabs -> TabRecords] /\ TabsBounded'
<1>1. tab' \in [Tabs -> TabRecords]
  BY DEF TypeInv, TypeOK
<1>2. ASSUME NEW u \in Tabs PROVE Bounded(tab'[u], created', began')
  <2>1. CASE u = t
    BY <2>1 DEF TypeInv, TypeOK
  <2>2. CASE u # t
    <3>1. tab'[u] = tab[u]
      BY <2>2 DEF TypeInv, TypeOK
    <3>2. Bounded(tab[u], created, began)
      BY DEF TypeInv, TabsBounded
    <3>3. created \in Nat /\ created' \in Nat /\ began \in Nat /\ began' \in Nat
      BY WebAssumption DEF TypeInv, TypeOK
    <3> QED BY <3>1, <3>2, <3>3, BoundsGrow
  <2> QED BY <2>1, <2>2
<1> QED BY <1>1, <1>2 DEF TabsBounded

\* The same where nothing else changes.
LEMMA QuietTab ==
  ASSUME TypeInv, NEW t \in Tabs, NEW r \in TabRecords,
         tab' = [tab EXCEPT ![t] = r], Bounded(r, created, began),
         UNCHANGED <<clock, reaper, jar, disk>>, UNCHANGED authVars
  PROVE  TypeInv'
<1>1. created' = created /\ began' = began
  BY DEF authVars
<1>2. /\ created' \in 0 .. MaxSessions /\ began' \in 0 .. MaxLogins
      /\ created <= created' /\ began <= began'
  BY <1>1, WebAssumption DEF TypeInv, TypeOK
<1>3. Bounded(r, created', began')
  BY <1>1
<1>4. tab' \in [Tabs -> TabRecords] /\ TabsBounded'
  BY <1>2, <1>3, TabStep
<1>5. TypeOK'
  BY <1>4 DEF TypeInv, TypeOK, authVars
<1> QED BY <1>2, <1>4, <1>5 DEF TypeInv

LEMMA AnswerStep ==
  ASSUME TypeInv, NEW t \in Tabs, NEW ok \in BOOLEAN, tab[t].kind # "login", Answer(t, ok),
         UNCHANGED <<clock, reaper, jar, disk>>, UNCHANGED authVars
  PROVE  TypeInv'
<1> DEFINE r == Answered(tab[t], ok)
<1>1. tab' = [tab EXCEPT ![t] = r]
  BY DEF Answer
<1>2. tab[t] \in TabRecords /\ Bounded(tab[t], created, began) /\ created \in Nat /\ began \in Nat
  BY WebAssumption DEF TypeInv, TypeOK, TabsBounded
<1>3. r \in TabRecords /\ Bounded(r, created, began)
  BY <1>2, AnsweredType
<1> HIDE DEF r
<1> QED BY <1>1, <1>3, QuietTab

LEMMA ProceedStep ==
  ASSUME TypeInv, NEW t \in Tabs, NEW to \in {"check", "serve", "copy"},
         tab[t].kind # "login", Proceed(t, to),
         UNCHANGED <<clock, reaper, jar, disk>>, UNCHANGED authVars
  PROVE  TypeInv'
<1> DEFINE r == [tab[t] EXCEPT !.pc = to]
<1>1. tab[t] \in TabRecords /\ Bounded(tab[t], created, began)
  BY DEF TypeInv, TypeOK, TabsBounded
<1>2. tab' = [tab EXCEPT ![t] = r]
  BY DEF Proceed
<1>3. r \in TabRecords
  BY <1>1 DEF TabRecords, Steps
<1>4. Bounded(r, created, began)
  BY <1>1 DEF TabRecords, Bounded
<1> HIDE DEF r
<1> QED BY <1>2, <1>3, <1>4, QuietTab

LEMMA TypeInvSend ==
  ASSUME TypeInv, NEW t \in Tabs, Send(t)
  PROVE  TypeInv'
<1>1. PICK kind \in given.kinds, S \in SUBSET Files :
        /\ kind = "callback" => tab[t].flow # 0
        /\ tab' = [tab EXCEPT ![t] =
             [NoTab EXCEPT !.pc = "sent", !.kind = kind, !.files = S, !.flow = @ + tab[t].flow,
                           !.session = jar[BrowserOf[t]].session,
                           !.state = jar[BrowserOf[t]].state,
                           !.over = LET i == jar[BrowserOf[t]].session
                                    IN  i \in loggedOut \/ ~Live(i)]]
  BY DEF Send
<1> DEFINE o == LET i == jar[BrowserOf[t]].session IN  i \in loggedOut \/ ~Live(i)
           r == [NoTab EXCEPT !.pc = "sent", !.kind = kind, !.files = S, !.flow = @ + tab[t].flow,
                              !.session = jar[BrowserOf[t]].session,
                              !.state = jar[BrowserOf[t]].state, !.over = o]
<1>2. tab' = [tab EXCEPT ![t] = r]
  BY <1>1
<1>3. /\ kind \in Kinds /\ o \in BOOLEAN
      /\ jar[BrowserOf[t]].session \in 0 .. created /\ jar[BrowserOf[t]].state \in 0 .. began
      /\ tab[t].flow \in 0 .. began
      /\ created \in 0 .. MaxSessions /\ began \in 0 .. MaxLogins
  BY WebAssumption DEF TypeInv, TypeOK, TabsBounded, Bounded
<1> HIDE DEF o
<1>4. r.flow = tab[t].flow /\ r.flow \in 0 .. began
  BY <1>3 DEF NoTab
<1>5. NoTab \in TabRecords
  BY NoTabType
<1>6. /\ jar[BrowserOf[t]].session \in 0 .. MaxSessions
      /\ jar[BrowserOf[t]].state \in 0 .. MaxLogins /\ NoTab.flow + tab[t].flow \in 0 .. MaxLogins
  BY <1>3, WebAssumption DEF NoTab
<1>7. r \in TabRecords
  BY <1>3, <1>5, <1>6 DEF TabRecords, Steps
<1>8. r.setSession = Keep /\ r.setState = Keep /\ r.pc = "sent" /\ r.kind = kind
      /\ r.session = jar[BrowserOf[t]].session /\ r.state = jar[BrowserOf[t]].state
  BY DEF NoTab
<1> HIDE DEF r
<1>9. Bounded(r, created, began)
  BY <1>1, <1>3, <1>4, <1>8, WebAssumption DEF Bounded
<1> QED BY <1>2, <1>7, <1>9, QuietTab DEF Send

\* Actions that leave the tabs alone.
LEMMA OtherStep ==
  ASSUME TypeInv, UNCHANGED <<tab, created, began>>, TypeOK'
  PROVE  TypeInv'
BY DEF TypeInv, TabsBounded

LEMMA TypeInvArrive ==
  ASSUME TypeInv, NEW t \in Tabs, Arrive(t)
  PROVE  TypeInv'
<1> DEFINE b == BrowserOf[t]
           Value(old, new) == IF new = Keep THEN old ELSE new
           c == [session |-> Value(jar[b].session, tab[t].setSession),
                 state |-> Value(jar[b].state, tab[t].setState)]
           fl == IF tab[t].kind = "login" THEN tab[t].setState ELSE tab[t].flow
           r == [NoTab EXCEPT !.flow = fl]
<1>1. jar' = [jar EXCEPT ![b] = c] /\ tab' = [tab EXCEPT ![t] = r]
  BY DEF Arrive
<1>2. /\ tab[t] \in TabRecords /\ Bounded(tab[t], created, began) /\ At(t, "answer")
      /\ created \in 0 .. MaxSessions /\ began \in 0 .. MaxLogins
      /\ b \in Browsers /\ jar[b].session \in 0 .. created /\ jar[b].state \in 0 .. began
  BY WebAssumption DEF TypeInv, TypeOK, TabsBounded, Arrive
<1>3. fl \in 0 .. began /\ fl \in 0 .. MaxLogins
  BY <1>2, WebAssumption DEF Bounded, At
<1>4. c \in [session : 0 .. created, state : 0 .. began]
  BY <1>2, WebAssumption DEF Bounded
<1> HIDE DEF c, fl
<1>5. r \in TabRecords
  BY <1>3, NoTabType DEF TabRecords
<1>6. Bounded(r, created, began)
  BY <1>2, <1>3, WebAssumption DEF Bounded, NoTab
<1> HIDE DEF r
<1>7. UNCHANGED <<given, clock, sessions, created, began, used, reaper, disk, loggedOut>>
  BY DEF Arrive, authVars
<1>8. jar' \in [Browsers -> [session : 0 .. created, state : 0 .. began]]
  BY <1>1, <1>4 DEF TypeInv, TypeOK
<1>9. created <= created' /\ began <= began'
  BY <1>2, <1>7, WebAssumption
<1>10. tab' \in [Tabs -> TabRecords] /\ TabsBounded'
  BY <1>1, <1>2, <1>5, <1>6, <1>7, <1>9, TabStep
<1>11. TypeOK'
  BY <1>7, <1>8, <1>10 DEF TypeInv, TypeOK
<1> QED BY <1>2, <1>7, <1>10, <1>11 DEF TypeInv

LEMMA TypeInvAbandon ==
  ASSUME TypeInv, NEW t \in Tabs, Abandon(t)
  PROVE  TypeInv'
<1>1. Bounded(NoTab, created, began)
  BY WebAssumption DEF TypeInv, TypeOK, Bounded, NoTab
<1> QED BY <1>1, NoTabType, QuietTab DEF Abandon

LEMMA TypeInvStateExpires ==
  ASSUME TypeInv, NEW b \in Browsers, StateExpires(b)
  PROVE  TypeInv'
<1>1. 0 \in 0 .. began
  BY WebAssumption DEF TypeInv, TypeOK
<1>2. jar' \in [Browsers -> [session : 0 .. created, state : 0 .. began]]
  BY <1>1 DEF TypeInv, TypeOK, StateExpires
<1>3. TypeOK'
  BY <1>2 DEF TypeInv, TypeOK, StateExpires, authVars
<1> QED BY <1>3, OtherStep DEF StateExpires, authVars

LEMMA TypeInvLookUp ==
  ASSUME TypeInv, NEW t \in Tabs, LookUp(t)
  PROVE  TypeInv'
<1>1. tab[t].kind # "login"
  BY DEF LookUp
<1>2. CASE tab[t].session \in DOMAIN sessions
  <2> DEFINE e == sessions[tab[t].session]
             r == [tab[t] EXCEPT !.pc = "check", !.expiry = e]
  <2>1. e \in Nat
    BY <1>2, WebAssumption DEF TypeInv, TypeOK
  <2>2. tab' = [tab EXCEPT ![t] = r]
    BY <1>2 DEF LookUp, TypeInv, TypeOK
  <2>3. tab[t] \in TabRecords /\ Bounded(tab[t], created, began)
    BY DEF TypeInv, TypeOK, TabsBounded
  <2> HIDE DEF e
  <2>4. r \in TabRecords
    BY <2>1, <2>3 DEF TabRecords, Steps
  <2>5. Bounded(r, created, began)
    BY <1>1, <2>3 DEF Bounded, TabRecords
  <2> HIDE DEF r
  <2> QED BY <2>2, <2>4, <2>5, QuietTab DEF LookUp
<1>3. CASE tab[t].session \notin DOMAIN sessions
  BY <1>1, <1>3, AnswerStep DEF LookUp
<1> QED BY <1>2, <1>3

\* A request that has been looked up is none of login.
LEMMA KindsAtWork ==
  ASSUME TypeInv, NEW t \in Tabs, tab[t].pc \notin {"sent", "answer"}
  PROVE  tab[t].kind # "login"
BY DEF TypeInv, TabsBounded, Bounded

LEMMA TypeInvServe ==
  ASSUME TypeInv, NEW t \in Tabs,
         Admit(t) \/ ServePage(t) \/ AcceptUpload(t) \/ FinishUpload(t)
  PROVE  TypeInv'
<1>1. tab[t].kind # "login"
  BY KindsAtWork DEF Admit, ServePage, AcceptUpload, FinishUpload, At
<1>2. CASE Admit(t)
  BY <1>1, <1>2, AnswerStep, ProceedStep DEF Admit
<1>3. CASE ServePage(t)
  BY <1>1, <1>3, AnswerStep DEF ServePage
<1>4. CASE AcceptUpload(t)
  BY <1>1, <1>4, AnswerStep, ProceedStep DEF AcceptUpload
<1>5. CASE FinishUpload(t)
  BY <1>1, <1>5, AnswerStep DEF FinishUpload
<1> QED BY <1>2, <1>3, <1>4, <1>5

\* An upload changes nothing of its request but the files it has open, has saved
\* or shares.
SameRequest(r, q) ==
  /\ r.pc = q.pc /\ r.kind = q.kind /\ r.session = q.session /\ r.state = q.state
  /\ r.flow = q.flow /\ r.setSession = q.setSession /\ r.setState = q.setState
  /\ r.files = q.files /\ r.over = q.over /\ r.expiry = q.expiry /\ r.ok = q.ok

LEMMA OpenType ==
  ASSUME NEW r \in TabRecords, NEW f \in Files
  PROVE  /\ [r EXCEPT !.shared = @ \cup {f}] \in TabRecords
         /\ SameRequest([r EXCEPT !.shared = @ \cup {f}], r)
         /\ [r EXCEPT !.saved = @ \cup {f}] \in TabRecords
         /\ SameRequest([r EXCEPT !.saved = @ \cup {f}], r)
         /\ \A S \in SUBSET Files :
              LET q == [r EXCEPT !.open = @ \cup {f}, !.shared = S]
              IN  q \in TabRecords /\ SameRequest(q, r)
BY DEF TabRecords, SameRequest

LEMMA SameRequestBounded ==
  ASSUME NEW r, NEW q, NEW c, NEW b, SameRequest(r, q), Bounded(q, c, b)
  PROVE  Bounded(r, c, b)
BY DEF SameRequest, Bounded

\* The tabs after t has opened f.
Opened(t, f) ==
  [u \in Tabs |->
     IF u = t THEN [tab[t] EXCEPT !.open = @ \cup {f},
                                  !.shared = IF Filling(t, f) = {} THEN @ ELSE @ \cup {f}]
     ELSE IF u \in Holding(t, f) THEN [tab[u] EXCEPT !.shared = @ \cup {f}]
     ELSE tab[u]]

LEMMA OpenedType ==
  ASSUME TypeInv, NEW t \in Tabs, NEW f \in Files, NEW u \in Tabs
  PROVE  Opened(t, f)[u] \in TabRecords /\ SameRequest(Opened(t, f)[u], tab[u])
<1>1. tab[u] \in TabRecords /\ tab[t] \in TabRecords
  BY DEF TypeInv, TypeOK
<1>2. CASE u = t
  <2> DEFINE S == IF Filling(t, f) = {} THEN tab[t].shared ELSE tab[t].shared \cup {f}
  <2>1. Opened(t, f)[u] = [tab[t] EXCEPT !.open = @ \cup {f}, !.shared = S]
    BY <1>2 DEF Opened
  <2>2. S \in SUBSET Files
    BY <1>1 DEF TabRecords
  <2> DEFINE q == [tab[t] EXCEPT !.open = @ \cup {f}, !.shared = S]
  <2> HIDE DEF S
  <2>3. q \in TabRecords /\ SameRequest(q, tab[t])
    BY <1>1, <2>2, OpenType
  <2> QED BY <1>2, <2>1, <2>3
<1>3. CASE u # t /\ u \in Holding(t, f)
  <2>1. Opened(t, f)[u] = [tab[u] EXCEPT !.shared = @ \cup {f}]
    BY <1>3 DEF Opened
  <2> QED BY <1>1, <2>1, OpenType
<1>4. CASE u # t /\ u \notin Holding(t, f)
  <2>1. Opened(t, f)[u] = tab[u]
    BY <1>4 DEF Opened
  <2> QED BY <1>1, <2>1 DEF SameRequest
<1> QED BY <1>2, <1>3, <1>4

LEMMA TypeInvCreateFile ==
  ASSUME TypeInv, NEW t \in Tabs, CreateFile(t)
  PROVE  TypeInv'
<1>1. tab[t].kind # "login" /\ tab[t] \in TabRecords
  BY KindsAtWork DEF CreateFile, At, TypeInv, TypeOK
<1>2. PICK f \in tab[t].files \ tab[t].open :
        \/ disk' = [disk EXCEPT ![f] = "part"] /\ tab' = Opened(t, f)
        \/ Answer(t, FALSE) /\ UNCHANGED disk
  BY DEF CreateFile, Opened
<1>3. f \in Files
  BY <1>1 DEF TabRecords
<1>4. CASE disk' = [disk EXCEPT ![f] = "part"] /\ tab' = Opened(t, f)
  <2>1. \A u \in Tabs : tab'[u] \in TabRecords /\ SameRequest(tab'[u], tab[u])
    BY <1>3, <1>4, OpenedType
  <2>2. tab' \in [Tabs -> TabRecords]
    <3>1. tab' = [u \in Tabs |-> tab'[u]]
      BY <1>4 DEF Opened
    <3> QED BY <2>1, <3>1
  <2>3. \A u \in Tabs : Bounded(tab'[u], created, began)
    BY <2>1, SameRequestBounded DEF TypeInv, TabsBounded
  <2>4. UNCHANGED <<given, clock, sessions, created, began, used, reaper, jar, loggedOut>>
    BY DEF CreateFile, authVars
  <2>5. disk' \in [Files -> {"none", "part", "whole", "mixed"}]
    BY <1>4 DEF TypeInv, TypeOK
  <2>6. TypeOK'
    BY <2>2, <2>4, <2>5 DEF TypeInv, TypeOK
  <2> QED BY <2>3, <2>4, <2>6 DEF TypeInv, TabsBounded
<1>5. CASE Answer(t, FALSE) /\ UNCHANGED disk
  BY <1>1, <1>5, AnswerStep DEF CreateFile
<1> QED BY <1>2, <1>4, <1>5

LEMMA TypeInvCopyFile ==
  ASSUME TypeInv, NEW t \in Tabs, CopyFile(t)
  PROVE  TypeInv'
<1>1. tab[t].kind # "login" /\ tab[t] \in TabRecords
  BY KindsAtWork DEF CopyFile, At, TypeInv, TypeOK
<1>2. PICK f \in tab[t].open \ tab[t].saved, how \in {"part", "whole"} :
        /\ disk' = [disk EXCEPT ![f] = Filled(t, f, how)]
        /\ IF how = "whole" THEN tab' = [tab EXCEPT ![t].saved = @ \cup {f}] ELSE Answer(t, FALSE)
  BY DEF CopyFile
<1>3. f \in Files
  BY <1>1 DEF TabRecords
<1> DEFINE r == IF how = "whole" THEN [tab[t] EXCEPT !.saved = @ \cup {f}]
                                 ELSE Answered(tab[t], FALSE)
<1>4. tab' = [tab EXCEPT ![t] = r]
  BY <1>1, <1>2 DEF Answer
<1>5. Bounded(tab[t], created, began) /\ created \in Nat /\ began \in Nat
  BY WebAssumption DEF TypeInv, TypeOK, TabsBounded
<1>6. r \in TabRecords /\ Bounded(r, created, began)
  BY <1>1, <1>3, <1>5, OpenType, SameRequestBounded, AnsweredType
<1> HIDE DEF r
<1>7. UNCHANGED <<given, clock, sessions, created, began, used, reaper, jar, loggedOut>>
  BY DEF CopyFile, authVars
<1>8. created <= created' /\ began <= began'
  BY <1>5, <1>7
<1>9. tab' \in [Tabs -> TabRecords] /\ TabsBounded'
  BY <1>4, <1>6, <1>7, <1>8, TabStep DEF TypeInv, TypeOK
<1>10. disk' \in [Files -> {"none", "part", "whole", "mixed"}]
  BY <1>2, <1>3 DEF TypeInv, TypeOK, Filled
<1>11. TypeOK'
  BY <1>7, <1>9, <1>10 DEF TypeInv, TypeOK
<1> QED BY <1>7, <1>9, <1>11 DEF TypeInv

LEMMA TypeInvBeginLogin ==
  ASSUME TypeInv, NEW t \in Tabs, BeginLogin(t)
  PROVE  TypeInv'
<1> DEFINE r == [Answered(tab[t], TRUE) EXCEPT !.setState = began + 1]
<1>1. tab' = [tab EXCEPT ![t] = r]
  BY DEF BeginLogin
<1>2. /\ tab[t] \in TabRecords /\ Bounded(tab[t], created, began)
      /\ created \in 0 .. MaxSessions /\ began \in 0 .. MaxLogins /\ created' = created
      /\ began' = began + 1 /\ began' \in 0 .. MaxLogins /\ began <= began'
      /\ tab[t].kind = "login"
  BY WebAssumption DEF TypeInv, TypeOK, TabsBounded, BeginLogin
<1>3. /\ 0 \in 0 .. MaxSessions /\ 0 \in 0 .. MaxLogins /\ 0 \in Nat
      /\ began + 1 \in Keep .. MaxLogins
      /\ created' \in 0 .. MaxSessions /\ created <= created'
  BY <1>2, WebAssumption
<1>4. r \in TabRecords
  BY <1>2, <1>3 DEF Answered, TabRecords, Steps
<1>5. /\ r.pc = "answer" /\ r.kind = "login" /\ r.session = 0 /\ r.state = 0
      /\ r.flow = tab[t].flow /\ r.setSession = tab[t].setSession /\ r.setState = began'
  BY <1>2 DEF Answered, TabRecords
<1> HIDE DEF r
<1>6. Bounded(r, created', began')
  BY <1>2, <1>5, WebAssumption DEF Bounded
<1>7. tab' \in [Tabs -> TabRecords] /\ TabsBounded'
  BY <1>1, <1>2, <1>3, <1>4, <1>6, TabStep
<1>8. /\ used \subseteq 1 .. began' /\ jar \in [Browsers -> [session : 0 .. created, state : 0 .. began']]
  BY <1>2, WebAssumption DEF TypeInv, TypeOK
<1>9. UNCHANGED <<given, clock, sessions, created, used, reaper, jar, disk, loggedOut>>
  BY DEF BeginLogin
<1>10. TypeOK'
  BY <1>2, <1>7, <1>8, <1>9 DEF TypeInv, TypeOK
<1> QED BY <1>2, <1>7, <1>10 DEF TypeInv

LEMMA TypeInvCheckState ==
  ASSUME TypeInv, NEW t \in Tabs, CheckState(t)
  PROVE  TypeInv'
<1>1. tab[t].kind = "callback"
  BY DEF CheckState
<1>2. CASE tab[t].state = tab[t].flow
  <2> DEFINE r == [tab[t] EXCEPT !.pc = "exchange", !.setState = 0]
  <2>1. tab' = [tab EXCEPT ![t] = r]
    BY <1>2 DEF CheckState, TypeInv, TypeOK
  <2>2. /\ tab[t] \in TabRecords /\ Bounded(tab[t], created, began)
        /\ 0 \in Keep .. MaxLogins /\ 0 \in Keep .. began
    BY WebAssumption DEF TypeInv, TypeOK, TabsBounded
  <2>3. r \in TabRecords
    BY <2>2 DEF TabRecords, Steps
  <2>4. Bounded(r, created, began)
    BY <1>1, <2>2 DEF Bounded, TabRecords
  <2> HIDE DEF r
  <2> QED BY <2>1, <2>3, <2>4, QuietTab DEF CheckState
<1>3. CASE tab[t].state # tab[t].flow
  BY <1>1, <1>3, AnswerStep DEF CheckState
<1> QED BY <1>2, <1>3

LEMMA TypeInvExchange ==
  ASSUME TypeInv, NEW t \in Tabs, Exchange(t)
  PROVE  TypeInv'
<1>1. /\ tab[t].kind = "callback" /\ tab[t].flow \in 1 .. began /\ tab[t] \in TabRecords
      /\ Bounded(tab[t], created, began)
      /\ created \in 0 .. MaxSessions /\ began \in 0 .. MaxLogins
  BY WebAssumption DEF TypeInv, TypeOK, TabsBounded, Bounded, Exchange, At
<1>2. CASE used' = used \cup {tab[t].flow} /\ Proceed(t, "create")
  <2> DEFINE r == [tab[t] EXCEPT !.pc = "create"]
  <2>1. tab' = [tab EXCEPT ![t] = r]
    BY <1>2 DEF Proceed
  <2>2. r \in TabRecords
    BY <1>1 DEF TabRecords, Steps
  <2>3. Bounded(r, created, began)
    BY <1>1 DEF Bounded, TabRecords
  <2> HIDE DEF r
  <2>4. UNCHANGED <<given, clock, sessions, created, began, reaper, jar, disk, loggedOut>>
    BY DEF Exchange
  <2>5. created <= created' /\ began <= began'
    BY <1>1, <2>4, WebAssumption
  <2>6. tab' \in [Tabs -> TabRecords] /\ TabsBounded'
    BY <1>1, <2>1, <2>2, <2>3, <2>4, <2>5, TabStep
  <2>7. TypeOK'
    BY <1>1, <1>2, <2>4, <2>6 DEF TypeInv, TypeOK
  <2> QED BY <1>1, <2>4, <2>6, <2>7 DEF TypeInv
<1>3. CASE Answer(t, FALSE) /\ UNCHANGED used
  <2>1. UNCHANGED <<clock, reaper, jar, disk>> /\ UNCHANGED authVars
    BY <1>3 DEF Exchange, authVars
  <2> QED BY <1>1, <1>3, <2>1, AnswerStep
<1> QED BY <1>2, <1>3 DEF Exchange

LEMMA TypeInvCreateSession ==
  ASSUME TypeInv, NEW t \in Tabs, CreateSession(t)
  PROVE  TypeInv'
<1> DEFINE r == [Answered(tab[t], TRUE) EXCEPT !.setSession = created']
<1>1. tab' = [tab EXCEPT ![t] = r]
  BY DEF CreateSession
<1>2. /\ tab[t] \in TabRecords /\ Bounded(tab[t], created, began) /\ tab[t].kind # "login"
      /\ created \in 0 .. MaxSessions /\ began \in 0 .. MaxLogins /\ began' = began
      /\ created' = created + 1 /\ created' \in 0 .. MaxSessions /\ created <= created'
  BY WebAssumption DEF TypeInv, TypeOK, TabsBounded, CreateSession, Bounded, At
<1>3. /\ 0 \in 0 .. MaxSessions /\ 0 \in 0 .. MaxLogins /\ 0 \in Nat
      /\ created' \in Keep .. MaxSessions /\ began <= began'
  BY <1>2, WebAssumption
<1>4. r \in TabRecords
  BY <1>2, <1>3 DEF Answered, TabRecords, Steps
<1>5. /\ r.pc = "answer" /\ r.kind = tab[t].kind /\ r.session = 0 /\ r.state = 0
      /\ r.flow = tab[t].flow /\ r.setSession = created' /\ r.setState = tab[t].setState
  BY <1>2 DEF Answered, TabRecords
<1> HIDE DEF r
<1>6. Bounded(r, created', began')
  BY <1>2, <1>5, WebAssumption DEF Bounded
<1>7. tab' \in [Tabs -> TabRecords] /\ TabsBounded'
  BY <1>1, <1>2, <1>3, <1>4, <1>6, TabStep
<1>8. /\ sessions' = [i \in DOMAIN sessions \cup {created'} |->
                        IF i = created' THEN clock + TTL ELSE sessions[i]]
      /\ clock + TTL \in TTL .. (MaxTime + TTL)
  BY WebAssumption DEF CreateSession, TypeInv, TypeOK
<1>9. /\ DOMAIN sessions' \subseteq 1 .. created'
      /\ \A i \in DOMAIN sessions' : sessions'[i] \in TTL .. (MaxTime + TTL)
  BY <1>2, <1>8, WebAssumption DEF TypeInv, TypeOK
<1>10. /\ jar \in [Browsers -> [session : 0 .. created', state : 0 .. began]]
       /\ loggedOut \subseteq 1 .. created'
  BY <1>2, WebAssumption DEF TypeInv, TypeOK
<1>11. UNCHANGED <<given, clock, began, used, reaper, jar, disk, loggedOut>>
  BY DEF CreateSession
<1>12. TypeOK'
  BY <1>2, <1>7, <1>9, <1>10, <1>11 DEF TypeInv, TypeOK
<1> QED BY <1>2, <1>7, <1>12 DEF TypeInv

LEMMA TypeInvLogout ==
  ASSUME TypeInv, NEW t \in Tabs, Logout(t)
  PROVE  TypeInv'
<1> DEFINE r == [Answered(tab[t], TRUE) EXCEPT !.setSession = 0]
<1>1. tab' = [tab EXCEPT ![t] = r]
  BY DEF Logout
<1>2. /\ tab[t] \in TabRecords /\ Bounded(tab[t], created, began) /\ tab[t].kind = "logout"
      /\ created \in 0 .. MaxSessions /\ began \in 0 .. MaxLogins
      /\ tab[t].session \in 0 .. created
  BY WebAssumption DEF TypeInv, TypeOK, TabsBounded, Logout, Bounded
<1>3. /\ 0 \in 0 .. MaxSessions /\ 0 \in 0 .. MaxLogins /\ 0 \in Nat
      /\ 0 \in Keep .. MaxSessions
  BY WebAssumption
<1>4. r \in TabRecords
  BY <1>2, <1>3 DEF Answered, TabRecords, Steps
<1>5. /\ r.pc = "answer" /\ r.kind = "logout" /\ r.session = 0 /\ r.state = 0
      /\ r.flow = tab[t].flow /\ r.setSession = 0 /\ r.setState = tab[t].setState
  BY <1>2 DEF Answered, TabRecords
<1> HIDE DEF r
<1>6. Bounded(r, created, began)
  BY <1>2, <1>5, WebAssumption DEF Bounded
<1>7. UNCHANGED <<given, clock, created, began, used, reaper, jar, disk>>
  BY DEF Logout
<1>8. created <= created' /\ began <= began'
  BY <1>2, <1>7, WebAssumption
<1>9. tab' \in [Tabs -> TabRecords] /\ TabsBounded'
  BY <1>1, <1>2, <1>4, <1>6, <1>7, <1>8, TabStep
<1>10. /\ DOMAIN sessions' \subseteq DOMAIN sessions
       /\ \A i \in DOMAIN sessions' : sessions'[i] = sessions[i]
  BY DEF Logout, Without
<1>11. loggedOut' \subseteq 1 .. created
  BY <1>2, WebAssumption DEF Logout, TypeInv, TypeOK
<1>12. TypeOK'
  BY <1>7, <1>9, <1>10, <1>11 DEF TypeInv, TypeOK
<1> QED BY <1>2, <1>7, <1>9, <1>12 DEF TypeInv

LEMMA TypeInvReaper ==
  ASSUME TypeInv, Wake \/ Reap \/ Tick
  PROVE  TypeInv'
<1>1. CASE Wake
  BY <1>1, OtherStep DEF Wake, TypeInv, TypeOK, authVars
<1>2. CASE Reap
  <2>1. /\ DOMAIN sessions' \subseteq DOMAIN sessions
        /\ \A i \in DOMAIN sessions' : sessions'[i] = sessions[i]
    BY <1>2 DEF Reap, Without
  <2>2. TypeOK'
    BY <1>2, <2>1 DEF Reap, TypeInv, TypeOK
  <2> QED BY <1>2, <2>2, OtherStep DEF Reap
<1>3. CASE Tick
  <2>1. clock' \in 0 .. MaxTime
    BY <1>3, WebAssumption DEF Tick, TypeInv, TypeOK
  <2>2. TypeOK'
    BY <1>3, <2>1 DEF Tick, TypeInv, TypeOK, authVars
  <2> QED BY <1>3, <2>2, OtherStep DEF Tick, authVars
<1> QED BY <1>1, <1>2, <1>3

LEMMA TypeInvRestart ==
  ASSUME TypeInv, Restart
  PROVE  TypeInv'
<1>1. \A t \in Tabs : tab[t].flow \in 0 .. began /\ tab[t].flow \in 0 .. MaxLogins
  BY WebAssumption DEF TypeInv, TypeOK, TabsBounded, Bounded
<1>2. \A t \in Tabs : tab'[t] = [NoTab EXCEPT !.flow = tab[t].flow]
  BY DEF Restart
<1>3. \A fl \in 0 .. MaxLogins : [NoTab EXCEPT !.flow = fl] \in TabRecords
  BY NoTabType DEF TabRecords
<1>4. \A fl \in 0 .. began : Bounded([NoTab EXCEPT !.flow = fl], created, began)
  BY WebAssumption DEF Bounded, NoTab, TypeInv, TypeOK
<1>5. tab' \in [Tabs -> TabRecords]
  <2>1. tab' = [t \in Tabs |-> tab'[t]]
    BY DEF Restart
  <2> QED BY <1>1, <1>2, <1>3, <2>1
<1>6. DOMAIN sessions' = {}
  BY DEF Restart
<1>7. UNCHANGED <<given, clock, created, began, used, jar, disk, loggedOut>> /\ reaper' = Waiting
  BY DEF Restart
<1>8. TypeOK'
  BY <1>5, <1>6, <1>7 DEF TypeInv, TypeOK
<1>9. TabsBounded'
  BY <1>1, <1>2, <1>4, <1>7 DEF TabsBounded
<1> QED BY <1>7, <1>8, <1>9 DEF TypeInv

LEMMA TypeInvNext == TypeInv /\ [Next]_vars => TypeInv'
<1> SUFFICES ASSUME TypeInv, [Next]_vars PROVE TypeInv'
  OBVIOUS
<1>1. ASSUME NEW t \in Tabs, Handle(t) PROVE TypeInv'
  BY <1>1, TypeInvLookUp, TypeInvServe, TypeInvCreateFile, TypeInvCopyFile, TypeInvBeginLogin,
     TypeInvCheckState, TypeInvExchange, TypeInvCreateSession, TypeInvLogout DEF Handle
<1>2. ASSUME NEW t \in Tabs, Send(t) \/ Arrive(t) \/ Abandon(t) PROVE TypeInv'
  BY <1>2, TypeInvSend, TypeInvArrive, TypeInvAbandon
<1>3. ASSUME NEW b \in Browsers, StateExpires(b) PROVE TypeInv'
  BY <1>3, TypeInvStateExpires
<1>4. CASE UNCHANGED vars
  <2>1. TypeOK'
    BY <1>4 DEF vars, TypeInv, TypeOK
  <2> QED BY <1>4, <2>1, OtherStep DEF vars
<1> QED BY <1>1, <1>2, <1>3, <1>4, TypeInvReaper, TypeInvRestart DEF Next

\* Every variable of the web UI keeps its type.
THEOREM WebTypeCorrect == Spec => []TypeOK
<1>1. Spec => []TypeInv
  BY TypeInvInit, TypeInvNext, PTL DEF Spec
<1>2. TypeInv => TypeOK
  BY DEF TypeInv
<1> QED BY <1>1, <1>2, PTL

(***************************************************************************)
(* The session map.  The time the reaper has read is not ahead of the      *)
(* clock, so what it removes has expired.                                  *)
(***************************************************************************)
ReaperBehind == reaper <= clock

LEMMA ReaperBehindNext == TypeInv /\ ReaperBehind /\ [Next]_vars => ReaperBehind'
<1> SUFFICES ASSUME TypeInv, ReaperBehind, [Next]_vars PROVE ReaperBehind'
  OBVIOUS
<1> USE DEF TypeInv, TypeOK, ReaperBehind
<1>1. clock \in Nat /\ reaper \in {Waiting} \cup Nat
  BY WebAssumption
<1>2. ASSUME NEW t \in Tabs, Send(t) \/ Handle(t) \/ Arrive(t) \/ Abandon(t)
      PROVE  clock' = clock /\ reaper' = reaper
  BY <1>2 DEF Send, Handle, Arrive, Abandon, LookUp, Admit, ServePage, AcceptUpload, CreateFile,
     CopyFile, FinishUpload, BeginLogin, CheckState, Exchange, CreateSession, Logout
<1>3. ASSUME NEW b \in Browsers, StateExpires(b) PROVE clock' = clock /\ reaper' = reaper
  BY <1>3 DEF StateExpires
<1>4. CASE Wake \/ Reap \/ Tick \/ Restart
  BY <1>1, <1>4 DEF Wake, Reap, Tick, Restart
<1>5. CASE UNCHANGED vars
  BY <1>5 DEF vars
<1> QED BY <1>1, <1>2, <1>3, <1>4, <1>5 DEF Next

LEMMA SparesLiveNext ==
  ASSUME TypeInv, ReaperBehind, [Next]_vars, ~Restart,
         NEW i \in DOMAIN sessions \ DOMAIN sessions'
  PROVE  clock > sessions[i] \/ i \in loggedOut'
<1>1. ASSUME NEW t \in Tabs, Logout(t) PROVE i \in loggedOut'
  <2>1. i = tab[t].session
    BY <1>1 DEF Logout, Without
  <2>2. i # 0
    BY WebAssumption DEF TypeInv, TypeOK
  <2> QED BY <1>1, <2>1, <2>2 DEF Logout
<1>2. ASSUME NEW t \in Tabs, Send(t) \/ Handle(t) \/ Arrive(t) \/ Abandon(t), ~Logout(t)
      PROVE  DOMAIN sessions \subseteq DOMAIN sessions'
  BY <1>2 DEF Send, Handle, Arrive, Abandon, LookUp, Admit, ServePage, AcceptUpload, CreateFile,
     CopyFile, FinishUpload, BeginLogin, CheckState, Exchange, CreateSession, authVars
<1>3. ASSUME NEW b \in Browsers, StateExpires(b) PROVE sessions' = sessions
  BY <1>3 DEF StateExpires, authVars
<1>4. CASE Reap
  <2>1. reaper > sessions[i]
    BY <1>4 DEF Reap, Without, Expired
  <2>2. sessions[i] \in Nat /\ reaper \in Int /\ clock \in Int
    BY WebAssumption DEF TypeInv, TypeOK
  <2> QED BY <2>1, <2>2 DEF ReaperBehind
<1>5. CASE Wake \/ Tick \/ UNCHANGED vars
  BY <1>5 DEF Wake, Tick, vars, authVars
<1> QED BY <1>1, <1>2, <1>3, <1>4, <1>5 DEF Next

\* A session leaves the map by its own logout, by a restart, or after it has expired,
\* however the reaper's reading of the time and its turn at the lock lie between the
\* logins and logouts of others.
THEOREM SessionsAreSpared == Spec => SparesLive
<1>1. Init => ReaperBehind
  BY DEF Init, ReaperBehind
<1>2. Spec => [](TypeInv /\ ReaperBehind)
  BY <1>1, TypeInvInit, TypeInvNext, ReaperBehindNext, PTL DEF Spec
<1>3. TypeInv /\ ReaperBehind /\ [Next]_vars =>
        [Restart \/ \A i \in DOMAIN sessions \ DOMAIN sessions' :
                       clock > sessions[i] \/ i \in loggedOut']_vars
  BY SparesLiveNext
<1> QED BY <1>2, <1>3, PTL DEF Spec, SparesLive

(***************************************************************************)
(* No request revives a session that has ended.  An id is given out once,  *)
(* so a session that is gone or has expired stays so, and what a handler   *)
(* has read of it before stays too early a time.                           *)
(***************************************************************************)
\* What holds of a request r for a session that had ended when it was sent.
Ended(r, s, c) ==
  r.over => /\ r.pc = "sent" => ~(r.session \in DOMAIN s /\ c < s[r.session])
            /\ r.pc = "check" => c >= r.expiry
            /\ r.pc \notin {"serve", "copy"}

SessionInv ==
  /\ \A i \in loggedOut : i \notin DOMAIN sessions
  /\ \A t \in Tabs : Ended(tab[t], sessions, clock)

\* The map only loses sessions, or gets one with a new id, and time goes on.
MapStep ==
  /\ clock' \in Nat /\ clock' >= clock
  /\ \A i \in DOMAIN sessions' :
       (i \in DOMAIN sessions /\ sessions'[i] = sessions[i]) \/ i = created + 1

LEMMA MapStepNext == TypeInv /\ [Next]_vars => MapStep
<1> SUFFICES ASSUME TypeInv, [Next]_vars PROVE MapStep
  OBVIOUS
<1>1. clock \in Nat
  BY WebAssumption DEF TypeInv, TypeOK
<1>2. ASSUME NEW t \in Tabs, CreateSession(t) PROVE MapStep
  BY <1>1, <1>2 DEF CreateSession, MapStep
<1>3. ASSUME NEW t \in Tabs, Logout(t) PROVE MapStep
  BY <1>1, <1>3 DEF Logout, Without, MapStep
<1>4. ASSUME NEW t \in Tabs, Send(t) \/ Handle(t) \/ Arrive(t) \/ Abandon(t), ~Logout(t),
             ~CreateSession(t)
      PROVE  MapStep
  <2>1. clock' = clock /\ sessions' = sessions
    BY <1>4 DEF Send, Handle, Arrive, Abandon, LookUp, Admit, ServePage, AcceptUpload, CreateFile,
       CopyFile, FinishUpload, BeginLogin, CheckState, Exchange, authVars
  <2> QED BY <1>1, <2>1 DEF MapStep
<1>5. ASSUME NEW b \in Browsers, StateExpires(b) PROVE MapStep
  BY <1>1, <1>5 DEF StateExpires, authVars, MapStep
<1>6. CASE Wake \/ Tick \/ UNCHANGED vars
  BY <1>1, <1>6 DEF Wake, Tick, vars, authVars, MapStep
<1>7. CASE Reap
  BY <1>1, <1>7 DEF Reap, Without, MapStep
<1>8. CASE Restart
  BY <1>1, <1>8 DEF Restart, MapStep
<1> QED BY <1>2, <1>3, <1>4, <1>5, <1>6, <1>7, <1>8 DEF Next

\* What holds of an ended session holds on, while its request stays as it is.
LEMMA EndedStays ==
  ASSUME TypeInv, MapStep, NEW r, r.session \in 0 .. created, r.expiry \in Nat,
         Ended(r, sessions, clock)
  PROVE  Ended(r, sessions', clock')
<1>1. /\ clock \in Nat /\ clock' \in Nat /\ clock' >= clock /\ created \in Nat
      /\ \A i \in DOMAIN sessions : sessions[i] \in Nat
  BY WebAssumption DEF TypeInv, TypeOK, MapStep
<1>2. r.session \in DOMAIN sessions' =>
        r.session \in DOMAIN sessions /\ sessions'[r.session] = sessions[r.session]
  BY <1>1 DEF MapStep
<1> QED BY <1>1, <1>2 DEF Ended

LEMMA EndedTab ==
  ASSUME TypeInv, SessionInv, MapStep, NEW t \in Tabs, NEW r, tab' = [tab EXCEPT ![t] = r],
         Ended(r, sessions', clock')
  PROVE  \A u \in Tabs : Ended(tab'[u], sessions', clock')
<1> SUFFICES ASSUME NEW u \in Tabs PROVE Ended(tab'[u], sessions', clock')
  OBVIOUS
<1>1. CASE u = t
  BY <1>1 DEF TypeInv, TypeOK
<1>2. CASE u # t
  <2>1. tab'[u] = tab[u]
    BY <1>2 DEF TypeInv, TypeOK
  <2>2. tab[u].session \in 0 .. created /\ tab[u].expiry \in Nat
    BY DEF TypeInv, TypeOK, TabsBounded, Bounded, TabRecords
  <2>3. Ended(tab[u], sessions, clock)
    BY DEF SessionInv
  <2> QED BY <2>1, <2>2, <2>3, EndedStays
<1> QED BY <1>1, <1>2

\* A request without a past, and one that is beyond the steps that use its session.
LEMMA NotEnded ==
  ASSUME NEW r, NEW s, NEW c, ~r.over \/ r.pc \notin {"sent", "check", "serve", "copy"}
  PROVE  Ended(r, s, c)
BY DEF Ended

LEMMA SessionInvAnswer ==
  ASSUME TypeInv, SessionInv, MapStep, NEW t \in Tabs, NEW ok \in BOOLEAN, Answer(t, ok)
  PROVE  \A u \in Tabs : Ended(tab'[u], sessions', clock')
<1>1. Answered(tab[t], ok).pc = "answer"
  BY DEF Answered, TypeInv, TypeOK, TabRecords
<1>2. Ended(Answered(tab[t], ok), sessions', clock')
  BY <1>1, NotEnded
<1> QED BY <1>2, EndedTab DEF Answer

\* A step that only moves its request on, over or not, to pc.
LEMMA SessionInvProceed ==
  ASSUME TypeInv, SessionInv, MapStep, NEW t \in Tabs, NEW to, Proceed(t, to),
         ~tab[t].over \/ to \notin {"sent", "check", "serve", "copy"}
  PROVE  \A u \in Tabs : Ended(tab'[u], sessions', clock')
<1> DEFINE r == [tab[t] EXCEPT !.pc = to]
<1>1. r.pc = to /\ r.over = tab[t].over
  BY DEF TypeInv, TypeOK, TabRecords
<1>2. tab' = [tab EXCEPT ![t] = r]
  BY DEF Proceed
<1> HIDE DEF r
<1>3. Ended(r, sessions', clock')
  BY <1>1, NotEnded
<1> QED BY <1>2, <1>3, EndedTab

LEMMA SessionInvSend ==
  ASSUME TypeInv, SessionInv, MapStep, NEW t \in Tabs, Send(t)
  PROVE  \A u \in Tabs : Ended(tab'[u], sessions', clock')
<1>1. PICK kind \in given.kinds, S \in SUBSET Files :
        tab' = [tab EXCEPT ![t] =
             [NoTab EXCEPT !.pc = "sent", !.kind = kind, !.files = S, !.flow = @ + tab[t].flow,
                           !.session = jar[BrowserOf[t]].session,
                           !.state = jar[BrowserOf[t]].state,
                           !.over = LET i == jar[BrowserOf[t]].session
                                    IN  i \in loggedOut \/ ~Live(i)]]
  BY DEF Send
<1> DEFINE i == jar[BrowserOf[t]].session
           o == i \in loggedOut \/ ~Live(i)
           r == [NoTab EXCEPT !.pc = "sent", !.kind = kind, !.files = S, !.flow = @ + tab[t].flow,
                              !.session = i, !.state = jar[BrowserOf[t]].state, !.over = o]
<1>2. tab' = [tab EXCEPT ![t] = r]
  BY <1>1
<1>3. o => ~Live(i)
  BY DEF SessionInv, Live
<1>4. sessions' = sessions /\ clock' = clock
  BY DEF Send, authVars
<1> HIDE DEF i, o
<1>5. r.pc = "sent" /\ r.session = i /\ r.over = o
  BY DEF NoTab
<1> HIDE DEF r
<1>6. Ended(r, sessions', clock')
  BY <1>3, <1>4, <1>5 DEF Ended, Live
<1> QED BY <1>2, <1>6, EndedTab

LEMMA SessionInvLookUp ==
  ASSUME TypeInv, SessionInv, MapStep, NEW t \in Tabs, LookUp(t)
  PROVE  \A u \in Tabs : Ended(tab'[u], sessions', clock')
<1>1. CASE tab[t].session \in DOMAIN sessions
  <2> DEFINE e == sessions[tab[t].session]
             r == [tab[t] EXCEPT !.pc = "check", !.expiry = e]
  <2>1. tab' = [tab EXCEPT ![t] = r]
    BY <1>1 DEF LookUp, TypeInv, TypeOK
  <2>2. tab[t].over => clock >= e
    <3>1. tab[t].over => ~(clock < e)
      BY <1>1 DEF SessionInv, Ended, LookUp, At
    <3>2. clock \in Nat /\ e \in Nat
      BY <1>1, WebAssumption DEF TypeInv, TypeOK
    <3> QED BY <3>1, <3>2
  <2> HIDE DEF e
  <2>3. r.pc = "check" /\ r.expiry = e /\ r.over = tab[t].over
    BY DEF TypeInv, TypeOK, TabRecords
  <2>4. clock' = clock
    BY DEF LookUp
  <2> HIDE DEF r
  <2>5. Ended(r, sessions', clock')
    BY <2>2, <2>3, <2>4 DEF Ended
  <2> QED BY <2>1, <2>5, EndedTab
<1>2. CASE tab[t].session \notin DOMAIN sessions
  BY <1>2, SessionInvAnswer DEF LookUp
<1> QED BY <1>1, <1>2

LEMMA SessionInvServe ==
  ASSUME TypeInv, SessionInv, MapStep, NEW t \in Tabs,
         Admit(t) \/ ServePage(t) \/ AcceptUpload(t) \/ FinishUpload(t)
  PROVE  \A u \in Tabs : Ended(tab'[u], sessions', clock')
<1>1. CASE Admit(t) /\ clock < tab[t].expiry
  <2>1. clock \in Nat /\ tab[t].expiry \in Nat
    BY WebAssumption DEF TypeInv, TypeOK, TabRecords
  <2>2. ~tab[t].over
    BY <1>1, <2>1 DEF Admit, At, SessionInv, Ended
  <2> QED BY <1>1, <2>2, SessionInvProceed DEF Admit
<1>2. CASE AcceptUpload(t) /\ Proceed(t, "copy")
  <2>1. ~tab[t].over
    BY <1>2 DEF AcceptUpload, At, SessionInv, Ended
  <2> QED BY <1>2, <2>1, SessionInvProceed
<1>3. CASE Answer(t, TRUE) \/ Answer(t, FALSE)
  BY <1>3, SessionInvAnswer
<1> QED BY <1>1, <1>2, <1>3 DEF Admit, ServePage, AcceptUpload, FinishUpload

LEMMA SessionInvUpload ==
  ASSUME TypeInv, SessionInv, MapStep, NEW t \in Tabs, CreateFile(t) \/ CopyFile(t)
  PROVE  \A u \in Tabs : Ended(tab'[u], sessions', clock')
<1>1. CASE Answer(t, FALSE)
  BY <1>1, SessionInvAnswer
<1>2. ASSUME \A u \in Tabs : SameRequest(tab'[u], tab[u])
      PROVE  \A u \in Tabs : Ended(tab'[u], sessions', clock')
  <2> SUFFICES ASSUME NEW u \in Tabs PROVE Ended(tab'[u], sessions', clock')
    OBVIOUS
  <2>1. tab[u].session \in 0 .. created /\ tab[u].expiry \in Nat
    BY DEF TypeInv, TypeOK, TabsBounded, Bounded, TabRecords
  <2>2. Ended(tab[u], sessions', clock')
    BY <2>1, EndedStays DEF SessionInv
  <2> QED BY <1>2, <2>2 DEF SameRequest, Ended
<1>3. tab[t] \in TabRecords
  BY DEF TypeInv, TypeOK
<1>4. ASSUME CreateFile(t), ~Answer(t, FALSE)
      PROVE  \A u \in Tabs : SameRequest(tab'[u], tab[u])
  <2>1. PICK f \in tab[t].files : tab' = Opened(t, f)
    BY <1>4 DEF CreateFile, Opened
  <2>2. f \in Files
    BY <1>3 DEF TabRecords
  <2> QED BY <2>1, <2>2, OpenedType
<1>5. ASSUME CopyFile(t), ~Answer(t, FALSE)
      PROVE  \A u \in Tabs : SameRequest(tab'[u], tab[u])
  <2>1. PICK f \in tab[t].open : tab' = [tab EXCEPT ![t].saved = @ \cup {f}]
    BY <1>5 DEF CopyFile
  <2>2. f \in Files
    BY <1>3 DEF TabRecords
  <2> DEFINE r == [tab[t] EXCEPT !.saved = @ \cup {f}]
  <2>3. tab' = [tab EXCEPT ![t] = r]
    BY <2>1
  <2>4. SameRequest(r, tab[t])
    BY <1>3, <2>2, OpenType
  <2> HIDE DEF r
  <2>5. \A u \in Tabs : tab'[u] = IF u = t THEN r ELSE tab[u]
    BY <2>3 DEF TypeInv, TypeOK
  <2> QED BY <2>4, <2>5 DEF SameRequest
<1> QED BY <1>1, <1>2, <1>4, <1>5

\* The steps of login and logout are beyond the use of a session, or end with a
\* request that has none.
LEMMA SessionInvLogin ==
  ASSUME TypeInv, SessionInv, MapStep, NEW t \in Tabs,
         \/ BeginLogin(t) \/ CheckState(t) \/ Exchange(t) \/ CreateSession(t) \/ Logout(t)
         \/ Arrive(t) \/ Abandon(t)
  PROVE  \A u \in Tabs : Ended(tab'[u], sessions', clock')
<1>1. tab[t] \in TabRecords
  BY DEF TypeInv, TypeOK
<1>2. \A r : r.pc = "answer" \/ ~r.over => Ended(r, sessions', clock')
  BY NotEnded
<1>3. CASE BeginLogin(t)
  <2> DEFINE r == [Answered(tab[t], TRUE) EXCEPT !.setState = began + 1]
  <2>1. tab' = [tab EXCEPT ![t] = r] /\ r.pc = "answer"
    BY <1>1, <1>3 DEF BeginLogin, Answered, TabRecords
  <2> HIDE DEF r
  <2> QED BY <1>2, <2>1, EndedTab
<1>4. CASE CheckState(t) /\ tab[t].state = tab[t].flow
  <2> DEFINE r == [tab[t] EXCEPT !.pc = "exchange", !.setState = 0]
  <2>1. tab' = [tab EXCEPT ![t] = r]
    BY <1>4 DEF CheckState, TypeInv, TypeOK
  <2>2. r.pc = "exchange"
    BY <1>1 DEF TabRecords
  <2> HIDE DEF r
  <2>3. Ended(r, sessions', clock')
    BY <2>2, NotEnded
  <2> QED BY <2>1, <2>3, EndedTab
<1>5. CASE CheckState(t) /\ tab[t].state # tab[t].flow
  BY <1>5, SessionInvAnswer DEF CheckState
<1>6. CASE Exchange(t)
  BY <1>6, SessionInvAnswer, SessionInvProceed DEF Exchange
<1>7. CASE CreateSession(t)
  <2> DEFINE r == [Answered(tab[t], TRUE) EXCEPT !.setSession = created']
  <2>1. tab' = [tab EXCEPT ![t] = r] /\ r.pc = "answer"
    BY <1>1, <1>7 DEF CreateSession, Answered, TabRecords
  <2> HIDE DEF r
  <2> QED BY <1>2, <2>1, EndedTab
<1>8. CASE Logout(t)
  <2> DEFINE r == [Answered(tab[t], TRUE) EXCEPT !.setSession = 0]
  <2>1. tab' = [tab EXCEPT ![t] = r] /\ r.pc = "answer"
    BY <1>1, <1>8 DEF Logout, Answered, TabRecords
  <2> HIDE DEF r
  <2> QED BY <1>2, <2>1, EndedTab
<1>9. CASE Arrive(t)
  <2> DEFINE fl == IF tab[t].kind = "login" THEN tab[t].setState ELSE tab[t].flow
             r == [NoTab EXCEPT !.flow = fl]
  <2>1. tab' = [tab EXCEPT ![t] = r]
    BY <1>9 DEF Arrive
  <2> HIDE DEF fl
  <2>2. ~r.over
    BY DEF NoTab
  <2> HIDE DEF r
  <2> QED BY <1>2, <2>1, <2>2, EndedTab
<1>10. CASE Abandon(t)
  <2>1. ~NoTab.over
    BY DEF NoTab
  <2> QED BY <1>2, <1>10, <2>1, EndedTab DEF Abandon
<1> QED BY <1>3, <1>4, <1>5, <1>6, <1>7, <1>8, <1>9, <1>10

\* A session that has been logged out of does not come back.
LEMMA LoggedOutNext ==
  ASSUME TypeInv, SessionInv, [Next]_vars, NEW i \in loggedOut'
  PROVE  i \notin DOMAIN sessions'
<1>1. \A j \in loggedOut : j \notin DOMAIN sessions /\ j # created + 1
  BY WebAssumption DEF SessionInv, TypeInv, TypeOK
<1>2. ASSUME NEW t \in Tabs, Logout(t) PROVE i \notin DOMAIN sessions'
  BY <1>1, <1>2 DEF Logout, Without
<1>3. ASSUME i \in loggedOut PROVE i \notin DOMAIN sessions'
  BY <1>1, <1>3, MapStepNext DEF MapStep
<1>4. ASSUME NEW t \in Tabs, Send(t) \/ Handle(t) \/ Arrive(t) \/ Abandon(t), ~Logout(t)
      PROVE  loggedOut' = loggedOut
  BY <1>4 DEF Send, Handle, Arrive, Abandon, LookUp, Admit, ServePage, AcceptUpload, CreateFile,
     CopyFile, FinishUpload, BeginLogin, CheckState, Exchange, CreateSession, authVars
<1>5. ASSUME NEW b \in Browsers, StateExpires(b) PROVE loggedOut' = loggedOut
  BY <1>5 DEF StateExpires, authVars
<1>6. CASE Wake \/ Reap \/ Tick \/ Restart \/ UNCHANGED vars
  BY <1>3, <1>6 DEF Wake, Reap, Tick, Restart, vars, authVars
<1> QED BY <1>2, <1>3, <1>4, <1>5, <1>6 DEF Next

LEMMA SessionInvNext == TypeInv /\ SessionInv /\ [Next]_vars => SessionInv'
<1> SUFFICES ASSUME TypeInv, SessionInv, [Next]_vars
             PROVE  \A u \in Tabs : Ended(tab'[u], sessions', clock')
  BY LoggedOutNext DEF SessionInv
<1>1. MapStep
  BY MapStepNext
<1>2. ASSUME NEW t \in Tabs, Send(t) \/ Handle(t) \/ Arrive(t) \/ Abandon(t)
      PROVE  \A u \in Tabs : Ended(tab'[u], sessions', clock')
  BY <1>1, <1>2, SessionInvSend, SessionInvLookUp, SessionInvServe, SessionInvUpload,
     SessionInvLogin DEF Handle
<1>3. CASE tab' = tab
  <2> SUFFICES ASSUME NEW u \in Tabs PROVE Ended(tab[u], sessions', clock')
    BY <1>3
  <2>1. tab[u].session \in 0 .. created /\ tab[u].expiry \in Nat
    BY DEF TypeInv, TypeOK, TabsBounded, Bounded, TabRecords
  <2> QED BY <1>1, <2>1, EndedStays DEF SessionInv
<1>4. ASSUME NEW b \in Browsers, StateExpires(b) PROVE tab' = tab
  BY <1>4 DEF StateExpires
<1>5. CASE Wake \/ Reap \/ Tick \/ UNCHANGED vars
  BY <1>3, <1>5 DEF Wake, Reap, Tick, vars
<1>6. CASE Restart
  <2>1. \A fl : ~[NoTab EXCEPT !.flow = fl].over
    BY DEF NoTab
  <2>2. \A u \in Tabs : ~tab'[u].over
    BY <1>6, <2>1 DEF Restart
  <2> QED BY <2>2, NotEnded
<1> QED BY <1>2, <1>3, <1>4, <1>5, <1>6 DEF Next

\* A request sent with a session that had been logged out of, had expired or was lost
\* in a restart is never served.
THEOREM EndedStaysEnded == Spec => []NoRevival
<1>1. Init => SessionInv
  <2>1. NoTab.over = FALSE
    BY DEF NoTab
  <2> QED BY <2>1, NotEnded DEF Init, SessionInv
<1>2. Spec => [](TypeInv /\ SessionInv)
  BY <1>1, TypeInvInit, TypeInvNext, SessionInvNext, PTL DEF Spec
<1>3. TypeInv /\ SessionInv => NoRevival
  BY DEF SessionInv, Ended, NoRevival
<1> QED BY <1>2, <1>3, PTL

(***************************************************************************)
(* Uploads.  Whoever has a file open while another upload is at it knows   *)
(* so; a file that is not shared is "part" while it is being filled, and   *)
(* "whole" afterwards.                                                     *)
(***************************************************************************)
\* The files of one request.
Filed(r) ==
  /\ r.pc \notin {"copy", "answer"} => r.open = {}
  /\ r.saved \subseteq r.open /\ r.open \subseteq r.files
  /\ r.pc = "answer" /\ r.kind = "upload" /\ r.ok => r.saved = r.files

\* What the disk holds of the files that are r's alone.
Stored(r, d) ==
  \A f \in r.open \ r.shared :
    /\ r.pc = "copy" /\ f \notin r.saved => d[f] = "part"
    /\ f \in r.saved => d[f] = "whole"

\* What q is filling and r has open is shared.
Aware(r, q) ==
  q.pc = "copy" => \A f \in r.open : f \in q.open \ q.saved => f \in r.shared

UploadInv ==
  \A t \in Tabs :
    /\ Filed(tab[t]) /\ Stored(tab[t], disk)
    /\ \A u \in Tabs \ {t} : Aware(tab[t], tab[u])

\* A step of t that leaves the disk alone, and its files too or has none.
LEMMA UploadAside ==
  ASSUME TypeInv, UploadInv, NEW t \in Tabs, NEW r, tab' = [tab EXCEPT ![t] = r], disk' = disk,
         Filed(r),
         \/ r.open = {}
         \/ /\ r.open = tab[t].open /\ r.saved = tab[t].saved /\ r.shared = tab[t].shared
            /\ r.pc = "copy" => tab[t].pc = "copy"
  PROVE  UploadInv'
<1>1. \A u \in Tabs : tab'[u] = IF u = t THEN r ELSE tab[u]
  BY DEF TypeInv, TypeOK
<1>2. Stored(r, disk)
  BY DEF UploadInv, Stored, Filed
<1>3. \A u \in Tabs \ {t} : Aware(r, tab[u]) /\ Aware(tab[u], r)
  BY DEF UploadInv, Aware, Filed
<1> QED BY <1>1, <1>2, <1>3 DEF UploadInv

LEMMA UploadAnswer ==
  ASSUME TypeInv, UploadInv, NEW t \in Tabs, NEW ok \in BOOLEAN, Answer(t, ok), disk' = disk,
         ok /\ tab[t].kind = "upload" => tab[t].saved = tab[t].files
  PROVE  UploadInv'
<1> DEFINE r == Answered(tab[t], ok)
<1>1. tab' = [tab EXCEPT ![t] = r]
  BY DEF Answer
<1>2. /\ r.pc = "answer" /\ r.kind = tab[t].kind /\ r.ok = ok /\ r.files = tab[t].files
      /\ r.open = tab[t].open /\ r.saved = tab[t].saved /\ r.shared = tab[t].shared
  BY DEF Answered, TypeInv, TypeOK, TabRecords
<1> HIDE DEF r
<1>3. Filed(r)
  BY <1>2 DEF UploadInv, Filed
<1> QED BY <1>1, <1>2, <1>3, UploadAside

\* A request that has no files open yet goes on.
LEMMA UploadGoesOn ==
  ASSUME TypeInv, UploadInv, NEW t \in Tabs, NEW r, tab' = [tab EXCEPT ![t] = r], disk' = disk,
         r.pc # "answer", r.open = {}, r.saved = {}
  PROVE  UploadInv'
<1>1. Filed(r)
  BY DEF Filed
<1> QED BY <1>1, UploadAside

LEMMA UploadHandle ==
  ASSUME TypeInv, UploadInv, NEW t \in Tabs,
         \/ LookUp(t) \/ Admit(t) \/ ServePage(t) \/ AcceptUpload(t) \/ FinishUpload(t)
         \/ CheckState(t) \/ Exchange(t)
  PROVE  UploadInv'
<1>1. tab[t] \in TabRecords /\ disk' = disk
  BY DEF LookUp, Admit, ServePage, AcceptUpload, FinishUpload, CheckState, Exchange, TypeInv, TypeOK
<1>2. tab[t].pc \notin {"copy", "answer"} => tab[t].open = {} /\ tab[t].saved = {}
  BY DEF UploadInv, Filed
<1>3. CASE Answer(t, FALSE)
  BY <1>1, <1>3, UploadAnswer
<1>4. CASE Answer(t, TRUE) /\ (ServePage(t) \/ FinishUpload(t))
  <2>1. tab[t].kind = "upload" => tab[t].saved = tab[t].files
    BY <1>4 DEF ServePage, FinishUpload
  <2> QED BY <1>1, <1>4, <2>1, UploadAnswer
<1>5. ASSUME NEW to \in {"serve", "copy", "create"}, Proceed(t, to),
             tab[t].pc \notin {"copy", "answer"}
      PROVE  UploadInv'
  <2> DEFINE r == [tab[t] EXCEPT !.pc = to]
  <2>1. tab' = [tab EXCEPT ![t] = r]
    BY <1>5 DEF Proceed
  <2>2. r.pc # "answer" /\ r.open = {} /\ r.saved = {}
    BY <1>1, <1>2, <1>5 DEF TabRecords
  <2> HIDE DEF r
  <2> QED BY <1>1, <2>1, <2>2, UploadGoesOn
<1>6. CASE LookUp(t) /\ ~Answer(t, FALSE)
  <2> DEFINE e == sessions[tab[t].session]
             r == [tab[t] EXCEPT !.pc = "check", !.expiry = e]
  <2>1. tab' = [tab EXCEPT ![t] = r]
    BY <1>6 DEF LookUp, TypeInv, TypeOK
  <2>2. tab[t].open = {} /\ tab[t].saved = {}
    BY <1>2, <1>6 DEF LookUp, At
  <2> HIDE DEF e
  <2>3. r.pc # "answer" /\ r.open = {} /\ r.saved = {}
    BY <1>1, <2>2 DEF TabRecords
  <2> HIDE DEF r
  <2> QED BY <1>1, <2>1, <2>3, UploadGoesOn
<1>7. CASE CheckState(t) /\ ~Answer(t, FALSE)
  <2> DEFINE r == [tab[t] EXCEPT !.pc = "exchange", !.setState = 0]
  <2>1. tab' = [tab EXCEPT ![t] = r]
    BY <1>7 DEF CheckState, TypeInv, TypeOK
  <2>2. r.pc # "answer" /\ r.open = {} /\ r.saved = {}
    BY <1>1, <1>2, <1>7 DEF CheckState, At, TabRecords
  <2> HIDE DEF r
  <2> QED BY <1>1, <2>1, <2>2, UploadGoesOn
<1> QED
  BY <1>3, <1>4, <1>5, <1>6, <1>7
  DEF Admit, ServePage, AcceptUpload, FinishUpload, Exchange, At

LEMMA UploadLogin ==
  ASSUME TypeInv, UploadInv, NEW t \in Tabs,
         \/ Send(t) \/ BeginLogin(t) \/ CreateSession(t) \/ Logout(t) \/ Arrive(t) \/ Abandon(t)
  PROVE  UploadInv'
<1>1. tab[t] \in TabRecords /\ disk' = disk
  BY DEF Send, BeginLogin, CreateSession, Logout, Arrive, Abandon, TypeInv, TypeOK
<1>2. ASSUME NEW r, tab' = [tab EXCEPT ![t] = r], r.open = {}, r.saved = {},
             r.pc = "answer" => r.kind # "upload"
      PROVE  UploadInv'
  <2>1. Filed(r)
    BY <1>2 DEF Filed
  <2> QED BY <1>1, <1>2, <2>1, UploadAside
<1>3. tab[t].pc \notin {"copy", "answer"} => tab[t].open = {} /\ tab[t].saved = {}
  BY DEF UploadInv, Filed
<1>4. CASE Send(t)
  <2>1. PICK kind \in given.kinds, S \in SUBSET Files :
          tab' = [tab EXCEPT ![t] =
             [NoTab EXCEPT !.pc = "sent", !.kind = kind, !.files = S, !.flow = @ + tab[t].flow,
                           !.session = jar[BrowserOf[t]].session,
                           !.state = jar[BrowserOf[t]].state,
                           !.over = LET i == jar[BrowserOf[t]].session
                                    IN  i \in loggedOut \/ ~Live(i)]]
    BY <1>4 DEF Send
  <2> DEFINE i == jar[BrowserOf[t]].session
             o == i \in loggedOut \/ ~Live(i)
             r == [NoTab EXCEPT !.pc = "sent", !.kind = kind, !.files = S, !.flow = @ + tab[t].flow,
                                !.session = i, !.state = jar[BrowserOf[t]].state, !.over = o]
  <2>2. tab' = [tab EXCEPT ![t] = r]
    BY <2>1
  <2> HIDE DEF i, o
  <2>3. r.pc = "sent" /\ r.open = {} /\ r.saved = {}
    BY DEF NoTab
  <2> HIDE DEF r
  <2> QED BY <1>2, <2>2, <2>3
<1>5. CASE BeginLogin(t)
  <2> DEFINE r == [Answered(tab[t], TRUE) EXCEPT !.setState = began + 1]
  <2>1. tab' = [tab EXCEPT ![t] = r]
    BY <1>5 DEF BeginLogin
  <2>2. r.open = {} /\ r.saved = {} /\ r.kind = "login"
    BY <1>1, <1>3, <1>5 DEF BeginLogin, At, Answered, TabRecords
  <2> HIDE DEF r
  <2> QED BY <1>2, <2>1, <2>2
<1>6. CASE CreateSession(t)
  <2> DEFINE r == [Answered(tab[t], TRUE) EXCEPT !.setSession = created']
  <2>1. tab' = [tab EXCEPT ![t] = r]
    BY <1>6 DEF CreateSession
  <2>2. tab[t].kind # "upload"
    BY <1>6 DEF CreateSession, At, TypeInv, TabsBounded, Bounded
  <2>3. r.open = {} /\ r.saved = {} /\ r.kind # "upload"
    BY <1>1, <1>3, <1>6, <2>2 DEF CreateSession, At, Answered, TabRecords
  <2> HIDE DEF r
  <2> QED BY <1>2, <2>1, <2>3
<1>7. CASE Logout(t)
  <2> DEFINE r == [Answered(tab[t], TRUE) EXCEPT !.setSession = 0]
  <2>1. tab' = [tab EXCEPT ![t] = r]
    BY <1>7 DEF Logout
  <2>2. r.open = {} /\ r.saved = {} /\ r.kind = "logout"
    BY <1>1, <1>3, <1>7 DEF Logout, At, Answered, TabRecords
  <2> HIDE DEF r
  <2> QED BY <1>2, <2>1, <2>2
<1>8. CASE Arrive(t)
  <2> DEFINE fl == IF tab[t].kind = "login" THEN tab[t].setState ELSE tab[t].flow
             r == [NoTab EXCEPT !.flow = fl]
  <2>1. tab' = [tab EXCEPT ![t] = r]
    BY <1>8 DEF Arrive
  <2> HIDE DEF fl
  <2>2. r.open = {} /\ r.saved = {} /\ r.pc = "idle"
    BY DEF NoTab
  <2> HIDE DEF r
  <2> QED BY <1>2, <2>1, <2>2
<1>9. CASE Abandon(t)
  <2>1. NoTab.open = {} /\ NoTab.saved = {} /\ NoTab.pc = "idle"
    BY DEF NoTab
  <2> QED BY <1>2, <1>9, <2>1 DEF Abandon
<1> QED BY <1>4, <1>5, <1>6, <1>7, <1>8, <1>9

LEMMA UploadCreateFile ==
  ASSUME TypeInv, UploadInv, NEW t \in Tabs, CreateFile(t)
  PROVE  UploadInv'
<1>1. \A u \in Tabs : tab[u] \in TabRecords
  BY DEF TypeInv, TypeOK
<1>2. PICK f \in tab[t].files \ tab[t].open :
        \/ disk' = [disk EXCEPT ![f] = "part"] /\ tab' = Opened(t, f)
        \/ Answer(t, FALSE) /\ UNCHANGED disk
  BY DEF CreateFile, Opened
<1>3. CASE Answer(t, FALSE) /\ UNCHANGED disk
  BY <1>3, UploadAnswer
<1>4. CASE disk' = [disk EXCEPT ![f] = "part"] /\ tab' = Opened(t, f)
  <2>1. f \in Files
    BY <1>1 DEF TabRecords
  <2>2. \A u \in Tabs : SameRequest(tab'[u], tab[u])
    BY <1>4, <2>1, OpenedType
  <2>3. /\ tab'[t].open = tab[t].open \cup {f} /\ tab'[t].saved = tab[t].saved
        /\ tab'[t].shared = IF Filling(t, f) = {} THEN tab[t].shared
                            ELSE tab[t].shared \cup {f}
    BY <1>1, <1>4 DEF Opened, TabRecords
  <2>4. \A u \in Tabs \ {t} :
          /\ tab'[u].open = tab[u].open /\ tab'[u].saved = tab[u].saved
          /\ tab'[u].shared = IF f \in tab[u].open THEN tab[u].shared \cup {f} ELSE tab[u].shared
    BY <1>1, <1>4 DEF Opened, Holding, TabRecords
  <2>5. \A g \in Files : disk'[g] = IF g = f THEN "part" ELSE disk[g]
    BY <1>4 DEF TypeInv, TypeOK
  <2>6. tab[t].pc = "copy" /\ tab[t].open = tab[t].saved
    BY DEF CreateFile, At
  <2>7. ASSUME NEW u \in Tabs PROVE Filed(tab'[u])
    <3>1. Filed(tab[u])
      BY DEF UploadInv
    <3>2. CASE u = t
      BY <1>2, <2>2, <2>3, <2>6, <3>1, <3>2 DEF Filed, SameRequest
    <3>3. CASE u # t
      BY <2>2, <2>4, <3>1, <3>3 DEF Filed, SameRequest
    <3> QED BY <3>2, <3>3
  <2>8. ASSUME NEW u \in Tabs PROVE Stored(tab'[u], disk')
    <3>1. Stored(tab[u], disk) /\ tab[u].open \subseteq Files /\ Filed(tab[u])
      BY <1>1 DEF UploadInv, TabRecords
    <3>2. CASE u = t
      BY <1>2, <2>1, <2>2, <2>3, <2>5, <2>6, <3>1, <3>2 DEF Stored, SameRequest
    <3>3. CASE u # t
      BY <2>2, <2>4, <2>5, <3>1, <3>3 DEF Stored, SameRequest
    <3> QED BY <3>2, <3>3
  <2>9. ASSUME NEW u \in Tabs, NEW v \in Tabs \ {u} PROVE Aware(tab'[u], tab'[v])
    <3>1. Aware(tab[u], tab[v]) /\ SameRequest(tab'[v], tab[v])
      BY <2>2 DEF UploadInv
    <3>2. CASE u = t
      <4>1. tab[v].pc = "copy" /\ f \in tab[v].open \ tab[v].saved => v \in Filling(t, f)
        BY <3>2 DEF Filling, Holding, At
      <4>2. tab'[v].open \ tab'[v].saved = tab[v].open \ tab[v].saved
        BY <2>4, <3>2
      <4> QED BY <2>3, <3>1, <3>2, <4>1, <4>2 DEF Aware, SameRequest
    <3>3. CASE u # t /\ v = t
      BY <2>3, <2>4, <2>6, <3>1, <3>3 DEF Aware, SameRequest
    <3>4. CASE u # t /\ v # t
      BY <2>4, <3>1, <3>4 DEF Aware, SameRequest
    <3> QED BY <3>2, <3>3, <3>4
  <2> QED BY <2>7, <2>8, <2>9 DEF UploadInv
<1> QED BY <1>2, <1>3, <1>4

LEMMA UploadCopyFile ==
  ASSUME TypeInv, UploadInv, NEW t \in Tabs, CopyFile(t)
  PROVE  UploadInv'
<1>1. \A u \in Tabs : tab[u] \in TabRecords
  BY DEF TypeInv, TypeOK
<1>2. PICK f \in tab[t].open \ tab[t].saved, how \in {"part", "whole"} :
        /\ disk' = [disk EXCEPT ![f] = Filled(t, f, how)]
        /\ IF how = "whole" THEN tab' = [tab EXCEPT ![t].saved = @ \cup {f}] ELSE Answer(t, FALSE)
  BY DEF CopyFile
<1>3. tab[t].pc = "copy" /\ f \in Files
  BY <1>1 DEF CopyFile, At, TabRecords
<1> DEFINE r == IF how = "whole" THEN [tab[t] EXCEPT !.saved = @ \cup {f}]
                                 ELSE Answered(tab[t], FALSE)
<1>4. tab' = [tab EXCEPT ![t] = r]
  BY <1>1, <1>2 DEF Answer
<1>5. /\ r.open = tab[t].open /\ r.shared = tab[t].shared /\ r.files = tab[t].files
      /\ how = "whole" => r.pc = "copy" /\ r.saved = tab[t].saved \cup {f}
      /\ how = "part" => r.pc = "answer" /\ r.saved = tab[t].saved /\ r.ok = FALSE
  BY <1>1, <1>3 DEF TabRecords, Answered
<1> HIDE DEF r
<1>6. \A u \in Tabs : tab'[u] = IF u = t THEN r ELSE tab[u]
  BY <1>4 DEF TypeInv, TypeOK
<1>7. \A g \in Files : disk'[g] = IF g = f THEN Filled(t, f, how) ELSE disk[g]
  BY <1>2 DEF TypeInv, TypeOK
<1>8. \A u \in Tabs \ {t} : f \in tab[u].open => f \in tab[u].shared
  BY <1>2, <1>3 DEF UploadInv, Aware
<1>9. f \notin tab[t].shared => disk[f] = "part" /\ Filling(t, f) = {}
  BY <1>2, <1>3 DEF UploadInv, Stored, Aware, Filling, Holding, At
<1>10. Filed(tab[t]) /\ Stored(tab[t], disk) /\ tab[t].open \subseteq Files
  BY <1>1 DEF UploadInv, TabRecords
<1>11. Filed(r)
  BY <1>2, <1>3, <1>5, <1>10 DEF Filed
<1>12. Stored(r, disk')
  BY <1>2, <1>3, <1>5, <1>7, <1>9, <1>10 DEF Stored, Filled
<1>13. \A u \in Tabs \ {t} : Filed(tab[u]) /\ Stored(tab[u], disk')
  <2> SUFFICES ASSUME NEW u \in Tabs \ {t} PROVE Filed(tab[u]) /\ Stored(tab[u], disk')
    OBVIOUS
  <2>1. Filed(tab[u]) /\ Stored(tab[u], disk) /\ tab[u].open \subseteq Files
    BY <1>1 DEF UploadInv, TabRecords
  <2> QED BY <1>7, <1>8, <2>1 DEF Stored
<1>14. \A u \in Tabs \ {t} : Aware(r, tab[u]) /\ Aware(tab[u], r)
  BY <1>3, <1>5 DEF UploadInv, Aware
<1> QED BY <1>6, <1>11, <1>12, <1>13, <1>14 DEF UploadInv

LEMMA UploadInvNext == TypeInv /\ UploadInv /\ [Next]_vars => UploadInv'
<1> SUFFICES ASSUME TypeInv, UploadInv, [Next]_vars PROVE UploadInv'
  OBVIOUS
<1>1. ASSUME NEW t \in Tabs, Send(t) \/ Handle(t) \/ Arrive(t) \/ Abandon(t)
      PROVE  UploadInv'
  BY <1>1, UploadHandle, UploadLogin, UploadCreateFile, UploadCopyFile DEF Handle
<1>2. CASE tab' = tab /\ disk' = disk
  BY <1>2 DEF UploadInv
<1>3. ASSUME NEW b \in Browsers, StateExpires(b) PROVE UploadInv'
  BY <1>2, <1>3 DEF StateExpires
<1>4. CASE Wake \/ Reap \/ Tick \/ UNCHANGED vars
  BY <1>2, <1>4 DEF Wake, Reap, Tick, vars
<1>5. CASE Restart
  <2>1. \A fl : LET r == [NoTab EXCEPT !.flow = fl]
                IN  r.pc = "idle" /\ r.open = {} /\ r.saved = {}
    BY DEF NoTab
  <2>2. \A u \in Tabs : tab'[u].pc = "idle" /\ tab'[u].open = {} /\ tab'[u].saved = {}
    BY <1>5, <2>1 DEF Restart
  <2> QED BY <2>2 DEF UploadInv, Filed, Stored, Aware
<1> QED BY <1>1, <1>3, <1>4, <1>5 DEF Next

\* The message of a finished upload is true, however uploads of the same files, their
\* failures, logouts and restarts interleave.
THEOREM UploadsAreStored == Spec => []UploadStored
<1>1. Init => UploadInv
  <2>1. NoTab.open = {} /\ NoTab.saved = {} /\ NoTab.pc = "idle"
    BY DEF NoTab
  <2> QED BY <2>1 DEF Init, UploadInv, Filed, Stored, Aware
<1>2. Spec => [](TypeInv /\ UploadInv)
  BY <1>1, TypeInvInit, TypeInvNext, UploadInvNext, PTL DEF Spec
<1>3. TypeInv /\ UploadInv => UploadStored
  BY DEF TypeInv, TypeOK, UploadInv, Filed, Stored, UploadStored, At, TabRecords
<1> QED BY <1>2, <1>3, PTL
=============================================================================
