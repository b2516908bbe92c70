--------------------------- MODULE TreeWalkProofs ---------------------------
(***************************************************************************)
(* Theorems about TreeWalk for every tree of directories, any number of    *)
(* files, any set of ignored ones, and whatever other programs do to them. *)
(***************************************************************************)
EXTENDS TreeWalk, WalkerProofs, FiniteSetTheorems, TLAPS

(***************************************************************************)
(* Types                                                                   *)
(***************************************************************************)
LEMMA WalkTypeInit == WalkInit => WalkTypeOK
<1> SUFFICES ASSUME WalkInit PROVE WalkTypeOK
  OBVIOUS
<1>1. NewWalk(Root) \in Walks
  BY TreeWalkAssumption DEF NewWalk, Walks
<1> QED BY <1>1 DEF WalkInit, WalkTypeOK

LEMMA WalkTypeNext == WalkTypeOK /\ [WalkNext]_walkVars => WalkTypeOK'
<1> SUFFICES ASSUME WalkTypeOK, [WalkNext]_walkVars PROVE WalkTypeOK'
  OBVIOUS
<1>1. ASSUME NEW v \in Dirs, NEW d \in Dirs, Read(v, d) PROVE WalkTypeOK'
  <2>1. walk' \in Walks
    BY <1>1, WalkTypes DEF Read, WalkTypeOK
  <2>2. Kept(d, disk, Ignored) \subseteq Files
    BY DEF Kept, WalkTypeOK
  <2> QED BY <1>1, <2>1, <2>2 DEF Read, WalkTypeOK
<1>2. ASSUME NEW v \in Dirs, NEW d \in Dirs, FailRead(v, d) PROVE WalkTypeOK'
  <2>1. walk' \in Walks
    BY <1>2, WalkTypes DEF FailRead, WalkTypeOK
  <2> QED BY <1>2, <2>1 DEF FailRead, WalkTypeOK
<1>3. ASSUME NEW f \in Files, Change(f) PROVE WalkTypeOK'
  BY <1>3 DEF Change, WalkTypeOK
<1>4. CASE UNCHANGED walkVars
  BY <1>4 DEF walkVars, WalkTypeOK
<1> QED BY <1>1, <1>2, <1>3, <1>4 DEF WalkNext, WalkStep

\* The traversal, the files found and the history keep their types.
THEOREM WalkTypeCorrect == WalkSpec => []WalkTypeOK
BY WalkTypeInit, WalkTypeNext, PTL DEF WalkSpec

(***************************************************************************)
(* The walk as a scan.                                                     *)
(***************************************************************************)
\* A read that is still to be made will come to f.
Awaits(f) == \E r \in walk.reads : DirOf[f] \in Below[r[2]]

WalkInv ==
  /\ \A r \in walk.reads : Below[r[2]] \subseteq Below[Root]
  /\ onDisk \subseteq Inside \cap present
  /\ ~WalkOver(walk) => disk \subseteq present /\ Files \ disk \subseteq absent
  /\ failures = {} => \A f \in Inside \ absent : f \in onDisk \/ Awaits(f)

LEMMA WalkInvInit == WalkInit => WalkInv
<1> SUFFICES ASSUME WalkInit PROVE WalkInv
  OBVIOUS
<1>1. walk.reads = {<<Root, Root>>}
  BY DEF WalkInit, NewWalk
<1>2. \A f \in Inside : Awaits(f)
  BY <1>1 DEF Inside, Visible, Awaits
<1> QED BY <1>1, <1>2 DEF WalkInit, WalkInv

LEMMA WalkInvRead ==
  ASSUME WalkTypeOK, WalkInv, NEW v \in Dirs, NEW d \in Dirs, Read(v, d)
  PROVE  WalkInv'
<1> DEFINE w == walk'
<1>1. /\ <<v, d>> \in walk.reads /\ walk \in Walks /\ walk' = ListedDir(walk, v, d)
      /\ onDisk' = onDisk \cup Kept(d, disk, Ignored)
      /\ UNCHANGED <<disk, present, absent, failures>>
  BY DEF Read, WalkTypeOK
<1>2. /\ \A r \in walk.reads : r # <<v, d>> => r \in w.reads
      /\ \A c \in Subdirs[d] : <<v, c>> \in w.reads
      /\ \A r \in w.reads : \/ r \in walk.reads /\ r # <<v, d>>
                            \/ \E c \in Subdirs[d] : r = <<v, c>>
                            \/ \E c \in (Subdirs[d] \cup {d}) \ walk.analyzed : r = <<c, c>>
  BY <1>1, ListedReads
<1> HIDE DEF w
<1>3. Below[d] \subseteq Below[Root]
  BY <1>1 DEF WalkInv
<1>4. ASSUME NEW r \in w.reads PROVE Below[r[2]] \subseteq Below[Root]
  <2>1. CASE r \in walk.reads
    BY <2>1 DEF WalkInv
  <2>2. CASE r[2] \in Subdirs[d] \cup {d}
    BY <1>3, <2>2, BelowStep
  <2> QED BY <1>2, <2>1, <2>2
<1>5. ~WalkOver(walk)
  BY <1>1 DEF WalkOver
<1>6. disk \subseteq present /\ Files \ disk \subseteq absent
  BY <1>5 DEF WalkInv
<1>7. onDisk' \subseteq Inside \cap present
  <2>1. Kept(d, disk, Ignored) \subseteq Inside
    <3>1. d \in Below[Root]
      BY <1>3, BelowStep
    <3> QED BY <3>1, TreeWalkAssumption DEF Kept, Inside, Visible, WalkTypeOK
  <2>2. Kept(d, disk, Ignored) \subseteq disk
    BY DEF Kept
  <2> QED BY <1>1, <1>6, <2>1, <2>2 DEF WalkInv
<1>8. ASSUME failures = {}, NEW f \in Inside \ absent, f \notin onDisk'
      PROVE  \E r \in w.reads : DirOf[f] \in Below[r[2]]
  <2>1. f \in Files /\ f \notin Ignored /\ f \in disk
    BY <1>6, <1>8 DEF Inside, Visible
  <2>2. DirOf[f] # d
    BY <1>1, <1>8, <2>1 DEF Kept
  <2>3. PICK r \in walk.reads : DirOf[f] \in Below[r[2]]
    BY <1>1, <1>8 DEF WalkInv, Awaits
  <2>4. CASE r # <<v, d>>
    BY <1>2, <2>3, <2>4
  <2>5. CASE r = <<v, d>>
    <3>1. PICK c \in Subdirs[d] : DirOf[f] \in Below[c]
      BY <2>2, <2>3, <2>5, BelowStep
    <3> QED BY <1>2, <3>1
  <2> QED BY <2>4, <2>5
<1> QED BY <1>1, <1>4, <1>6, <1>7, <1>8 DEF WalkInv, Awaits, w

LEMMA WalkInvFail ==
  ASSUME WalkTypeOK, WalkInv, NEW v \in Dirs, NEW d \in Dirs, FailRead(v, d)
  PROVE  WalkInv'
<1>1. /\ UNCHANGED <<disk, onDisk, present, absent>> /\ failures' # {}
      /\ walk'.reads = walk.reads \ {<<v, d>>} /\ ~WalkOver(walk)
  BY SkippedReads DEF FailRead, WalkTypeOK, WalkOver
<1> QED BY <1>1 DEF WalkInv

LEMMA WalkInvChange ==
  ASSUME WalkTypeOK, WalkInv, NEW f \in Files, Change(f)
  PROVE  WalkInv'
<1>1. UNCHANGED <<walk, onDisk, failures>> /\ present \subseteq present' /\ absent \subseteq absent'
  BY DEF Change
<1>2. ~WalkOver(walk) => disk' \subseteq present' /\ Files \ disk' \subseteq absent'
  BY DEF Change
<1>3. (\A g \in Inside \ absent' : Awaits(g)' <=> Awaits(g)) /\ WalkOver(walk)' = WalkOver(walk)
  BY <1>1 DEF Awaits, WalkOver
<1> QED BY <1>1, <1>2, <1>3 DEF WalkInv

LEMMA WalkInvNext == WalkTypeOK /\ WalkInv /\ [WalkNext]_walkVars => WalkInv'
<1> SUFFICES ASSUME WalkTypeOK, WalkInv, [WalkNext]_walkVars PROVE WalkInv'
  OBVIOUS
<1>1. CASE UNCHANGED walkVars
  BY <1>1 DEF walkVars, WalkInv, Awaits, WalkOver
<1> QED BY <1>1, WalkInvRead, WalkInvFail, WalkInvChange DEF WalkNext, WalkStep

\* Every step of the walk is one of the scan, or none.
LEMMA ScanStep ==
  ASSUME WalkTypeOK, WalkInv, WalkInv', [WalkNext]_walkVars
  PROVE  [Scan!ScanNext]_Scan!scanVars
<1>1. CASE UNCHANGED walkVars
  BY <1>1 DEF walkVars, Scan!scanVars
<1>2. ASSUME NEW f \in Files, Change(f) PROVE Scan!ScanNext
  <2>1. Scan!ScanChange(f)
    BY <1>2 DEF Change, Scan!ScanChange
  <2> QED BY <2>1 DEF Scan!ScanNext
<1>3. ASSUME ~WalkOver(walk), WalkOver(walk)', UNCHANGED <<disk, present, absent>>,
             failures # {} => failures' # {}
      PROVE  Scan!ScanNext
  <2>1. onDisk' \subseteq Inside \cap present
    BY <1>3 DEF WalkInv
  <2>2. failures' = {} => Inside \ absent \subseteq onDisk'
    BY <1>3 DEF WalkInv, Awaits, WalkOver
  <2>3. Scan!ScanFinish
    BY <1>3, <2>1, <2>2 DEF Scan!ScanFinish, WalkOver
  <2> QED BY <2>3 DEF Scan!ScanNext
<1>4. ASSUME NEW v \in Dirs, NEW d \in Dirs, Read(v, d) PROVE [Scan!ScanNext]_Scan!scanVars
  <2>1. ~WalkOver(walk) /\ UNCHANGED <<disk, present, absent, failures>>
    BY <1>4 DEF Read, WalkOver
  <2>2. CASE WalkOver(walk)'
    BY <1>3, <2>1, <2>2
  <2>3. CASE ~WalkOver(walk)'
    BY <2>1, <2>3 DEF Scan!scanVars, WalkOver
  <2> QED BY <2>2, <2>3
<1>5. ASSUME NEW v \in Dirs, NEW d \in Dirs, FailRead(v, d) PROVE Scan!ScanNext
  <2>1. ~WalkOver(walk) /\ UNCHANGED <<disk, present, absent>> /\ failures' # {}
    BY <1>5 DEF FailRead, WalkOver
  <2>2. CASE WalkOver(walk)'
    BY <1>3, <2>1, <2>2
  <2>3. CASE ~WalkOver(walk)'
    <3>1. Scan!ScanFault
      BY <2>1, <2>3 DEF Scan!ScanFault, WalkOver
    <3> QED BY <3>1 DEF Scan!ScanNext
  <2> QED BY <2>2, <2>3
<1> QED BY <1>1, <1>2, <1>4, <1>5 DEF WalkNext, WalkStep

\* The traversal, which lists most directories several times and in any order while
\* files come and go, implements one scan: it keeps no file that was never there, and
\* misses none that always was unless a read failed.
THEOREM WalkImplementsScan == WalkSpec => ImplementsScan
<1>1. WalkInit => Scan!ScanInit
  <2>1. NewWalk(Root).reads # {}
    BY DEF NewWalk
  <2> QED BY <2>1 DEF WalkInit, Scan!ScanInit, WalkOver
<1>2. WalkTypeOK /\ WalkInv /\ WalkInv' /\ [WalkNext]_walkVars => [Scan!ScanNext]_Scan!scanVars
  BY ScanStep
<1> QED
  BY <1>1, <1>2, WalkTypeInit, WalkTypeNext, WalkInvInit, WalkInvNext, PTL
  DEF WalkSpec, ImplementsScan, Scan!ScanSpec

(***************************************************************************)
(* One failed read.  A walker reads a directory once, and every directory  *)
(* but the source is read by two walkers at least, its own and the one     *)
(* that showed it first.                                                   *)
(***************************************************************************)
Top == <<Root, Root>>

\* The pending reads that will come to f.
Awaited(f) == {r \in walk.reads : DirOf[f] \in Below[r[2]]}

\* A walker starts once, and its pending reads and failures are in different subtrees.
OncePerWalker ==
  /\ OnePerWalker(walk)
  /\ \A r \in failures : r[1] \in walk.analyzed
  /\ \A r \in failures, s \in walk.reads : r[1] = s[1] => r[2] \notin Below[s[2]]

\* The walk starts with one read, and the source is not read again.
TopFirst ==
  /\ Root \in walk.analyzed
  /\ Top \in walk.reads => walk.reads = {Top} /\ walk.analyzed = {Root} /\ failures = {}
  /\ \A r \in walk.reads : r = Top \/ Root \notin Below[r[2]]

Missing == Inside \ (absent \cup onDisk)

TwoReads ==
  /\ IsFiniteSet(failures)
  /\ failures = {} => \A f \in Missing :
       Top \in walk.reads \/ \E r, s \in Awaited(f) : r # s
  /\ \A x : failures = {x} /\ x # Top => \A f \in Missing : Awaited(f) # {}

SurvivalInv == OncePerWalker /\ TopFirst /\ TwoReads

LEMMA SurvivalInit == WalkInit => SurvivalInv
<1> SUFFICES ASSUME WalkInit PROVE SurvivalInv
  OBVIOUS
<1>1. walk.reads = {Top} /\ walk.analyzed = {Root} /\ failures = {}
  BY DEF WalkInit, NewWalk, Top
<1>2. IsFiniteSet(failures)
  BY <1>1, FS_EmptySet
<1>3. OncePerWalker
  BY <1>1, NewWalkOnce DEF OncePerWalker, WalkInit
<1>4. TopFirst
  BY <1>1 DEF TopFirst
<1>5. TwoReads
  BY <1>1, <1>2 DEF TwoReads
<1> QED BY <1>3, <1>4, <1>5 DEF SurvivalInv

\* What is new among the pending reads after v has listed d.
LEMMA NewReads ==
  ASSUME WalkTypeOK, SurvivalInv, NEW v \in Dirs, NEW d \in Dirs, Read(v, d)
  PROVE  /\ <<v, d>> \in walk.reads /\ v \in walk.analyzed
         /\ \A r \in walk.reads : r # <<v, d>> => r \in walk'.reads
         /\ \A c \in Subdirs[d] : <<v, c>> \in walk'.reads
         /\ \A c \in Subdirs[d] \ walk.analyzed : <<c, c>> \in walk'.reads
         /\ \A r \in walk'.reads :
              \/ r \in walk.reads /\ r # <<v, d>>
              \/ \E c \in Subdirs[d] : r = <<v, c>>
              \/ \E c \in Subdirs[d] \ walk.analyzed : r = <<c, c>>
         /\ walk.analyzed \subseteq walk'.analyzed
         /\ \A c \in Subdirs[d] : c \in walk'.analyzed
<1>1. <<v, d>> \in walk.reads /\ walk \in Walks /\ walk' = ListedDir(walk, v, d)
  BY DEF Read, WalkTypeOK
<1>2. v \in walk.analyzed
  BY <1>1 DEF SurvivalInv, OncePerWalker, OnePerWalker
<1> QED BY <1>1, <1>2 DEF ListedDir, Shown, Walks

LEMMA OnceRead ==
  ASSUME WalkTypeOK, SurvivalInv, NEW v \in Dirs, NEW d \in Dirs, Read(v, d)
  PROVE  OncePerWalker'
<1>1. /\ <<v, d>> \in walk.reads /\ walk \in Walks /\ walk' = ListedDir(walk, v, d)
      /\ failures' = failures
  BY DEF Read, WalkTypeOK
<1>2. OnePerWalker(walk) /\ OnePerWalker(walk')
  BY <1>1, ListedKeepsOne DEF SurvivalInv, OncePerWalker
<1>3. /\ \A r \in failures : r[1] \in walk.analyzed
      /\ \A r \in failures, s \in walk.reads : r[1] = s[1] => r[2] \notin Below[s[2]]
  BY DEF SurvivalInv, OncePerWalker
<1>4. \A c \in Subdirs[d] : Below[c] \subseteq Below[d]
  BY BelowStep
<1>5. /\ walk.analyzed \subseteq walk'.analyzed
      /\ \A r \in walk'.reads :
           \/ r \in walk.reads /\ r # <<v, d>> /\ r[1] \in walk.analyzed
           \/ r[1] = v /\ \E c \in Subdirs[d] : r[2] = c /\ r = <<v, c>>
           \/ r[1] \notin walk.analyzed /\ r = <<r[1], r[1]>> /\ r[2] = r[1]
  BY <1>1, <1>2, ListedOnce
<1>6. ASSUME NEW r \in failures, NEW s \in walk'.reads, r[1] = s[1]
      PROVE  r[2] \notin Below[s[2]]
  <2>1. r[1] \in walk.analyzed
    BY <1>3
  <2>2. CASE s \in walk.reads
    BY <1>3, <1>6, <2>2
  <2>3. CASE s[1] = v /\ \E c \in Subdirs[d] : s[2] = c
    <3>1. <<v, d>>[1] = v /\ <<v, d>>[2] = d
      OBVIOUS
    <3>2. r[2] \notin Below[d]
      BY <1>1, <1>3, <1>6, <2>3, <3>1
    <3> QED BY <1>4, <2>3, <3>2
  <2> QED BY <1>5, <1>6, <2>1, <2>2, <2>3
<1> QED BY <1>1, <1>2, <1>3, <1>5, <1>6 DEF OncePerWalker

LEMMA TopRead ==
  ASSUME WalkTypeOK, SurvivalInv, NEW v \in Dirs, NEW d \in Dirs, Read(v, d)
  PROVE  TopFirst' /\ Top \notin walk'.reads
<1>1. /\ <<v, d>> \in walk.reads
      /\ \A r \in walk'.reads :
           \/ r \in walk.reads /\ r # <<v, d>>
           \/ \E c \in Subdirs[d] : r = <<v, c>>
           \/ \E c \in Subdirs[d] \ walk.analyzed : r = <<c, c>>
      /\ walk.analyzed \subseteq walk'.analyzed
  BY NewReads
<1>2. /\ Root \in walk.analyzed
      /\ Top \in walk.reads => walk.reads = {Top}
      /\ \A r \in walk.reads : r = Top \/ Root \notin Below[r[2]]
  BY DEF SurvivalInv, TopFirst
<1>3. ASSUME NEW c \in Subdirs[d] PROVE Root \notin Below[c]
  <2>1. CASE <<v, d>> = Top
    <3>1. d = Root
      BY <2>1 DEF Top
    <3> QED BY <3>1, ForestAssumption, TreeWalkAssumption
  <2>2. CASE <<v, d>> # Top
    <3>1. Root \notin Below[d]
      BY <1>1, <1>2, <2>2
    <3> QED BY <3>1, BelowStep
  <2> QED BY <2>1, <2>2
<1>4. ASSUME NEW r \in walk'.reads PROVE Root \notin Below[r[2]]
  <2>1. CASE r \in walk.reads /\ r # <<v, d>>
    BY <1>1, <1>2, <2>1
  <2>2. CASE \E c \in Subdirs[d] : r[2] = c
    BY <1>3, <2>2
  <2> QED BY <1>1, <2>1, <2>2
<1>5. Top \notin walk'.reads
  <2>1. Top[2] = Root /\ Root \in Below[Root]
    BY TreeWalkAssumption, BelowStep DEF Top
  <2> QED BY <1>4, <2>1
<1> QED BY <1>1, <1>2, <1>4, <1>5 DEF TopFirst

\* A file that is there all along and that v does not find in d will be come to as
\* often as before.
LEMMA TwoRead ==
  ASSUME WalkTypeOK, WalkInv, SurvivalInv, NEW v \in Dirs, NEW d \in Dirs, Read(v, d)
  PROVE  TwoReads'
<1>1. /\ <<v, d>> \in walk.reads /\ v \in walk.analyzed
      /\ \A r \in walk.reads : r # <<v, d>> => r \in walk'.reads
      /\ \A c \in Subdirs[d] : <<v, c>> \in walk'.reads
      /\ \A c \in Subdirs[d] \ walk.analyzed : <<c, c>> \in walk'.reads
  BY NewReads
<1>2. /\ onDisk' = onDisk \cup Kept(d, disk, Ignored)
      /\ UNCHANGED <<disk, present, absent, failures>>
  BY DEF Read
<1>3. Files \ disk \subseteq absent
  BY <1>1 DEF WalkInv, WalkOver
<1>4. ASSUME NEW f \in Missing' PROVE f \in Missing /\ DirOf[f] # d
  <2>1. f \in Missing /\ f \notin Kept(d, disk, Ignored)
    BY <1>2 DEF Missing
  <2>2. f \in Files \ Ignored /\ f \notin absent
    BY <2>1 DEF Missing, Inside, Visible
  <2> QED BY <1>3, <2>1, <2>2 DEF Kept
<1>5. ASSUME NEW f \in Missing', DirOf[f] \in Below[d]
      PROVE  \E c \in Subdirs[d] : DirOf[f] \in Below[c] /\ <<v, c>> \in Awaited(f)'
  <2>1. PICK c \in Subdirs[d] : DirOf[f] \in Below[c]
    BY <1>4, <1>5, BelowStep
  <2>2. <<v, c>>[2] = c
    OBVIOUS
  <2> QED BY <1>1, <2>1, <2>2 DEF Awaited
<1>6. ASSUME NEW f \in Missing', NEW r \in Awaited(f), r # <<v, d>> PROVE r \in Awaited(f)'
  BY <1>1, <1>6 DEF Awaited
<1>7. ASSUME NEW f \in Missing', failures = {} PROVE \E r, s \in Awaited(f)' : r # s
  <2>1. CASE Top \in walk.reads
    <3>1. v = Root /\ d = Root /\ walk.analyzed = {Root}
      BY <1>1, <2>1 DEF SurvivalInv, TopFirst, Top
    <3>2. DirOf[f] \in Below[d]
      BY <1>4, <3>1 DEF Missing, Inside, Visible
    <3>3. PICK c \in Subdirs[d] : DirOf[f] \in Below[c] /\ <<v, c>> \in Awaited(f)'
      BY <1>5, <3>2
    <3>4. c # Root
      <4>1. c \in Below[c] /\ d \notin Below[c]
        BY BelowStep, ForestAssumption
      <4> QED BY <3>1, <4>1
    <3>5. <<c, c>> \in Awaited(f)'
      BY <1>1, <3>1, <3>3, <3>4 DEF Awaited
    <3>6. <<c, c>> # <<v, c>>
      BY <3>1, <3>4
    <3> QED BY <3>3, <3>5, <3>6
  <2>2. CASE Top \notin walk.reads
    <3>1. PICK r, s \in Awaited(f) : r # s
      BY <1>4, <1>7, <2>2 DEF SurvivalInv, TwoReads
    <3>2. ASSUME NEW x \in Awaited(f), x # <<v, d>>, <<v, d>> \in Awaited(f)
          PROVE  \E a, b \in Awaited(f)' : a # b
      <4>1. <<v, d>>[1] = v /\ <<v, d>>[2] = d
        OBVIOUS
      <4>2. DirOf[f] \in Below[d] /\ DirOf[f] \in Below[x[2]] /\ x \in walk.reads
        BY <3>2, <4>1 DEF Awaited
      <4>3. x[1] # v
        BY <1>1, <3>2, <4>1, <4>2 DEF SurvivalInv, OncePerWalker, OnePerWalker
      <4>4. PICK c \in Subdirs[d] : <<v, c>> \in Awaited(f)'
        BY <1>5, <4>2
      <4>5. x \in Awaited(f)'
        BY <1>6, <3>2
      <4>6. <<v, c>>[1] = v
        OBVIOUS
      <4> QED BY <4>3, <4>4, <4>5, <4>6
    <3> QED BY <1>6, <3>1, <3>2
  <2> QED BY <2>1, <2>2
<1>8. ASSUME NEW f \in Missing', NEW x, failures = {x}, x # Top PROVE Awaited(f)' # {}
  <2>1. PICK r \in Awaited(f) : TRUE
    BY <1>4, <1>8 DEF SurvivalInv, TwoReads
  <2>2. CASE r = <<v, d>>
    <3>1. DirOf[f] \in Below[d]
      BY <2>1, <2>2 DEF Awaited
    <3> QED BY <1>5, <3>1
  <2> QED BY <1>6, <2>1, <2>2
<1>9. IsFiniteSet(failures')
  BY <1>2 DEF SurvivalInv, TwoReads
<1> QED BY <1>2, <1>7, <1>8, <1>9 DEF TwoReads

LEMMA SurvivalFail ==
  ASSUME WalkTypeOK, SurvivalInv, NEW v \in Dirs, NEW d \in Dirs, FailRead(v, d)
  PROVE  SurvivalInv'
<1>1. /\ <<v, d>> \in walk.reads /\ failures' = failures \cup {<<v, d>>}
      /\ walk'.reads = walk.reads \ {<<v, d>>} /\ walk'.analyzed = walk.analyzed
      /\ UNCHANGED <<onDisk, absent>>
  BY SkippedReads DEF FailRead, WalkTypeOK
<1>2. OncePerWalker'
  <2>1. <<v, d>>[1] = v /\ <<v, d>>[2] = d /\ d \in Below[d]
    BY BelowStep
  <2>2. \A s \in walk'.reads : v = s[1] => d \notin Below[s[2]]
    BY <1>1, <2>1 DEF SurvivalInv, OncePerWalker, OnePerWalker
  <2> QED BY <1>1, <2>1, <2>2 DEF SurvivalInv, OncePerWalker, OnePerWalker
<1>3. TopFirst'
  BY <1>1 DEF SurvivalInv, TopFirst
<1>4. <<v, d>> \notin failures
  <2>1. <<v, d>>[1] = v /\ <<v, d>>[2] = d /\ d \in Below[d]
    BY BelowStep
  <2> QED BY <1>1, <2>1 DEF SurvivalInv, OncePerWalker
<1>5. \A f \in Missing' : f \in Missing /\ Awaited(f)' = Awaited(f) \ {<<v, d>>}
  BY <1>1 DEF Missing, Awaited
<1>6. ASSUME NEW x, failures' = {x}, x # Top, NEW f \in Missing' PROVE Awaited(f)' # {}
  <2>1. failures = {} /\ x = <<v, d>>
    BY <1>1, <1>4, <1>6
  <2>2. Top \notin walk.reads
    BY <1>1, <1>6, <2>1 DEF SurvivalInv, TopFirst
  <2>3. \E r, s \in Awaited(f) : r # s
    BY <1>5, <1>6, <2>1, <2>2 DEF SurvivalInv, TwoReads
  <2> QED BY <1>5, <1>6, <2>3
<1>7. IsFiniteSet(failures')
  BY <1>1, FS_AddElement DEF SurvivalInv, TwoReads
<1>8. failures' # {}
  BY <1>1
<1> QED BY <1>2, <1>3, <1>6, <1>7, <1>8 DEF SurvivalInv, TwoReads

LEMMA SurvivalNext ==
  WalkTypeOK /\ WalkInv /\ SurvivalInv /\ [WalkNext]_walkVars => SurvivalInv'
<1> SUFFICES ASSUME WalkTypeOK, WalkInv, SurvivalInv, [WalkNext]_walkVars PROVE SurvivalInv'
  OBVIOUS
<1>1. ASSUME UNCHANGED <<walk, onDisk, failures>>, absent \subseteq absent' PROVE SurvivalInv'
  <2>1. Missing' \subseteq Missing /\ \A f \in Files : Awaited(f)' = Awaited(f)
    BY <1>1 DEF Missing, Awaited
  <2>2. \A f \in Missing' : f \in Missing /\ Awaited(f)' = Awaited(f)
    BY <2>1 DEF Missing, Inside, Visible
  <2>3. TwoReads'
    BY <1>1, <2>2 DEF SurvivalInv, TwoReads
  <2> QED BY <1>1, <2>3 DEF SurvivalInv, OncePerWalker, TopFirst
<1>2. ASSUME NEW v \in Dirs, NEW d \in Dirs, Read(v, d) PROVE SurvivalInv'
  BY <1>2, OnceRead, TopRead, TwoRead DEF SurvivalInv
<1>3. ASSUME NEW f \in Files, Change(f) PROVE SurvivalInv'
  BY <1>1, <1>3 DEF Change
<1>4. CASE UNCHANGED walkVars
  BY <1>1, <1>4 DEF walkVars
<1> QED BY <1>2, <1>3, <1>4, SurvivalFail DEF WalkNext, WalkStep

\* The second walker of each subdirectory makes the walk survive any one failed read
\* but that of the source: it still finds every file that was there all along.
THEOREM OneFailureIsSurvived == WalkSpec => []SurvivesOneFailure
<1>1. SurvivalInv => SurvivesOneFailure
  <2> SUFFICES ASSUME SurvivalInv, WalkOver(walk), Cardinality(failures) = 1, Top \notin failures
               PROVE  Inside \ absent \subseteq onDisk
    BY DEF SurvivesOneFailure, Top
  <2>1. PICK x : failures = {x}
    BY FS_Singleton DEF SurvivalInv, TwoReads
  <2>2. \A f \in Missing : Awaited(f) # {}
    BY <2>1 DEF SurvivalInv, TwoReads
  <2>3. \A f : Awaited(f) = {}
    BY DEF Awaited, WalkOver
  <2> QED BY <2>2, <2>3 DEF Missing
<1> QED
  BY <1>1, WalkTypeInit, WalkTypeNext, WalkInvInit, WalkInvNext, SurvivalInit, SurvivalNext, PTL
  DEF WalkSpec

\* Every read of a walk, answered or failed, leaves fewer to come, whatever others do
\* to the files: with finitely many directories a walk is over after finitely many
\* reads, for any tree.
THEOREM WalksAdvance == WalkSpec => WalkAdvances
<1>1. WalkTypeOK /\ SurvivalInv => [WalkStep => Nearer(walk, walk')]_walkVars
  <2> SUFFICES ASSUME WalkTypeOK, SurvivalInv, WalkStep PROVE Nearer(walk, walk')
    OBVIOUS
  <2>1. walk \in Walks /\ OnePerWalker(walk)
    BY DEF WalkTypeOK, SurvivalInv, OncePerWalker
  <2> QED BY <2>1, ListedNearer, SkippedNearer DEF WalkStep, Read, FailRead
<1> QED
  BY <1>1, WalkTypeInit, WalkTypeNext, WalkInvInit, WalkInvNext, SurvivalInit, SurvivalNext, PTL
  DEF WalkSpec, WalkAdvances
=============================================================================
