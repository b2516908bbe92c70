---------------------------- MODULE WalkerProofs ----------------------------
(***************************************************************************)
(* Lemmas about the traversal of a source directory, for any directories.  *)
(***************************************************************************)
EXTENDS Walker, TLAPS

(***************************************************************************)
(* Below solves its equation: what is reached from a directory by going    *)
(* down is a solution.                                                     *)
(***************************************************************************)
Closed(S) == \A x \in S : Subdirs[x] \subseteq S
Reached(d) == {e \in Dirs : \A S \in SUBSET Dirs : d \in S /\ Closed(S) => e \in S}

LEMMA ReachedStep ==
  ASSUME NEW d \in Dirs
  PROVE  Reached(d) = {d} \cup UNION {Reached(c) : c \in Subdirs[d]}
<1> DEFINE T == {d} \cup UNION {Reached(c) : c \in Subdirs[d]}
<1>1. Subdirs[d] \subseteq Dirs /\ \A x \in Dirs : Subdirs[x] \subseteq Dirs
  BY WalkerAssumption
<1>2. \A c \in Dirs : c \in Reached(c)
  BY DEF Reached
<1>3. \A c \in Dirs : \A x \in Reached(c) : Subdirs[x] \subseteq Reached(c)
  BY <1>1 DEF Reached, Closed
<1>4. T \subseteq Reached(d)
  <2>1. d \in Reached(d)
    BY <1>2
  <2>2. ASSUME NEW c \in Subdirs[d], NEW e \in Reached(c) PROVE e \in Reached(d)
    <3>1. e \in Dirs
      BY DEF Reached
    <3>2. ASSUME NEW S \in SUBSET Dirs, d \in S, Closed(S) PROVE e \in S
      <4>1. c \in S
        BY <3>2 DEF Closed
      <4> QED BY <2>2, <3>2, <4>1 DEF Reached
    <3> QED BY <3>1, <3>2 DEF Reached
  <2> QED BY <2>1, <2>2
<1>5. T \in SUBSET Dirs
  BY DEF Reached
<1>6. Closed(T)
  <2>1. ASSUME NEW x \in T, NEW y \in Subdirs[x] PROVE y \in T
    <3>1. CASE x = d
      BY <1>1, <1>2, <2>1, <3>1
    <3>2. ASSUME NEW c \in Subdirs[d], x \in Reached(c) PROVE y \in T
      BY <1>1, <1>3, <2>1, <3>2
    <3> QED BY <2>1, <3>1, <3>2
  <2> QED BY <2>1 DEF Closed
<1>7. Reached(d) \subseteq T
  <2>1. d \in T
    OBVIOUS
  <2> HIDE DEF T
  <2> QED BY <1>5, <1>6, <2>1 DEF Reached
<1> QED BY <1>4, <1>7

LEMMA BelowEquation == Below = [d \in Dirs |-> {d} \cup UNION {Below[c] : c \in Subdirs[d]}]
<1> DEFINE R == [d \in Dirs |-> Reached(d)]
           Solves(g) == g = [d \in Dirs |-> {d} \cup UNION {g[c] : c \in Subdirs[d]}]
<1>1. ASSUME NEW d \in Dirs PROVE R[d] = {d} \cup UNION {R[c] : c \in Subdirs[d]}
  <2>1. \A c \in Subdirs[d] : R[c] = Reached(c)
    BY WalkerAssumption
  <2>2. {R[c] : c \in Subdirs[d]} = {Reached(c) : c \in Subdirs[d]}
    BY <2>1
  <2> QED BY <2>2, ReachedStep
<1> HIDE DEF R
<1>2. Solves(R)
  BY <1>1 DEF R
<1>3. Solves(CHOOSE g : Solves(g))
  BY <1>2
<1> QED BY <1>3 DEF Below

\* A directory is below itself, and what is below a subdirectory is below it.
LEMMA BelowStep ==
  ASSUME NEW d \in Dirs
  PROVE  /\ d \in Below[d]
         /\ \A c \in Subdirs[d] : c \in Dirs /\ Below[c] \subseteq Below[d]
         /\ \A e \in Below[d] : e = d \/ \E c \in Subdirs[d] : e \in Below[c]
<1>1. Below[d] = {d} \cup UNION {Below[c] : c \in Subdirs[d]}
  BY BelowEquation
<1>2. Subdirs[d] \subseteq Dirs
  BY WalkerAssumption
<1> QED BY <1>1, <1>2

(***************************************************************************)
(* Types                                                                   *)
(***************************************************************************)
LEMMA WalkTypes ==
  ASSUME NEW wk \in Walks, NEW v \in Dirs, NEW d \in Dirs
  PROVE  ListedDir(wk, v, d) \in Walks /\ SkippedDir(wk, v, d) \in Walks
<1>1. Subdirs[d] \subseteq Dirs /\ Shown(v, d) \subseteq Dirs
  BY WalkerAssumption DEF Shown
<1>2. \A c \in Dirs : <<v, c>> \in Dirs \X Dirs /\ <<c, c>> \in Dirs \X Dirs
  OBVIOUS
<1>3. /\ {<<v, c>> : c \in Subdirs[d]} \subseteq Dirs \X Dirs
      /\ {<<c, c>> : c \in Shown(v, d) \ wk.analyzed} \subseteq Dirs \X Dirs
  BY <1>1, <1>2
<1>4. wk.reads \subseteq Dirs \X Dirs /\ wk.analyzed \subseteq Dirs
  BY DEF Walks
<1> QED BY <1>1, <1>3, <1>4 DEF ListedDir, SkippedDir, Walks

(***************************************************************************)
(* What a step does to the reads that are pending.                         *)
(***************************************************************************)
LEMMA ListedReads ==
  ASSUME NEW wk \in Walks, NEW v \in Dirs, NEW d \in Dirs
  PROVE  LET after == ListedDir(wk, v, d)
         IN  /\ \A r \in wk.reads : r # <<v, d>> => r \in after.reads
             /\ \A c \in Subdirs[d] : <<v, c>> \in after.reads
             /\ \A c \in Subdirs[d] \ wk.analyzed : <<c, c>> \in after.reads
             /\ \A r \in after.reads :
                  \/ r \in wk.reads /\ r # <<v, d>>
                  \/ \E c \in Subdirs[d] : r = <<v, c>>
                  \/ \E c \in (Subdirs[d] \cup {d}) \ wk.analyzed : r = <<c, c>>
             /\ wk.analyzed \subseteq after.analyzed
             /\ \A c \in Subdirs[d] : c \in after.analyzed
             /\ \A r \in after.reads : r[1] # v /\ r \notin wk.reads => r[1] \in after.analyzed
<1> DEFINE after == ListedDir(wk, v, d)
<1>1. after.reads = (wk.reads \ {<<v, d>>})
                      \cup {<<v, c>> : c \in Subdirs[d]}
                      \cup {<<c, c>> : c \in Shown(v, d) \ wk.analyzed}
  BY DEF ListedDir
<1>2. after.analyzed = wk.analyzed \cup Shown(v, d)
  BY DEF ListedDir
<1>3. Subdirs[d] \subseteq Shown(v, d) /\ Shown(v, d) \subseteq Subdirs[d] \cup {d}
  BY DEF Shown
<1> HIDE DEF after
<1>4. \A r \in after.reads : r[1] # v /\ r \notin wk.reads => r[1] \in after.analyzed
  <2> SUFFICES ASSUME NEW r \in after.reads, r[1] # v, r \notin wk.reads
               PROVE  r[1] \in after.analyzed
    OBVIOUS
  <2>1. \A c : <<v, c>>[1] = v /\ <<c, c>>[1] = c
    OBVIOUS
  <2>2. \A c \in Subdirs[d] : r # <<v, c>>
    BY <2>1
  <2>3. PICK c \in Shown(v, d) : r = <<c, c>>
    BY <1>1, <2>2
  <2> QED BY <1>2, <2>1, <2>3
<1>5. \A r \in after.reads :
        \/ r \in wk.reads /\ r # <<v, d>>
        \/ \E c \in Subdirs[d] : r = <<v, c>>
        \/ \E c \in (Subdirs[d] \cup {d}) \ wk.analyzed : r = <<c, c>>
  BY <1>1, <1>3
<1>6. /\ \A r \in wk.reads : r # <<v, d>> => r \in after.reads
      /\ \A c \in Subdirs[d] : <<v, c>> \in after.reads
      /\ \A c \in Subdirs[d] \ wk.analyzed : <<c, c>> \in after.reads
  BY <1>1, <1>3
<1>7. wk.analyzed \subseteq after.analyzed /\ \A c \in Subdirs[d] : c \in after.analyzed
  BY <1>2, <1>3
<1> QED BY <1>4, <1>5, <1>6, <1>7 DEF after

LEMMA SkippedReads ==
  ASSUME NEW wk \in Walks, NEW v \in Dirs, NEW d \in Dirs
  PROVE  /\ SkippedDir(wk, v, d).reads = wk.reads \ {<<v, d>>}
         /\ SkippedDir(wk, v, d).analyzed = wk.analyzed
BY DEF SkippedDir, Walks

(***************************************************************************)
(* A walk ends: each read leaves fewer to come.                            *)
(***************************************************************************)
\* A directory is given a walker once, and what one walker still reads lies in
\* different subtrees.
OnePerWalker(wk) ==
  /\ \A r \in wk.reads : r[1] \in wk.analyzed
  /\ \A r, s \in wk.reads : r[1] = s[1] /\ r # s => Below[r[2]] \cap Below[s[2]] = {}

LEMMA NewWalkOnce == ASSUME NEW root PROVE OnePerWalker(NewWalk(root))
BY DEF OnePerWalker, NewWalk

\* What is new among the reads is v's, below d, or that of a walker not shown before.
LEMMA ListedOnce ==
  ASSUME NEW wk \in Walks, OnePerWalker(wk), NEW v \in Dirs, NEW d \in Dirs, <<v, d>> \in wk.reads
  PROVE  LET after == ListedDir(wk, v, d)
         IN  /\ v \in wk.analyzed /\ wk.analyzed \subseteq after.analyzed
             /\ \A r \in after.reads :
                  \/ r \in wk.reads /\ r # <<v, d>> /\ r[1] \in wk.analyzed
                  \/ r[1] = v /\ \E c \in Subdirs[d] : r[2] = c /\ r = <<v, c>>
                  \/ r[1] \notin wk.analyzed /\ r = <<r[1], r[1]>> /\ r[2] = r[1]
<1> DEFINE after == ListedDir(wk, v, d)
<1>1. v \in wk.analyzed
  <2>1. <<v, d>>[1] = v
    OBVIOUS
  <2> QED BY <2>1 DEF OnePerWalker
<1>2. /\ wk.analyzed \subseteq after.analyzed
      /\ \A r \in after.reads :
           \/ r \in wk.reads /\ r # <<v, d>>
           \/ \E c \in Subdirs[d] : r = <<v, c>>
           \/ \E c \in (Subdirs[d] \cup {d}) \ wk.analyzed : r = <<c, c>>
  BY ListedReads
<1> HIDE DEF after
<1>3. ASSUME NEW r \in after.reads
      PROVE  \/ r \in wk.reads /\ r # <<v, d>> /\ r[1] \in wk.analyzed
             \/ r[1] = v /\ \E c \in Subdirs[d] : r[2] = c /\ r = <<v, c>>
             \/ r[1] \notin wk.analyzed /\ r = <<r[1], r[1]>> /\ r[2] = r[1]
  BY <1>2 DEF OnePerWalker
<1> QED BY <1>1, <1>2, <1>3 DEF after

LEMMA ListedKeepsOne ==
  ASSUME NEW wk \in Walks, OnePerWalker(wk), NEW v \in Dirs, NEW d \in Dirs, <<v, d>> \in wk.reads
  PROVE  OnePerWalker(ListedDir(wk, v, d))
<1> DEFINE after == ListedDir(wk, v, d)
<1>1. /\ v \in wk.analyzed /\ wk.analyzed \subseteq after.analyzed
      /\ \A r \in after.reads :
           \/ r \in wk.reads /\ r # <<v, d>> /\ r[1] \in wk.analyzed
           \/ r[1] = v /\ \E c \in Subdirs[d] : r[2] = c /\ r = <<v, c>>
           \/ r[1] \notin wk.analyzed /\ r = <<r[1], r[1]>> /\ r[2] = r[1]
  BY ListedOnce
<1>2. \A r \in after.reads : r[1] \in after.analyzed
  <2>1. after.analyzed = wk.analyzed \cup Shown(v, d)
    BY DEF ListedDir
  <2>2. after.reads = (wk.reads \ {<<v, d>>})
                        \cup {<<v, c>> : c \in Subdirs[d]}
                        \cup {<<c, c>> : c \in Shown(v, d) \ wk.analyzed}
    BY DEF ListedDir
  <2> HIDE DEF after
  <2> QED BY <1>1, <2>1, <2>2 DEF OnePerWalker
<1> HIDE DEF after
<1>3. \A r, s \in wk.reads : r[1] = s[1] /\ r # s => Below[r[2]] \cap Below[s[2]] = {}
  BY DEF OnePerWalker
<1>4. ASSUME NEW r \in after.reads, NEW s \in after.reads, r[1] = s[1], r # s
      PROVE  Below[r[2]] \cap Below[s[2]] = {}
  <2>1. r[1] \in wk.analyzed
    <3>1. CASE r = <<r[1], r[1]>> /\ s = <<s[1], s[1]>>
      BY <1>4, <3>1
    <3>2. CASE ~(r[1] \notin wk.analyzed /\ r = <<r[1], r[1]>>)
      BY <1>1, <3>2
    <3>3. CASE ~(s[1] \notin wk.analyzed /\ s = <<s[1], s[1]>>)
      BY <1>1, <1>4, <3>3
    <3> QED BY <3>1, <3>2, <3>3
  <2>2. ASSUME NEW c \in Subdirs[d], NEW b \in Subdirs[d], r = <<v, c>>, s = <<v, b>>
        PROVE  Below[r[2]] \cap Below[s[2]] = {}
    <3>1. c # b /\ r[2] = c /\ s[2] = b
      BY <1>4, <2>2
    <3> QED BY <3>1, ForestAssumption
  <2>3. ASSUME NEW c \in Subdirs[d], NEW x \in wk.reads, x # <<v, d>>, x[1] = v
        PROVE  Below[c] \cap Below[x[2]] = {}
    <3>1. <<v, d>>[1] = v /\ <<v, d>>[2] = d
      OBVIOUS
    <3>2. Below[x[2]] \cap Below[d] = {}
      BY <1>3, <2>3, <3>1
    <3> QED BY <3>2, BelowStep
  <2>4. CASE r \in wk.reads /\ r # <<v, d>>
    <3>1. CASE s \in wk.reads
      BY <1>3, <1>4, <2>4, <3>1
    <3>2. CASE s[1] = v /\ \E c \in Subdirs[d] : s[2] = c
      BY <1>4, <2>3, <2>4, <3>2
    <3> QED BY <1>1, <1>4, <2>1, <3>1, <3>2
  <2>5. CASE r[1] = v /\ \E c \in Subdirs[d] : r[2] = c /\ r = <<v, c>>
    <3>1. CASE s \in wk.reads /\ s # <<v, d>>
      BY <1>4, <2>3, <2>5, <3>1
    <3>2. CASE \E c \in Subdirs[d] : s = <<v, c>>
      BY <2>2, <2>5, <3>2
    <3> QED BY <1>1, <1>4, <2>1, <3>1, <3>2
  <2> QED BY <1>1, <2>1, <2>4, <2>5
<1> QED BY <1>2, <1>4 DEF OnePerWalker, after

LEMMA SkippedKeepsOne ==
  ASSUME NEW wk \in Walks, OnePerWalker(wk), NEW v \in Dirs, NEW d \in Dirs
  PROVE  OnePerWalker(SkippedDir(wk, v, d))
BY SkippedReads DEF OnePerWalker

\* What is before the walk after v has listed d was before it already, and v's read
\* of d is not: v's other reads are elsewhere, and those that follow are below d.
LEMMA ListedNearer ==
  ASSUME NEW wk \in Walks, OnePerWalker(wk), NEW v \in Dirs, NEW d \in Dirs, <<v, d>> \in wk.reads
  PROVE  Nearer(wk, ListedDir(wk, v, d))
<1> DEFINE after == ListedDir(wk, v, d)
<1>1. /\ v \in wk.analyzed /\ wk.analyzed \subseteq after.analyzed
      /\ \A r \in after.reads :
           \/ r \in wk.reads /\ r # <<v, d>> /\ r[1] \in wk.analyzed
           \/ r[1] = v /\ \E c \in Subdirs[d] : r[2] = c /\ r = <<v, c>>
           \/ r[1] \notin wk.analyzed /\ r = <<r[1], r[1]>> /\ r[2] = r[1]
  BY ListedOnce
<1> HIDE DEF after
<1>2. /\ <<v, d>>[1] = v /\ <<v, d>>[2] = d /\ <<v, d>> \in Dirs \X Dirs /\ d \in Below[d]
      /\ \A c \in Subdirs[d] : Below[c] \subseteq Below[d] /\ d \notin Below[c]
  BY BelowStep, ForestAssumption
<1>3. ASSUME NEW s \in after.reads, NEW e \in Below[s[2]]
      PROVE  \/ s[1] \notin wk.analyzed /\ e \in Below[s[1]]
             \/ \E x \in wk.reads : x[1] = s[1] /\ e \in Below[x[2]]
  BY <1>1, <1>2, <1>3
<1>4. Ahead(after) \subseteq Ahead(wk)
  BY <1>1, <1>3 DEF Ahead
<1>5. <<v, d>> \in Ahead(wk)
  BY <1>2 DEF Ahead
<1>6. <<v, d>> \notin Ahead(after)
  <2>1. ASSUME NEW s \in after.reads, s[1] = v PROVE d \notin Below[s[2]]
    <3>1. CASE s \in wk.reads /\ s # <<v, d>>
      BY <1>2, <2>1, <3>1 DEF OnePerWalker
    <3>2. CASE \E c \in Subdirs[d] : s[2] = c
      BY <1>2, <3>2
    <3> QED BY <1>1, <2>1, <3>1, <3>2
  <2> QED BY <1>1, <1>2, <2>1 DEF Ahead
<1> QED BY <1>4, <1>5, <1>6 DEF Nearer, after

LEMMA SkippedNearer ==
  ASSUME NEW wk \in Walks, OnePerWalker(wk), NEW v \in Dirs, NEW d \in Dirs, <<v, d>> \in wk.reads
  PROVE  Nearer(wk, SkippedDir(wk, v, d))
<1> DEFINE after == SkippedDir(wk, v, d)
<1>1. after.reads = wk.reads \ {<<v, d>>} /\ after.analyzed = wk.analyzed
  BY SkippedReads
<1> HIDE DEF after
<1>2. <<v, d>>[1] = v /\ <<v, d>>[2] = d /\ <<v, d>> \in Dirs \X Dirs /\ d \in Below[d]
  BY BelowStep
<1>3. Ahead(after) \subseteq Ahead(wk) /\ <<v, d>> \in Ahead(wk)
  BY <1>1, <1>2 DEF Ahead
<1>4. \A s \in after.reads : s[1] = v => d \notin Below[s[2]]
  BY <1>1, <1>2 DEF OnePerWalker
<1>5. v \in after.analyzed
  BY <1>1, <1>2 DEF OnePerWalker
<1>6. <<v, d>> \notin Ahead(after)
  BY <1>2, <1>4, <1>5 DEF Ahead
<1> QED BY <1>3, <1>6 DEF Nearer, after
=============================================================================
