------------------------------- MODULE Walker -------------------------------
(***************************************************************************)
(* The traversal of a source directory (handleCurrentPaths, drainWalker,   *)
(* enqueueSubdir and the kr/fs Walker they drive), as operators on a walk  *)
(* record.  A kr/fs walker descends by itself; drainWalker in addition     *)
(* gives every directory it is shown, unless already "analyzed", a walker  *)
(* of its own.  A directory at depth k below the source is therefore listed *)
(* k + 1 times, once by its own walker and once by each ancestor's.        *)
(*                                                                         *)
(* A pair <<v, d>> is a directory read that is still to be made: the walker *)
(* rooted at v is about to list d.  The order of the outer queue is        *)
(* abstracted: pending reads come in any order.                            *)
(***************************************************************************)
CONSTANTS
  Dirs,      \* the directories of the machines' file systems
  Files,     \* the regular files in them other than .tfwignore
  Subdirs,   \* Subdirs[d]: the directories directly in d
  DirOf      \* DirOf[f]: the directory that holds f

ASSUME WalkerAssumption ==
  /\ Subdirs \in [Dirs -> SUBSET Dirs]
  /\ DirOf \in [Files -> Dirs]

Walks == [reads : SUBSET (Dirs \X Dirs), analyzed : SUBSET Dirs]

NoWalk == [reads |-> {}, analyzed |-> {}]

NewWalk(root) == [reads |-> {<<root, root>>}, analyzed |-> {root}]

WalkOver(wk) == wk.reads = {}

\* The directories drainWalker is shown when v has listed d.  A walker's first
\* entry is its own root.
Shown(v, d) == Subdirs[d] \cup ({v} \cap {d})

\* Mutant: "analyzed" is not consulted.
ListedDirAgain(wk, v, d) ==
  [reads |-> (wk.reads \ {<<v, d>>})
               \cup {<<v, c>> : c \in Subdirs[d]} \cup {<<c, c>> : c \in Shown(v, d)},
   analyzed |-> wk.analyzed \cup Shown(v, d)]

\* Mutant: directories get no walker of their own.
ListedDirOnce(wk, v, d) ==
  [wk EXCEPT !.reads = (@ \ {<<v, d>>}) \cup {<<v, c>> : c \in Subdirs[d]}]

\* v's ReadDir of d succeeded: v descends into each subdirectory, and what is
\* shown for the first time is queued with a walker of its own.
ListedDir(wk, v, d) ==
  [reads |-> (wk.reads \ {<<v, d>>})
               \cup {<<v, c>> : c \in Subdirs[d]}
               \cup {<<c, c>> : c \in Shown(v, d) \ wk.analyzed},
   analyzed |-> wk.analyzed \cup Shown(v, d)]

\* v's ReadDir of d (or its Lstat, when v = d) failed: the error is logged, the
\* walk goes on, and v does not descend into d.
SkippedDir(wk, v, d) == [wk EXCEPT !.reads = @ \ {<<v, d>>}]

\* Mutant: a directory is handed to processFile as well.
KeptWithDirs(d, disk, rules) == {f \in disk \ rules : DirOf[f] = d} \cup Subdirs[d]

\* Mutant: the rules are not consulted.
KeptIgnored(d, disk, rules) == {f \in disk : DirOf[f] = d}

\* The entries of d that processFile keeps: the files there now that no rule
\* ignores.
Kept(d, disk, rules) == {f \in disk \ rules : DirOf[f] = d}

\* The directories at or below d.
Below[d \in Dirs] == {d} \cup UNION {Below[c] : c \in Subdirs[d]}

\* Directories form a forest: none is below itself, and none below two of its
\* siblings.  kr/fs takes a symbolic link for a file.
ASSUME ForestAssumption ==
  \A d \in Dirs : \A c \in Subdirs[d] :
    d \notin Below[c] /\ \A b \in Subdirs[d] \ {c} : Below[b] \cap Below[c] = {}

\* The reads that the walk may still make: those queued, what they descend to, and
\* all that a directory not shown yet would be given.
Ahead(wk) ==
  {r \in Dirs \X Dirs :
     \/ r[1] \notin wk.analyzed /\ r[2] \in Below[r[1]]
     \/ \E s \in wk.reads : s[1] = r[1] /\ r[2] \in Below[s[2]]}

\* The walk has fewer reads before it than it had.
Nearer(before, after) == Ahead(after) \subseteq Ahead(before) /\ Ahead(after) # Ahead(before)

\* What a walk of root sees when nothing changes and no read fails.
Visible(root, disk, rules) == {f \in disk \ rules : DirOf[f] \in Below[root]}
=============================================================================
