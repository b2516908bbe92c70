------------------------------ MODULE TreeWalk ------------------------------
(***************************************************************************)
(* One run of handleCurrentPaths over a source tree that other programs    *)
(* change while it is read and whose directories may fail to be read,      *)
(* shown to implement DirectoryScan.                                       *)
(***************************************************************************)
EXTENDS Walker, FiniteSets

CONSTANTS
  Root,      \* the source path
  Ignored    \* the files the loaded rules match

ASSUME TreeWalkAssumption == Root \in Dirs /\ Ignored \subseteq Files

VARIABLES
  disk,      \* the files that exist
  walk,      \* the traversal (module Walker)
  onDisk,    \* the files it has kept
  present, absent,  \* history: see DirectoryScan
  failures   \* history: the directory reads that failed

walkVars == <<disk, walk, onDisk, present, absent, failures>>

WalkTypeOK ==
  /\ disk \subseteq Files /\ onDisk \subseteq Files
  /\ present \subseteq Files /\ absent \subseteq Files
  /\ walk \in Walks
  /\ failures \subseteq Dirs \X Dirs

WalkInit ==
  /\ disk \in SUBSET Files
  /\ walk = NewWalk(Root)
  /\ onDisk = {}
  /\ present = disk /\ absent = Files \ disk
  /\ failures = {}

Read(v, d) ==
  /\ <<v, d>> \in walk.reads
  /\ walk' = ListedDir(walk, v, d)
  /\ onDisk' = onDisk \cup Kept(d, disk, Ignored)
  /\ UNCHANGED <<disk, present, absent, failures>>

FailRead(v, d) ==
  /\ <<v, d>> \in walk.reads
  /\ walk' = SkippedDir(walk, v, d)
  /\ failures' = failures \cup {<<v, d>>}
  /\ UNCHANGED <<disk, onDisk, present, absent>>

Change(f) ==
  /\ disk' = IF f \in disk THEN disk \ {f} ELSE disk \cup {f}
  /\ IF WalkOver(walk)
     THEN UNCHANGED <<present, absent>>
     ELSE present' = present \cup disk' /\ absent' = absent \cup (Files \ disk')
  /\ UNCHANGED <<walk, onDisk, failures>>

WalkStep == \E v, d \in Dirs : Read(v, d) \/ FailRead(v, d)

WalkNext == WalkStep \/ \E f \in Files : Change(f)

\* The loop of handleCurrentPaths runs on; its reads answer or fail.
WalkSpec == WalkInit /\ [][WalkNext]_walkVars /\ WF_walkVars(WalkStep)

Inside == Visible(Root, Files, Ignored)

Scan == INSTANCE DirectoryScan
          WITH faulty <- failures # {},
               done <- WalkOver(walk),
               result <- IF WalkOver(walk) THEN onDisk ELSE {}

(***************************************************************************)
(* Properties                                                              *)
(***************************************************************************)
\* The traversal implements the scan: it keeps nothing that was never there,
\* and misses nothing that always was unless a read failed.
ImplementsScan == Scan!ScanSpec

\* The queue drains: every directory is given a walker only once.
WalkEnds == Scan!ScanEnds

\* Whatever is created or deleted meanwhile, every read leaves fewer to come: the
\* walker that has listed or skipped a directory does not come to it again.
WalkAdvances == [][WalkStep => Nearer(walk, walk')]_walkVars

\* drainWalker queues a walker for each subdirectory although the parent's
\* walker descends into it as well.  That second read makes the walk survive any
\* one failed read but that of the source itself.
SurvivesOneFailure ==
  WalkOver(walk) /\ Cardinality(failures) = 1 /\ <<Root, Root>> \notin failures =>
    Inside \ absent \subseteq onDisk
=============================================================================
