--------------------------- MODULE DirectoryScan ---------------------------
(***************************************************************************)
(* What a sync may rely on when it reads a source directory that changes   *)
(* meanwhile: one answer, the set "result", given when the scan is done.   *)
(* It holds only files that were there at some instant of the scan, and,   *)
(* unless a read failed, every file that was there all along.              *)
(***************************************************************************)
CONSTANTS
  Files,   \* the files that may be in the directory
  Inside   \* those below the scanned source that no rule ignores

VARIABLES
  disk,     \* the files that exist
  present,  \* those that existed at some instant of the scan
  absent,   \* those that were missing at some instant of the scan
  faulty,   \* some read has failed
  done, result

scanVars == <<disk, present, absent, faulty, done, result>>

ScanInit ==
  /\ disk \in SUBSET Files
  /\ present = disk /\ absent = Files \ disk
  /\ faulty = FALSE /\ done = FALSE /\ result = {}

\* The owner of the directory creates or deletes a file.
ScanChange(f) ==
  /\ disk' = IF f \in disk THEN disk \ {f} ELSE disk \cup {f}
  /\ IF done THEN UNCHANGED <<present, absent>>
             ELSE present' = present \cup disk' /\ absent' = absent \cup (Files \ disk')
  /\ UNCHANGED <<faulty, done, result>>

ScanFault ==
  ~done /\ faulty' = TRUE /\ UNCHANGED <<disk, present, absent, done, result>>

ScanFinish ==
  /\ ~done /\ done'
  /\ faulty' \in {faulty, TRUE}
  /\ result' \in SUBSET (Inside \cap present)
  /\ ~faulty' => Inside \ absent \subseteq result'
  /\ UNCHANGED <<disk, present, absent>>

ScanNext == (\E f \in Files : ScanChange(f)) \/ ScanFault \/ ScanFinish

ScanSpec == ScanInit /\ [][ScanNext]_scanVars

\* The scan comes to an end.
ScanEnds == <>done
=============================================================================
