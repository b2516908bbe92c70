---------------------------- MODULE FlushOutcome ----------------------------
(***************************************************************************)
(* What a successful flush promises.  FlushService with history variables  *)
(* that record, for every running job, whether anything but the job itself *)
(* has changed what is pending for its watcher, or one of the files it is  *)
(* to read or write, and what the files held when it was asked for.  What  *)
(* else happens, such as syncs and flushes of other watchers, is no        *)
(* disturbance.  No action of FlushService reads the variables.            *)
(***************************************************************************)
EXTENDS FlushService

VARIABLES
  alone,   \* per goroutine: undisturbed since its request came in
  before   \* per goroutine: store when its request came in

history == <<alone, before>>

\* q's handler made the step.
Moved(q) == <<pc'[q], job'[q]>> # <<pc[q], job[q]>>

\* What is pending for q's watcher, and every file that q's job is about.
Pending(q) == PendingFlushes(db, job[q].name)
Concerned(q) == Pending(q) \cup job[q].pending

Undisturbed(q) ==
  \/ Moved(q)
  \/ /\ UNCHANGED Pending(q)
     /\ \A pf \in Concerned(q) : UNCHANGED <<SourceOf(pf), Copied(pf)>>

OutcomeInit ==
  /\ Init
  /\ alone = [p \in Procs |-> TRUE]
  /\ before = [p \in Procs |-> store]

Record ==
  /\ alone' = [p \in Procs |-> pc'[p] = "idle" \/ (alone[p] /\ Undisturbed(p))]
  /\ before' = [p \in Procs |-> IF pc'[p] = "idle" THEN store'
                                ELSE IF alone[p] /\ Undisturbed(p) THEN before[p]
                                ELSE [m \in Machines |-> [path \in Paths |-> Absent]]]

OutcomeSpec == OutcomeInit /\ [][Next /\ Record]_<<vars, history>>

(***************************************************************************)
(* Properties                                                              *)
(***************************************************************************)
Succeeded(p) == pc[p] = "return" /\ job[p].ok

Delivered(p) ==
  /\ \A pf \in job[p].pending : Copied(pf) = before[p][pf.machine][pf.path]
  /\ Pending(p) = {}

\* No two of the files have one destination, and none is the destination of
\* another or its own.
Apart(pfs) ==
  \A pf, qf \in pfs :
    /\ pf # qf => Destination(pf) # Destination(qf)
    /\ ~(pf.targetMachine = qf.machine /\ Destination(pf) = qf.path)

\* README.md:185, "Copies pending (unflushed) tracked files to the watcher's
\* redirection target": an undisturbed flush that succeeds has copied every pending
\* file as it was and left none pending; one failed transfer, in whatever place of
\* the list, fails the flush.  Files of one name in different directories overwrite
\* each other, and a target inside the source empties what is copied onto itself:
\* destinations and sources must all be different files.
DeliversApart ==
  \A p \in Procs : Succeeded(p) /\ alone[p] /\ Apart(job[p].pending) => Delivered(p)
=============================================================================
