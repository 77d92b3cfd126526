---------------------------- MODULE JobLifecycle ----------------------------
(***************************************************************************)
(* What the orchestrator process that takes a submission promises of the   *)
(* job (JobStatus and the mutators of orchestrator/src/state.rs), with no  *)
(* table, row, channel or handler in sight: while it lives, a job is       *)
(* submitted once, can be cancelled once and only while it waits, never    *)
(* waits again once it left the queue, and forgets no report.  It does not *)
(* promise that an outcome is final: a report moves the job whatever its   *)
(* status.                                                                 *)
(***************************************************************************)
CONSTANTS Jobs, Cancels, Reports

VARIABLES
  status,    \* of each job, "ABSENT" before its submission
             \* and "FORGOTTEN" after the process or its submission died
  reported,  \* the runner reports each job has absorbed
  cancelled  \* the cancellations each job has granted

lifecycleVars == <<status, reported, cancelled>>

LifecycleInit ==
  /\ status = [j \in Jobs |-> "ABSENT"]
  /\ reported = [j \in Jobs |-> {}]
  /\ cancelled = [j \in Jobs |-> {}]

Submit(j) ==
  /\ status[j] = "ABSENT"
  /\ status' = [status EXCEPT ![j] = "IN_QUEUE"]
  /\ UNCHANGED <<reported, cancelled>>

(* A report of progress or of an outcome, or a log line that leaves the    *)
(* status alone.                                                           *)
Report(j, q, s) ==
  /\ status[j] \notin {"ABSENT", "FORGOTTEN"}
  /\ s \in {"IN_PROGRESS", "COMPLETED", "ERROR", status[j]}
  /\ status' = [status EXCEPT ![j] = s]
  /\ reported' = [reported EXCEPT ![j] = @ \cup {q}]
  /\ UNCHANGED cancelled

Cancel(j, q) ==
  /\ status[j] = "IN_QUEUE"
  /\ status' = [status EXCEPT ![j] = "CANCELED"]
  /\ cancelled' = [cancelled EXCEPT ![j] = @ \cup {q}]
  /\ UNCHANGED reported

(* The process dies with all it knew, or a submission before it was taken. *)
Forget(S) ==
  /\ status' = [j \in Jobs |-> IF j \in S THEN "FORGOTTEN" ELSE status[j]]
  /\ reported' = [j \in Jobs |-> IF j \in S THEN {} ELSE reported[j]]
  /\ cancelled' = [j \in Jobs |-> IF j \in S THEN {} ELSE cancelled[j]]

LifecycleNext ==
  \/ \E S \in SUBSET Jobs : Forget(S)
  \/ \E j \in Jobs :
       \/ Submit(j)
       \/ \E q \in Reports, s \in {"IN_QUEUE", "IN_PROGRESS", "COMPLETED", "ERROR", "CANCELED"} :
            Report(j, q, s)
       \/ \E q \in Cancels : Cancel(j, q)

LifecycleSpec == LifecycleInit /\ [][LifecycleNext]_lifecycleVars
=============================================================================
