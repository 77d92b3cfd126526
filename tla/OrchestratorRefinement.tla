----------------------- MODULE OrchestratorRefinement -----------------------
(***************************************************************************)
(* The table of the process that takes a submission implements             *)
(* JobLifecycle for that job, over restarts and beside other replicas:     *)
(* status and log lines of the record are the abstract job; rows, lists,   *)
(* channels, handlers and the tables of other lives are not visible.       *)
(***************************************************************************)
EXTENDS Orchestrator

(* The record that create_job made, for as long as its process lives.      *)
Known(j) == proc[j] # None /\ Own(proc[j], j)

TableStatus(j) ==
  IF Known(j) THEN mem[proc[j]][j].status
  ELSE IF pc[j] \in {"idle", "insert"} THEN "ABSENT" ELSE "FORGOTTEN"

TableLines(j) == IF Known(j) THEN mem[proc[j]][j].lines ELSE {}

Life == INSTANCE JobLifecycle WITH
  status    <- [j \in Jobs |-> TableStatus(j)],
  reported  <- [j \in Jobs |-> TableLines(j) \cap Reports],
  cancelled <- [j \in Jobs |-> TableLines(j) \cap Cancels]

(* Every step of the service is a step of the abstract jobs, or invisible. *)
TableIsLifecycle == Life!LifecycleSpec
=============================================================================
