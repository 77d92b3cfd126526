--------------------------- MODULE MCOrchestrator ---------------------------
(* Instances of Orchestrator for the model checker.                        *)
EXTENDS OrchestratorRefinement, TLC

(* One of each: progress, a log line, an outcome.                          *)
SomeEvents ==
  {[kind |-> "IN_PROGRESS", hasResult |-> FALSE], [kind |-> "LOG", hasResult |-> FALSE],
   [kind |-> "COMPLETED", hasResult |-> TRUE]}

(* A line that leaves the status alone, and one that does not.             *)
TwoEvents ==
  {[kind |-> "LOG", hasResult |-> FALSE], [kind |-> "COMPLETED", hasResult |-> TRUE]}

(* Requests to one endpoint differ in nothing but their name.              *)
Symmetry ==
  Permutations(Jobs) \cup Permutations(Cancels) \cup Permutations(Reports)
    \cup Permutations(Gets) \cup Permutations(Streams)
=============================================================================
