----------------------------- MODULE MCPlatform -----------------------------
(* Instances of Platform for the model checker.                            *)
EXTENDS Platform, TLC

CONSTANTS k1, k2, w1, w2

(* One runner without a node, one that also has a list of its own, first.  *)
NodeFirst == (w1 :> <<k1>>) @@ (w2 :> <<k2, k1>>)

(* One runner on the list of its model.                                    *)
OneList == w1 :> <<k1>>

RunnerEvents == {Progressed, Completed, Failed}

Symmetry ==
  Permutations(Replicas) \cup Permutations(Jobs) \cup Permutations(Cancels)
    \cup Permutations(Reports) \cup Permutations(Gets) \cup Permutations(Streams)
=============================================================================
