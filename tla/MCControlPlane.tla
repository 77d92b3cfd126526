--------------------------- MODULE MCControlPlane ---------------------------
(* Two runs and one editor meet on one node; one model has a service.      *)
EXTENDS ControlPlane

(* The node is not followed beyond the step that makes it stale: it stays  *)
(* so, and nothing but its type is claimed of it from there.               *)
UntilStale == \E n \in Nodes : ~stale[n]
=============================================================================
