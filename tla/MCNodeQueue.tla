---------------------------- MODULE MCNodeQueue ----------------------------
(* A job for a node, or for none, between two workers of the node, one     *)
(* without a node and a Go consumer.                                       *)
EXTENDS NodeQueue
=============================================================================
