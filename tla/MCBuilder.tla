------------------------------ MODULE MCBuilder ------------------------------
(* Instances of Builder for the model checker.                             *)
EXTENDS Builder, TLC

(* A line on stdout.                                                        *)
OneLine == {<<1, 0>>}
=============================================================================
