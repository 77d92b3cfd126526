---------------------------- MODULE MCAdmission ----------------------------
(* Two models with the same last part of their name, of which y has been   *)
(* served for a while; two submissions.                                    *)
EXTENDS Admission, TLC

CONSTANTS x, y, v0

Named == [m \in {x, y} |-> "model"]
Served == [m \in {x, y} |-> IF m = y THEN v0 ELSE None]

Symmetry == Permutations(Versions \ {v0}) \cup Permutations(Submissions)
=============================================================================
