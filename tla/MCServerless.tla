---------------------------- MODULE MCServerless ----------------------------
(* The start of both programs and the serverless client on small bounds. *)
EXTENDS Serverless, TLC

(* Not collected, a period of the operator's own, and one no ticker takes. *)
SomePeriods == {-1, 0, 2}

Symmetry == Permutations(Kinds)
=============================================================================
