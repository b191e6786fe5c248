------------------------------- MODULE MCAgent -------------------------------
(* The client's goroutines on small bounds, for TLC. *)
EXTENDS Agent, TLC

(* No action tells two collectors apart. *)
Symmetry == Permutations(Collectors)
=============================================================================
