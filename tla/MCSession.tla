------------------------------ MODULE MCSession ------------------------------
(* The server's sessions on small bounds, for TLC. *)
EXTENDS Session, TLC

(* No healthbeat, and the period that ends the server. *)
SomePeriods == {-1, 0}

(* No action tells two sessions apart. *)
Symmetry == Permutations(Sessions)
=============================================================================
