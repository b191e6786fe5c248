---------------------------- MODULE MCRegistration ----------------------------
(* Registration on small sets of model values, for TLC. *)
EXTENDS Registration, TLC

(* Ids and configurations are interchangeable, and so are connections and  *)
(* clients: no action tells two members of one of these sets apart.        *)
Symmetry ==
  Permutations(Clients) \cup Permutations(Conns) \cup
  Permutations(Ids) \cup Permutations(Confs)
=============================================================================
