----------------------------- MODULE MCDelivery -----------------------------
(* A client and its server together on small bounds, for TLC. *)
EXTENDS Delivery
=============================================================================
