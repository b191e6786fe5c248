-------------------------------- MODULE Pipe --------------------------------
(***************************************************************************)
(* What each half of autofact promises for the data it carries, without    *)
(* goroutines, channels or connections: messages of a source go in one end *)
(* of a pipe and come out of the other in the same order, each at most     *)
(* once, and only while the pipe is cut may some of them vanish inside.    *)
(*                                                                         *)
(* Agent implements it from the collectors to the websocket, Session from  *)
(* the websocket to the output.                                            *)
(***************************************************************************)
EXTENDS Naturals

CONSTANT Sources

VARIABLES
  made,    \* made[k]: messages of source k so far, which number them
  inside,  \* inside[k]: the numbers of those that are in the pipe
  out,     \* out[k]: of those that came out
  open     \* open[k]: the pipe of source k is not cut

vars == <<made, inside, out, open>>

Init ==
  /\ made = [k \in Sources |-> 0]
  /\ inside = [k \in Sources |-> {}]
  /\ out = [k \in Sources |-> {}]
  /\ open \in [Sources -> BOOLEAN]

Accept(k) ==
  /\ made' = [made EXCEPT ![k] = @ + 1]
  /\ inside' = [inside EXCEPT ![k] = @ \cup {made[k] + 1}]
  /\ UNCHANGED <<out, open>>

(* The oldest comes out, one at a time. *)
Deliver(k) ==
  \E n \in inside[k] :
    /\ \A m \in inside[k] : n <= m
    /\ out' = [out EXCEPT ![k] = @ \cup {n}]
    /\ inside' = [inside EXCEPT ![k] = @ \ {n}]
    /\ UNCHANGED <<made, open>>

(* None that stays is between two of them. *)
Neighbours(lost, all) ==
  \A a, b \in lost : \A n \in all : a < n /\ n < b => n \in lost

(* A pipe that is cut, or being cut, drops neighbouring messages. *)
Lose(k) ==
  /\ open' \in [Sources -> BOOLEAN] /\ ~open'[k]
  /\ \E lost \in SUBSET inside[k] :
       /\ Neighbours(lost, inside[k])
       /\ inside' = [inside EXCEPT ![k] = @ \ lost]
  /\ UNCHANGED <<made, out>>

Cut ==
  /\ open' \in [Sources -> BOOLEAN]
  /\ UNCHANGED <<made, inside, out>>

Next == Cut \/ \E k \in Sources : Accept(k) \/ Deliver(k) \/ Lose(k)

Spec == Init /\ [][Next]_vars
=============================================================================
