------------------------------- MODULE Identity -------------------------------
(***************************************************************************)
(* What the registration is for, without connections, handlers, locks or   *)
(* retries: a registry of durable ids, and clients that adopt an id nobody *)
(* else has, write it down, forget what they did not write down, and come  *)
(* back under the same id.                                                 *)
(***************************************************************************)
CONSTANTS Clients, Ids, Foreign, None

VARIABLES
  saved,  \* ids the registry knows and never forgets
  name,   \* name[c]: the id client c goes by
  disk    \* disk[c]: the id it has written down

vars == <<saved, name, disk>>

Init ==
  /\ saved = {}
  /\ name = [c \in Clients |-> None]
  /\ disk \in [Clients -> Foreign \cup {None}]

Save(i) ==
  /\ i \notin saved
  /\ saved' = saved \cup {i}
  /\ UNCHANGED <<name, disk>>

(* Only a saved id, that no other client has, and never in place of        *)
(* another saved one.                                                      *)
Adopt(c, i) ==
  /\ i \in saved
  /\ name[c] \notin saved
  /\ \A d \in Clients \ {c} : i # name[d] /\ i # disk[d]
  /\ name' = [name EXCEPT ![c] = i]
  /\ UNCHANGED <<saved, disk>>

Record(c) ==
  /\ name[c] \in saved
  /\ disk' = [disk EXCEPT ![c] = name[c]]
  /\ UNCHANGED <<saved, name>>

Erase(c) ==
  /\ name[c] \in saved
  /\ disk' = [disk EXCEPT ![c] = None]
  /\ UNCHANGED <<saved, name>>

Forget(c) ==
  /\ name' = [name EXCEPT ![c] = None]
  /\ UNCHANGED <<saved, disk>>

Recall(c) ==
  /\ name[c] = None
  /\ name' = [name EXCEPT ![c] = disk[c]]
  /\ UNCHANGED <<saved, disk>>

Next ==
  \/ \E i \in Ids : Save(i)
  \/ \E c \in Clients, i \in Ids : Adopt(c, i)
  \/ \E c \in Clients : Record(c) \/ Erase(c) \/ Forget(c) \/ Recall(c)

Spec == Init /\ [][Next]_vars
=============================================================================
