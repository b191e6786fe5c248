-------------------------------- MODULE Wire --------------------------------
(***************************************************************************)
(* The websocket connections between the autofact clients and the          *)
(* autofactory server, as far as the registration handshake uses them.     *)
(* gorilla/websocket is not part of this repository: its connections are   *)
(* modelled from how cmd/autofact/client.go and cmd/autofactory/conn.go    *)
(* use them.                                                               *)
(*                                                                         *)
(* A connection has two ends.  Each direction delivers in order, a link    *)
(* can break at any moment, and whoever still holds an end of a broken     *)
(* link gets an error out of its next read, before or after it has read    *)
(* what already arrived.  An id frame is the bare id (a text message); the *)
(* server's frames are the flatbuffer messages of kind ClientConf and EOT. *)
(***************************************************************************)
EXTENDS Naturals, Sequences

CONSTANTS
  Clients,  \* machines that run the autofact client
  Conns,    \* connection slots: how many connections may coexist
  Ids,      \* the ids this server's randchars.AlphaNum can return
  Foreign,  \* ids handed out by another server or an earlier database
  Confs,    \* values of the collection periods (conf.Client)
  None      \* no id, no configuration, no connection, no client

ASSUME NoneAssumption == None \notin Clients \cup Conns \cup Ids \cup Foreign \cup Confs

(* Eight random characters: two servers hand out different ids. *)
ASSUME ForeignAssumption == Ids \cap Foreign = {}

AllIds == Ids \cup Foreign

VARIABLES
  peer,  \* peer[k]: the client that dialed connection k
  held,  \* held[k]: the ends of k that some process still holds
  link,  \* link[k]: frames still get through
  up,    \* up[k]: id frames on their way to the server
  down   \* down[k]: handshake frames on their way to the client

wireVars == <<peer, held, link, up, down>>

ClientConfSwapped(i, cf) == [kind |-> "ClientConf", id |-> cf, conf |-> i]  \* mutant
ClientConf(i, cf) == [kind |-> "ClientConf", id |-> i, conf |-> cf]
EOT == [kind |-> "EOT", id |-> None, conf |-> None]

Frames == [kind : {"ClientConf", "EOT"}, id : Ids \cup {None}, conf : Confs \cup {None}]

WireTypeOK ==
  /\ peer \in [Conns -> Clients \cup {None}]
  /\ held \in [Conns -> SUBSET {"client", "server"}]
  /\ link \in [Conns -> BOOLEAN]
  /\ up \in [Conns -> Seq(AllIds \cup {None})]
  /\ down \in [Conns -> Seq(Frames)]

WireInit ==
  /\ peer = [k \in Conns |-> None]
  /\ held = [k \in Conns |-> {}]
  /\ link = [k \in Conns |-> FALSE]
  /\ up = [k \in Conns |-> <<>>]
  /\ down = [k \in Conns |-> <<>>]

(* A dial that succeeds: a fresh connection, both ends held. *)
OpenWire(c, k) ==
  /\ held[k] = {}
  /\ peer' = [peer EXCEPT ![k] = c]
  /\ held' = [held EXCEPT ![k] = {"client", "server"}]
  /\ link' = [link EXCEPT ![k] = TRUE]
  /\ up' = [up EXCEPT ![k] = <<>>]
  /\ down' = [down EXCEPT ![k] = <<>>]

(* WS.Close, or the end of the process that holds the client end. *)
CloseClientEnd(k) ==
  /\ held' = [held EXCEPT ![k] = @ \ {"client"}]
  /\ link' = [link EXCEPT ![k] = FALSE]
  /\ down' = [down EXCEPT ![k] = <<>>]
  /\ UNCHANGED <<peer, up>>

(* The deferred conn.Close of serveClient. *)
CloseServerEnd(k) ==
  /\ held' = [held EXCEPT ![k] = @ \ {"server"}]
  /\ link' = [link EXCEPT ![k] = FALSE]
  /\ up' = [up EXCEPT ![k] = <<>>]
  /\ UNCHANGED <<peer, down>>

(* The end of the server process closes every server end. *)
CloseAllServerEnds ==
  /\ held' = [k \in Conns |-> held[k] \ {"server"}]
  /\ link' = [k \in Conns |-> FALSE]
  /\ up' = [k \in Conns |-> <<>>]
  /\ UNCHANGED <<peer, down>>

(* The network loses a connection; both ends find out when they read. *)
Break(k) ==
  /\ link[k]
  /\ link' = [link EXCEPT ![k] = FALSE]
  /\ UNCHANGED <<peer, held, up, down>>

(* A write on a broken link is lost; its error is at most logged. *)
WriteUp(k, i) ==
  /\ up' = IF link[k] THEN [up EXCEPT ![k] = Append(@, i)] ELSE up
  /\ UNCHANGED <<peer, held, link, down>>

WriteDown(k, fs) ==
  /\ down' = IF link[k] THEN [down EXCEPT ![k] = @ \o fs] ELSE down
  /\ UNCHANGED <<peer, held, link, up>>

ReadUp(k) ==
  /\ up' = [up EXCEPT ![k] = Tail(@)]
  /\ UNCHANGED <<peer, held, link, down>>

ReadDown(k) ==
  /\ down' = [down EXCEPT ![k] = Tail(@)]
  /\ UNCHANGED <<peer, held, link, up>>
=============================================================================
