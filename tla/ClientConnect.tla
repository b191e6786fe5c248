---------------------------- MODULE ClientConnect ----------------------------
(***************************************************************************)
(* The autofact client as the registration sees it: reading the connection *)
(* file at start, Connect with its bounded attempts, the handshake loop,   *)
(* Conn.Save, Reconnect after the connection is lost, and the end of the   *)
(* process at any point (cmd/autofact/main.go, cmd/autofact/client.go,     *)
(* conf/conf.go).                                                          *)
(***************************************************************************)
EXTENDS Wire

CONSTANTS
  ConnectTries,    \* calls of Connect that main makes before it gives up
  ReconnectTries   \* calls of Connect that Reconnect makes

ASSUME TriesAssumption == ConnectTries \in Nat \ {0} /\ ReconnectTries \in Nat \ {0}

VARIABLES
  phase,     \* where the client's main goroutine, then its Listen, is
  id,        \* Conn.ID in memory, None when empty
  file,      \* the id in autofact.json, None when Load cannot read one
  collect,   \* the Collect periods in memory, None when all are zero
  tickers,   \* the periods the collectors were started with
  started,   \* main has started its goroutines
  tries,     \* failed calls of Connect in the current loop
  conn       \* c.WS, None while there is none

clientVars == <<phase, id, file, collect, tickers, started, tries, conn>>

Phases == {"off", "connect", "sendId", "handshake", "save", "write", "run"}

ClientTypeOK ==
  /\ phase \in [Clients -> Phases]
  /\ id \in [Clients -> AllIds \cup {None}]
  /\ file \in [Clients -> AllIds \cup {None}]
  /\ collect \in [Clients -> Confs \cup {None}]
  /\ tickers \in [Clients -> Confs \cup {None}]
  /\ started \in [Clients -> BOOLEAN]
  /\ tries \in [Clients -> Nat]
  /\ conn \in [Clients -> Conns \cup {None}]

(* A client is new, or comes with the file of another server. *)
ClientInit ==
  /\ phase = [c \in Clients |-> "off"]
  /\ id = [c \in Clients |-> None]
  /\ file \in [Clients -> Foreign \cup {None}]
  /\ collect = [c \in Clients |-> None]
  /\ tickers = [c \in Clients |-> None]
  /\ started = [c \in Clients |-> FALSE]
  /\ tries = [c \in Clients |-> 0]
  /\ conn = [c \in Clients |-> None]

-----------------------------------------------------------------------------

(* The process starts: Conn.Load takes the id from the file, if it can. *)
Start(c) ==
  /\ phase[c] = "off"
  /\ phase' = [phase EXCEPT ![c] = "connect"]
  /\ id' = [id EXCEPT ![c] = file[c]]
  /\ UNCHANGED <<file, collect, tickers, started, tries, conn, wireVars>>

(* What the process held in memory is gone; the file stays. *)
Exit(c) ==
  /\ phase' = [phase EXCEPT ![c] = "off"]
  /\ id' = [id EXCEPT ![c] = None]
  /\ collect' = [collect EXCEPT ![c] = None]
  /\ tickers' = [tickers EXCEPT ![c] = None]
  /\ started' = [started EXCEPT ![c] = FALSE]
  /\ tries' = [tries EXCEPT ![c] = 0]
  /\ conn' = [conn EXCEPT ![c] = None]
  /\ UNCHANGED file

Limit(c) == IF started[c] THEN ReconnectTries ELSE ConnectTries

TryAgain(c) ==
  /\ phase' = [phase EXCEPT ![c] = "connect"]
  /\ tries' = [tries EXCEPT ![c] = @ + 1]
  /\ conn' = [conn EXCEPT ![c] = None]
  /\ UNCHANGED <<id, file, collect, tickers, started>>

(* Connect returned false: its caller tries again or ends the process. *)
ConnectFalse(c) ==
  \/ tries[c] + 1 < Limit(c) /\ TryAgain(c)
  \/ tries[c] + 1 >= Limit(c) /\ Exit(c)

(* The retry period passed before a dial succeeded.  A dial that fails     *)
(* within the period only sleeps and changes nothing.                      *)
DialTimeout(c) ==
  /\ phase[c] = "connect"
  /\ ConnectFalse(c)
  /\ UNCHANGED wireVars

Dial(c, k) ==
  /\ phase[c] = "connect"
  /\ OpenWire(c, k)
  /\ phase' = [phase EXCEPT ![c] = "sendId"]
  /\ conn' = [conn EXCEPT ![c] = k]
  /\ UNCHANGED <<id, file, collect, tickers, started, tries>>

SendId(c) ==
  /\ phase[c] = "sendId"
  /\ WriteUp(conn[c], id[c])
  /\ phase' = [phase EXCEPT ![c] = "handshake"]
  /\ UNCHANGED <<id, file, collect, tickers, started, tries, conn>>

(* The write of the id or a read of the handshake loop failed: close.      *)
HandshakeError(c) ==
  /\ phase[c] \in {"sendId", "handshake"}
  /\ ~link[conn[c]]
  /\ CloseClientEnd(conn[c])
  /\ ConnectFalse(c)

(* Mutant: a client that comes with an id keeps it. *)
TakeConfKeepId(c, m) ==
  IF m.id = id[c]
  THEN UNCHANGED <<id, collect>>
  ELSE /\ id' = [id EXCEPT ![c] = IF @ = None THEN m.id ELSE @]
       /\ collect' = [collect EXCEPT ![c] = m.conf]

(* A ClientConf frame: id and periods are taken only if the id is new.     *)
TakeConf(c, m) ==
  IF m.id = id[c]
  THEN UNCHANGED <<id, collect>>
  ELSE /\ id' = [id EXCEPT ![c] = m.id]
       /\ collect' = [collect EXCEPT ![c] = m.conf]

RecvConf(c) ==
  /\ phase[c] = "handshake"
  /\ down[conn[c]] # <<>>
  /\ LET m == Head(down[conn[c]])
     IN  m.kind = "ClientConf" /\ TakeConf(c, m)
  /\ ReadDown(conn[c])
  /\ UNCHANGED <<phase, file, tickers, started, tries, conn>>

(* EOT ends the handshake.  main goes on to save the connection file;      *)
(* Reconnect returns to Listen.                                            *)
RecvEOT(c) ==
  /\ phase[c] = "handshake"
  /\ down[conn[c]] # <<>>
  /\ Head(down[conn[c]]).kind = "EOT"
  /\ ReadDown(conn[c])
  /\ phase' = [phase EXCEPT ![c] = IF started[c] THEN "run" ELSE "save"]
  /\ tries' = [tries EXCEPT ![c] = 0]
  /\ UNCHANGED <<id, file, collect, tickers, started, conn>>

-----------------------------------------------------------------------------

(* main starts the goroutines; each collector reads its period once. *)
StartCollectors(c) ==
  /\ phase' = [phase EXCEPT ![c] = "run"]
  /\ started' = [started EXCEPT ![c] = TRUE]
  /\ tickers' = [tickers EXCEPT ![c] = collect[c]]
  /\ UNCHANGED <<id, collect, tries, conn, wireVars>>

(* Conn.Save opens the file with O_TRUNC: until the write it is empty.     *)
SaveTruncate(c) ==
  /\ phase[c] = "save"
  /\ file' = [file EXCEPT ![c] = None]
  /\ phase' = [phase EXCEPT ![c] = "write"]
  /\ UNCHANGED <<id, collect, tickers, started, tries, conn, wireVars>>

SaveWrite(c) ==
  /\ phase[c] = "write"
  /\ file' = [file EXCEPT ![c] = id[c]]
  /\ StartCollectors(c)

(* An error of Save is logged and the client goes on. *)
SaveError(c) ==
  /\ phase[c] \in {"save", "write"}
  /\ UNCHANGED file
  /\ StartCollectors(c)

-----------------------------------------------------------------------------

(* Listen gets a close error and reconnects. *)
Reconnect(c) ==
  /\ phase[c] = "run"
  /\ ~link[conn[c]]
  /\ CloseClientEnd(conn[c])
  /\ phase' = [phase EXCEPT ![c] = "connect"]
  /\ conn' = [conn EXCEPT ![c] = None]
  /\ UNCHANGED <<id, file, collect, tickers, started, tries>>

(* Listen gets any other error and returns, which ends main. *)
ListenReturns(c) ==
  /\ phase[c] = "run"
  /\ ~link[conn[c]]
  /\ CloseClientEnd(conn[c])
  /\ Exit(c)

(* A signal, a crash or a power failure, anywhere. *)
Stop(c) ==
  /\ phase[c] # "off"
  /\ IF conn[c] = None THEN UNCHANGED wireVars ELSE CloseClientEnd(conn[c])
  /\ Exit(c)

ClientProgress(c) ==
  \/ SendId(c) \/ HandshakeError(c) \/ RecvConf(c) \/ RecvEOT(c)
  \/ SaveTruncate(c) \/ SaveWrite(c) \/ SaveError(c)

ClientStep(c) ==
  \/ ClientProgress(c)
  \/ Start(c) \/ DialTimeout(c)
  \/ Reconnect(c) \/ ListenReturns(c) \/ Stop(c)
=============================================================================
