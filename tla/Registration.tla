----------------------------- MODULE Registration -----------------------------
(***************************************************************************)
(* Clients and server together: how a client gets its id and its           *)
(* configuration, across lost connections, restarts of either side and     *)
(* failed writes.                                                          *)
(***************************************************************************)
EXTENDS ClientConnect, ServerRegistry

vars == <<wireVars, clientVars, serverVars>>

Init == WireInit /\ ClientInit /\ ServerInit

(* A dial succeeds when the server accepts it. *)
ConnectTo(c, k) == Dial(c, k) /\ AcceptConn(k)

LoseLink(k) == Break(k) /\ UNCHANGED <<clientVars, serverVars>>

Next ==
  \/ \E c \in Clients : ClientStep(c) /\ UNCHANGED serverVars
  \/ \E c \in Clients, k \in Conns : ConnectTo(c, k)
  \/ ServerStep /\ UNCHANGED clientVars
  \/ \E k \in Conns : LoseLink(k)

Spec == Init /\ [][Next]_vars

-----------------------------------------------------------------------------
(* Fairness.  A goroutine that can run does run.  A goroutine that waits   *)
(* for inventory.mu gets it: sync.Mutex hands over to the longest waiter   *)
(* after a millisecond.  Starts, crashes, dials and losses of the network  *)
(* are not fair.                                                           *)

Fairness ==
  /\ \A c \in Clients : WF_vars(ClientProgress(c) /\ UNCHANGED serverVars)
  /\ \A k \in Conns : WF_vars(PlainStep(k) /\ UNCHANGED clientVars)
  /\ \A k \in Conns : SF_vars(LockingStep(k) /\ UNCHANGED clientVars)

FairSpec == Spec /\ Fairness

-----------------------------------------------------------------------------
(* What the registration promises. *)

(* Every variable has a value of its type.                                 *)
TypeOK == WireTypeOK /\ ClientTypeOK /\ ServerTypeOK

(* Connection k carries id i: on its way up, in its handler, or on its way *)
(* down.                                                                   *)
Carries(k, i) ==
  \/ \E n \in DOMAIN up[k] : up[k][n] = i
  \/ hid[k] = i
  \/ \E n \in DOMAIN down[k] : down[k][n].id = i

(* Client c has id i, or may come to have it: in memory, in its connection *)
(* file, or in any connection it dialed, abandoned ones included.          *)
Uses(c, i) ==
  \/ id[c] = i
  \/ file[c] = i
  \/ \E k \in Conns : peer[k] = c /\ Carries(k, i)

(* No two clients ever have the same id of this server, whatever           *)
(* connections are lost and whoever restarts in between, as long as the    *)
(* database is not removed (the draw of NewClient under inventory.mu).     *)
UniqueIdentity ==
  wipes = 0 =>
    \A c, d \in Clients, i \in Ids : Uses(c, i) /\ Uses(d, i) => c = d

(* No client ever gets hold of an id of this server that a crash of the    *)
(* server could still take back: it is in the database first (NewClient    *)
(* saves before serveClient answers).                                      *)
DurableIdentity ==
  wipes = 0 =>
    \A i \in Ids :
      /\ \A c \in Clients : i \in {id[c], file[c]} => db[i] # None
      /\ \A k \in Conns : \A n \in DOMAIN down[k] : down[k][n].id = i => db[i] # None

(* The inventory a serving server answers from has every saved client with *)
(* its saved configuration (LoadInventory, NewClient, AddClient).          *)
InventoryCoherent ==
  srv = "up" => \A i \in Ids : db[i] # None => inventory[i] = db[i]

(* The configuration a client works with is the one saved for its id, also *)
(* when the server restarted with other defaults in between.               *)
OwnConfiguration ==
  wipes = 0 =>
    \A c \in Clients :
      collect[c] # None => id[c] \in Ids /\ collect[c] = db[id[c]]

(* A client that has an id of this server keeps it until its process ends: *)
(* reconnects and server restarts never give it another (serveClient finds *)
(* it, Connect compares).                                                  *)
StableIdentity ==
  [][\A c \in Clients :
       wipes = 0 /\ id[c] \in Ids => id'[c] = id[c] \/ phase'[c] = "off"]_vars

-----------------------------------------------------------------------------
(* Why: the facts about connections, handlers and the lock from which the  *)
(* promises follow, strong enough to be preserved by every step.           *)

(* An end that nobody holds has nothing left to read, and the server holds *)
(* no end of a connection without a handler.                               *)
WireConsistent ==
  \A k \in Conns :
    /\ link[k] => held[k] = {"client", "server"}
    /\ "client" \notin held[k] => down[k] = <<>>
    /\ "server" \notin held[k] => up[k] = <<>>
    /\ hpc[k] = "idle" => "server" \notin held[k]

(* A client past its dial holds the end of a connection it dialed; one     *)
(* that is not running has no configuration.                               *)
ConnectionOwned ==
  \A c \in Clients :
    /\ conn[c] = None <=> phase[c] \in {"off", "connect"}
    /\ conn[c] \in Conns => peer[conn[c]] = c /\ "client" \in held[conn[c]]
    /\ phase[c] = "off" => collect[c] = None

(* Handlers run in a serving server only; the mutex is held by the one     *)
(* that registers; a handler has an id from the draw or the lookup on, and *)
(* the drawn one is not taken before it is registered.                     *)
HandlerConsistent ==
  \A k \in Conns :
    /\ srv # "up" => hpc[k] = "idle"
    /\ hpc[k] = "register" <=> mu = k
    /\ hid[k] = None <=> hpc[k] \in {"idle", "readId", "create"}
    /\ hid[k] # None => hconf[k] # None
    /\ hpc[k] = "register" => ~Taken(hid[k])
    /\ hpc[k] \in {"welcome", "serve"} => Taken(hid[k])

(* What a handler is about to send is what is saved, and so is what it has *)
(* sent.                                                                   *)
AnswersSaved ==
  \A k \in Conns :
    /\ hpc[k] \in {"welcome", "serve"} =>
         (db[hid[k]] # None => hconf[k] = db[hid[k]])
    /\ wipes = 0 => \A n \in DOMAIN down[k] :
         down[k][n].kind = "ClientConf" =>
           down[k][n].id # None /\ down[k][n].conf = db[down[k][n].id]

(* DurableIdentity, with the ids on their way to the server and those of   *)
(* the handlers.                                                           *)
DurableEverywhere ==
  wipes = 0 =>
    \A i \in Ids :
      /\ \A c \in Clients : i \in {id[c], file[c]} => db[i] # None
      /\ \A k \in Conns :
           /\ hpc[k] \in {"welcome", "serve"} /\ hid[k] = i => db[i] # None
           /\ \A n \in DOMAIN down[k] : down[k][n].id = i => db[i] # None
           /\ \A n \in DOMAIN up[k] : up[k][n] = i => db[i] # None

(* Together they are inductive.                                            *)
Invariant ==
  /\ TypeOK
  /\ WireConsistent /\ ConnectionOwned /\ HandlerConsistent
  /\ InventoryCoherent /\ AnswersSaved
  /\ \A i \in Ids : db[i] # None => bucket
  /\ DurableEverywhere
  /\ UniqueIdentity /\ OwnConfiguration

(* The handshake between client c and the handler of its connection k is   *)
(* at one point at both ends: the id is sent, read, and answered once; an  *)
(* id of this server is answered by itself.                                *)
Conversation(c, k) ==
  /\ phase[c] = "sendId" => hpc[k] \in {"idle", "readId"} /\ down[k] = <<>>
  /\ up[k] # <<>> =>
       phase[c] = "handshake" /\ hpc[k] = "readId" /\ up[k] = <<id[c]>>
  /\ down[k] # <<>> => hpc[k] \in {"idle", "serve"}
  /\ id[c] \in Ids =>
       hpc[k] \notin {"create", "register"} /\ hid[k] \in {None, id[c]}
  /\ \/ down[k] = <<>>
     \/ down[k] = <<EOT>> /\ id[c] \in Ids
     \/ \E i \in Ids, cf \in Confs :
          /\ down[k] = <<ClientConf(i, cf), EOT>>
          /\ hid[k] \in {None, i}
          /\ id[c] \in Ids => id[c] = i

(* Both ends of a handshake are at the same point of it, and a client that *)
(* is past it has an id of the server, through lost frames, abandoned      *)
(* connections and restarts (Connect, serveClient).                        *)
HandshakeInStep ==
  wipes = 0 =>
    \A c \in Clients :
      /\ phase[c] = "off" => id[c] = None
      /\ phase[c] \in {"sendId", "handshake"} => Conversation(c, conn[c])
      /\ phase[c] \in {"save", "write", "run"} => id[c] \in Ids

-----------------------------------------------------------------------------

IdsLeft == \E i \in Ids : ~Taken(i)

(* A client never waits for ever in the handshake loop: it is answered, or *)
(* its connection is lost and it finds out (serveClient, Connect).         *)
HandshakeEnds ==
  \A c \in Clients :
    phase[c] = "handshake" ~> (phase[c] # "handshake" \/ ~IdsLeft)

(* The handler of a lost connection ends and gives its connection back,    *)
(* whatever it was doing and whoever holds inventory.mu (serveClient).     *)
HandlerEnds ==
  \A k \in Conns :
    (hpc[k] # "idle" /\ ~link[k]) ~> (hpc[k] = "idle" \/ ~IdsLeft)

-----------------------------------------------------------------------------
(* The abstract registry: the ids in the database, in the memory of the    *)
(* clients and in their files.                                             *)

Registry == INSTANCE Identity WITH
  saved <- {i \in Ids : db[i] # None}, name <- id, disk <- file

(* While the database is not removed, all of the registration is a         *)
(* behaviour of the abstract registry (NewClient, serveClient, Connect and *)
(* Conn.Save together).                                                    *)
ImplementsIdentity == Registry!Spec

-----------------------------------------------------------------------------
(* What the documentation says and the code does not do. *)

(* A running client collects with the periods the server has for it        *)
(* (cmd/autofact/README.md:19; Connect takes them only with a new id).     *)
ConfigFromServer ==
  wipes = 0 => \A c \in Clients : started[c] => tickers[c] = db[id[c]]

(* An open database has its buckets (db/bolt_test.go:34-37, db/bolt.go:34; *)
(* Open looks at the existence of the file only).                          *)
OpenedDBHasBuckets == srv = "up" => bucket

(* A client that has saved its id sends it whenever it connects            *)
(* (cmd/autofact/README.md:26; Conn.Save truncates before it writes).      *)
SendsItsId ==
  \A c \in Clients :
    [](file[c] \in Ids => [](phase[c] = "sendId" => id[c] # None))

(* A new id is persisted (cmd/autofact/client.go:141; only main saves it,  *)
(* Reconnect does not): a client that has a file when it reconnects has    *)
(* its id there when the handshake is over.                                *)
ReconnectPersistsId ==
  [][\A c \in Clients :
       started[c] /\ phase[c] = "handshake" /\ phase'[c] = "run" /\ file[c] # None
         => file'[c] = id'[c]]_vars
=============================================================================
