---------------------------- MODULE ServerRegistry ----------------------------
(***************************************************************************)
(* The registration half of the autofactory server: opening the bolt       *)
(* database and loading the inventory at start (cmd/autofactory/main.go,   *)
(* db/bolt.go), and one serveClient goroutine per connection up to the end *)
(* of the handshake (cmd/autofactory/conn.go, server.go, inventory.go).    *)
(*                                                                         *)
(* The handlers run concurrently.  They share the inventory, guarded by    *)
(* its mutex; NewClient holds the mutex across the write to the database.  *)
(***************************************************************************)
EXTENDS Wire

CONSTANT MaxWipes   \* how often an operator removes the database file

ASSUME MaxWipesAssumption == MaxWipes \in Nat

VARIABLES
  srv,        \* where realMain is; "up" once it serves
  dbFile,     \* the bolt file exists
  bucket,     \* the file holds the client bucket
  db,         \* the client bucket: id -> saved configuration
  inventory,  \* inventory.clients: id -> configuration
  defaults,   \* server.Collect: the configuration a new client gets
  mu,         \* the handler that holds inventory.mu
  hpc,        \* hpc[k]: where the handler of connection k is
  hid,        \* the id of its Client
  hconf,      \* the configuration of its Client
  wipes       \* database files removed so far

serverVars == <<srv, dbFile, bucket, db, inventory, defaults, mu, hpc, hid, hconf, wipes>>
storeVars == <<dbFile, bucket, db, wipes>>

NoClients == [i \in Ids |-> None]
ServerPhases == {"down", "buckets", "load", "up"}
HandlerPhases == {"idle", "readId", "create", "register", "welcome", "serve"}

ServerTypeOK ==
  /\ srv \in ServerPhases
  /\ dbFile \in BOOLEAN /\ bucket \in BOOLEAN
  /\ db \in [Ids -> Confs \cup {None}]
  /\ inventory \in [Ids -> Confs \cup {None}]
  /\ defaults \in Confs
  /\ mu \in Conns \cup {None}
  /\ hpc \in [Conns -> HandlerPhases]
  /\ hid \in [Conns -> Ids \cup {None}]
  /\ hconf \in [Conns -> Confs \cup {None}]
  /\ wipes \in Nat

ServerInit ==
  /\ srv = "down"
  /\ dbFile = FALSE /\ bucket = FALSE
  /\ db = NoClients /\ inventory = NoClients
  /\ defaults \in Confs
  /\ mu = None
  /\ hpc = [k \in Conns |-> "idle"]
  /\ hid = [k \in Conns |-> None]
  /\ hconf = [k \in Conns |-> None]
  /\ wipes = 0

-----------------------------------------------------------------------------
(* Start and end of the process. *)

(* Bolt.Open decides by the existence of the file whether the buckets have *)
(* to be created.  The defaults come from a file the operator may edit.    *)
OpenDB ==
  /\ srv = "down"
  /\ defaults' \in Confs
  /\ dbFile' = TRUE
  /\ srv' = IF dbFile THEN "load" ELSE "buckets"
  /\ UNCHANGED <<bucket, db, inventory, mu, hpc, hid, hconf, wipes, wireVars>>

MakeBuckets ==
  /\ srv = "buckets"
  /\ bucket' = TRUE
  /\ srv' = "load"
  /\ UNCHANGED <<dbFile, db, inventory, defaults, mu, hpc, hid, hconf, wipes, wireVars>>

(* Mutant: nothing is loaded. *)
NothingSaved == NoClients

(* What Bolt.Clients returns; without the bucket it is an error. *)
SavedClients == IF bucket THEN db ELSE NoClients

(* realMain ignores the error of LoadInventory and serves. *)
LoadInventory ==
  /\ srv = "load"
  /\ inventory' = SavedClients
  /\ srv' = "up"
  /\ UNCHANGED <<storeVars, defaults, mu, hpc, hid, hconf, wireVars>>

(* A signal, a crash or a power failure: only the file survives. *)
ServerCrash ==
  /\ srv # "down"
  /\ srv' = "down"
  /\ inventory' = NoClients
  /\ mu' = None
  /\ hpc' = [k \in Conns |-> "idle"]
  /\ hid' = [k \in Conns |-> None]
  /\ hconf' = [k \in Conns |-> None]
  /\ CloseAllServerEnds
  /\ UNCHANGED <<storeVars, defaults>>

(* The operator removes the database file of a stopped server. *)
WipeDB ==
  /\ srv = "down" /\ dbFile
  /\ wipes < MaxWipes
  /\ wipes' = wipes + 1
  /\ dbFile' = FALSE /\ bucket' = FALSE
  /\ db' = NoClients
  /\ UNCHANGED <<srv, inventory, defaults, mu, hpc, hid, hconf, wireVars>>

-----------------------------------------------------------------------------
(* serveClient, one goroutine per connection. *)

(* Upgrade succeeded: the handler waits for the id. *)
AcceptConn(k) ==
  /\ srv = "up"
  /\ hpc[k] = "idle"
  /\ hpc' = [hpc EXCEPT ![k] = "readId"]
  /\ UNCHANGED <<srv, storeVars, inventory, defaults, mu, hid, hconf>>

LockFree == mu = None

(* Mutant: the inventory is never found to have a client. *)
LookupMisses(i) == None

(* inventory.Client: the configuration of an id, None when there is none. *)
Lookup(i) == IF i \in Ids THEN inventory[i] ELSE None

HasHello(k) == hpc[k] = "readId" /\ up[k] # <<>>

(* An empty id: NewClient, without a look at the inventory. *)
NewcomerHello(k) ==
  /\ HasHello(k) /\ Head(up[k]) = None
  /\ ReadUp(k)
  /\ hpc' = [hpc EXCEPT ![k] = "create"]
  /\ UNCHANGED <<srv, storeVars, inventory, defaults, mu, hid, hconf>>

KnownHello(k) ==
  /\ HasHello(k) /\ Head(up[k]) # None
  /\ LockFree
  /\ Lookup(Head(up[k])) # None
  /\ ReadUp(k)
  /\ hpc' = [hpc EXCEPT ![k] = "welcome"]
  /\ hid' = [hid EXCEPT ![k] = Head(up[k])]
  /\ hconf' = [hconf EXCEPT ![k] = Lookup(Head(up[k]))]
  /\ UNCHANGED <<srv, storeVars, inventory, defaults, mu>>

UnknownHello(k) ==
  /\ HasHello(k) /\ Head(up[k]) # None
  /\ LockFree
  /\ Lookup(Head(up[k])) = None
  /\ ReadUp(k)
  /\ hpc' = [hpc EXCEPT ![k] = "create"]
  /\ UNCHANGED <<srv, storeVars, inventory, defaults, mu, hid, hconf>>

(* NewClient takes the mutex and draws ids until one is not taken.         *)
TakenNever(i) == FALSE  \* mutant: the draw is not checked
Taken(i) == inventory[i] # None

PickId(k) ==
  /\ hpc[k] = "create"
  /\ LockFree
  /\ \E i \in Ids :
       /\ ~Taken(i)
       /\ hid' = [hid EXCEPT ![k] = i]
  /\ hconf' = [hconf EXCEPT ![k] = defaults]
  /\ mu' = k
  /\ hpc' = [hpc EXCEPT ![k] = "register"]
  /\ UNCHANGED <<srv, storeVars, inventory, defaults, wireVars>>

(* AddClient, and the same assignment under NewClient's own lock. *)
AddClient(k) == inventory' = [inventory EXCEPT ![hid[k]] = hconf[k]]

PersistNothing(k) == db' = db  \* mutant: the client is not saved

(* SaveClient, when its transaction commits. *)
Persist(k) == db' = [db EXCEPT ![hid[k]] = hconf[k]]

UnlockForgotten == mu' = mu  \* mutant: the mutex is not released
Unlock == mu' = None

(* The Client goes into the inventory and into the database; the deferred  *)
(* Unlock comes after both.                                                *)
Register(k) ==
  /\ hpc[k] = "register"
  /\ bucket
  /\ AddClient(k)
  /\ Persist(k)
  /\ Unlock
  /\ hpc' = [hpc EXCEPT ![k] = "welcome"]
  /\ UNCHANGED <<srv, dbFile, bucket, wipes, defaults, hid, hconf, wireVars>>

(* The handler returns, or panics and net/http recovers it: the deferred   *)
(* Close runs.                                                             *)
EndHandler(k) ==
  /\ hpc' = [hpc EXCEPT ![k] = "idle"]
  /\ hid' = [hid EXCEPT ![k] = None]
  /\ hconf' = [hconf EXCEPT ![k] = None]
  /\ CloseServerEnd(k)

(* SaveClient fails: the transaction does, or Put panics on the bucket     *)
(* that is not there.  The entry of the inventory stays.                   *)
RegisterFails(k) ==
  /\ hpc[k] = "register"
  /\ AddClient(k)
  /\ Unlock
  /\ EndHandler(k)
  /\ UNCHANGED <<srv, storeVars, defaults>>

AnswerWithoutEOT(k) == <<ClientConf(hid[k], hconf[k])>>  \* mutant
Answer(k) == <<ClientConf(hid[k], hconf[k]), EOT>>

(* AddClient, then the ClientConf and the EOT frame.  A failed write is    *)
(* only logged.                                                            *)
Welcome(k) ==
  /\ hpc[k] = "welcome"
  /\ LockFree
  /\ AddClient(k)
  /\ WriteDown(k, Answer(k))
  /\ hpc' = [hpc EXCEPT ![k] = "serve"]
  /\ UNCHANGED <<srv, storeVars, defaults, mu, hid, hconf>>

(* The read of the id fails. *)
ReadFails(k) ==
  /\ hpc[k] = "readId"
  /\ ~link[k]
  /\ EndHandler(k)
  /\ UNCHANGED <<srv, storeVars, inventory, defaults, mu>>

(* Listen's read fails, doneCh closes, serveClient returns. *)
EndSession(k) ==
  /\ hpc[k] = "serve"
  /\ ~link[k]
  /\ EndHandler(k)
  /\ UNCHANGED <<srv, storeVars, inventory, defaults, mu>>

(* The steps of a handler that wait for the mutex, and the others. *)
LockingStep(k) == KnownHello(k) \/ UnknownHello(k) \/ PickId(k) \/ Welcome(k)

PlainStep(k) ==
  \/ NewcomerHello(k) \/ Register(k) \/ RegisterFails(k)
  \/ ReadFails(k) \/ EndSession(k)

ServerStep ==
  \/ OpenDB \/ MakeBuckets \/ LoadInventory \/ ServerCrash \/ WipeDB
  \/ \E k \in Conns : LockingStep(k) \/ PlainStep(k)
=============================================================================
