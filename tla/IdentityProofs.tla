---------------------------- MODULE IdentityProofs ----------------------------
(***************************************************************************)
(* Registration implements the abstract registry of ids, and a client      *)
(* keeps its id.  Both need HandshakeInStep (in Registration), which is    *)
(* inductive together with Invariant.                                      *)
(***************************************************************************)
EXTENDS RegistrationProofs

(* What HandshakeInStep says of one client.                                *)
InStep(c) ==
  /\ phase[c] = "off" => id[c] = None
  /\ phase[c] \in {"sendId", "handshake"} => Conversation(c, conn[c])
  /\ phase[c] \in {"save", "write", "run"} => id[c] \in Ids

(* What a step of somebody else leaves as it is.                           *)
SameClient(c) == phase'[c] = phase[c] /\ id'[c] = id[c] /\ conn'[c] = conn[c]

SameConnection(k) ==
  up'[k] = up[k] /\ down'[k] = down[k] /\ hpc'[k] = hpc[k] /\ hid'[k] = hid[k]

(* The handler of k is gone.                                               *)
HandlerGone(k) ==
  up'[k] = <<>> /\ down'[k] = down[k] /\ hpc'[k] = "idle" /\ hid'[k] = None

-----------------------------------------------------------------------------
(* Steps that leave a client alone. *)

(* A client whose connection is left alone stays in step, and so does one  *)
(* whose handler has ended.                                                *)
LEMMA LeftAlone ==
  ASSUME TypeOK, ConnectionOwned, NEW c \in Clients, InStep(c), SameClient(c),
         conn[c] \in Conns => SameConnection(conn[c]) \/ HandlerGone(conn[c])
  PROVE  InStep(c)'
<1>1. CASE phase[c] \in {"sendId", "handshake"}
  <2> DEFINE k == conn[c]
  <2>1. k \in Conns
    BY <1>1, PastDial, Connected
  <2>2. Conversation(c, k)
    BY <1>1 DEF InStep
  <2> HIDE DEF k
  <2>3. CASE SameConnection(k)
    <3>1. Conversation(c, k)'
      BY <2>2, <2>3 DEF Conversation, SameConnection, SameClient, k
    <3> QED  BY <1>1, <3>1 DEF InStep, SameClient, k
  <2>4. CASE HandlerGone(k)
    <3>1. Conversation(c, k)'
      BY <2>2, <2>4, NoneAssumption DEF Conversation, HandlerGone, SameClient, k
    <3> QED  BY <1>1, <3>1 DEF InStep, SameClient, k
  <2> QED  BY <2>1, <2>3, <2>4 DEF k
<1>2. CASE phase[c] \notin {"sendId", "handshake"}
  BY <1>2 DEF InStep, SameClient
<1> QED  BY <1>1, <1>2

(* What a client does, it does to itself and to its own connection.        *)
LEMMA ClientAlone ==
  ASSUME TypeOK, ConnectionOwned, NEW c \in Clients,
         ClientStep(c), UNCHANGED serverVars, NEW d \in Clients \ {c}
  PROVE  /\ SameClient(d)
         /\ conn[d] \in Conns => SameConnection(conn[d])
<1> USE NoneAssumption DEF TypeOK, ClientTypeOK, SameClient, SameConnection, serverVars
<1>0. /\ conn[c] # None => conn[c] \in Conns /\ (conn[d] \in Conns => conn[d] # conn[c])
      /\ phase[c] \notin {"off", "connect"} => conn[c] # None
  BY Connected, PastDial DEF ConnectionOwned
<1>1. ASSUME conn[c] \in Conns, conn[d] \in Conns
      PROVE  /\ CloseClientEnd(conn[c]) => up'[conn[d]] = up[conn[d]] /\ down'[conn[d]] = down[conn[d]]
             /\ WriteUp(conn[c], id[c]) => up'[conn[d]] = up[conn[d]] /\ down'[conn[d]] = down[conn[d]]
             /\ ReadDown(conn[c]) => up'[conn[d]] = up[conn[d]] /\ down'[conn[d]] = down[conn[d]]
  BY <1>0, <1>1 DEF WireTypeOK, CloseClientEnd, WriteUp, ReadDown
<1>2. Exit(c) \/ TryAgain(c) => SameClient(d)
  BY DEF Exit, TryAgain
<1>3. CASE SendId(c)
  BY <1>0, <1>1, <1>3 DEF SendId
<1>4. CASE HandshakeError(c)
  BY <1>0, <1>1, <1>2, <1>4 DEF HandshakeError, ConnectFalse
<1>5. CASE RecvConf(c)
  <2>1. SameClient(d)
    BY <1>5 DEF RecvConf, TakeConf
  <2> QED  BY <1>0, <1>1, <1>5, <2>1 DEF RecvConf
<1>6. CASE RecvEOT(c)
  BY <1>0, <1>1, <1>6 DEF RecvEOT
<1>7. CASE SaveTruncate(c) \/ SaveWrite(c) \/ SaveError(c) \/ Start(c)
  BY <1>7 DEF SaveTruncate, SaveWrite, SaveError, StartCollectors, Start, wireVars
<1>8. CASE DialTimeout(c)
  BY <1>2, <1>8 DEF DialTimeout, ConnectFalse, wireVars
<1>9. CASE Reconnect(c)
  BY <1>0, <1>1, <1>9 DEF Reconnect
<1>10. CASE ListenReturns(c)
  BY <1>0, <1>1, <1>2, <1>10 DEF ListenReturns
<1>11. CASE Stop(c)
  BY <1>0, <1>1, <1>2, <1>11 DEF Stop, wireVars
<1> QED  BY <1>3, <1>4, <1>5, <1>6, <1>7, <1>8, <1>9, <1>10, <1>11 DEF ClientStep, ClientProgress

-----------------------------------------------------------------------------
(* The steps of the client. *)

(* A client that gives up an attempt or its process is out of step with    *)
(* nobody.                                                                 *)
LEMMA GivingUp ==
  ASSUME TypeOK, NEW c \in Clients, TryAgain(c) \/ Exit(c)
  PROVE  InStep(c)'
  BY DEF TypeOK, ClientTypeOK, TryAgain, Exit, InStep

(* The frame at the head of the handshake is the ClientConf with the one   *)
(* id of the conversation, or the EOT that follows it.                     *)
LEMMA NextFrame ==
  ASSUME TypeOK, ConnectionOwned, NEW c \in Clients, InStep(c),
         phase[c] = "handshake", down[conn[c]] # <<>>
  PROVE  LET k == conn[c]
         IN  /\ k \in Conns /\ up[k] = <<>> /\ hpc[k] \in {"idle", "serve"}
             /\ \/ Head(down[k]) = EOT /\ Tail(down[k]) = <<>> /\ id[c] \in Ids
                \/ \E i \in Ids, cf \in Confs :
                     /\ Head(down[k]) = ClientConf(i, cf) /\ Tail(down[k]) = <<EOT>>
                     /\ hid[k] \in {None, i}
                     /\ id[c] \in Ids => id[c] = i
<1> DEFINE k == conn[c]
<1>1. k \in Conns
  BY PastDial, Connected
<1>2. Conversation(c, k)
  BY DEF InStep
<1> HIDE DEF k
<1>3. down[k] # <<>>
  BY DEF k
<1>4. hpc[k] \in {"idle", "serve"} /\ up[k] = <<>>
  BY <1>2, <1>3 DEF Conversation
<1>5. CASE down[k] = <<EOT>> /\ id[c] \in Ids
  BY <1>1, <1>4, <1>5 DEF k
<1>6. ASSUME NEW i \in Ids, NEW cf \in Confs, down[k] = <<ClientConf(i, cf), EOT>>,
             hid[k] \in {None, i}, id[c] \in Ids => id[c] = i
      PROVE  /\ Head(down[k]) = ClientConf(i, cf) /\ Tail(down[k]) = <<EOT>>
             /\ hid[k] \in {None, i}
             /\ id[c] \in Ids => id[c] = i
  BY <1>6
<1> QED  BY <1>1, <1>2, <1>3, <1>4, <1>5, <1>6 DEF Conversation, k

(* A client keeps in step with what it does itself.                        *)
LEMMA ClientInStep ==
  ASSUME TypeOK, WireConsistent, ConnectionOwned, HandlerConsistent,
         NEW c \in Clients, InStep(c), ClientStep(c), UNCHANGED serverVars
  PROVE  InStep(c)'
<1> USE NoneAssumption DEF TypeOK, ClientTypeOK, serverVars
<1>. PICK k : k = conn[c]
  OBVIOUS
<1>0. phase[c] \notin {"off", "connect"} => k \in Conns
  BY PastDial, Connected
<1>1. CASE SendId(c)
  <2>1. /\ phase[c] = "sendId" /\ k \in Conns /\ WriteUp(k, id[c])
        /\ phase'[c] = "handshake" /\ id'[c] = id[c] /\ conn'[c] = k
    BY <1>0, <1>1 DEF SendId
  <2>2. hpc[k] \in {"idle", "readId"} /\ down[k] = <<>> /\ up[k] = <<>>
    BY <2>1 DEF InStep, Conversation
  <2>3. link[k] => hpc[k] = "readId"
    BY <2>1, <2>2 DEF WireConsistent
  <2>4. hid[k] = None
    BY <2>1, <2>2 DEF HandlerConsistent
  <2>5. down'[k] = <<>> /\ up'[k] = IF link[k] THEN <<id[c]>> ELSE <<>>
    BY <2>1, <2>2 DEF WriteUp, WireTypeOK
  <2>6. hpc'[k] = hpc[k] /\ hid'[k] = None
    BY <2>4
  <2>7. Conversation(c, k)'
    BY <2>1, <2>2, <2>3, <2>5, <2>6 DEF Conversation
  <2> QED  BY <2>1, <2>7 DEF InStep
<1>2. CASE HandshakeError(c)
  BY <1>2, GivingUp DEF HandshakeError, ConnectFalse
<1>3. CASE RecvConf(c)
  <2>1. phase[c] = "handshake" /\ down[k] # <<>> /\ Head(down[k]).kind = "ClientConf" /\ k \in Conns
    BY <1>0, <1>3 DEF RecvConf
  <2>2. PICK i \in Ids, cf \in Confs :
          /\ Head(down[k]) = ClientConf(i, cf) /\ Tail(down[k]) = <<EOT>>
          /\ hid[k] \in {None, i}
          /\ id[c] \in Ids => id[c] = i
    <3>0. down[conn[c]] # <<>>
      BY <2>1
    <3>1. \/ Head(down[conn[c]]) = EOT
          \/ \E i \in Ids, cf \in Confs :
               /\ Head(down[conn[c]]) = ClientConf(i, cf) /\ Tail(down[conn[c]]) = <<EOT>>
               /\ hid[conn[c]] \in {None, i}
               /\ id[c] \in Ids => id[c] = i
      <4> HIDE DEF TypeOK, ClientTypeOK
      <4> QED  BY <2>1, <3>0, NextFrame
    <3>2. Head(down[conn[c]]) # EOT
      BY <2>1 DEF EOT
    <3> HIDE DEF TypeOK, ClientTypeOK
    <3> QED  BY <3>1, <3>2
  <2>3. up[k] = <<>> /\ hpc[k] \in {"idle", "serve"}
    BY <2>1, NextFrame
  <2>4. id'[c] = i /\ phase'[c] = "handshake" /\ conn'[c] = k
    <3>1. Head(down[k]).id = i /\ TakeConf(c, Head(down[k]))
      BY <1>3, <2>2 DEF RecvConf, ClientConf
    <3>2. id'[c] = i
      BY <3>1 DEF TakeConf
    <3> QED  BY <1>3, <2>1, <3>2 DEF RecvConf
  <2>5. down'[k] = <<EOT>> /\ up'[k] = <<>>
    BY <1>3, <2>1, <2>2, <2>3 DEF RecvConf, ReadDown, WireTypeOK
  <2>6. hpc'[k] \in {"idle", "serve"} /\ hid'[k] \in {None, i}
    BY <2>2, <2>3
  <2>7. Conversation(c, k)'
    BY <2>4, <2>5, <2>6 DEF Conversation, EOT
  <2> QED  BY <2>4, <2>7 DEF InStep
<1>4. CASE RecvEOT(c)
  <2>1. phase[c] = "handshake" /\ down[k] # <<>> /\ Head(down[k]).kind = "EOT"
    BY <1>4 DEF RecvEOT
  <2>2. id[c] \in Ids
    <3>1. \/ id[c] \in Ids
          \/ \E i \in Ids, cf \in Confs : Head(down[k]) = ClientConf(i, cf)
      BY <2>1, NextFrame
    <3>2. ASSUME NEW i \in Ids, NEW cf \in Confs, Head(down[k]) = ClientConf(i, cf)
          PROVE  Head(down[k]).kind = "ClientConf"
      BY <3>2 DEF ClientConf
    <3> QED  BY <2>1, <3>1, <3>2
  <2>3. phase'[c] \in {"run", "save"} /\ id'[c] = id[c]
    BY <1>4 DEF RecvEOT
  <2> QED  BY <2>2, <2>3 DEF InStep
<1>5. CASE SaveTruncate(c) \/ SaveWrite(c) \/ SaveError(c)
  BY <1>5 DEF SaveTruncate, SaveWrite, SaveError, StartCollectors, InStep
<1>6. CASE Start(c)
  BY <1>6 DEF Start, InStep
<1>7. CASE DialTimeout(c)
  BY <1>7, GivingUp DEF DialTimeout, ConnectFalse
<1>8. CASE Reconnect(c)
  BY <1>8 DEF Reconnect, InStep
<1>9. CASE ListenReturns(c) \/ Stop(c)
  BY <1>9, GivingUp DEF ListenReturns, Stop
<1> QED  BY <1>1, <1>2, <1>3, <1>4, <1>5, <1>6, <1>7, <1>8, <1>9 DEF ClientStep, ClientProgress

(* A dial begins a conversation.                                           *)
LEMMA DialInStep ==
  ASSUME TypeOK, WireConsistent, ConnectionOwned, HandlerConsistent,
         NEW c \in Clients, NEW k \in Conns, ConnectTo(c, k),
         NEW d \in Clients, InStep(d)
  PROVE  InStep(d)'
<1> USE NoneAssumption DEF TypeOK, ClientTypeOK, ConnectTo
<1>1. CASE d = c
  <2>1. phase'[c] = "sendId" /\ conn'[c] = k /\ id'[c] = id[c]
    BY DEF Dial
  <2>2. up'[k] = <<>> /\ down'[k] = <<>>
    BY DEF Dial, OpenWire, WireTypeOK
  <2>3. hpc'[k] = "readId" /\ hid'[k] = None
    BY DEF AcceptConn, ServerTypeOK, HandlerConsistent
  <2>4. Conversation(c, k)'
    BY <2>1, <2>2, <2>3 DEF Conversation
  <2> QED  BY <1>1, <2>1, <2>4 DEF InStep
<1>2. CASE d # c
  <2>1. SameClient(d)
    BY <1>2 DEF Dial, SameClient
  <2>2. ASSUME conn[d] \in Conns PROVE SameConnection(conn[d])
    <3>1. conn[d] # k
      BY <2>2, Connected DEF Dial, OpenWire
    <3> QED
      BY <2>2, <3>1 DEF Dial, OpenWire, AcceptConn, SameConnection, WireTypeOK, ServerTypeOK
  <2> QED  BY <2>1, <2>2, LeftAlone
<1> QED  BY <1>1, <1>2

-----------------------------------------------------------------------------
(* The steps of the server. *)

(* A handler touches its own connection only.                              *)
LEMMA HandlerAlone ==
  ASSUME TypeOK, NEW k \in Conns, LockingStep(k) \/ PlainStep(k),
         UNCHANGED clientVars, NEW j \in Conns \ {k}
  PROVE  SameConnection(j)
<1> USE DEF TypeOK, WireTypeOK, ServerTypeOK, SameConnection
<1>1. CASE KnownHello(k) \/ UnknownHello(k) \/ NewcomerHello(k)
  BY <1>1 DEF KnownHello, UnknownHello, NewcomerHello, ReadUp
<1>2. CASE PickId(k)
  BY <1>2 DEF PickId, wireVars
<1>3. CASE Welcome(k)
  BY <1>3 DEF Welcome, WriteDown
<1>4. CASE Register(k)
  BY <1>4 DEF Register, wireVars
<1>5. CASE RegisterFails(k) \/ ReadFails(k) \/ EndSession(k)
  BY <1>5 DEF RegisterFails, ReadFails, EndSession, EndHandler, CloseServerEnd
<1> QED  BY <1>1, <1>2, <1>3, <1>4, <1>5 DEF LockingStep, PlainStep

(* A handler keeps in step with the client of its connection.              *)
LEMMA HandlerInStep ==
  ASSUME Invariant, wipes = 0, NEW c \in Clients, InStep(c),
         NEW k \in Conns, k = conn[c], UNCHANGED clientVars,
         LockingStep(k) \/ PlainStep(k)
  PROVE  InStep(c)'
<1>0. /\ WireTypeOK /\ ClientTypeOK /\ ServerTypeOK
      /\ WireConsistent /\ HandlerConsistent /\ ConnectionOwned
  BY DEF Invariant, TypeOK
<1> USE <1>0, NoneAssumption
<1>1. UNCHANGED <<phase, id, conn>> /\ SameClient(c)
  BY DEF clientVars, SameClient
<1>2. CASE phase[c] \notin {"sendId", "handshake"}
  BY <1>1, <1>2 DEF InStep
<1>3. ASSUME phase[c] \in {"sendId", "handshake"}, Conversation(c, k)' PROVE InStep(c)'
  BY <1>1, <1>3 DEF InStep
<1>4. ASSUME phase[c] \in {"sendId", "handshake"} PROVE Conversation(c, k)'
  <2>0. Conversation(c, k)
    BY <1>4 DEF InStep
  <2> USE DEF Conversation
  <2>1. CASE NewcomerHello(k) \/ KnownHello(k) \/ UnknownHello(k)
    <3>1. /\ phase[c] = "handshake" /\ up[k] = <<id[c]>> /\ down[k] = <<>>
          /\ hid[k] = None /\ hpc[k] = "readId"
      BY <2>0, <2>1 DEF NewcomerHello, KnownHello, UnknownHello, HasHello, HandlerConsistent
    <3>2. up'[k] = <<>> /\ down'[k] = <<>> /\ Head(up[k]) = id[c]
      BY <2>1, <3>1 DEF NewcomerHello, KnownHello, UnknownHello, ReadUp, WireTypeOK
    <3>3. CASE NewcomerHello(k)
      BY <1>1, <3>1, <3>2, <3>3 DEF NewcomerHello, ServerTypeOK
    <3>4. CASE KnownHello(k)
      BY <1>1, <3>1, <3>2, <3>4 DEF KnownHello, ServerTypeOK
    <3>5. CASE UnknownHello(k)
      <4>1. id[c] \notin Ids
        <5> SUFFICES ASSUME id[c] \in Ids PROVE FALSE
          OBVIOUS
        <5>1. db[id[c]] # None
          BY DEF Invariant, DurableEverywhere
        <5>2. inventory[id[c]] # None
          BY <3>1, <5>1 DEF Invariant, InventoryCoherent, HandlerConsistent
        <5> QED  BY <3>2, <3>5, <5>2 DEF UnknownHello, Lookup
      <4> QED  BY <1>1, <3>1, <3>2, <3>5, <4>1 DEF UnknownHello, ServerTypeOK
    <3> QED  BY <2>1, <3>3, <3>4, <3>5
  <2>2. CASE PickId(k)
    <3>1. /\ up'[k] = <<>> /\ down'[k] = <<>> /\ phase[c] = "handshake"
          /\ id[c] \notin Ids /\ hpc'[k] = "register"
      BY <2>0, <2>2, <1>4 DEF PickId, wireVars, ServerTypeOK
    <3> QED  BY <1>1, <3>1
  <2>3. CASE Register(k)
    <3>1. /\ up'[k] = <<>> /\ down'[k] = <<>> /\ phase[c] = "handshake"
          /\ id[c] \notin Ids /\ hpc'[k] = "welcome"
      BY <2>0, <2>3, <1>4 DEF Register, wireVars, ServerTypeOK
    <3> QED  BY <1>1, <3>1
  <2>4. CASE Welcome(k)
    <3>1. /\ up[k] = <<>> /\ down[k] = <<>> /\ phase[c] = "handshake"
          /\ hid[k] \in Ids /\ hconf[k] \in Confs
      BY <2>0, <2>4, <1>4 DEF Welcome, ServerTypeOK, HandlerConsistent
    <3>2. up'[k] = <<>> /\ hid'[k] = hid[k] /\ hpc'[k] = "serve"
      BY <2>4, <3>1 DEF Welcome, WriteDown, ServerTypeOK
    <3>3. down'[k] = IF link[k] THEN Answer(k) ELSE <<>>
      <4>1. down'[k] = IF link[k] THEN <<>> \o Answer(k) ELSE <<>>
        BY <2>4, <3>1 DEF Welcome, WriteDown, WireTypeOK
      <4> QED  BY <4>1 DEF Answer
    <3>4. down'[k] \in {<<>>, <<ClientConf(hid[k], hconf[k]), EOT>>}
      BY <3>3 DEF Answer
    <3>5. id[c] \in Ids => id[c] = hid[k]
      BY <2>0, <3>1
    <3> QED  BY <1>1, <3>1, <3>2, <3>4, <3>5
  <2>5. CASE RegisterFails(k) \/ ReadFails(k) \/ EndSession(k)
    <3>1. HandlerGone(k)
      BY <2>5 DEF RegisterFails, ReadFails, EndSession, EndHandler, CloseServerEnd,
                  HandlerGone, WireTypeOK, ServerTypeOK
    <3> QED  BY <1>1, <1>4, <2>0, <3>1 DEF HandlerGone
  <2> QED  BY <2>1, <2>2, <2>3, <2>4, <2>5 DEF LockingStep, PlainStep
<1> QED  BY <1>2, <1>3, <1>4

(* Every step keeps all clients in step.                                   *)
LEMMA HandshakeStep == Invariant /\ HandshakeInStep /\ [Next]_vars => HandshakeInStep'
<1> SUFFICES ASSUME Invariant, HandshakeInStep, [Next]_vars, wipes' = 0, NEW d \in Clients
             PROVE  InStep(d)'
  BY DEF HandshakeInStep, InStep
<1>0. /\ TypeOK /\ WireConsistent /\ ConnectionOwned /\ HandlerConsistent
      /\ wipes = 0
  BY WipesStep DEF Invariant
<1>1. InStep(d)
  BY <1>0 DEF HandshakeInStep, InStep
<1>2. ASSUME NEW c \in Clients, ClientStep(c), UNCHANGED serverVars PROVE InStep(d)'
  <2>1. CASE d = c
    BY <1>0, <1>1, <1>2, <2>1, ClientInStep
  <2>2. CASE d # c
    BY <1>0, <1>1, <1>2, <2>2, ClientAlone, LeftAlone
  <2> QED  BY <2>1, <2>2
<1>3. ASSUME NEW c \in Clients, NEW k \in Conns, ConnectTo(c, k) PROVE InStep(d)'
  BY <1>0, <1>1, <1>3, DialInStep
<1>4. ASSUME NEW k \in Conns, LockingStep(k) \/ PlainStep(k), UNCHANGED clientVars
      PROVE  InStep(d)'
  <2>1. SameClient(d)
    BY <1>4 DEF SameClient, clientVars
  <2>2. CASE k = conn[d]
    BY <1>0, <1>1, <1>4, <2>2, HandlerInStep
  <2>3. CASE k # conn[d]
    BY <1>0, <1>1, <1>4, <2>1, <2>3, HandlerAlone, LeftAlone
  <2> QED  BY <2>2, <2>3
<1>5. CASE (OpenDB \/ MakeBuckets \/ LoadInventory \/ WipeDB) /\ UNCHANGED clientVars
  <2>1. SameClient(d) /\ \A k \in Conns : SameConnection(k)
    BY <1>5 DEF OpenDB, MakeBuckets, LoadInventory, WipeDB, SameClient, SameConnection,
                clientVars, wireVars
  <2> QED  BY <1>0, <1>1, <2>1, LeftAlone
<1>6. CASE ServerCrash /\ UNCHANGED clientVars
  <2>1. SameClient(d) /\ \A k \in Conns : HandlerGone(k)
    BY <1>6 DEF ServerCrash, CloseAllServerEnds, SameClient, HandlerGone, clientVars
  <2> QED  BY <1>0, <1>1, <2>1, LeftAlone
<1>7. ASSUME NEW k \in Conns, LoseLink(k) PROVE InStep(d)'
  <2>1. SameClient(d) /\ \A j \in Conns : SameConnection(j)
    BY <1>7 DEF LoseLink, Break, SameClient, SameConnection, clientVars, serverVars
  <2> QED  BY <1>0, <1>1, <2>1, LeftAlone
<1>8. CASE UNCHANGED vars
  <2>1. SameClient(d) /\ \A j \in Conns : SameConnection(j)
    BY <1>8 DEF vars, wireVars, clientVars, serverVars, SameClient, SameConnection
  <2> QED  BY <1>0, <1>1, <2>1, LeftAlone
<1> QED  BY <1>2, <1>3, <1>4, <1>5, <1>6, <1>7, <1>8 DEF Next, ServerStep

(* Client and handler are at the same point of every handshake, and who    *)
(* has finished one has an id of the server.                               *)
THEOREM HandshakesAreInStep == Spec => []HandshakeInStep
<1>1. Init => HandshakeInStep
  BY DEF Init, ClientInit, HandshakeInStep
<1> QED  BY <1>1, InvariantHolds, HandshakeStep, PTL DEF Spec

-----------------------------------------------------------------------------
(* What becomes of an id. *)

(* The ClientConf that a client reads in step carries the id it has, or    *)
(* one that it and nobody else is to have, and that the database has.      *)
LEMMA ConfInStep ==
  ASSUME Invariant, HandshakeInStep, wipes = 0, NEW c \in Clients, RecvConf(c)
  PROVE  \/ UNCHANGED id
         \/ \E i \in Ids :
              /\ id[c] \notin Ids /\ id' = [id EXCEPT ![c] = i]
              /\ db[i] # None
              /\ \A d \in Clients \ {c} : i # id[d] /\ i # file[d]
<1> DEFINE k == conn[c]
<1>0. TypeOK /\ ConnectionOwned /\ InStep(c)
  BY DEF Invariant, HandshakeInStep, InStep
<1>1. phase[c] = "handshake" /\ down[k] # <<>> /\ k \in Conns
  BY <1>0, Frame DEF RecvConf
<1>2. 1 \in DOMAIN down[k] /\ Head(down[k]) = down[k][1] /\ peer[k] = c
  BY <1>0, <1>1, Frame, PastDial, Connected
<1> HIDE DEF k
<1>3. Head(down[k]).kind = "ClientConf" /\ TakeConf(c, Head(down[k]))
  BY DEF RecvConf, k
<1>4. \/ Head(down[k]) = EOT
      \/ \E i \in Ids, cf \in Confs :
           Head(down[k]) = ClientConf(i, cf) /\ (id[c] \in Ids => id[c] = i)
  BY <1>0, <1>1, NextFrame DEF k
<1>5. PICK i \in Ids, cf \in Confs :
        Head(down[k]) = ClientConf(i, cf) /\ (id[c] \in Ids => id[c] = i)
  BY <1>3, <1>4 DEF EOT
<1>6. Head(down[k]).id = i
  BY <1>5 DEF ClientConf
<1>7. CASE i = id[c]
  BY <1>3, <1>6, <1>7 DEF TakeConf
<1>8. CASE i # id[c]
  <2>1. id' = [id EXCEPT ![c] = i] /\ id[c] \notin Ids
    BY <1>3, <1>5, <1>6, <1>8 DEF TakeConf
  <2>2. Uses(c, i) /\ db[i] # None
    BY <1>1, <1>2, <1>6 DEF Uses, Carries, Invariant, DurableEverywhere
  <2>3. \A d \in Clients \ {c} : ~Uses(d, i)
    BY <2>2 DEF Invariant, UniqueIdentity
  <2>4. \A d \in Clients \ {c} : i # id[d] /\ i # file[d]
    BY <2>3 DEF Uses
  <2> QED  BY <2>1, <2>2, <2>4
<1> QED  BY <1>7, <1>8

(* What a step does to the ids in memory and in the files: only a process  *)
(* that ends, starts, reads a ClientConf or saves its id changes them.     *)
LEMMA IdsStep ==
  ASSUME Invariant, [Next]_vars
  PROVE  \/ UNCHANGED <<id, file>>
         \/ \E c \in Clients :
              /\ UNCHANGED db
              /\ \/ SaveTruncate(c) \/ SaveWrite(c) \/ Start(c) \/ Exit(c)
                 \/ RecvConf(c) /\ UNCHANGED file
<1>1. ASSUME NEW c \in Clients, ClientStep(c), UNCHANGED serverVars
      PROVE  \/ UNCHANGED <<id, file>>
             \/ /\ UNCHANGED db
                /\ \/ SaveTruncate(c) \/ SaveWrite(c) \/ Start(c) \/ Exit(c)
                   \/ RecvConf(c) /\ UNCHANGED file
  BY <1>1 DEF ClientStep, ClientProgress, SendId, HandshakeError, RecvConf, RecvEOT,
              SaveError, StartCollectors, DialTimeout, Reconnect, ListenReturns, Stop,
              ConnectFalse, TryAgain, serverVars
<1>2. ASSUME NEW c \in Clients, NEW k \in Conns, ConnectTo(c, k)
      PROVE  UNCHANGED <<id, file>>
  BY <1>2 DEF ConnectTo, Dial
<1>3. UNCHANGED clientVars => UNCHANGED <<id, file>>
  BY DEF clientVars
<1> QED  BY <1>1, <1>2, <1>3 DEF Next, LoseLink, vars

(* A client that has an id of the server keeps it while its process lives. *)
THEOREM IdentityIsStable == Spec => StableIdentity
<1>1. ASSUME Invariant, HandshakeInStep, [Next]_vars,
             NEW c \in Clients, wipes = 0, id[c] \in Ids
      PROVE  id'[c] = id[c] \/ phase'[c] = "off"
  <2>1. TypeOK /\ InStep(c)
    BY <1>1 DEF Invariant, HandshakeInStep, InStep
  <2>2. CASE UNCHANGED <<id, file>>
    BY <2>2
  <2>3. ASSUME NEW d \in Clients,
               SaveTruncate(d) \/ SaveWrite(d) \/ Start(d) \/ Exit(d) \/ RecvConf(d)
        PROVE  id'[c] = id[c] \/ phase'[c] = "off"
    <3>1. CASE SaveTruncate(d) \/ SaveWrite(d)
      BY <3>1 DEF SaveTruncate, SaveWrite, StartCollectors
    <3>2. CASE Start(d)
      <4>1. d # c
        BY <1>1, <2>1, <3>2, NoneAssumption DEF Start, InStep
      <4> QED  BY <3>2, <4>1 DEF Start
    <3>3. CASE Exit(d)
      BY <2>1, <3>3 DEF Exit, TypeOK, ClientTypeOK
    <3>4. CASE RecvConf(d)
      <4>1. \/ UNCHANGED id
            \/ \E i \in Ids : id[d] \notin Ids /\ id' = [id EXCEPT ![d] = i]
        BY <1>1, <3>4, ConfInStep
      <4> QED  BY <1>1, <2>1, <4>1 DEF TypeOK, ClientTypeOK
    <3> QED  BY <2>3, <3>1, <3>2, <3>3, <3>4
  <2> QED  BY <1>1, <2>2, <2>3, IdsStep
<1>2. Invariant /\ HandshakeInStep /\ [Next]_vars =>
        [\A c \in Clients :
           wipes = 0 /\ id[c] \in Ids => id'[c] = id[c] \/ phase'[c] = "off"]_vars
  BY <1>1
<1> QED  BY <1>2, InvariantHolds, HandshakesAreInStep, PTL DEF Spec, StableIdentity

-----------------------------------------------------------------------------
(* The refinement.  A removed database breaks every promise, so none is    *)
(* removed here.                                                           *)

(* Without removals the count of removals stays zero.                      *)
LEMMA NoWipes ==
  ASSUME MaxWipes = 0
  PROVE  Spec => [](wipes = 0)
<1>1. Init => wipes = 0
  BY DEF Init, ServerInit
<1>2. wipes = 0 /\ [Next]_vars => (wipes = 0)'
  <2> SUFFICES ASSUME wipes = 0, [Next]_vars PROVE wipes' = 0
    OBVIOUS
  <2>1. ~WipeDB
    BY DEF WipeDB
  <2>2. \A c \in Clients, k \in Conns : ConnectTo(c, k) => UNCHANGED wipes
    BY DEF ConnectTo, AcceptConn, storeVars
  <2>3. \A k \in Conns : LoseLink(k) => UNCHANGED wipes
    BY DEF LoseLink, serverVars
  <2>4. \A k \in Conns : LockingStep(k) \/ PlainStep(k) => UNCHANGED wipes
    BY DEF LockingStep, PlainStep, KnownHello, UnknownHello, PickId, Welcome,
           NewcomerHello, Register, RegisterFails, ReadFails, EndSession, storeVars
  <2>5. OpenDB \/ MakeBuckets \/ LoadInventory \/ ServerCrash => UNCHANGED wipes
    BY DEF OpenDB, MakeBuckets, LoadInventory, ServerCrash, storeVars
  <2>6. UNCHANGED serverVars \/ UNCHANGED vars => UNCHANGED wipes
    BY DEF vars, serverVars
  <2> QED  BY <2>1, <2>2, <2>3, <2>4, <2>5, <2>6 DEF Next, ServerStep
<1> QED  BY <1>1, <1>2, PTL DEF Spec

(* The ids in the bucket.                                                  *)
SavedIds == {i \in Ids : db[i] # None}

(* A step of the server leaves the ids in the bucket alone, or adds the    *)
(* one that NewClient has drawn, which is new there.                       *)
LEMMA SavedStep ==
  ASSUME Invariant, wipes = 0, wipes' = 0, [Next]_vars
  PROVE  UNCHANGED db \/ (UNCHANGED <<id, file>> /\ \E i \in Ids : Registry!Save(i))
<1>1. ASSUME NEW k \in Conns, Register(k), UNCHANGED clientVars
      PROVE  UNCHANGED <<id, file>> /\ \E i \in Ids : Registry!Save(i)
  <2>1. hid[k] \in Ids /\ hconf[k] \in Confs /\ db \in [Ids -> Confs \cup {None}]
    BY <1>1, NoneAssumption DEF Invariant, TypeOK, ServerTypeOK, HandlerConsistent, Register
  <2>2. db[hid[k]] = None
    BY <1>1, <2>1, NoneAssumption
    DEF Invariant, HandlerConsistent, InventoryCoherent, Taken, Register
  <2>3. db' = [db EXCEPT ![hid[k]] = hconf[k]]
    BY <1>1 DEF Register, Persist
  <2>4. hid[k] \notin SavedIds /\ SavedIds' = SavedIds \cup {hid[k]}
    BY <2>1, <2>2, <2>3, NoneAssumption DEF SavedIds
  <2>5. UNCHANGED <<id, file>>
    BY <1>1 DEF clientVars
  <2> QED  BY <2>1, <2>4, <2>5 DEF Registry!Save, SavedIds
<1>2. \A k \in Conns : LockingStep(k) \/ PlainStep(k) => Register(k) \/ UNCHANGED db
  BY DEF LockingStep, PlainStep, KnownHello, UnknownHello, PickId, Welcome,
         NewcomerHello, RegisterFails, ReadFails, EndSession, storeVars
<1>3. OpenDB \/ MakeBuckets \/ LoadInventory \/ ServerCrash => UNCHANGED db
  BY DEF OpenDB, MakeBuckets, LoadInventory, ServerCrash, storeVars
<1>4. ~WipeDB
  BY DEF WipeDB
<1>5. \A c \in Clients, k \in Conns : ConnectTo(c, k) => UNCHANGED db
  BY DEF ConnectTo, AcceptConn, storeVars
<1>6. \A k \in Conns : LoseLink(k) => UNCHANGED db
  BY DEF LoseLink, serverVars
<1>7. UNCHANGED serverVars \/ UNCHANGED vars => UNCHANGED db
  BY DEF vars, serverVars
<1> QED  BY <1>1, <1>2, <1>3, <1>4, <1>5, <1>6, <1>7 DEF Next, ServerStep

(* Every step of the registration is one of the registry of ids, or none.  *)
LEMMA RegistryStep ==
  ASSUME Invariant, HandshakeInStep, wipes = 0, wipes' = 0, [Next]_vars
  PROVE  [Registry!Next]_Registry!vars
<1>0. TypeOK
  BY DEF Invariant
<1>1. CASE UNCHANGED db /\ UNCHANGED <<id, file>>
  BY <1>1 DEF Registry!vars
<1>2. CASE UNCHANGED <<id, file>> /\ \E i \in Ids : Registry!Save(i)
  BY <1>2 DEF Registry!Next
<1>3. ASSUME NEW c \in Clients, UNCHANGED db,
             \/ SaveTruncate(c) \/ SaveWrite(c) \/ Start(c) \/ Exit(c)
             \/ RecvConf(c) /\ UNCHANGED file
      PROVE  [Registry!Next]_Registry!vars
  <2>0. SavedIds' = SavedIds
    BY <1>3 DEF SavedIds
  <2>1. id[c] \in Ids => id[c] \in SavedIds
    BY DEF Invariant, DurableEverywhere, SavedIds
  <2>2. InStep(c)
    BY DEF HandshakeInStep, InStep
  <2>3. CASE SaveTruncate(c)
    <3>1. Registry!Erase(c)
      BY <2>0, <2>1, <2>2, <2>3 DEF SaveTruncate, InStep, SavedIds, Registry!Erase
    <3> QED  BY <3>1 DEF Registry!Next
  <2>4. CASE SaveWrite(c)
    <3>1. Registry!Record(c)
      BY <2>0, <2>1, <2>2, <2>4
      DEF SaveWrite, StartCollectors, InStep, SavedIds, Registry!Record
    <3> QED  BY <3>1 DEF Registry!Next
  <2>5. CASE Start(c)
    <3>1. Registry!Recall(c)
      BY <2>0, <2>2, <2>5 DEF Start, InStep, SavedIds, Registry!Recall
    <3> QED  BY <3>1 DEF Registry!Next
  <2>6. CASE Exit(c)
    <3>1. Registry!Forget(c)
      BY <2>0, <2>6 DEF Exit, SavedIds, Registry!Forget
    <3> QED  BY <3>1 DEF Registry!Next
  <2>7. CASE RecvConf(c) /\ UNCHANGED file
    <3>1. CASE UNCHANGED id
      BY <1>3, <2>7, <3>1 DEF Registry!vars
    <3>2. ASSUME NEW i \in Ids, id[c] \notin Ids, id' = [id EXCEPT ![c] = i],
                 db[i] # None, \A d \in Clients \ {c} : i # id[d] /\ i # file[d]
          PROVE  Registry!Adopt(c, i)
      <4>1. i \in SavedIds /\ id[c] \notin SavedIds
        BY <3>2 DEF SavedIds
      <4> QED  BY <2>0, <2>7, <3>2, <4>1 DEF SavedIds, Registry!Adopt
    <3> QED  BY <2>7, <3>1, <3>2, ConfInStep DEF Registry!Next
  <2> QED  BY <1>3, <2>3, <2>4, <2>5, <2>6, <2>7
<1> QED  BY <1>1, <1>2, <1>3, IdsStep, SavedStep

(* While nobody removes the database, the registration is a behaviour of   *)
(* the abstract registry of ids: NewClient, serveClient, Connect and       *)
(* Conn.Save do to the ids what the registry may do, and nothing else.     *)
THEOREM IdentityIsImplemented ==
  ASSUME MaxWipes = 0
  PROVE  Spec => ImplementsIdentity
<1>1. Init => Registry!Init
  <2> SUFFICES ASSUME Init PROVE Registry!Init
    OBVIOUS
  <2>1. {i \in Ids : db[i] # None} = {}
    BY DEF Init, ServerInit, NoClients
  <2> QED  BY <2>1 DEF Init, ClientInit, Registry!Init
<1>2. /\ Invariant /\ HandshakeInStep /\ wipes = 0 /\ (wipes = 0)' /\ [Next]_vars
      => [Registry!Next]_Registry!vars
  BY RegistryStep
<1>3. Spec => [](wipes = 0)
  BY NoWipes
<1> QED
  BY <1>1, <1>2, <1>3, InvariantHolds, HandshakesAreInStep, PTL
  DEF Spec, ImplementsIdentity, Registry!Spec
=============================================================================
