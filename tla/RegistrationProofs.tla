-------------------------- MODULE RegistrationProofs --------------------------
(***************************************************************************)
(* Theorems about the registration, for every value of its constants.      *)
(* Invariant (in Registration) is inductive; each of its conjuncts has a   *)
(* lemma of its own with one step per action.                              *)
(***************************************************************************)
EXTENDS Registration, TLAPS

-----------------------------------------------------------------------------
(* Facts about sequences, connections and frames. *)

(* The head of a queue is one of its elements.                             *)
LEMMA HeadIsElement ==
  ASSUME NEW S, NEW s \in Seq(S), s # <<>>
  PROVE  Head(s) \in S /\ 1 \in DOMAIN s /\ Head(s) = s[1]
  OBVIOUS

(* A client that has a connection dialed it, holds it and shares it with   *)
(* nobody.                                                                 *)
LEMMA Connected ==
  ASSUME TypeOK, ConnectionOwned, NEW c \in Clients, conn[c] # None
  PROVE  /\ conn[c] \in Conns
         /\ peer[conn[c]] = c /\ "client" \in held[conn[c]]
         /\ \A d \in Clients : conn[d] = conn[c] => d = c
  BY DEF TypeOK, ClientTypeOK, ConnectionOwned

(* Past its dial a client has a connection.                                *)
LEMMA PastDial ==
  ASSUME ConnectionOwned, NEW c \in Clients, phase[c] \notin {"off", "connect"}
  PROVE  conn[c] # None
  BY DEF ConnectionOwned

(* What Connect reads in its handshake loop is a frame of its connection.  *)
LEMMA Frame ==
  ASSUME TypeOK, ConnectionOwned,
         NEW c \in Clients, phase[c] = "handshake", down[conn[c]] # <<>>
  PROVE  /\ conn[c] \in Conns
         /\ Head(down[conn[c]]) \in Frames
         /\ 1 \in DOMAIN down[conn[c]]
         /\ Head(down[conn[c]]) = down[conn[c]][1]
<1>1. conn[c] \in Conns
  BY PastDial, Connected
<1>2. down[conn[c]] \in Seq(Frames)
  BY <1>1 DEF TypeOK, WireTypeOK
<1> QED  BY <1>1, <1>2, HeadIsElement

(* The operations on one end of a connection keep its types.               *)
LEMMA WireOps ==
  ASSUME WireTypeOK, NEW k \in Conns
  PROVE  /\ \A c \in Clients : OpenWire(c, k) => WireTypeOK'
         /\ CloseClientEnd(k) => WireTypeOK'
         /\ CloseServerEnd(k) => WireTypeOK'
         /\ Break(k) => WireTypeOK'
<1> USE DEF WireTypeOK
<1>1. \A c \in Clients : OpenWire(c, k) => WireTypeOK'
  BY DEF OpenWire
<1>2. CloseClientEnd(k) => WireTypeOK'
  BY DEF CloseClientEnd
<1>3. CloseServerEnd(k) => WireTypeOK'
  BY DEF CloseServerEnd
<1>4. Break(k) => WireTypeOK'
  BY DEF Break
<1> QED  BY <1>1, <1>2, <1>3, <1>4

(* So do the writes and the reads.                                         *)
LEMMA WireTraffic ==
  ASSUME WireTypeOK, NEW k \in Conns
  PROVE  /\ \A i \in AllIds \cup {None} : WriteUp(k, i) => WireTypeOK'
         /\ \A fs \in Seq(Frames) : WriteDown(k, fs) => WireTypeOK'
         /\ up[k] # <<>> /\ ReadUp(k) => WireTypeOK'
         /\ down[k] # <<>> /\ ReadDown(k) => WireTypeOK'
<1> USE DEF WireTypeOK
<1>1. \A i \in AllIds \cup {None} : WriteUp(k, i) => WireTypeOK'
  BY DEF WriteUp
<1>2. \A fs \in Seq(Frames) : WriteDown(k, fs) => WireTypeOK'
  BY DEF WriteDown
<1>3. up[k] # <<>> /\ ReadUp(k) => WireTypeOK'
  BY DEF ReadUp
<1>4. down[k] # <<>> /\ ReadDown(k) => WireTypeOK'
  BY DEF ReadDown
<1> QED  BY <1>1, <1>2, <1>3, <1>4

(* The end of the server process does, and so does leaving the wire alone. *)
LEMMA WireWhole ==
  ASSUME WireTypeOK
  PROVE  /\ CloseAllServerEnds => WireTypeOK'
         /\ UNCHANGED wireVars => WireTypeOK'
<1> USE DEF WireTypeOK
<1>1. ASSUME CloseAllServerEnds PROVE WireTypeOK'
  <2>1. held' \in [Conns -> SUBSET {"client", "server"}]
    BY <1>1 DEF CloseAllServerEnds
  <2> QED  BY <1>1, <2>1 DEF CloseAllServerEnds
<1>2. UNCHANGED wireVars => WireTypeOK'
  BY DEF wireVars
<1> QED  BY <1>1, <1>2

-----------------------------------------------------------------------------
(* Types of the client's variables.                                        *)
LEMMA ClientTypesStep ==
  ASSUME TypeOK, ConnectionOwned, [Next]_vars
  PROVE  ClientTypeOK'
<1> USE NoneAssumption DEF TypeOK, WireTypeOK, ClientTypeOK, Phases, AllIds
<1>1. ASSUME NEW c \in Clients, SendId(c), UNCHANGED serverVars PROVE ClientTypeOK'
  BY <1>1 DEF SendId, WriteUp, serverVars
<1>2. ASSUME NEW c \in Clients, HandshakeError(c), UNCHANGED serverVars PROVE ClientTypeOK'
  <2>1. CASE TryAgain(c)
    BY <1>2, <2>1 DEF HandshakeError, CloseClientEnd, ConnectFalse, TryAgain, Exit, serverVars
  <2>2. CASE Exit(c)
    BY <1>2, <2>2 DEF HandshakeError, CloseClientEnd, ConnectFalse, TryAgain, Exit, serverVars
  <2> QED  BY <1>2, <2>1, <2>2 DEF HandshakeError, DialTimeout, ConnectFalse
<1>3. ASSUME NEW c \in Clients, RecvConf(c), UNCHANGED serverVars PROVE ClientTypeOK'
  <2> DEFINE m == Head(down[conn[c]])
  <2>1. conn[c] \in Conns /\ m \in Frames /\ 1 \in DOMAIN down[conn[c]] /\ m = down[conn[c]][1]
    BY <1>3, Frame DEF RecvConf
  <2>4. m.id \in Ids \cup {None} /\ m.conf \in Confs \cup {None}
    BY <2>1 DEF Frames
  <2> HIDE DEF m
  <2>2. CASE m.id = id[c]
    BY <1>3, <2>1, <2>2 DEF RecvConf, ReadDown, TakeConf, serverVars, m
  <2>3. CASE m.id # id[c]
    <3>1. /\ id' = [id EXCEPT ![c] = m.id] /\ collect' = [collect EXCEPT ![c] = m.conf]
          /\ m.kind = "ClientConf"
      BY <1>3, <2>3 DEF RecvConf, TakeConf, m
    <3>2. /\ ReadDown(conn[c]) /\ phase[c] = "handshake"
          /\ UNCHANGED <<phase, file, tickers, started, tries, conn>>
      BY <1>3 DEF RecvConf
    <3> QED  BY <1>3, <2>1, <2>4, <3>1, <3>2 DEF ReadDown, serverVars
  <2> QED  BY <2>2, <2>3
<1>4. ASSUME NEW c \in Clients, RecvEOT(c), UNCHANGED serverVars PROVE ClientTypeOK'
  BY <1>4 DEF RecvEOT, ReadDown, serverVars
<1>5. ASSUME NEW c \in Clients, SaveTruncate(c), UNCHANGED serverVars PROVE ClientTypeOK'
  BY <1>5 DEF SaveTruncate, wireVars, serverVars
<1>6. ASSUME NEW c \in Clients, SaveWrite(c), UNCHANGED serverVars PROVE ClientTypeOK'
  BY <1>6 DEF SaveWrite, StartCollectors, wireVars, serverVars
<1>7. ASSUME NEW c \in Clients, SaveError(c), UNCHANGED serverVars PROVE ClientTypeOK'
  BY <1>7 DEF SaveError, StartCollectors, wireVars, serverVars
<1>8. ASSUME NEW c \in Clients, Start(c), UNCHANGED serverVars PROVE ClientTypeOK'
  BY <1>8 DEF Start, wireVars, serverVars
<1>9. ASSUME NEW c \in Clients, DialTimeout(c), UNCHANGED serverVars PROVE ClientTypeOK'
  <2>1. CASE TryAgain(c)
    BY <1>9, <2>1 DEF DialTimeout, ConnectFalse, TryAgain, Exit, wireVars, serverVars
  <2>2. CASE Exit(c)
    BY <1>9, <2>2 DEF DialTimeout, ConnectFalse, TryAgain, Exit, wireVars, serverVars
  <2> QED  BY <1>9, <2>1, <2>2 DEF HandshakeError, DialTimeout, ConnectFalse
<1>10. ASSUME NEW c \in Clients, Reconnect(c), UNCHANGED serverVars PROVE ClientTypeOK'
  BY <1>10 DEF Reconnect, CloseClientEnd, serverVars
<1>11. ASSUME NEW c \in Clients, ListenReturns(c), UNCHANGED serverVars PROVE ClientTypeOK'
  BY <1>11 DEF ListenReturns, CloseClientEnd, Exit, serverVars
<1>12. ASSUME NEW c \in Clients, Stop(c), UNCHANGED serverVars PROVE ClientTypeOK'
  BY <1>12 DEF Stop, CloseClientEnd, Exit, wireVars, serverVars
<1>13. ASSUME NEW c \in Clients, NEW k \in Conns, ConnectTo(c, k) PROVE ClientTypeOK'
  BY <1>13 DEF ConnectTo, Dial, OpenWire, AcceptConn, storeVars
<1>14. CASE OpenDB /\ UNCHANGED clientVars
  BY <1>14 DEF OpenDB, wireVars, clientVars
<1>15. CASE MakeBuckets /\ UNCHANGED clientVars
  BY <1>15 DEF MakeBuckets, wireVars, clientVars
<1>16. CASE LoadInventory /\ UNCHANGED clientVars
  BY <1>16 DEF LoadInventory, storeVars, SavedClients, NoClients, wireVars, clientVars
<1>17. CASE ServerCrash /\ UNCHANGED clientVars
  BY <1>17 DEF ServerCrash, CloseAllServerEnds, storeVars, NoClients, clientVars
<1>18. CASE WipeDB /\ UNCHANGED clientVars
  BY <1>18 DEF WipeDB, NoClients, wireVars, clientVars
<1>19. ASSUME NEW k \in Conns, KnownHello(k), UNCHANGED clientVars PROVE ClientTypeOK'
  BY <1>19 DEF KnownHello, HasHello, Lookup, LockFree, ReadUp, storeVars, clientVars
<1>20. ASSUME NEW k \in Conns, UnknownHello(k), UNCHANGED clientVars PROVE ClientTypeOK'
  BY <1>20 DEF UnknownHello, HasHello, Lookup, LockFree, ReadUp, storeVars, clientVars
<1>21. ASSUME NEW k \in Conns, PickId(k), UNCHANGED clientVars PROVE ClientTypeOK'
  BY <1>21 DEF PickId, LockFree, Taken, storeVars, wireVars, clientVars
<1>22. ASSUME NEW k \in Conns, Welcome(k), UNCHANGED clientVars PROVE ClientTypeOK'
  BY <1>22 DEF Welcome, LockFree, AddClient, WriteDown, Answer, ClientConf, EOT, storeVars, clientVars
<1>23. ASSUME NEW k \in Conns, NewcomerHello(k), UNCHANGED clientVars PROVE ClientTypeOK'
  BY <1>23 DEF NewcomerHello, HasHello, ReadUp, storeVars, clientVars
<1>24. ASSUME NEW k \in Conns, Register(k), UNCHANGED clientVars PROVE ClientTypeOK'
  BY <1>24 DEF Register, AddClient, Persist, Unlock, wireVars, clientVars
<1>25. ASSUME NEW k \in Conns, RegisterFails(k), UNCHANGED clientVars PROVE ClientTypeOK'
  BY <1>25 DEF RegisterFails, AddClient, Unlock, EndHandler, CloseServerEnd, storeVars, clientVars
<1>26. ASSUME NEW k \in Conns, ReadFails(k), UNCHANGED clientVars PROVE ClientTypeOK'
  BY <1>26 DEF ReadFails, EndHandler, CloseServerEnd, storeVars, clientVars
<1>27. ASSUME NEW k \in Conns, EndSession(k), UNCHANGED clientVars PROVE ClientTypeOK'
  BY <1>27 DEF EndSession, EndHandler, CloseServerEnd, storeVars, clientVars
<1>28. ASSUME NEW k \in Conns, LoseLink(k) PROVE ClientTypeOK'
  BY <1>28 DEF LoseLink, Break, clientVars, serverVars
<1>29. CASE UNCHANGED vars
  BY <1>29 DEF vars, wireVars, clientVars, serverVars
<1> QED  BY <1>1, <1>2, <1>3, <1>4, <1>5, <1>6, <1>7, <1>8, <1>9, <1>10, <1>11, <1>12, <1>13, <1>14, <1>15, <1>16, <1>17, <1>18, <1>19, <1>20, <1>21, <1>22, <1>23, <1>24, <1>25, <1>26, <1>27, <1>28, <1>29 DEF Next, ClientStep, ClientProgress, ServerStep, LockingStep, PlainStep

(* Types of the server's variables.                                        *)
LEMMA ServerTypesStep ==
  ASSUME TypeOK, HandlerConsistent, [Next]_vars
  PROVE  ServerTypeOK'
<1> USE NoneAssumption DEF TypeOK, WireTypeOK, ServerTypeOK, ServerPhases, HandlerPhases, NoClients, HandlerConsistent
<1>1. ASSUME NEW c \in Clients, SendId(c), UNCHANGED serverVars PROVE ServerTypeOK'
  BY <1>1 DEF SendId, WriteUp, serverVars
<1>2. ASSUME NEW c \in Clients, HandshakeError(c), UNCHANGED serverVars PROVE ServerTypeOK'
  BY <1>2 DEF HandshakeError, CloseClientEnd, ConnectFalse, TryAgain, Exit, serverVars
<1>3. ASSUME NEW c \in Clients, RecvConf(c), UNCHANGED serverVars PROVE ServerTypeOK'
  BY <1>3 DEF RecvConf, ReadDown, TakeConf, serverVars
<1>4. ASSUME NEW c \in Clients, RecvEOT(c), UNCHANGED serverVars PROVE ServerTypeOK'
  BY <1>4 DEF RecvEOT, ReadDown, serverVars
<1>5. ASSUME NEW c \in Clients, SaveTruncate(c), UNCHANGED serverVars PROVE ServerTypeOK'
  BY <1>5 DEF SaveTruncate, wireVars, serverVars
<1>6. ASSUME NEW c \in Clients, SaveWrite(c), UNCHANGED serverVars PROVE ServerTypeOK'
  BY <1>6 DEF SaveWrite, StartCollectors, wireVars, serverVars
<1>7. ASSUME NEW c \in Clients, SaveError(c), UNCHANGED serverVars PROVE ServerTypeOK'
  BY <1>7 DEF SaveError, StartCollectors, wireVars, serverVars
<1>8. ASSUME NEW c \in Clients, Start(c), UNCHANGED serverVars PROVE ServerTypeOK'
  BY <1>8 DEF Start, wireVars, serverVars
<1>9. ASSUME NEW c \in Clients, DialTimeout(c), UNCHANGED serverVars PROVE ServerTypeOK'
  BY <1>9 DEF DialTimeout, ConnectFalse, TryAgain, Exit, wireVars, serverVars
<1>10. ASSUME NEW c \in Clients, Reconnect(c), UNCHANGED serverVars PROVE ServerTypeOK'
  BY <1>10 DEF Reconnect, CloseClientEnd, serverVars
<1>11. ASSUME NEW c \in Clients, ListenReturns(c), UNCHANGED serverVars PROVE ServerTypeOK'
  BY <1>11 DEF ListenReturns, CloseClientEnd, Exit, serverVars
<1>12. ASSUME NEW c \in Clients, Stop(c), UNCHANGED serverVars PROVE ServerTypeOK'
  BY <1>12 DEF Stop, CloseClientEnd, Exit, wireVars, serverVars
<1>13. ASSUME NEW c \in Clients, NEW k \in Conns, ConnectTo(c, k) PROVE ServerTypeOK'
  BY <1>13 DEF ConnectTo, Dial, OpenWire, AcceptConn, storeVars
<1>14. CASE OpenDB /\ UNCHANGED clientVars
  BY <1>14 DEF OpenDB, wireVars, clientVars
<1>15. CASE MakeBuckets /\ UNCHANGED clientVars
  BY <1>15 DEF MakeBuckets, wireVars, clientVars
<1>16. CASE LoadInventory /\ UNCHANGED clientVars
  BY <1>16 DEF LoadInventory, storeVars, SavedClients, NoClients, wireVars, clientVars
<1>17. CASE ServerCrash /\ UNCHANGED clientVars
  BY <1>17 DEF ServerCrash, CloseAllServerEnds, storeVars, NoClients, clientVars
<1>18. CASE WipeDB /\ UNCHANGED clientVars
  <2>1. wipes + 1 \in Nat /\ NoClients \in [Ids -> Confs \cup {None}]
    OBVIOUS
  <2> QED  BY <1>18, <2>1 DEF WipeDB, wireVars, clientVars
<1>19. ASSUME NEW k \in Conns, KnownHello(k), UNCHANGED clientVars PROVE ServerTypeOK'
  BY <1>19 DEF KnownHello, HasHello, Lookup, LockFree, ReadUp, storeVars, clientVars
<1>20. ASSUME NEW k \in Conns, UnknownHello(k), UNCHANGED clientVars PROVE ServerTypeOK'
  BY <1>20 DEF UnknownHello, HasHello, Lookup, LockFree, ReadUp, storeVars, clientVars
<1>21. ASSUME NEW k \in Conns, PickId(k), UNCHANGED clientVars PROVE ServerTypeOK'
  BY <1>21 DEF PickId, LockFree, Taken, storeVars, wireVars, clientVars
<1>22. ASSUME NEW k \in Conns, Welcome(k), UNCHANGED clientVars PROVE ServerTypeOK'
  BY <1>22 DEF Welcome, LockFree, AddClient, WriteDown, Answer, ClientConf, EOT, storeVars, clientVars
<1>23. ASSUME NEW k \in Conns, NewcomerHello(k), UNCHANGED clientVars PROVE ServerTypeOK'
  BY <1>23 DEF NewcomerHello, HasHello, ReadUp, storeVars, clientVars
<1>24. ASSUME NEW k \in Conns, Register(k), UNCHANGED clientVars PROVE ServerTypeOK'
  BY <1>24 DEF Register, AddClient, Persist, Unlock, wireVars, clientVars
<1>25. ASSUME NEW k \in Conns, RegisterFails(k), UNCHANGED clientVars PROVE ServerTypeOK'
  BY <1>25 DEF RegisterFails, AddClient, Unlock, EndHandler, CloseServerEnd, storeVars, clientVars
<1>26. ASSUME NEW k \in Conns, ReadFails(k), UNCHANGED clientVars PROVE ServerTypeOK'
  BY <1>26 DEF ReadFails, EndHandler, CloseServerEnd, storeVars, clientVars
<1>27. ASSUME NEW k \in Conns, EndSession(k), UNCHANGED clientVars PROVE ServerTypeOK'
  BY <1>27 DEF EndSession, EndHandler, CloseServerEnd, storeVars, clientVars
<1>28. ASSUME NEW k \in Conns, LoseLink(k) PROVE ServerTypeOK'
  BY <1>28 DEF LoseLink, Break, clientVars, serverVars
<1>29. CASE UNCHANGED vars
  BY <1>29 DEF vars, wireVars, clientVars, serverVars
<1> QED  BY <1>1, <1>2, <1>3, <1>4, <1>5, <1>6, <1>7, <1>8, <1>9, <1>10, <1>11, <1>12, <1>13, <1>14, <1>15, <1>16, <1>17, <1>18, <1>19, <1>20, <1>21, <1>22, <1>23, <1>24, <1>25, <1>26, <1>27, <1>28, <1>29 DEF Next, ClientStep, ClientProgress, ServerStep, LockingStep, PlainStep

(* An end that nobody holds stays empty.                                   *)
LEMMA WireStep ==
  ASSUME TypeOK, WireConsistent, ConnectionOwned, [Next]_vars
  PROVE  WireConsistent'
<1> USE NoneAssumption DEF TypeOK, WireTypeOK, ClientTypeOK, ServerTypeOK, WireConsistent, ConnectionOwned, Phases
<1>1. ASSUME NEW c \in Clients, SendId(c), UNCHANGED serverVars PROVE WireConsistent'
  BY <1>1 DEF SendId, WriteUp, serverVars
<1>2. ASSUME NEW c \in Clients, HandshakeError(c), UNCHANGED serverVars PROVE WireConsistent'
  BY <1>2 DEF HandshakeError, CloseClientEnd, ConnectFalse, TryAgain, Exit, serverVars
<1>3. ASSUME NEW c \in Clients, RecvConf(c), UNCHANGED serverVars PROVE WireConsistent'
  BY <1>3 DEF RecvConf, ReadDown, TakeConf, serverVars
<1>4. ASSUME NEW c \in Clients, RecvEOT(c), UNCHANGED serverVars PROVE WireConsistent'
  BY <1>4 DEF RecvEOT, ReadDown, serverVars
<1>5. ASSUME NEW c \in Clients, SaveTruncate(c), UNCHANGED serverVars PROVE WireConsistent'
  BY <1>5 DEF SaveTruncate, wireVars, serverVars
<1>6. ASSUME NEW c \in Clients, SaveWrite(c), UNCHANGED serverVars PROVE WireConsistent'
  BY <1>6 DEF SaveWrite, StartCollectors, wireVars, serverVars
<1>7. ASSUME NEW c \in Clients, SaveError(c), UNCHANGED serverVars PROVE WireConsistent'
  BY <1>7 DEF SaveError, StartCollectors, wireVars, serverVars
<1>8. ASSUME NEW c \in Clients, Start(c), UNCHANGED serverVars PROVE WireConsistent'
  BY <1>8 DEF Start, wireVars, serverVars
<1>9. ASSUME NEW c \in Clients, DialTimeout(c), UNCHANGED serverVars PROVE WireConsistent'
  BY <1>9 DEF DialTimeout, ConnectFalse, TryAgain, Exit, wireVars, serverVars
<1>10. ASSUME NEW c \in Clients, Reconnect(c), UNCHANGED serverVars PROVE WireConsistent'
  BY <1>10 DEF Reconnect, CloseClientEnd, serverVars
<1>11. ASSUME NEW c \in Clients, ListenReturns(c), UNCHANGED serverVars PROVE WireConsistent'
  BY <1>11 DEF ListenReturns, CloseClientEnd, Exit, serverVars
<1>12. ASSUME NEW c \in Clients, Stop(c), UNCHANGED serverVars PROVE WireConsistent'
  <2>1. CASE conn[c] = None
    BY <1>12, <2>1 DEF Stop, CloseClientEnd, Exit, wireVars, serverVars
  <2>2. CASE conn[c] # None
    <3>1. conn[c] \in Conns /\ \A e \in Clients : conn[e] = conn[c] => e = c
      BY <2>2, Connected
    <3>2. CloseClientEnd(conn[c]) /\ Exit(c)
      BY <1>12, <2>2 DEF Stop
    <3> QED  BY <1>12, <3>1, <3>2 DEF CloseClientEnd, Exit, serverVars
  <2> QED  BY <2>1, <2>2
<1>13. ASSUME NEW c \in Clients, NEW k \in Conns, ConnectTo(c, k) PROVE WireConsistent'
  BY <1>13 DEF ConnectTo, Dial, OpenWire, AcceptConn, storeVars
<1>14. CASE OpenDB /\ UNCHANGED clientVars
  BY <1>14 DEF OpenDB, wireVars, clientVars
<1>15. CASE MakeBuckets /\ UNCHANGED clientVars
  BY <1>15 DEF MakeBuckets, wireVars, clientVars
<1>16. CASE LoadInventory /\ UNCHANGED clientVars
  BY <1>16 DEF LoadInventory, storeVars, SavedClients, NoClients, wireVars, clientVars
<1>17. CASE ServerCrash /\ UNCHANGED clientVars
  BY <1>17 DEF ServerCrash, CloseAllServerEnds, storeVars, NoClients, clientVars
<1>18. CASE WipeDB /\ UNCHANGED clientVars
  BY <1>18 DEF WipeDB, NoClients, wireVars, clientVars
<1>19. ASSUME NEW k \in Conns, KnownHello(k), UNCHANGED clientVars PROVE WireConsistent'
  BY <1>19 DEF KnownHello, HasHello, Lookup, LockFree, ReadUp, storeVars, clientVars
<1>20. ASSUME NEW k \in Conns, UnknownHello(k), UNCHANGED clientVars PROVE WireConsistent'
  BY <1>20 DEF UnknownHello, HasHello, Lookup, LockFree, ReadUp, storeVars, clientVars
<1>21. ASSUME NEW k \in Conns, PickId(k), UNCHANGED clientVars PROVE WireConsistent'
  BY <1>21 DEF PickId, LockFree, Taken, storeVars, wireVars, clientVars
<1>22. ASSUME NEW k \in Conns, Welcome(k), UNCHANGED clientVars PROVE WireConsistent'
  BY <1>22 DEF Welcome, LockFree, AddClient, WriteDown, Answer, ClientConf, EOT, storeVars, clientVars
<1>23. ASSUME NEW k \in Conns, NewcomerHello(k), UNCHANGED clientVars PROVE WireConsistent'
  BY <1>23 DEF NewcomerHello, HasHello, ReadUp, storeVars, clientVars
<1>24. ASSUME NEW k \in Conns, Register(k), UNCHANGED clientVars PROVE WireConsistent'
  BY <1>24 DEF Register, AddClient, Persist, Unlock, wireVars, clientVars
<1>25. ASSUME NEW k \in Conns, RegisterFails(k), UNCHANGED clientVars PROVE WireConsistent'
  BY <1>25 DEF RegisterFails, AddClient, Unlock, EndHandler, CloseServerEnd, storeVars, clientVars
<1>26. ASSUME NEW k \in Conns, ReadFails(k), UNCHANGED clientVars PROVE WireConsistent'
  BY <1>26 DEF ReadFails, EndHandler, CloseServerEnd, storeVars, clientVars
<1>27. ASSUME NEW k \in Conns, EndSession(k), UNCHANGED clientVars PROVE WireConsistent'
  BY <1>27 DEF EndSession, EndHandler, CloseServerEnd, storeVars, clientVars
<1>28. ASSUME NEW k \in Conns, LoseLink(k) PROVE WireConsistent'
  BY <1>28 DEF LoseLink, Break, clientVars, serverVars
<1>29. CASE UNCHANGED vars
  BY <1>29 DEF vars, wireVars, clientVars, serverVars
<1> QED  BY <1>1, <1>2, <1>3, <1>4, <1>5, <1>6, <1>7, <1>8, <1>9, <1>10, <1>11, <1>12, <1>13, <1>14, <1>15, <1>16, <1>17, <1>18, <1>19, <1>20, <1>21, <1>22, <1>23, <1>24, <1>25, <1>26, <1>27, <1>28, <1>29 DEF Next, ClientStep, ClientProgress, ServerStep, LockingStep, PlainStep

(* A client keeps the connection it dialed to itself.                      *)
LEMMA ConnectionStep ==
  ASSUME TypeOK, WireConsistent, ConnectionOwned, [Next]_vars
  PROVE  ConnectionOwned'
<1> USE NoneAssumption DEF TypeOK, WireTypeOK, ClientTypeOK, ConnectionOwned, Phases
<1>1. ASSUME NEW c \in Clients, SendId(c), UNCHANGED serverVars PROVE ConnectionOwned'
  BY <1>1 DEF SendId, WriteUp, serverVars
<1>2. ASSUME NEW c \in Clients, HandshakeError(c), UNCHANGED serverVars PROVE ConnectionOwned'
  <2>1. CASE TryAgain(c)
    BY <1>2, <2>1 DEF HandshakeError, CloseClientEnd, ConnectFalse, TryAgain, Exit, serverVars
  <2>2. CASE Exit(c)
    BY <1>2, <2>2 DEF HandshakeError, CloseClientEnd, ConnectFalse, TryAgain, Exit, serverVars
  <2> QED  BY <1>2, <2>1, <2>2 DEF HandshakeError, DialTimeout, ConnectFalse
<1>3. ASSUME NEW c \in Clients, RecvConf(c), UNCHANGED serverVars PROVE ConnectionOwned'
  BY <1>3 DEF RecvConf, ReadDown, TakeConf, serverVars
<1>4. ASSUME NEW c \in Clients, RecvEOT(c), UNCHANGED serverVars PROVE ConnectionOwned'
  BY <1>4 DEF RecvEOT, ReadDown, serverVars
<1>5. ASSUME NEW c \in Clients, SaveTruncate(c), UNCHANGED serverVars PROVE ConnectionOwned'
  BY <1>5 DEF SaveTruncate, wireVars, serverVars
<1>6. ASSUME NEW c \in Clients, SaveWrite(c), UNCHANGED serverVars PROVE ConnectionOwned'
  BY <1>6 DEF SaveWrite, StartCollectors, wireVars, serverVars
<1>7. ASSUME NEW c \in Clients, SaveError(c), UNCHANGED serverVars PROVE ConnectionOwned'
  BY <1>7 DEF SaveError, StartCollectors, wireVars, serverVars
<1>8. ASSUME NEW c \in Clients, Start(c), UNCHANGED serverVars PROVE ConnectionOwned'
  BY <1>8 DEF Start, wireVars, serverVars
<1>9. ASSUME NEW c \in Clients, DialTimeout(c), UNCHANGED serverVars PROVE ConnectionOwned'
  <2>1. CASE TryAgain(c)
    BY <1>9, <2>1 DEF DialTimeout, ConnectFalse, TryAgain, Exit, wireVars, serverVars
  <2>2. CASE Exit(c)
    BY <1>9, <2>2 DEF DialTimeout, ConnectFalse, TryAgain, Exit, wireVars, serverVars
  <2> QED  BY <1>9, <2>1, <2>2 DEF HandshakeError, DialTimeout, ConnectFalse
<1>10. ASSUME NEW c \in Clients, Reconnect(c), UNCHANGED serverVars PROVE ConnectionOwned'
  BY <1>10 DEF Reconnect, CloseClientEnd, serverVars
<1>11. ASSUME NEW c \in Clients, ListenReturns(c), UNCHANGED serverVars PROVE ConnectionOwned'
  BY <1>11 DEF ListenReturns, CloseClientEnd, Exit, serverVars
<1>12. ASSUME NEW c \in Clients, Stop(c), UNCHANGED serverVars PROVE ConnectionOwned'
  <2>1. CASE conn[c] = None
    BY <1>12, <2>1 DEF Stop, CloseClientEnd, Exit, wireVars, serverVars
  <2>2. CASE conn[c] # None
    <3>1. conn[c] \in Conns /\ \A e \in Clients : conn[e] = conn[c] => e = c
      BY <2>2, Connected
    <3> SUFFICES ASSUME NEW d \in Clients
          PROVE  /\ (conn[d] = None)' <=> (phase[d] \in {"off", "connect"})'
                 /\ (conn[d] \in Conns => peer[conn[d]] = d /\ "client" \in held[conn[d]])'
                 /\ (phase[d] = "off" => collect[d] = None)'
      BY DEF ConnectionOwned
    <3>2. CASE d = c
      BY <1>12, <3>1, <3>2, <2>2 DEF Stop, CloseClientEnd, Exit, wireVars, serverVars
    <3>3. CASE d # c
      BY <1>12, <3>1, <3>3, <2>2 DEF Stop, CloseClientEnd, Exit, wireVars, serverVars
    <3> QED  BY <3>2, <3>3
  <2> QED  BY <2>1, <2>2
<1>13. ASSUME NEW c \in Clients, NEW k \in Conns, ConnectTo(c, k) PROVE ConnectionOwned'
  BY <1>13 DEF ConnectTo, Dial, OpenWire, AcceptConn, storeVars
<1>14. CASE OpenDB /\ UNCHANGED clientVars
  BY <1>14 DEF OpenDB, wireVars, clientVars
<1>15. CASE MakeBuckets /\ UNCHANGED clientVars
  BY <1>15 DEF MakeBuckets, wireVars, clientVars
<1>16. CASE LoadInventory /\ UNCHANGED clientVars
  BY <1>16 DEF LoadInventory, storeVars, SavedClients, NoClients, wireVars, clientVars
<1>17. CASE ServerCrash /\ UNCHANGED clientVars
  BY <1>17 DEF ServerCrash, CloseAllServerEnds, storeVars, NoClients, clientVars
<1>18. CASE WipeDB /\ UNCHANGED clientVars
  BY <1>18 DEF WipeDB, NoClients, wireVars, clientVars
<1>19. ASSUME NEW k \in Conns, KnownHello(k), UNCHANGED clientVars PROVE ConnectionOwned'
  BY <1>19 DEF KnownHello, HasHello, Lookup, LockFree, ReadUp, storeVars, clientVars
<1>20. ASSUME NEW k \in Conns, UnknownHello(k), UNCHANGED clientVars PROVE ConnectionOwned'
  BY <1>20 DEF UnknownHello, HasHello, Lookup, LockFree, ReadUp, storeVars, clientVars
<1>21. ASSUME NEW k \in Conns, PickId(k), UNCHANGED clientVars PROVE ConnectionOwned'
  BY <1>21 DEF PickId, LockFree, Taken, storeVars, wireVars, clientVars
<1>22. ASSUME NEW k \in Conns, Welcome(k), UNCHANGED clientVars PROVE ConnectionOwned'
  BY <1>22 DEF Welcome, LockFree, AddClient, WriteDown, Answer, ClientConf, EOT, storeVars, clientVars
<1>23. ASSUME NEW k \in Conns, NewcomerHello(k), UNCHANGED clientVars PROVE ConnectionOwned'
  BY <1>23 DEF NewcomerHello, HasHello, ReadUp, storeVars, clientVars
<1>24. ASSUME NEW k \in Conns, Register(k), UNCHANGED clientVars PROVE ConnectionOwned'
  BY <1>24 DEF Register, AddClient, Persist, Unlock, wireVars, clientVars
<1>25. ASSUME NEW k \in Conns, RegisterFails(k), UNCHANGED clientVars PROVE ConnectionOwned'
  BY <1>25 DEF RegisterFails, AddClient, Unlock, EndHandler, CloseServerEnd, storeVars, clientVars
<1>26. ASSUME NEW k \in Conns, ReadFails(k), UNCHANGED clientVars PROVE ConnectionOwned'
  BY <1>26 DEF ReadFails, EndHandler, CloseServerEnd, storeVars, clientVars
<1>27. ASSUME NEW k \in Conns, EndSession(k), UNCHANGED clientVars PROVE ConnectionOwned'
  BY <1>27 DEF EndSession, EndHandler, CloseServerEnd, storeVars, clientVars
<1>28. ASSUME NEW k \in Conns, LoseLink(k) PROVE ConnectionOwned'
  BY <1>28 DEF LoseLink, Break, clientVars, serverVars
<1>29. CASE UNCHANGED vars
  BY <1>29 DEF vars, wireVars, clientVars, serverVars
<1> QED  BY <1>1, <1>2, <1>3, <1>4, <1>5, <1>6, <1>7, <1>8, <1>9, <1>10, <1>11, <1>12, <1>13, <1>14, <1>15, <1>16, <1>17, <1>18, <1>19, <1>20, <1>21, <1>22, <1>23, <1>24, <1>25, <1>26, <1>27, <1>28, <1>29 DEF Next, ClientStep, ClientProgress, ServerStep, LockingStep, PlainStep

(* Handlers, their ids and the mutex stay in agreement.                    *)
LEMMA HandlerStep ==
  ASSUME TypeOK, HandlerConsistent, [Next]_vars
  PROVE  HandlerConsistent'
<1> USE NoneAssumption DEF TypeOK, ServerTypeOK, HandlerPhases, ServerPhases, HandlerConsistent, Taken
<1>1. ASSUME NEW c \in Clients, SendId(c), UNCHANGED serverVars PROVE HandlerConsistent'
  BY <1>1 DEF SendId, WriteUp, serverVars
<1>2. ASSUME NEW c \in Clients, HandshakeError(c), UNCHANGED serverVars PROVE HandlerConsistent'
  BY <1>2 DEF HandshakeError, CloseClientEnd, ConnectFalse, TryAgain, Exit, serverVars
<1>3. ASSUME NEW c \in Clients, RecvConf(c), UNCHANGED serverVars PROVE HandlerConsistent'
  BY <1>3 DEF RecvConf, ReadDown, TakeConf, serverVars
<1>4. ASSUME NEW c \in Clients, RecvEOT(c), UNCHANGED serverVars PROVE HandlerConsistent'
  BY <1>4 DEF RecvEOT, ReadDown, serverVars
<1>5. ASSUME NEW c \in Clients, SaveTruncate(c), UNCHANGED serverVars PROVE HandlerConsistent'
  BY <1>5 DEF SaveTruncate, wireVars, serverVars
<1>6. ASSUME NEW c \in Clients, SaveWrite(c), UNCHANGED serverVars PROVE HandlerConsistent'
  BY <1>6 DEF SaveWrite, StartCollectors, wireVars, serverVars
<1>7. ASSUME NEW c \in Clients, SaveError(c), UNCHANGED serverVars PROVE HandlerConsistent'
  BY <1>7 DEF SaveError, StartCollectors, wireVars, serverVars
<1>8. ASSUME NEW c \in Clients, Start(c), UNCHANGED serverVars PROVE HandlerConsistent'
  BY <1>8 DEF Start, wireVars, serverVars
<1>9. ASSUME NEW c \in Clients, DialTimeout(c), UNCHANGED serverVars PROVE HandlerConsistent'
  BY <1>9 DEF DialTimeout, ConnectFalse, TryAgain, Exit, wireVars, serverVars
<1>10. ASSUME NEW c \in Clients, Reconnect(c), UNCHANGED serverVars PROVE HandlerConsistent'
  BY <1>10 DEF Reconnect, CloseClientEnd, serverVars
<1>11. ASSUME NEW c \in Clients, ListenReturns(c), UNCHANGED serverVars PROVE HandlerConsistent'
  BY <1>11 DEF ListenReturns, CloseClientEnd, Exit, serverVars
<1>12. ASSUME NEW c \in Clients, Stop(c), UNCHANGED serverVars PROVE HandlerConsistent'
  BY <1>12 DEF Stop, CloseClientEnd, Exit, wireVars, serverVars
<1>13. ASSUME NEW c \in Clients, NEW k \in Conns, ConnectTo(c, k) PROVE HandlerConsistent'
  BY <1>13 DEF ConnectTo, Dial, OpenWire, AcceptConn, storeVars
<1>14. CASE OpenDB /\ UNCHANGED clientVars
  BY <1>14 DEF OpenDB, wireVars, clientVars
<1>15. CASE MakeBuckets /\ UNCHANGED clientVars
  BY <1>15 DEF MakeBuckets, wireVars, clientVars
<1>16. CASE LoadInventory /\ UNCHANGED clientVars
  BY <1>16 DEF LoadInventory, storeVars, SavedClients, NoClients, wireVars, clientVars
<1>17. CASE ServerCrash /\ UNCHANGED clientVars
  BY <1>17 DEF ServerCrash, CloseAllServerEnds, storeVars, NoClients, clientVars
<1>18. CASE WipeDB /\ UNCHANGED clientVars
  BY <1>18 DEF WipeDB, NoClients, wireVars, clientVars
<1>19. ASSUME NEW k \in Conns, KnownHello(k), UNCHANGED clientVars PROVE HandlerConsistent'
  BY <1>19 DEF KnownHello, HasHello, Lookup, LockFree, ReadUp, storeVars, clientVars
<1>20. ASSUME NEW k \in Conns, UnknownHello(k), UNCHANGED clientVars PROVE HandlerConsistent'
  BY <1>20 DEF UnknownHello, HasHello, Lookup, LockFree, ReadUp, storeVars, clientVars
<1>21. ASSUME NEW k \in Conns, PickId(k), UNCHANGED clientVars PROVE HandlerConsistent'
  BY <1>21 DEF PickId, LockFree, Taken, storeVars, wireVars, clientVars
<1>22. ASSUME NEW k \in Conns, Welcome(k), UNCHANGED clientVars PROVE HandlerConsistent'
  BY <1>22 DEF Welcome, LockFree, AddClient, WriteDown, Answer, ClientConf, EOT, storeVars, clientVars
<1>23. ASSUME NEW k \in Conns, NewcomerHello(k), UNCHANGED clientVars PROVE HandlerConsistent'
  BY <1>23 DEF NewcomerHello, HasHello, ReadUp, storeVars, clientVars
<1>24. ASSUME NEW k \in Conns, Register(k), UNCHANGED clientVars PROVE HandlerConsistent'
  BY <1>24 DEF Register, AddClient, Persist, Unlock, wireVars, clientVars
<1>25. ASSUME NEW k \in Conns, RegisterFails(k), UNCHANGED clientVars PROVE HandlerConsistent'
  BY <1>25 DEF RegisterFails, AddClient, Unlock, EndHandler, CloseServerEnd, storeVars, clientVars
<1>26. ASSUME NEW k \in Conns, ReadFails(k), UNCHANGED clientVars PROVE HandlerConsistent'
  BY <1>26 DEF ReadFails, EndHandler, CloseServerEnd, storeVars, clientVars
<1>27. ASSUME NEW k \in Conns, EndSession(k), UNCHANGED clientVars PROVE HandlerConsistent'
  BY <1>27 DEF EndSession, EndHandler, CloseServerEnd, storeVars, clientVars
<1>28. ASSUME NEW k \in Conns, LoseLink(k) PROVE HandlerConsistent'
  BY <1>28 DEF LoseLink, Break, clientVars, serverVars
<1>29. CASE UNCHANGED vars
  BY <1>29 DEF vars, wireVars, clientVars, serverVars
<1> QED  BY <1>1, <1>2, <1>3, <1>4, <1>5, <1>6, <1>7, <1>8, <1>9, <1>10, <1>11, <1>12, <1>13, <1>14, <1>15, <1>16, <1>17, <1>18, <1>19, <1>20, <1>21, <1>22, <1>23, <1>24, <1>25, <1>26, <1>27, <1>28, <1>29 DEF Next, ClientStep, ClientProgress, ServerStep, LockingStep, PlainStep

(* The inventory keeps what the database has.                              *)
LEMMA InventoryStep ==
  ASSUME TypeOK, HandlerConsistent, InventoryCoherent, AnswersSaved,
         \A i \in Ids : db[i] # None => bucket, [Next]_vars
  PROVE  InventoryCoherent'
<1> USE NoneAssumption DEF TypeOK, ServerTypeOK, HandlerConsistent, InventoryCoherent, AnswersSaved, Taken
<1>1. ASSUME NEW c \in Clients, SendId(c), UNCHANGED serverVars PROVE InventoryCoherent'
  BY <1>1 DEF SendId, WriteUp, serverVars
<1>2. ASSUME NEW c \in Clients, HandshakeError(c), UNCHANGED serverVars PROVE InventoryCoherent'
  BY <1>2 DEF HandshakeError, CloseClientEnd, ConnectFalse, TryAgain, Exit, serverVars
<1>3. ASSUME NEW c \in Clients, RecvConf(c), UNCHANGED serverVars PROVE InventoryCoherent'
  BY <1>3 DEF RecvConf, ReadDown, TakeConf, serverVars
<1>4. ASSUME NEW c \in Clients, RecvEOT(c), UNCHANGED serverVars PROVE InventoryCoherent'
  BY <1>4 DEF RecvEOT, ReadDown, serverVars
<1>5. ASSUME NEW c \in Clients, SaveTruncate(c), UNCHANGED serverVars PROVE InventoryCoherent'
  BY <1>5 DEF SaveTruncate, wireVars, serverVars
<1>6. ASSUME NEW c \in Clients, SaveWrite(c), UNCHANGED serverVars PROVE InventoryCoherent'
  BY <1>6 DEF SaveWrite, StartCollectors, wireVars, serverVars
<1>7. ASSUME NEW c \in Clients, SaveError(c), UNCHANGED serverVars PROVE InventoryCoherent'
  BY <1>7 DEF SaveError, StartCollectors, wireVars, serverVars
<1>8. ASSUME NEW c \in Clients, Start(c), UNCHANGED serverVars PROVE InventoryCoherent'
  BY <1>8 DEF Start, wireVars, serverVars
<1>9. ASSUME NEW c \in Clients, DialTimeout(c), UNCHANGED serverVars PROVE InventoryCoherent'
  BY <1>9 DEF DialTimeout, ConnectFalse, TryAgain, Exit, wireVars, serverVars
<1>10. ASSUME NEW c \in Clients, Reconnect(c), UNCHANGED serverVars PROVE InventoryCoherent'
  BY <1>10 DEF Reconnect, CloseClientEnd, serverVars
<1>11. ASSUME NEW c \in Clients, ListenReturns(c), UNCHANGED serverVars PROVE InventoryCoherent'
  BY <1>11 DEF ListenReturns, CloseClientEnd, Exit, serverVars
<1>12. ASSUME NEW c \in Clients, Stop(c), UNCHANGED serverVars PROVE InventoryCoherent'
  BY <1>12 DEF Stop, CloseClientEnd, Exit, wireVars, serverVars
<1>13. ASSUME NEW c \in Clients, NEW k \in Conns, ConnectTo(c, k) PROVE InventoryCoherent'
  BY <1>13 DEF ConnectTo, Dial, OpenWire, AcceptConn, storeVars
<1>14. CASE OpenDB /\ UNCHANGED clientVars
  BY <1>14 DEF OpenDB, wireVars, clientVars
<1>15. CASE MakeBuckets /\ UNCHANGED clientVars
  BY <1>15 DEF MakeBuckets, wireVars, clientVars
<1>16. CASE LoadInventory /\ UNCHANGED clientVars
  BY <1>16 DEF LoadInventory, storeVars, SavedClients, NoClients, wireVars, clientVars
<1>17. CASE ServerCrash /\ UNCHANGED clientVars
  BY <1>17 DEF ServerCrash, CloseAllServerEnds, storeVars, NoClients, clientVars
<1>18. CASE WipeDB /\ UNCHANGED clientVars
  BY <1>18 DEF WipeDB, NoClients, wireVars, clientVars
<1>19. ASSUME NEW k \in Conns, KnownHello(k), UNCHANGED clientVars PROVE InventoryCoherent'
  BY <1>19 DEF KnownHello, HasHello, Lookup, LockFree, ReadUp, storeVars, clientVars
<1>20. ASSUME NEW k \in Conns, UnknownHello(k), UNCHANGED clientVars PROVE InventoryCoherent'
  BY <1>20 DEF UnknownHello, HasHello, Lookup, LockFree, ReadUp, storeVars, clientVars
<1>21. ASSUME NEW k \in Conns, PickId(k), UNCHANGED clientVars PROVE InventoryCoherent'
  BY <1>21 DEF PickId, LockFree, Taken, storeVars, wireVars, clientVars
<1>22. ASSUME NEW k \in Conns, Welcome(k), UNCHANGED clientVars PROVE InventoryCoherent'
  BY <1>22 DEF Welcome, LockFree, AddClient, WriteDown, Answer, ClientConf, EOT, storeVars, clientVars
<1>23. ASSUME NEW k \in Conns, NewcomerHello(k), UNCHANGED clientVars PROVE InventoryCoherent'
  BY <1>23 DEF NewcomerHello, HasHello, ReadUp, storeVars, clientVars
<1>24. ASSUME NEW k \in Conns, Register(k), UNCHANGED clientVars PROVE InventoryCoherent'
  BY <1>24 DEF Register, AddClient, Persist, Unlock, wireVars, clientVars
<1>25. ASSUME NEW k \in Conns, RegisterFails(k), UNCHANGED clientVars PROVE InventoryCoherent'
  BY <1>25 DEF RegisterFails, AddClient, Unlock, EndHandler, CloseServerEnd, storeVars, clientVars
<1>26. ASSUME NEW k \in Conns, ReadFails(k), UNCHANGED clientVars PROVE InventoryCoherent'
  BY <1>26 DEF ReadFails, EndHandler, CloseServerEnd, storeVars, clientVars
<1>27. ASSUME NEW k \in Conns, EndSession(k), UNCHANGED clientVars PROVE InventoryCoherent'
  BY <1>27 DEF EndSession, EndHandler, CloseServerEnd, storeVars, clientVars
<1>28. ASSUME NEW k \in Conns, LoseLink(k) PROVE InventoryCoherent'
  BY <1>28 DEF LoseLink, Break, clientVars, serverVars
<1>29. CASE UNCHANGED vars
  BY <1>29 DEF vars, wireVars, clientVars, serverVars
<1> QED  BY <1>1, <1>2, <1>3, <1>4, <1>5, <1>6, <1>7, <1>8, <1>9, <1>10, <1>11, <1>12, <1>13, <1>14, <1>15, <1>16, <1>17, <1>18, <1>19, <1>20, <1>21, <1>22, <1>23, <1>24, <1>25, <1>26, <1>27, <1>28, <1>29 DEF Next, ClientStep, ClientProgress, ServerStep, LockingStep, PlainStep

(* Answers agree with the database.                                        *)
LEMMA AnswerStep ==
  ASSUME TypeOK, WireConsistent, ConnectionOwned, HandlerConsistent,
         InventoryCoherent, AnswersSaved, DurableEverywhere, [Next]_vars
  PROVE  AnswersSaved'
<1> USE NoneAssumption DEF TypeOK, WireTypeOK, ServerTypeOK, HandlerConsistent, InventoryCoherent, AnswersSaved, Taken, DurableEverywhere
<1>1. ASSUME NEW c \in Clients, SendId(c), UNCHANGED serverVars PROVE AnswersSaved'
  BY <1>1 DEF SendId, WriteUp, serverVars
<1>2. ASSUME NEW c \in Clients, HandshakeError(c), UNCHANGED serverVars PROVE AnswersSaved'
  BY <1>2 DEF HandshakeError, CloseClientEnd, ConnectFalse, TryAgain, Exit, serverVars
<1>3. ASSUME NEW c \in Clients, RecvConf(c), UNCHANGED serverVars PROVE AnswersSaved'
  BY <1>3 DEF RecvConf, ReadDown, TakeConf, serverVars
<1>4. ASSUME NEW c \in Clients, RecvEOT(c), UNCHANGED serverVars PROVE AnswersSaved'
  BY <1>4 DEF RecvEOT, ReadDown, serverVars
<1>5. ASSUME NEW c \in Clients, SaveTruncate(c), UNCHANGED serverVars PROVE AnswersSaved'
  BY <1>5 DEF SaveTruncate, wireVars, serverVars
<1>6. ASSUME NEW c \in Clients, SaveWrite(c), UNCHANGED serverVars PROVE AnswersSaved'
  BY <1>6 DEF SaveWrite, StartCollectors, wireVars, serverVars
<1>7. ASSUME NEW c \in Clients, SaveError(c), UNCHANGED serverVars PROVE AnswersSaved'
  BY <1>7 DEF SaveError, StartCollectors, wireVars, serverVars
<1>8. ASSUME NEW c \in Clients, Start(c), UNCHANGED serverVars PROVE AnswersSaved'
  BY <1>8 DEF Start, wireVars, serverVars
<1>9. ASSUME NEW c \in Clients, DialTimeout(c), UNCHANGED serverVars PROVE AnswersSaved'
  BY <1>9 DEF DialTimeout, ConnectFalse, TryAgain, Exit, wireVars, serverVars
<1>10. ASSUME NEW c \in Clients, Reconnect(c), UNCHANGED serverVars PROVE AnswersSaved'
  BY <1>10 DEF Reconnect, CloseClientEnd, serverVars
<1>11. ASSUME NEW c \in Clients, ListenReturns(c), UNCHANGED serverVars PROVE AnswersSaved'
  BY <1>11 DEF ListenReturns, CloseClientEnd, Exit, serverVars
<1>12. ASSUME NEW c \in Clients, Stop(c), UNCHANGED serverVars PROVE AnswersSaved'
  <2>1. CASE conn[c] = None
    BY <1>12, <2>1 DEF Stop, CloseClientEnd, Exit, wireVars, serverVars
  <2>2. CASE conn[c] # None
    <3>1. conn[c] \in Conns /\ \A e \in Clients : conn[e] = conn[c] => e = c
      BY <2>2, Connected
    <3>2. CloseClientEnd(conn[c]) /\ Exit(c)
      BY <1>12, <2>2 DEF Stop
    <3> QED  BY <1>12, <3>1, <3>2 DEF CloseClientEnd, Exit, serverVars
  <2> QED  BY <2>1, <2>2
<1>13. ASSUME NEW c \in Clients, NEW k \in Conns, ConnectTo(c, k) PROVE AnswersSaved'
  BY <1>13 DEF ConnectTo, Dial, OpenWire, AcceptConn, storeVars
<1>14. CASE OpenDB /\ UNCHANGED clientVars
  BY <1>14 DEF OpenDB, wireVars, clientVars
<1>15. CASE MakeBuckets /\ UNCHANGED clientVars
  BY <1>15 DEF MakeBuckets, wireVars, clientVars
<1>16. CASE LoadInventory /\ UNCHANGED clientVars
  BY <1>16 DEF LoadInventory, storeVars, SavedClients, NoClients, wireVars, clientVars
<1>17. CASE ServerCrash /\ UNCHANGED clientVars
  BY <1>17 DEF ServerCrash, CloseAllServerEnds, storeVars, NoClients, clientVars
<1>18. CASE WipeDB /\ UNCHANGED clientVars
  BY <1>18 DEF WipeDB, NoClients, wireVars, clientVars
<1>19. ASSUME NEW k \in Conns, KnownHello(k), UNCHANGED clientVars PROVE AnswersSaved'
  BY <1>19 DEF KnownHello, HasHello, Lookup, LockFree, ReadUp, storeVars, clientVars
<1>20. ASSUME NEW k \in Conns, UnknownHello(k), UNCHANGED clientVars PROVE AnswersSaved'
  BY <1>20 DEF UnknownHello, HasHello, Lookup, LockFree, ReadUp, storeVars, clientVars
<1>21. ASSUME NEW k \in Conns, PickId(k), UNCHANGED clientVars PROVE AnswersSaved'
  BY <1>21 DEF PickId, LockFree, Taken, storeVars, wireVars, clientVars
<1>22. ASSUME NEW k \in Conns, Welcome(k), UNCHANGED clientVars PROVE AnswersSaved'
  BY <1>22 DEF Welcome, LockFree, AddClient, WriteDown, Answer, ClientConf, EOT, storeVars, clientVars
<1>23. ASSUME NEW k \in Conns, NewcomerHello(k), UNCHANGED clientVars PROVE AnswersSaved'
  BY <1>23 DEF NewcomerHello, HasHello, ReadUp, storeVars, clientVars
<1>24. ASSUME NEW k \in Conns, Register(k), UNCHANGED clientVars PROVE AnswersSaved'
  <2>0. hpc[k] = "register"
    BY <1>24 DEF Register
  <2>1. hid[k] \in Ids /\ inventory[hid[k]] = None /\ hconf[k] # None
    <3>1. hid[k] # None
      BY <2>0
    <3> QED  BY <2>0, <3>1
  <2>2. db[hid[k]] = None
    <3>1. srv = "up"
      BY <2>0
    <3> QED  BY <2>1, <3>1
  <2>3. SUFFICES ASSUME NEW j \in Conns
        PROVE  /\ (hpc[j] \in {"welcome", "serve"} =>
                     (db[hid[j]] # None => hconf[j] = db[hid[j]]))'
               /\ (wipes = 0 => \A n \in DOMAIN down[j] :
                     down[j][n].kind = "ClientConf" =>
                       down[j][n].id # None /\ down[j][n].conf = db[down[j][n].id])'
    OBVIOUS
  <2>4. (hpc[j] \in {"welcome", "serve"} =>
          (db[hid[j]] # None => hconf[j] = db[hid[j]]))'
    BY <1>24, <2>1 DEF Register, Persist, AddClient, Unlock
  <2>5. ASSUME wipes' = 0, NEW n \in DOMAIN down'[j], down'[j][n].kind = "ClientConf"
        PROVE  (down[j][n].id # None /\ down[j][n].conf = db[down[j][n].id])'
    <3>1. down' = down /\ wipes = 0 /\ db' = [db EXCEPT ![hid[k]] = hconf[k]]
      BY <1>24, <2>5 DEF Register, Persist, wireVars
    <3>2. down[j][n].id # None /\ down[j][n].conf = db[down[j][n].id]
      BY <2>5, <3>1
    <3>3. down[j][n].id \in Ids
      <4>1. down[j] \in Seq(Frames) /\ n \in DOMAIN down[j]
        BY <2>5, <3>1
      <4>2. down[j][n] \in Frames
        BY <4>1
      <4> QED  BY <3>2, <4>2 DEF Frames
    <3>4. db[down[j][n].id] # None
      BY <2>5, <3>1, <3>3
    <3> QED  BY <2>2, <3>1, <3>2, <3>4
  <2> QED  BY <2>4, <2>5
<1>25. ASSUME NEW k \in Conns, RegisterFails(k), UNCHANGED clientVars PROVE AnswersSaved'
  BY <1>25 DEF RegisterFails, AddClient, Unlock, EndHandler, CloseServerEnd, storeVars, clientVars
<1>26. ASSUME NEW k \in Conns, ReadFails(k), UNCHANGED clientVars PROVE AnswersSaved'
  BY <1>26 DEF ReadFails, EndHandler, CloseServerEnd, storeVars, clientVars
<1>27. ASSUME NEW k \in Conns, EndSession(k), UNCHANGED clientVars PROVE AnswersSaved'
  BY <1>27 DEF EndSession, EndHandler, CloseServerEnd, storeVars, clientVars
<1>28. ASSUME NEW k \in Conns, LoseLink(k) PROVE AnswersSaved'
  BY <1>28 DEF LoseLink, Break, clientVars, serverVars
<1>29. CASE UNCHANGED vars
  BY <1>29 DEF vars, wireVars, clientVars, serverVars
<1> QED  BY <1>1, <1>2, <1>3, <1>4, <1>5, <1>6, <1>7, <1>8, <1>9, <1>10, <1>11, <1>12, <1>13, <1>14, <1>15, <1>16, <1>17, <1>18, <1>19, <1>20, <1>21, <1>22, <1>23, <1>24, <1>25, <1>26, <1>27, <1>28, <1>29 DEF Next, ClientStep, ClientProgress, ServerStep, LockingStep, PlainStep

(* Saved clients need the bucket.                                          *)
LEMMA BucketStep ==
  ASSUME TypeOK, \A i \in Ids : db[i] # None => bucket, [Next]_vars
  PROVE  (\A i \in Ids : db[i] # None => bucket)'
<1> USE NoneAssumption DEF TypeOK, ServerTypeOK
<1>1. ASSUME NEW c \in Clients, SendId(c), UNCHANGED serverVars PROVE (\A i \in Ids : db[i] # None => bucket)'
  BY <1>1 DEF SendId, WriteUp, serverVars
<1>2. ASSUME NEW c \in Clients, HandshakeError(c), UNCHANGED serverVars PROVE (\A i \in Ids : db[i] # None => bucket)'
  BY <1>2 DEF HandshakeError, CloseClientEnd, ConnectFalse, TryAgain, Exit, serverVars
<1>3. ASSUME NEW c \in Clients, RecvConf(c), UNCHANGED serverVars PROVE (\A i \in Ids : db[i] # None => bucket)'
  BY <1>3 DEF RecvConf, ReadDown, TakeConf, serverVars
<1>4. ASSUME NEW c \in Clients, RecvEOT(c), UNCHANGED serverVars PROVE (\A i \in Ids : db[i] # None => bucket)'
  BY <1>4 DEF RecvEOT, ReadDown, serverVars
<1>5. ASSUME NEW c \in Clients, SaveTruncate(c), UNCHANGED serverVars PROVE (\A i \in Ids : db[i] # None => bucket)'
  BY <1>5 DEF SaveTruncate, wireVars, serverVars
<1>6. ASSUME NEW c \in Clients, SaveWrite(c), UNCHANGED serverVars PROVE (\A i \in Ids : db[i] # None => bucket)'
  BY <1>6 DEF SaveWrite, StartCollectors, wireVars, serverVars
<1>7. ASSUME NEW c \in Clients, SaveError(c), UNCHANGED serverVars PROVE (\A i \in Ids : db[i] # None => bucket)'
  BY <1>7 DEF SaveError, StartCollectors, wireVars, serverVars
<1>8. ASSUME NEW c \in Clients, Start(c), UNCHANGED serverVars PROVE (\A i \in Ids : db[i] # None => bucket)'
  BY <1>8 DEF Start, wireVars, serverVars
<1>9. ASSUME NEW c \in Clients, DialTimeout(c), UNCHANGED serverVars PROVE (\A i \in Ids : db[i] # None => bucket)'
  BY <1>9 DEF DialTimeout, ConnectFalse, TryAgain, Exit, wireVars, serverVars
<1>10. ASSUME NEW c \in Clients, Reconnect(c), UNCHANGED serverVars PROVE (\A i \in Ids : db[i] # None => bucket)'
  BY <1>10 DEF Reconnect, CloseClientEnd, serverVars
<1>11. ASSUME NEW c \in Clients, ListenReturns(c), UNCHANGED serverVars PROVE (\A i \in Ids : db[i] # None => bucket)'
  BY <1>11 DEF ListenReturns, CloseClientEnd, Exit, serverVars
<1>12. ASSUME NEW c \in Clients, Stop(c), UNCHANGED serverVars PROVE (\A i \in Ids : db[i] # None => bucket)'
  BY <1>12 DEF Stop, CloseClientEnd, Exit, wireVars, serverVars
<1>13. ASSUME NEW c \in Clients, NEW k \in Conns, ConnectTo(c, k) PROVE (\A i \in Ids : db[i] # None => bucket)'
  BY <1>13 DEF ConnectTo, Dial, OpenWire, AcceptConn, storeVars
<1>14. CASE OpenDB /\ UNCHANGED clientVars
  BY <1>14 DEF OpenDB, wireVars, clientVars
<1>15. CASE MakeBuckets /\ UNCHANGED clientVars
  BY <1>15 DEF MakeBuckets, wireVars, clientVars
<1>16. CASE LoadInventory /\ UNCHANGED clientVars
  BY <1>16 DEF LoadInventory, storeVars, SavedClients, NoClients, wireVars, clientVars
<1>17. CASE ServerCrash /\ UNCHANGED clientVars
  BY <1>17 DEF ServerCrash, CloseAllServerEnds, storeVars, NoClients, clientVars
<1>18. CASE WipeDB /\ UNCHANGED clientVars
  BY <1>18 DEF WipeDB, NoClients, wireVars, clientVars
<1>19. ASSUME NEW k \in Conns, KnownHello(k), UNCHANGED clientVars PROVE (\A i \in Ids : db[i] # None => bucket)'
  BY <1>19 DEF KnownHello, HasHello, Lookup, LockFree, ReadUp, storeVars, clientVars
<1>20. ASSUME NEW k \in Conns, UnknownHello(k), UNCHANGED clientVars PROVE (\A i \in Ids : db[i] # None => bucket)'
  BY <1>20 DEF UnknownHello, HasHello, Lookup, LockFree, ReadUp, storeVars, clientVars
<1>21. ASSUME NEW k \in Conns, PickId(k), UNCHANGED clientVars PROVE (\A i \in Ids : db[i] # None => bucket)'
  BY <1>21 DEF PickId, LockFree, Taken, storeVars, wireVars, clientVars
<1>22. ASSUME NEW k \in Conns, Welcome(k), UNCHANGED clientVars PROVE (\A i \in Ids : db[i] # None => bucket)'
  BY <1>22 DEF Welcome, LockFree, AddClient, WriteDown, Answer, ClientConf, EOT, storeVars, clientVars
<1>23. ASSUME NEW k \in Conns, NewcomerHello(k), UNCHANGED clientVars PROVE (\A i \in Ids : db[i] # None => bucket)'
  BY <1>23 DEF NewcomerHello, HasHello, ReadUp, storeVars, clientVars
<1>24. ASSUME NEW k \in Conns, Register(k), UNCHANGED clientVars PROVE (\A i \in Ids : db[i] # None => bucket)'
  BY <1>24 DEF Register, AddClient, Persist, Unlock, wireVars, clientVars
<1>25. ASSUME NEW k \in Conns, RegisterFails(k), UNCHANGED clientVars PROVE (\A i \in Ids : db[i] # None => bucket)'
  BY <1>25 DEF RegisterFails, AddClient, Unlock, EndHandler, CloseServerEnd, storeVars, clientVars
<1>26. ASSUME NEW k \in Conns, ReadFails(k), UNCHANGED clientVars PROVE (\A i \in Ids : db[i] # None => bucket)'
  BY <1>26 DEF ReadFails, EndHandler, CloseServerEnd, storeVars, clientVars
<1>27. ASSUME NEW k \in Conns, EndSession(k), UNCHANGED clientVars PROVE (\A i \in Ids : db[i] # None => bucket)'
  BY <1>27 DEF EndSession, EndHandler, CloseServerEnd, storeVars, clientVars
<1>28. ASSUME NEW k \in Conns, LoseLink(k) PROVE (\A i \in Ids : db[i] # None => bucket)'
  BY <1>28 DEF LoseLink, Break, clientVars, serverVars
<1>29. CASE UNCHANGED vars
  BY <1>29 DEF vars, wireVars, clientVars, serverVars
<1> QED  BY <1>1, <1>2, <1>3, <1>4, <1>5, <1>6, <1>7, <1>8, <1>9, <1>10, <1>11, <1>12, <1>13, <1>14, <1>15, <1>16, <1>17, <1>18, <1>19, <1>20, <1>21, <1>22, <1>23, <1>24, <1>25, <1>26, <1>27, <1>28, <1>29 DEF Next, ClientStep, ClientProgress, ServerStep, LockingStep, PlainStep

(* Ids are saved before they leave the server.                             *)
LEMMA DurableStep ==
  ASSUME TypeOK, WireConsistent, ConnectionOwned, HandlerConsistent,
         InventoryCoherent, DurableEverywhere, [Next]_vars
  PROVE  DurableEverywhere'
<1> USE NoneAssumption DEF TypeOK, WireTypeOK, ClientTypeOK, ServerTypeOK, HandlerConsistent, InventoryCoherent, Taken, DurableEverywhere, ConnectionOwned, WireConsistent, Phases
<1>1. ASSUME NEW c \in Clients, SendId(c), UNCHANGED serverVars PROVE DurableEverywhere'
  BY <1>1 DEF SendId, WriteUp, serverVars
<1>2. ASSUME NEW c \in Clients, HandshakeError(c), UNCHANGED serverVars PROVE DurableEverywhere'
  BY <1>2 DEF HandshakeError, CloseClientEnd, ConnectFalse, TryAgain, Exit, serverVars
<1>3. ASSUME NEW c \in Clients, RecvConf(c), UNCHANGED serverVars PROVE DurableEverywhere'
  <2> DEFINE m == Head(down[conn[c]])
  <2>1. conn[c] \in Conns /\ m \in Frames /\ 1 \in DOMAIN down[conn[c]] /\ m = down[conn[c]][1]
    BY <1>3, Frame DEF RecvConf
  <2>4. m.id \in Ids \cup {None} /\ m.conf \in Confs \cup {None}
    BY <2>1 DEF Frames
  <2> HIDE DEF m
  <2>2. CASE m.id = id[c]
    BY <1>3, <2>1, <2>2 DEF RecvConf, ReadDown, TakeConf, serverVars, m
  <2>3. CASE m.id # id[c]
    <3>1. /\ id' = [id EXCEPT ![c] = m.id] /\ collect' = [collect EXCEPT ![c] = m.conf]
          /\ m.kind = "ClientConf"
      BY <1>3, <2>3 DEF RecvConf, TakeConf, m
    <3>2. /\ ReadDown(conn[c]) /\ phase[c] = "handshake"
          /\ UNCHANGED <<phase, file, tickers, started, tries, conn>>
      BY <1>3 DEF RecvConf
    <3> QED  BY <1>3, <2>1, <2>4, <3>1, <3>2 DEF ReadDown, serverVars
  <2> QED  BY <2>2, <2>3
<1>4. ASSUME NEW c \in Clients, RecvEOT(c), UNCHANGED serverVars PROVE DurableEverywhere'
  BY <1>4 DEF RecvEOT, ReadDown, serverVars
<1>5. ASSUME NEW c \in Clients, SaveTruncate(c), UNCHANGED serverVars PROVE DurableEverywhere'
  BY <1>5 DEF SaveTruncate, wireVars, serverVars
<1>6. ASSUME NEW c \in Clients, SaveWrite(c), UNCHANGED serverVars PROVE DurableEverywhere'
  BY <1>6 DEF SaveWrite, StartCollectors, wireVars, serverVars
<1>7. ASSUME NEW c \in Clients, SaveError(c), UNCHANGED serverVars PROVE DurableEverywhere'
  BY <1>7 DEF SaveError, StartCollectors, wireVars, serverVars
<1>8. ASSUME NEW c \in Clients, Start(c), UNCHANGED serverVars PROVE DurableEverywhere'
  BY <1>8 DEF Start, wireVars, serverVars
<1>9. ASSUME NEW c \in Clients, DialTimeout(c), UNCHANGED serverVars PROVE DurableEverywhere'
  BY <1>9 DEF DialTimeout, ConnectFalse, TryAgain, Exit, wireVars, serverVars
<1>10. ASSUME NEW c \in Clients, Reconnect(c), UNCHANGED serverVars PROVE DurableEverywhere'
  BY <1>10 DEF Reconnect, CloseClientEnd, serverVars
<1>11. ASSUME NEW c \in Clients, ListenReturns(c), UNCHANGED serverVars PROVE DurableEverywhere'
  BY <1>11 DEF ListenReturns, CloseClientEnd, Exit, serverVars
<1>12. ASSUME NEW c \in Clients, Stop(c), UNCHANGED serverVars PROVE DurableEverywhere'
  <2>1. CASE conn[c] = None
    BY <1>12, <2>1 DEF Stop, CloseClientEnd, Exit, wireVars, serverVars
  <2>2. CASE conn[c] # None
    <3>1. conn[c] \in Conns /\ \A e \in Clients : conn[e] = conn[c] => e = c
      BY <2>2, Connected
    <3>2. CloseClientEnd(conn[c]) /\ Exit(c)
      BY <1>12, <2>2 DEF Stop
    <3> QED  BY <1>12, <3>1, <3>2 DEF CloseClientEnd, Exit, serverVars
  <2> QED  BY <2>1, <2>2
<1>13. ASSUME NEW c \in Clients, NEW k \in Conns, ConnectTo(c, k) PROVE DurableEverywhere'
  BY <1>13 DEF ConnectTo, Dial, OpenWire, AcceptConn, storeVars
<1>14. CASE OpenDB /\ UNCHANGED clientVars
  BY <1>14 DEF OpenDB, wireVars, clientVars
<1>15. CASE MakeBuckets /\ UNCHANGED clientVars
  BY <1>15 DEF MakeBuckets, wireVars, clientVars
<1>16. CASE LoadInventory /\ UNCHANGED clientVars
  BY <1>16 DEF LoadInventory, storeVars, SavedClients, NoClients, wireVars, clientVars
<1>17. CASE ServerCrash /\ UNCHANGED clientVars
  BY <1>17 DEF ServerCrash, CloseAllServerEnds, storeVars, NoClients, clientVars
<1>18. CASE WipeDB /\ UNCHANGED clientVars
  BY <1>18 DEF WipeDB, NoClients, wireVars, clientVars
<1>19. ASSUME NEW k \in Conns, KnownHello(k), UNCHANGED clientVars PROVE DurableEverywhere'
  BY <1>19 DEF KnownHello, HasHello, Lookup, LockFree, ReadUp, storeVars, clientVars
<1>20. ASSUME NEW k \in Conns, UnknownHello(k), UNCHANGED clientVars PROVE DurableEverywhere'
  BY <1>20 DEF UnknownHello, HasHello, Lookup, LockFree, ReadUp, storeVars, clientVars
<1>21. ASSUME NEW k \in Conns, PickId(k), UNCHANGED clientVars PROVE DurableEverywhere'
  BY <1>21 DEF PickId, LockFree, Taken, storeVars, wireVars, clientVars
<1>22. ASSUME NEW k \in Conns, Welcome(k), UNCHANGED clientVars PROVE DurableEverywhere'
  BY <1>22 DEF Welcome, LockFree, AddClient, WriteDown, Answer, ClientConf, EOT, storeVars, clientVars
<1>23. ASSUME NEW k \in Conns, NewcomerHello(k), UNCHANGED clientVars PROVE DurableEverywhere'
  BY <1>23 DEF NewcomerHello, HasHello, ReadUp, storeVars, clientVars
<1>24. ASSUME NEW k \in Conns, Register(k), UNCHANGED clientVars PROVE DurableEverywhere'
  BY <1>24 DEF Register, AddClient, Persist, Unlock, wireVars, clientVars
<1>25. ASSUME NEW k \in Conns, RegisterFails(k), UNCHANGED clientVars PROVE DurableEverywhere'
  BY <1>25 DEF RegisterFails, AddClient, Unlock, EndHandler, CloseServerEnd, storeVars, clientVars
<1>26. ASSUME NEW k \in Conns, ReadFails(k), UNCHANGED clientVars PROVE DurableEverywhere'
  BY <1>26 DEF ReadFails, EndHandler, CloseServerEnd, storeVars, clientVars
<1>27. ASSUME NEW k \in Conns, EndSession(k), UNCHANGED clientVars PROVE DurableEverywhere'
  BY <1>27 DEF EndSession, EndHandler, CloseServerEnd, storeVars, clientVars
<1>28. ASSUME NEW k \in Conns, LoseLink(k) PROVE DurableEverywhere'
  BY <1>28 DEF LoseLink, Break, clientVars, serverVars
<1>29. CASE UNCHANGED vars
  BY <1>29 DEF vars, wireVars, clientVars, serverVars
<1> QED  BY <1>1, <1>2, <1>3, <1>4, <1>5, <1>6, <1>7, <1>8, <1>9, <1>10, <1>11, <1>12, <1>13, <1>14, <1>15, <1>16, <1>17, <1>18, <1>19, <1>20, <1>21, <1>22, <1>23, <1>24, <1>25, <1>26, <1>27, <1>28, <1>29 DEF Next, ClientStep, ClientProgress, ServerStep, LockingStep, PlainStep

(* A client works with its saved configuration.                            *)
LEMMA ConfigurationStep ==
  ASSUME TypeOK, WireConsistent, ConnectionOwned, HandlerConsistent,
         InventoryCoherent, AnswersSaved, OwnConfiguration, [Next]_vars
  PROVE  OwnConfiguration'
<1> USE NoneAssumption DEF TypeOK, WireTypeOK, ClientTypeOK, ServerTypeOK, AnswersSaved, OwnConfiguration, ConnectionOwned, WireConsistent, Phases, HandlerConsistent, InventoryCoherent, Taken
<1>1. ASSUME NEW c \in Clients, SendId(c), UNCHANGED serverVars PROVE OwnConfiguration'
  BY <1>1 DEF SendId, WriteUp, serverVars
<1>2. ASSUME NEW c \in Clients, HandshakeError(c), UNCHANGED serverVars PROVE OwnConfiguration'
  <2>1. CASE TryAgain(c)
    BY <1>2, <2>1 DEF HandshakeError, CloseClientEnd, ConnectFalse, TryAgain, Exit, serverVars
  <2>2. CASE Exit(c)
    BY <1>2, <2>2 DEF HandshakeError, CloseClientEnd, ConnectFalse, TryAgain, Exit, serverVars
  <2> QED  BY <1>2, <2>1, <2>2 DEF HandshakeError, DialTimeout, ConnectFalse
<1>3. ASSUME NEW c \in Clients, RecvConf(c), UNCHANGED serverVars PROVE OwnConfiguration'
  <2> DEFINE m == Head(down[conn[c]])
  <2>1. conn[c] \in Conns /\ m \in Frames /\ 1 \in DOMAIN down[conn[c]] /\ m = down[conn[c]][1]
    BY <1>3, Frame DEF RecvConf
  <2>4. m.id \in Ids \cup {None} /\ m.conf \in Confs \cup {None}
    BY <2>1 DEF Frames
  <2> HIDE DEF m
  <2>2. CASE m.id = id[c]
    BY <1>3, <2>1, <2>2 DEF RecvConf, ReadDown, TakeConf, serverVars, m
  <2>3. CASE m.id # id[c]
    <3>1. /\ id' = [id EXCEPT ![c] = m.id] /\ collect' = [collect EXCEPT ![c] = m.conf]
          /\ m.kind = "ClientConf"
      BY <1>3, <2>3 DEF RecvConf, TakeConf, m
    <3>2. /\ ReadDown(conn[c]) /\ phase[c] = "handshake"
          /\ UNCHANGED <<phase, file, tickers, started, tries, conn>>
      BY <1>3 DEF RecvConf
    <3> QED  BY <1>3, <2>1, <2>4, <3>1, <3>2 DEF ReadDown, serverVars
  <2> QED  BY <2>2, <2>3
<1>4. ASSUME NEW c \in Clients, RecvEOT(c), UNCHANGED serverVars PROVE OwnConfiguration'
  BY <1>4 DEF RecvEOT, ReadDown, serverVars
<1>5. ASSUME NEW c \in Clients, SaveTruncate(c), UNCHANGED serverVars PROVE OwnConfiguration'
  BY <1>5 DEF SaveTruncate, wireVars, serverVars
<1>6. ASSUME NEW c \in Clients, SaveWrite(c), UNCHANGED serverVars PROVE OwnConfiguration'
  BY <1>6 DEF SaveWrite, StartCollectors, wireVars, serverVars
<1>7. ASSUME NEW c \in Clients, SaveError(c), UNCHANGED serverVars PROVE OwnConfiguration'
  BY <1>7 DEF SaveError, StartCollectors, wireVars, serverVars
<1>8. ASSUME NEW c \in Clients, Start(c), UNCHANGED serverVars PROVE OwnConfiguration'
  BY <1>8 DEF Start, wireVars, serverVars
<1>9. ASSUME NEW c \in Clients, DialTimeout(c), UNCHANGED serverVars PROVE OwnConfiguration'
  <2>1. CASE TryAgain(c)
    BY <1>9, <2>1 DEF DialTimeout, ConnectFalse, TryAgain, Exit, wireVars, serverVars
  <2>2. CASE Exit(c)
    BY <1>9, <2>2 DEF DialTimeout, ConnectFalse, TryAgain, Exit, wireVars, serverVars
  <2> QED  BY <1>9, <2>1, <2>2 DEF HandshakeError, DialTimeout, ConnectFalse
<1>10. ASSUME NEW c \in Clients, Reconnect(c), UNCHANGED serverVars PROVE OwnConfiguration'
  BY <1>10 DEF Reconnect, CloseClientEnd, serverVars
<1>11. ASSUME NEW c \in Clients, ListenReturns(c), UNCHANGED serverVars PROVE OwnConfiguration'
  BY <1>11 DEF ListenReturns, CloseClientEnd, Exit, serverVars
<1>12. ASSUME NEW c \in Clients, Stop(c), UNCHANGED serverVars PROVE OwnConfiguration'
  BY <1>12 DEF Stop, CloseClientEnd, Exit, wireVars, serverVars
<1>13. ASSUME NEW c \in Clients, NEW k \in Conns, ConnectTo(c, k) PROVE OwnConfiguration'
  BY <1>13 DEF ConnectTo, Dial, OpenWire, AcceptConn, storeVars
<1>14. CASE OpenDB /\ UNCHANGED clientVars
  BY <1>14 DEF OpenDB, wireVars, clientVars
<1>15. CASE MakeBuckets /\ UNCHANGED clientVars
  BY <1>15 DEF MakeBuckets, wireVars, clientVars
<1>16. CASE LoadInventory /\ UNCHANGED clientVars
  BY <1>16 DEF LoadInventory, storeVars, SavedClients, NoClients, wireVars, clientVars
<1>17. CASE ServerCrash /\ UNCHANGED clientVars
  BY <1>17 DEF ServerCrash, CloseAllServerEnds, storeVars, NoClients, clientVars
<1>18. CASE WipeDB /\ UNCHANGED clientVars
  BY <1>18 DEF WipeDB, NoClients, wireVars, clientVars
<1>19. ASSUME NEW k \in Conns, KnownHello(k), UNCHANGED clientVars PROVE OwnConfiguration'
  BY <1>19 DEF KnownHello, HasHello, Lookup, LockFree, ReadUp, storeVars, clientVars
<1>20. ASSUME NEW k \in Conns, UnknownHello(k), UNCHANGED clientVars PROVE OwnConfiguration'
  BY <1>20 DEF UnknownHello, HasHello, Lookup, LockFree, ReadUp, storeVars, clientVars
<1>21. ASSUME NEW k \in Conns, PickId(k), UNCHANGED clientVars PROVE OwnConfiguration'
  BY <1>21 DEF PickId, LockFree, Taken, storeVars, wireVars, clientVars
<1>22. ASSUME NEW k \in Conns, Welcome(k), UNCHANGED clientVars PROVE OwnConfiguration'
  BY <1>22 DEF Welcome, LockFree, AddClient, WriteDown, Answer, ClientConf, EOT, storeVars, clientVars
<1>23. ASSUME NEW k \in Conns, NewcomerHello(k), UNCHANGED clientVars PROVE OwnConfiguration'
  BY <1>23 DEF NewcomerHello, HasHello, ReadUp, storeVars, clientVars
<1>24. ASSUME NEW k \in Conns, Register(k), UNCHANGED clientVars PROVE OwnConfiguration'
  BY <1>24 DEF Register, AddClient, Persist, Unlock, wireVars, clientVars
<1>25. ASSUME NEW k \in Conns, RegisterFails(k), UNCHANGED clientVars PROVE OwnConfiguration'
  BY <1>25 DEF RegisterFails, AddClient, Unlock, EndHandler, CloseServerEnd, storeVars, clientVars
<1>26. ASSUME NEW k \in Conns, ReadFails(k), UNCHANGED clientVars PROVE OwnConfiguration'
  BY <1>26 DEF ReadFails, EndHandler, CloseServerEnd, storeVars, clientVars
<1>27. ASSUME NEW k \in Conns, EndSession(k), UNCHANGED clientVars PROVE OwnConfiguration'
  BY <1>27 DEF EndSession, EndHandler, CloseServerEnd, storeVars, clientVars
<1>28. ASSUME NEW k \in Conns, LoseLink(k) PROVE OwnConfiguration'
  BY <1>28 DEF LoseLink, Break, clientVars, serverVars
<1>29. CASE UNCHANGED vars
  BY <1>29 DEF vars, wireVars, clientVars, serverVars
<1> QED  BY <1>1, <1>2, <1>3, <1>4, <1>5, <1>6, <1>7, <1>8, <1>9, <1>10, <1>11, <1>12, <1>13, <1>14, <1>15, <1>16, <1>17, <1>18, <1>19, <1>20, <1>21, <1>22, <1>23, <1>24, <1>25, <1>26, <1>27, <1>28, <1>29 DEF Next, ClientStep, ClientProgress, ServerStep, LockingStep, PlainStep

(* A client comes by an id only through the draw of a handler of its own.  *)
LEMMA UsesStep ==
  ASSUME TypeOK, WireConsistent, ConnectionOwned, HandlerConsistent,
         NEW d \in Clients, NEW i \in Ids, Uses(d, i)', [Next]_vars
  PROVE  Uses(d, i) \/ \E j \in Conns : PickId(j) /\ peer[j] = d /\ hid'[j] = i
<1> USE NoneAssumption DEF TypeOK, WireTypeOK, ClientTypeOK, ServerTypeOK, ConnectionOwned, WireConsistent, Phases, HandlerConsistent, Taken, Uses, Carries
<1>1. ASSUME NEW c \in Clients, SendId(c), UNCHANGED serverVars PROVE Uses(d, i) \/ \E j \in Conns : PickId(j) /\ peer[j] = d /\ hid'[j] = i
  BY <1>1 DEF SendId, WriteUp, serverVars
<1>2. ASSUME NEW c \in Clients, HandshakeError(c), UNCHANGED serverVars PROVE Uses(d, i) \/ \E j \in Conns : PickId(j) /\ peer[j] = d /\ hid'[j] = i
  BY <1>2 DEF HandshakeError, CloseClientEnd, ConnectFalse, TryAgain, Exit, serverVars
<1>3. ASSUME NEW c \in Clients, RecvConf(c), UNCHANGED serverVars PROVE Uses(d, i) \/ \E j \in Conns : PickId(j) /\ peer[j] = d /\ hid'[j] = i
  <2> DEFINE m == Head(down[conn[c]])
  <2>1. conn[c] \in Conns /\ m \in Frames /\ 1 \in DOMAIN down[conn[c]] /\ m = down[conn[c]][1]
    BY <1>3, Frame DEF RecvConf
  <2>4. m.id \in Ids \cup {None} /\ m.conf \in Confs \cup {None}
    BY <2>1 DEF Frames
  <2> HIDE DEF m
  <2>2. CASE m.id = id[c]
    BY <1>3, <2>1, <2>2 DEF RecvConf, ReadDown, TakeConf, serverVars, m
  <2>3. CASE m.id # id[c]
    <3>1. /\ id' = [id EXCEPT ![c] = m.id] /\ collect' = [collect EXCEPT ![c] = m.conf]
          /\ m.kind = "ClientConf"
      BY <1>3, <2>3 DEF RecvConf, TakeConf, m
    <3>2. /\ ReadDown(conn[c]) /\ phase[c] = "handshake"
          /\ UNCHANGED <<phase, file, tickers, started, tries, conn>>
      BY <1>3 DEF RecvConf
    <3> QED  BY <1>3, <2>1, <2>4, <3>1, <3>2 DEF ReadDown, serverVars
  <2> QED  BY <2>2, <2>3
<1>4. ASSUME NEW c \in Clients, RecvEOT(c), UNCHANGED serverVars PROVE Uses(d, i) \/ \E j \in Conns : PickId(j) /\ peer[j] = d /\ hid'[j] = i
  BY <1>4 DEF RecvEOT, ReadDown, serverVars
<1>5. ASSUME NEW c \in Clients, SaveTruncate(c), UNCHANGED serverVars PROVE Uses(d, i) \/ \E j \in Conns : PickId(j) /\ peer[j] = d /\ hid'[j] = i
  BY <1>5 DEF SaveTruncate, wireVars, serverVars
<1>6. ASSUME NEW c \in Clients, SaveWrite(c), UNCHANGED serverVars PROVE Uses(d, i) \/ \E j \in Conns : PickId(j) /\ peer[j] = d /\ hid'[j] = i
  BY <1>6 DEF SaveWrite, StartCollectors, wireVars, serverVars
<1>7. ASSUME NEW c \in Clients, SaveError(c), UNCHANGED serverVars PROVE Uses(d, i) \/ \E j \in Conns : PickId(j) /\ peer[j] = d /\ hid'[j] = i
  BY <1>7 DEF SaveError, StartCollectors, wireVars, serverVars
<1>8. ASSUME NEW c \in Clients, Start(c), UNCHANGED serverVars PROVE Uses(d, i) \/ \E j \in Conns : PickId(j) /\ peer[j] = d /\ hid'[j] = i
  BY <1>8 DEF Start, wireVars, serverVars
<1>9. ASSUME NEW c \in Clients, DialTimeout(c), UNCHANGED serverVars PROVE Uses(d, i) \/ \E j \in Conns : PickId(j) /\ peer[j] = d /\ hid'[j] = i
  BY <1>9 DEF DialTimeout, ConnectFalse, TryAgain, Exit, wireVars, serverVars
<1>10. ASSUME NEW c \in Clients, Reconnect(c), UNCHANGED serverVars PROVE Uses(d, i) \/ \E j \in Conns : PickId(j) /\ peer[j] = d /\ hid'[j] = i
  BY <1>10 DEF Reconnect, CloseClientEnd, serverVars
<1>11. ASSUME NEW c \in Clients, ListenReturns(c), UNCHANGED serverVars PROVE Uses(d, i) \/ \E j \in Conns : PickId(j) /\ peer[j] = d /\ hid'[j] = i
  BY <1>11 DEF ListenReturns, CloseClientEnd, Exit, serverVars
<1>12. ASSUME NEW c \in Clients, Stop(c), UNCHANGED serverVars PROVE Uses(d, i) \/ \E j \in Conns : PickId(j) /\ peer[j] = d /\ hid'[j] = i
  <2>1. CASE conn[c] = None
    BY <1>12, <2>1 DEF Stop, CloseClientEnd, Exit, wireVars, serverVars
  <2>2. CASE conn[c] # None
    <3>1. conn[c] \in Conns /\ \A e \in Clients : conn[e] = conn[c] => e = c
      BY <2>2, Connected
    <3>2. CloseClientEnd(conn[c]) /\ Exit(c)
      BY <1>12, <2>2 DEF Stop
    <3> QED  BY <1>12, <3>1, <3>2 DEF CloseClientEnd, Exit, serverVars
  <2> QED  BY <2>1, <2>2
<1>13. ASSUME NEW c \in Clients, NEW k \in Conns, ConnectTo(c, k) PROVE Uses(d, i) \/ \E j \in Conns : PickId(j) /\ peer[j] = d /\ hid'[j] = i
  BY <1>13 DEF ConnectTo, Dial, OpenWire, AcceptConn, storeVars
<1>14. CASE OpenDB /\ UNCHANGED clientVars
  BY <1>14 DEF OpenDB, wireVars, clientVars
<1>15. CASE MakeBuckets /\ UNCHANGED clientVars
  BY <1>15 DEF MakeBuckets, wireVars, clientVars
<1>16. CASE LoadInventory /\ UNCHANGED clientVars
  BY <1>16 DEF LoadInventory, storeVars, SavedClients, NoClients, wireVars, clientVars
<1>17. CASE ServerCrash /\ UNCHANGED clientVars
  BY <1>17 DEF ServerCrash, CloseAllServerEnds, storeVars, NoClients, clientVars
<1>18. CASE WipeDB /\ UNCHANGED clientVars
  BY <1>18 DEF WipeDB, NoClients, wireVars, clientVars
<1>19. ASSUME NEW k \in Conns, KnownHello(k), UNCHANGED clientVars PROVE Uses(d, i) \/ \E j \in Conns : PickId(j) /\ peer[j] = d /\ hid'[j] = i
  BY <1>19 DEF KnownHello, HasHello, Lookup, LockFree, ReadUp, storeVars, clientVars
<1>20. ASSUME NEW k \in Conns, UnknownHello(k), UNCHANGED clientVars PROVE Uses(d, i) \/ \E j \in Conns : PickId(j) /\ peer[j] = d /\ hid'[j] = i
  BY <1>20 DEF UnknownHello, HasHello, Lookup, LockFree, ReadUp, storeVars, clientVars
<1>21. ASSUME NEW k \in Conns, PickId(k), UNCHANGED clientVars PROVE Uses(d, i) \/ \E j \in Conns : PickId(j) /\ peer[j] = d /\ hid'[j] = i
  <2>1. /\ UNCHANGED <<id, file, peer, up, down>>
        /\ \E j \in Ids : hid' = [hid EXCEPT ![k] = j]
    BY <1>21 DEF PickId, wireVars, clientVars
  <2>2. CASE id[d] = i \/ file[d] = i
    BY <2>2
  <2>3. CASE \E j \in Conns : peer'[j] = d /\ Carries(j, i)'
    <3>1. PICK j \in Conns : peer'[j] = d /\ Carries(j, i)'
      BY <2>3
    <3>2. CASE Carries(j, i)
      BY <2>1, <3>1, <3>2
    <3>3. CASE ~Carries(j, i)
      <4>1. hid'[j] = i /\ hid[j] # i
        BY <2>1, <3>1, <3>3
      <4>2. j = k
        BY <2>1, <4>1
      <4> QED  BY <1>21, <2>1, <3>1, <4>1, <4>2
    <3> QED  BY <3>2, <3>3
  <2> QED  BY <2>1, <2>2, <2>3
<1>22. ASSUME NEW k \in Conns, Welcome(k), UNCHANGED clientVars PROVE Uses(d, i) \/ \E j \in Conns : PickId(j) /\ peer[j] = d /\ hid'[j] = i
  BY <1>22 DEF Welcome, LockFree, AddClient, WriteDown, Answer, ClientConf, EOT, storeVars, clientVars
<1>23. ASSUME NEW k \in Conns, NewcomerHello(k), UNCHANGED clientVars PROVE Uses(d, i) \/ \E j \in Conns : PickId(j) /\ peer[j] = d /\ hid'[j] = i
  BY <1>23 DEF NewcomerHello, HasHello, ReadUp, storeVars, clientVars
<1>24. ASSUME NEW k \in Conns, Register(k), UNCHANGED clientVars PROVE Uses(d, i) \/ \E j \in Conns : PickId(j) /\ peer[j] = d /\ hid'[j] = i
  BY <1>24 DEF Register, AddClient, Persist, Unlock, wireVars, clientVars
<1>25. ASSUME NEW k \in Conns, RegisterFails(k), UNCHANGED clientVars PROVE Uses(d, i) \/ \E j \in Conns : PickId(j) /\ peer[j] = d /\ hid'[j] = i
  BY <1>25 DEF RegisterFails, AddClient, Unlock, EndHandler, CloseServerEnd, storeVars, clientVars
<1>26. ASSUME NEW k \in Conns, ReadFails(k), UNCHANGED clientVars PROVE Uses(d, i) \/ \E j \in Conns : PickId(j) /\ peer[j] = d /\ hid'[j] = i
  BY <1>26 DEF ReadFails, EndHandler, CloseServerEnd, storeVars, clientVars
<1>27. ASSUME NEW k \in Conns, EndSession(k), UNCHANGED clientVars PROVE Uses(d, i) \/ \E j \in Conns : PickId(j) /\ peer[j] = d /\ hid'[j] = i
  BY <1>27 DEF EndSession, EndHandler, CloseServerEnd, storeVars, clientVars
<1>28. ASSUME NEW k \in Conns, LoseLink(k) PROVE Uses(d, i) \/ \E j \in Conns : PickId(j) /\ peer[j] = d /\ hid'[j] = i
  BY <1>28 DEF LoseLink, Break, clientVars, serverVars
<1>29. CASE UNCHANGED vars
  BY <1>29 DEF vars, wireVars, clientVars, serverVars
<1> QED  BY <1>1, <1>2, <1>3, <1>4, <1>5, <1>6, <1>7, <1>8, <1>9, <1>10, <1>11, <1>12, <1>13, <1>14, <1>15, <1>16, <1>17, <1>18, <1>19, <1>20, <1>21, <1>22, <1>23, <1>24, <1>25, <1>26, <1>27, <1>28, <1>29 DEF Next, ClientStep, ClientProgress, ServerStep, LockingStep, PlainStep

(* A removal of the database is never undone.                              *)
LEMMA WipesStep ==
  ASSUME TypeOK, wipes' = 0, [Next]_vars
  PROVE  wipes = 0
<1> USE NoneAssumption DEF TypeOK, ServerTypeOK
<1>1. ASSUME NEW c \in Clients, SendId(c), UNCHANGED serverVars PROVE wipes = 0
  BY <1>1 DEF SendId, WriteUp, serverVars
<1>2. ASSUME NEW c \in Clients, HandshakeError(c), UNCHANGED serverVars PROVE wipes = 0
  BY <1>2 DEF HandshakeError, CloseClientEnd, ConnectFalse, TryAgain, Exit, serverVars
<1>3. ASSUME NEW c \in Clients, RecvConf(c), UNCHANGED serverVars PROVE wipes = 0
  BY <1>3 DEF RecvConf, ReadDown, TakeConf, serverVars
<1>4. ASSUME NEW c \in Clients, RecvEOT(c), UNCHANGED serverVars PROVE wipes = 0
  BY <1>4 DEF RecvEOT, ReadDown, serverVars
<1>5. ASSUME NEW c \in Clients, SaveTruncate(c), UNCHANGED serverVars PROVE wipes = 0
  BY <1>5 DEF SaveTruncate, wireVars, serverVars
<1>6. ASSUME NEW c \in Clients, SaveWrite(c), UNCHANGED serverVars PROVE wipes = 0
  BY <1>6 DEF SaveWrite, StartCollectors, wireVars, serverVars
<1>7. ASSUME NEW c \in Clients, SaveError(c), UNCHANGED serverVars PROVE wipes = 0
  BY <1>7 DEF SaveError, StartCollectors, wireVars, serverVars
<1>8. ASSUME NEW c \in Clients, Start(c), UNCHANGED serverVars PROVE wipes = 0
  BY <1>8 DEF Start, wireVars, serverVars
<1>9. ASSUME NEW c \in Clients, DialTimeout(c), UNCHANGED serverVars PROVE wipes = 0
  BY <1>9 DEF DialTimeout, ConnectFalse, TryAgain, Exit, wireVars, serverVars
<1>10. ASSUME NEW c \in Clients, Reconnect(c), UNCHANGED serverVars PROVE wipes = 0
  BY <1>10 DEF Reconnect, CloseClientEnd, serverVars
<1>11. ASSUME NEW c \in Clients, ListenReturns(c), UNCHANGED serverVars PROVE wipes = 0
  BY <1>11 DEF ListenReturns, CloseClientEnd, Exit, serverVars
<1>12. ASSUME NEW c \in Clients, Stop(c), UNCHANGED serverVars PROVE wipes = 0
  BY <1>12 DEF Stop, CloseClientEnd, Exit, wireVars, serverVars
<1>13. ASSUME NEW c \in Clients, NEW k \in Conns, ConnectTo(c, k) PROVE wipes = 0
  BY <1>13 DEF ConnectTo, Dial, OpenWire, AcceptConn, storeVars
<1>14. CASE OpenDB /\ UNCHANGED clientVars
  BY <1>14 DEF OpenDB, wireVars, clientVars
<1>15. CASE MakeBuckets /\ UNCHANGED clientVars
  BY <1>15 DEF MakeBuckets, wireVars, clientVars
<1>16. CASE LoadInventory /\ UNCHANGED clientVars
  BY <1>16 DEF LoadInventory, storeVars, SavedClients, NoClients, wireVars, clientVars
<1>17. CASE ServerCrash /\ UNCHANGED clientVars
  BY <1>17 DEF ServerCrash, CloseAllServerEnds, storeVars, NoClients, clientVars
<1>18. CASE WipeDB /\ UNCHANGED clientVars
  BY <1>18 DEF WipeDB, NoClients, wireVars, clientVars
<1>19. ASSUME NEW k \in Conns, KnownHello(k), UNCHANGED clientVars PROVE wipes = 0
  BY <1>19 DEF KnownHello, HasHello, Lookup, LockFree, ReadUp, storeVars, clientVars
<1>20. ASSUME NEW k \in Conns, UnknownHello(k), UNCHANGED clientVars PROVE wipes = 0
  BY <1>20 DEF UnknownHello, HasHello, Lookup, LockFree, ReadUp, storeVars, clientVars
<1>21. ASSUME NEW k \in Conns, PickId(k), UNCHANGED clientVars PROVE wipes = 0
  BY <1>21 DEF PickId, LockFree, Taken, storeVars, wireVars, clientVars
<1>22. ASSUME NEW k \in Conns, Welcome(k), UNCHANGED clientVars PROVE wipes = 0
  BY <1>22 DEF Welcome, LockFree, AddClient, WriteDown, Answer, ClientConf, EOT, storeVars, clientVars
<1>23. ASSUME NEW k \in Conns, NewcomerHello(k), UNCHANGED clientVars PROVE wipes = 0
  BY <1>23 DEF NewcomerHello, HasHello, ReadUp, storeVars, clientVars
<1>24. ASSUME NEW k \in Conns, Register(k), UNCHANGED clientVars PROVE wipes = 0
  BY <1>24 DEF Register, AddClient, Persist, Unlock, wireVars, clientVars
<1>25. ASSUME NEW k \in Conns, RegisterFails(k), UNCHANGED clientVars PROVE wipes = 0
  BY <1>25 DEF RegisterFails, AddClient, Unlock, EndHandler, CloseServerEnd, storeVars, clientVars
<1>26. ASSUME NEW k \in Conns, ReadFails(k), UNCHANGED clientVars PROVE wipes = 0
  BY <1>26 DEF ReadFails, EndHandler, CloseServerEnd, storeVars, clientVars
<1>27. ASSUME NEW k \in Conns, EndSession(k), UNCHANGED clientVars PROVE wipes = 0
  BY <1>27 DEF EndSession, EndHandler, CloseServerEnd, storeVars, clientVars
<1>28. ASSUME NEW k \in Conns, LoseLink(k) PROVE wipes = 0
  BY <1>28 DEF LoseLink, Break, clientVars, serverVars
<1>29. CASE UNCHANGED vars
  BY <1>29 DEF vars, wireVars, clientVars, serverVars
<1> QED  BY <1>1, <1>2, <1>3, <1>4, <1>5, <1>6, <1>7, <1>8, <1>9, <1>10, <1>11, <1>12, <1>13, <1>14, <1>15, <1>16, <1>17, <1>18, <1>19, <1>20, <1>21, <1>22, <1>23, <1>24, <1>25, <1>26, <1>27, <1>28, <1>29 DEF Next, ClientStep, ClientProgress, ServerStep, LockingStep, PlainStep

-----------------------------------------------------------------------------
(* The invariant is inductive. *)

(* The connections keep their types.                                       *)
LEMMA WireTypesStep ==
  ASSUME Invariant, [Next]_vars
  PROVE  WireTypeOK'
<1>0. WireTypeOK /\ TypeOK /\ ConnectionOwned
  BY DEF Invariant, TypeOK
<1> USE <1>0
<1>1. ASSUME NEW c \in Clients, SendId(c), UNCHANGED serverVars PROVE WireTypeOK'
  <2>1. conn[c] \in Conns
    BY <1>1, PastDial, Connected DEF SendId
  <2>2. id[c] \in AllIds \cup {None}
    BY <1>0 DEF TypeOK, ClientTypeOK
  <2> QED  BY <1>1, <2>1, <2>2, WireTraffic DEF SendId
<1>2. ASSUME NEW c \in Clients, HandshakeError(c), UNCHANGED serverVars PROVE WireTypeOK'
  <2>1. conn[c] \in Conns
    BY <1>2, PastDial, Connected DEF HandshakeError
  <2> QED  BY <1>2, <2>1, WireOps DEF HandshakeError
<1>3. ASSUME NEW c \in Clients, RecvConf(c), UNCHANGED serverVars PROVE WireTypeOK'
  <2>1. conn[c] \in Conns
    BY <1>3, PastDial, Connected DEF RecvConf
  <2> QED  BY <1>3, <2>1, WireTraffic DEF RecvConf
<1>4. ASSUME NEW c \in Clients, RecvEOT(c), UNCHANGED serverVars PROVE WireTypeOK'
  <2>1. conn[c] \in Conns
    BY <1>4, PastDial, Connected DEF RecvEOT
  <2> QED  BY <1>4, <2>1, WireTraffic DEF RecvEOT
<1>5. ASSUME NEW c \in Clients, SaveTruncate(c), UNCHANGED serverVars PROVE WireTypeOK'
  BY <1>5, WireWhole DEF SaveTruncate
<1>6. ASSUME NEW c \in Clients, SaveWrite(c), UNCHANGED serverVars PROVE WireTypeOK'
  BY <1>6, WireWhole DEF SaveWrite, StartCollectors
<1>7. ASSUME NEW c \in Clients, SaveError(c), UNCHANGED serverVars PROVE WireTypeOK'
  BY <1>7, WireWhole DEF SaveError, StartCollectors
<1>8. ASSUME NEW c \in Clients, Start(c), UNCHANGED serverVars PROVE WireTypeOK'
  BY <1>8, WireWhole DEF Start
<1>9. ASSUME NEW c \in Clients, DialTimeout(c), UNCHANGED serverVars PROVE WireTypeOK'
  BY <1>9, WireWhole DEF DialTimeout
<1>10. ASSUME NEW c \in Clients, Reconnect(c), UNCHANGED serverVars PROVE WireTypeOK'
  <2>1. conn[c] \in Conns
    BY <1>10, PastDial, Connected DEF Reconnect
  <2> QED  BY <1>10, <2>1, WireOps DEF Reconnect
<1>11. ASSUME NEW c \in Clients, ListenReturns(c), UNCHANGED serverVars PROVE WireTypeOK'
  <2>1. conn[c] \in Conns
    BY <1>11, PastDial, Connected DEF ListenReturns
  <2> QED  BY <1>11, <2>1, WireOps DEF ListenReturns
<1>12. ASSUME NEW c \in Clients, Stop(c), UNCHANGED serverVars PROVE WireTypeOK'
  BY <1>12, Connected, WireOps, WireWhole DEF Stop
<1>13. ASSUME NEW c \in Clients, NEW k \in Conns, ConnectTo(c, k) PROVE WireTypeOK'
  BY <1>13, WireOps DEF ConnectTo, Dial
<1>14. CASE OpenDB /\ UNCHANGED clientVars
  BY <1>14, WireWhole DEF OpenDB
<1>15. CASE MakeBuckets /\ UNCHANGED clientVars
  BY <1>15, WireWhole DEF MakeBuckets
<1>16. CASE LoadInventory /\ UNCHANGED clientVars
  BY <1>16, WireWhole DEF LoadInventory
<1>17. CASE ServerCrash /\ UNCHANGED clientVars
  BY <1>17, WireWhole DEF ServerCrash
<1>18. CASE WipeDB /\ UNCHANGED clientVars
  BY <1>18, WireWhole DEF WipeDB
<1>19. ASSUME NEW k \in Conns, KnownHello(k), UNCHANGED clientVars PROVE WireTypeOK'
  BY <1>19, WireTraffic DEF KnownHello, HasHello
<1>20. ASSUME NEW k \in Conns, UnknownHello(k), UNCHANGED clientVars PROVE WireTypeOK'
  BY <1>20, WireTraffic DEF UnknownHello, HasHello
<1>21. ASSUME NEW k \in Conns, PickId(k), UNCHANGED clientVars PROVE WireTypeOK'
  BY <1>21, WireWhole DEF PickId
<1>22. ASSUME NEW k \in Conns, Welcome(k), UNCHANGED clientVars PROVE WireTypeOK'
  <2>1. Answer(k) \in Seq(Frames)
    BY <1>0 DEF Answer, ClientConf, EOT, Frames, TypeOK, ServerTypeOK
  <2> QED  BY <1>22, <2>1, WireTraffic DEF Welcome
<1>23. ASSUME NEW k \in Conns, NewcomerHello(k), UNCHANGED clientVars PROVE WireTypeOK'
  BY <1>23, WireTraffic DEF NewcomerHello, HasHello
<1>24. ASSUME NEW k \in Conns, Register(k), UNCHANGED clientVars PROVE WireTypeOK'
  BY <1>24, WireWhole DEF Register
<1>25. ASSUME NEW k \in Conns, RegisterFails(k), UNCHANGED clientVars PROVE WireTypeOK'
  BY <1>25, WireOps DEF RegisterFails, EndHandler
<1>26. ASSUME NEW k \in Conns, ReadFails(k), UNCHANGED clientVars PROVE WireTypeOK'
  BY <1>26, WireOps DEF ReadFails, EndHandler
<1>27. ASSUME NEW k \in Conns, EndSession(k), UNCHANGED clientVars PROVE WireTypeOK'
  BY <1>27, WireOps DEF EndSession, EndHandler
<1>28. ASSUME NEW k \in Conns, LoseLink(k) PROVE WireTypeOK'
  BY <1>28, WireOps DEF LoseLink
<1>29. CASE UNCHANGED vars
  BY <1>29, WireWhole DEF vars
<1> QED  BY <1>1, <1>2, <1>3, <1>4, <1>5, <1>6, <1>7, <1>8, <1>9, <1>10, <1>11, <1>12, <1>13, <1>14, <1>15, <1>16, <1>17, <1>18, <1>19, <1>20, <1>21, <1>22, <1>23, <1>24, <1>25, <1>26, <1>27, <1>28, <1>29 DEF Next, ClientStep, ClientProgress, ServerStep, LockingStep, PlainStep

(* Only a handler that holds nothing of anybody draws an id: nobody uses   *)
(* the one it draws.                                                       *)
LEMMA DrawIsFresh ==
  ASSUME Invariant, wipes = 0, NEW j \in Conns, PickId(j), NEW c \in Clients
  PROVE  ~Uses(c, hid'[j])
<1> DEFINE i == hid'[j]
<1>1. i \in Ids /\ inventory[i] = None /\ mu = None /\ srv = "up"
  BY DEF PickId, Taken, LockFree, Invariant, HandlerConsistent, TypeOK, ServerTypeOK
<1>2. db[i] = None
  BY <1>1 DEF Invariant, InventoryCoherent
<1> HIDE DEF i
<1>3. id[c] # i /\ file[c] # i
  BY <1>1, <1>2 DEF Invariant, DurableEverywhere
<1>4. \A k \in Conns : ~Carries(k, i)
  <2> TAKE k \in Conns
  <2>1. /\ \A n \in DOMAIN up[k] : up[k][n] # i
        /\ \A n \in DOMAIN down[k] : down[k][n].id # i
    BY <1>1, <1>2 DEF Invariant, DurableEverywhere
  <2>2. hid[k] # i
    <3>1. hpc[k] # "register"
      BY <1>1, NoneAssumption DEF Invariant, HandlerConsistent
    <3>2. CASE hpc[k] \in {"welcome", "serve"}
      BY <1>1, <3>2 DEF Invariant, HandlerConsistent, Taken
    <3>3. CASE hpc[k] \in {"idle", "readId", "create"}
      BY <1>1, <3>3, NoneAssumption DEF Invariant, HandlerConsistent
    <3> QED  BY <3>1, <3>2, <3>3 DEF Invariant, TypeOK, ServerTypeOK, HandlerPhases
  <2> QED  BY <2>1, <2>2 DEF Carries
<1> QED  BY <1>3, <1>4 DEF Uses, i

(* Ids stay with one client: whoever comes to use an id used it before or  *)
(* has just had it drawn.                                                  *)
LEMMA UniqueStep ==
  ASSUME Invariant, [Next]_vars
  PROVE  UniqueIdentity'
<1> SUFFICES ASSUME wipes' = 0, NEW c \in Clients, NEW d \in Clients, NEW i \in Ids,
                    Uses(c, i)', Uses(d, i)'
             PROVE  c = d
  BY DEF UniqueIdentity
<1>1. wipes = 0
  BY WipesStep DEF Invariant
<1>2. \A e \in Clients : Uses(e, i)' =>
        Uses(e, i) \/ \E j \in Conns : PickId(j) /\ peer[j] = e /\ hid'[j] = i
  BY UsesStep DEF Invariant
<1>3. CASE Uses(c, i) /\ Uses(d, i)
  BY <1>1, <1>3 DEF Invariant, UniqueIdentity
<1>4. CASE \E j \in Conns : PickId(j) /\ hid'[j] = i
  <2>1. PICK j \in Conns : PickId(j) /\ hid'[j] = i
    BY <1>4
  <2>2. ~Uses(c, i) /\ ~Uses(d, i)
    BY <1>1, <2>1, DrawIsFresh
  <2>3. \A k \in Conns : PickId(k) => k = j
    BY <2>1 DEF PickId
  <2> QED  BY <1>2, <2>2, <2>3
<1> QED  BY <1>2, <1>3, <1>4

(* The invariant holds at the start.                                       *)
LEMMA InvariantInit == Init => Invariant
<1> SUFFICES ASSUME Init PROVE Invariant
  OBVIOUS
<1> USE NoneAssumption, ForeignAssumption DEF Init, WireInit, ClientInit, ServerInit, NoClients
<1>1. WireTypeOK
  BY DEF WireTypeOK
<1>2. ClientTypeOK
  BY DEF ClientTypeOK, Phases, AllIds
<1>3. ServerTypeOK
  BY DEF ServerTypeOK, ServerPhases, HandlerPhases
<1>4. WireConsistent /\ ConnectionOwned /\ HandlerConsistent
  BY DEF WireConsistent, ConnectionOwned, HandlerConsistent, Taken
<1>5. InventoryCoherent /\ AnswersSaved /\ OwnConfiguration
  BY DEF InventoryCoherent, AnswersSaved, OwnConfiguration
<1>6. \A i \in Ids : db[i] # None => bucket
  OBVIOUS
<1>7. \A c \in Clients, i \in Ids : ~Uses(c, i) /\ i # id[c] /\ i # file[c]
  BY DEF Uses, Carries
<1>8. DurableEverywhere
  BY <1>7 DEF DurableEverywhere
<1>9. UniqueIdentity
  BY <1>7 DEF UniqueIdentity
<1> QED  BY <1>1, <1>2, <1>3, <1>4, <1>5, <1>6, <1>8, <1>9 DEF Invariant, TypeOK

(* Every step preserves it.                                                *)
LEMMA InvariantStep == Invariant /\ [Next]_vars => Invariant'
<1> SUFFICES ASSUME Invariant, [Next]_vars PROVE Invariant'
  OBVIOUS
<1>0. /\ TypeOK /\ WireConsistent /\ ConnectionOwned /\ HandlerConsistent
      /\ InventoryCoherent /\ AnswersSaved /\ DurableEverywhere /\ OwnConfiguration
      /\ \A i \in Ids : db[i] # None => bucket
  BY DEF Invariant
<1>1. WireTypeOK'
  BY WireTypesStep
<1>2. ClientTypeOK'
  BY <1>0, ClientTypesStep
<1>3. ServerTypeOK'
  BY <1>0, ServerTypesStep
<1>4. WireConsistent'
  BY <1>0, WireStep
<1>5. ConnectionOwned'
  BY <1>0, ConnectionStep
<1>6. HandlerConsistent'
  BY <1>0, HandlerStep
<1>7. InventoryCoherent'
  BY <1>0, InventoryStep
<1>8. AnswersSaved'
  BY <1>0, AnswerStep
<1>9. (\A i \in Ids : db[i] # None => bucket)'
  BY <1>0, BucketStep
<1>10. DurableEverywhere'
  BY <1>0, DurableStep
<1>11. UniqueIdentity'
  BY UniqueStep
<1>12. OwnConfiguration'
  BY <1>0, ConfigurationStep
<1> QED
  BY <1>1, <1>2, <1>3, <1>4, <1>5, <1>6, <1>7, <1>8, <1>9, <1>10, <1>11, <1>12
  DEF Invariant, TypeOK

-----------------------------------------------------------------------------
(* Theorems. *)

(* The inductive invariant holds in every reachable state.                 *)
THEOREM InvariantHolds == Spec => []Invariant
  BY InvariantInit, InvariantStep, PTL DEF Spec

(* Type correctness of clients, server and connections.                    *)
THEOREM TypesHold == Spec => []TypeOK
<1>1. Invariant => TypeOK
  BY DEF Invariant
<1> QED  BY <1>1, InvariantHolds, PTL

(* No two clients ever have the same id of the server.                     *)
THEOREM IdentityIsUnique == Spec => []UniqueIdentity
<1>1. Invariant => UniqueIdentity
  BY DEF Invariant
<1> QED  BY <1>1, InvariantHolds, PTL

(* An id that a client has, or is being sent, is in the database.          *)
THEOREM IdentityIsDurable == Spec => []DurableIdentity
<1>1. Invariant => DurableIdentity
  BY DEF Invariant, DurableEverywhere, DurableIdentity
<1> QED  BY <1>1, InvariantHolds, PTL

(* The inventory of a serving server has every saved client as saved.      *)
THEOREM InventoryIsCoherent == Spec => []InventoryCoherent
<1>1. Invariant => InventoryCoherent
  BY DEF Invariant
<1> QED  BY <1>1, InvariantHolds, PTL

(* A client works with the configuration saved for its id, or with none.   *)
THEOREM ConfigurationIsOwn == Spec => []OwnConfiguration
<1>1. Invariant => OwnConfiguration
  BY DEF Invariant
<1> QED  BY <1>1, InvariantHolds, PTL
=============================================================================
