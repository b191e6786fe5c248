---------------------------- MODULE DeliveryProofs ----------------------------
(***************************************************************************)
(* A client and its server together: what AgentProofs and SessionProofs    *)
(* show of each holds of both, since each step of the composition is a     *)
(* step, or none, of either; and from it follows where a message can be.   *)
(***************************************************************************)
EXTENDS Delivery, FiniteSetTheorems, TLAPS

AP == INSTANCE AgentProofs WITH MaxRequests <- 0, alive <- clientAlive
SP == INSTANCE SessionProofs WITH
        Sessions <- Dials, Kinds <- {"stat"}, Layouts <- {"constant"},
        Periods <- {0}, Several <- 0, MaxData <- MaxFrames, MaxQueue <- MaxFrames,
        alive <- serverAlive, lpc <- listen, hand <- batch

(* The client of the proofs is the client of the composition (Listen,      *)
(* MessageWriter, the collectors, handleSignals).                          *)
LEMMA SameAgent ==
  /\ AP!Init <=> A!Init
  /\ AP!Next <=> A!Next
  /\ AP!vars = A!vars /\ AP!vars' = A!vars'
  /\ AP!Invariant <=> A!Invariant
  /\ AP!Invariant' <=> A!Invariant'
<1>1. AP!Init <=> A!Init
  BY
  DEF A!Init, AP!Init, A!Dials, AP!Dials, A!Plain, AP!Plain
<1>2. AP!Next <=> A!Next
  BY
  DEF A!Next, AP!Next, A!Running, AP!Running, A!LoseLink, AP!LoseLink, A!Up,
      AP!Up, A!listenVars, AP!listenVars, A!writerVars, AP!writerVars,
      A!collectorVars, AP!collectorVars, A!processVars, AP!processVars,
      A!ServerAnswers, AP!ServerAnswers, A!ServerAsks, AP!ServerAsks,
      A!ListenStep, AP!ListenStep, A!ListenRead, AP!ListenRead,
      A!ListenReadFails, AP!ListenReadFails, A!Failed, AP!Failed,
      A!Reconnect, AP!Reconnect, A!Return, AP!Return, A!netVars, AP!netVars,
      A!LoadAvgFails, AP!LoadAvgFails, A!Reply, AP!Reply, A!Write, AP!Write,
      A!Put, AP!Put, A!Plain, AP!Plain, A!ReplyFails, AP!ReplyFails,
      A!ReplyAgainAsText, AP!ReplyAgainAsText, A!Dial, AP!Dial, A!DialFails,
      AP!DialFails, A!DialTimeout, AP!DialTimeout, A!ConnectFalse,
      AP!ConnectFalse, A!SendId, AP!SendId, A!HandshakeFails,
      AP!HandshakeFails, A!HandshakeDone, AP!HandshakeDone, A!WriterStep,
      AP!WriterStep, A!WriterReceive, AP!WriterReceive, A!WriterCheck,
      AP!WriterCheck, A!WriterWrite, AP!WriterWrite, A!Data, AP!Data,
      A!WriterPanics, AP!WriterPanics, A!End, AP!End, A!Dials, AP!Dials,
      A!ProcessStep, AP!ProcessStep, A!Signal, AP!Signal, A!SignalExits,
      AP!SignalExits, A!ProcessEnds, AP!ProcessEnds, A!SignalClose,
      AP!SignalClose, A!SignalPanics, AP!SignalPanics, A!MainReturns,
      AP!MainReturns, A!DoneClosed, AP!DoneClosed, A!CollectorStep,
      AP!CollectorStep, A!Tick, AP!Tick, A!Send, AP!Send, A!Finish,
      AP!Finish, A!Ended, AP!Ended, A!vars, AP!vars
<1>3. AP!vars = A!vars /\ AP!vars' = A!vars'
  BY
  DEF A!vars, AP!vars, A!netVars, AP!netVars, A!listenVars, AP!listenVars,
      A!writerVars, AP!writerVars, A!collectorVars, AP!collectorVars,
      A!processVars, AP!processVars
<1>4. AP!Invariant <=> A!Invariant
  BY
  DEF A!Invariant, AP!Invariant, A!TypeOK, AP!TypeOK, A!Panicking, AP!Panicking,
      A!Dials, AP!Dials,
      A!Frames, AP!Frames, A!Data, AP!Data, A!Messages, AP!Messages, A!Plain,
      AP!Plain, A!OrderKept, AP!OrderKept, A!DataFrames, AP!DataFrames,
      A!InLine, AP!InLine, A!Before, AP!Before, A!Written, AP!Written,
      A!InHand, AP!InHand, A!Queued, AP!Queued, A!Unsent, AP!Unsent,
      A!Numbered, AP!Numbered, A!LastConnection, AP!LastConnection,
      A!RequestsCounted, AP!RequestsCounted, A!Count, AP!Count, A!Cardinality, AP!Cardinality, A!Owed,
      AP!Owed
<1>5. AP!Invariant' <=> A!Invariant'
  BY
  DEF A!Invariant, AP!Invariant, A!TypeOK, AP!TypeOK, A!Panicking, AP!Panicking,
      A!Dials, AP!Dials,
      A!Frames, AP!Frames, A!Data, AP!Data, A!Messages, AP!Messages, A!Plain,
      AP!Plain, A!OrderKept, AP!OrderKept, A!DataFrames, AP!DataFrames,
      A!InLine, AP!InLine, A!Before, AP!Before, A!Written, AP!Written,
      A!InHand, AP!InHand, A!Queued, AP!Queued, A!Unsent, AP!Unsent,
      A!Numbered, AP!Numbered, A!LastConnection, AP!LastConnection,
      A!RequestsCounted, AP!RequestsCounted, A!Count, AP!Count, A!Cardinality, AP!Cardinality, A!Owed,
      AP!Owed
<1> QED  BY <1>1, <1>2, <1>3, <1>4, <1>5

(* And so are the server's sessions (serveClient, Listen, Healthbeat,      *)
(* InfluxClient.Write).                                                    *)
LEMMA SameSession ==
  /\ SP!Next <=> S!Next
  /\ SP!vars = S!vars /\ SP!vars' = S!vars'
  /\ SP!Invariant <=> S!Invariant
  /\ SP!Invariant' <=> S!Invariant'
<1>1. SP!Next <=> S!Next
  BY
  DEF S!Next, SP!Next, S!Running, SP!Running, S!SessionStep, SP!SessionStep,
      S!ClientSends, SP!ClientSends, S!SendData, SP!SendData, S!CanSend,
      SP!CanSend, S!flags, SP!flags, S!listenVars, SP!listenVars,
      S!outputVars, SP!outputVars, S!SendIgnored, SP!SendIgnored, S!Ignored,
      SP!Ignored, S!LoseLink, SP!LoseLink, S!Accept, SP!Accept, S!Reject,
      SP!Reject, S!StartSession, SP!StartSession, S!HasLogger, SP!HasLogger,
      S!clientVars, SP!clientVars, S!EndSession, SP!EndSession, S!DoneClosed,
      SP!DoneClosed, S!ListenWork, SP!ListenWork, S!ListenRead,
      SP!ListenRead, S!ReadFails, SP!ReadFails, S!Ignore, SP!Ignore,
      S!Processed, SP!Processed, S!None, SP!None, S!MakePoint, SP!MakePoint,
      S!ToFile, SP!ToFile, S!WriteLine, SP!WriteLine, S!Settled, SP!Settled,
      S!Point, SP!Point, S!Stamp, SP!Stamp, S!UseTS, SP!UseTS,
      S!FormattedTime, SP!FormattedTime, S!ListenPanics, SP!ListenPanics,
      S!End, SP!End, S!ListenSend, SP!ListenSend, S!SendPoint, SP!SendPoint,
      S!BeatPanics, SP!BeatPanics, S!Request, SP!Request, S!RequestFails,
      SP!RequestFails, S!BeatReturns, SP!BeatReturns, S!BeatDone,
      SP!BeatDone, S!WriterStep, SP!WriterStep, S!Receive, SP!Receive,
      S!WriteInflux, SP!WriteInflux, S!WriteFails, SP!WriteFails,
      S!ServerEnds, SP!ServerEnds, S!Ended, SP!Ended, S!vars, SP!vars
<1>2. SP!vars = S!vars /\ SP!vars' = S!vars'
  BY
  DEF S!vars, SP!vars, S!flags, SP!flags, S!clientVars, SP!clientVars,
      S!listenVars, SP!listenVars, S!outputVars, SP!outputVars
<1>3. SP!Invariant <=> S!Invariant
  BY
  DEF S!Invariant, SP!Invariant, S!TypeOK, SP!TypeOK, S!DataFrames,
      SP!DataFrames, S!Ignored, SP!Ignored, S!None, SP!None, S!Points,
      SP!Points, S!Entries, SP!Entries, S!Accounted, SP!Accounted, S!InLine,
      SP!InLine, S!Before, SP!Before, S!AtOutput, SP!AtOutput, S!InHand,
      SP!InHand, S!InChannel, SP!InChannel, S!InListen, SP!InListen, S!Point,
      SP!Point, S!IsData, SP!IsData, S!Done, SP!Done, S!Of, SP!Of, S!Held,
      SP!Held, S!Incoming, SP!Incoming, S!Numbers, SP!Numbers, S!Sorted,
      SP!Sorted, S!Rising, SP!Rising, S!Known, SP!Known, S!DoneClosed,
      SP!DoneClosed, S!OneBatch, SP!OneBatch, S!OneFrame, SP!OneFrame,
      S!OneOutput, SP!OneOutput, S!LinkServed, SP!LinkServed
<1>4. SP!Invariant' <=> S!Invariant'
  BY
  DEF S!Invariant, SP!Invariant, S!TypeOK, SP!TypeOK, S!DataFrames,
      SP!DataFrames, S!Ignored, SP!Ignored, S!None, SP!None, S!Points,
      SP!Points, S!Entries, SP!Entries, S!Accounted, SP!Accounted, S!InLine,
      SP!InLine, S!Before, SP!Before, S!AtOutput, SP!AtOutput, S!InHand,
      SP!InHand, S!InChannel, SP!InChannel, S!InListen, SP!InListen, S!Point,
      SP!Point, S!IsData, SP!IsData, S!Done, SP!Done, S!Of, SP!Of, S!Held,
      SP!Held, S!Incoming, SP!Incoming, S!Numbers, SP!Numbers, S!Sorted,
      SP!Sorted, S!Rising, SP!Rising, S!Known, SP!Known, S!DoneClosed,
      SP!DoneClosed, S!OneBatch, SP!OneBatch, S!OneFrame, SP!OneFrame,
      S!OneOutput, SP!OneOutput, S!LinkServed, SP!LinkServed
<1> QED  BY <1>1, <1>2, <1>3, <1>4

(* There is room for every message on a connection. *)
LEMMA Parameters ==
  /\ BufCap \in Nat \ {0} /\ ReconnectTries \in Nat \ {0}
  /\ MaxMsgs \in Nat /\ MaxDials \in Nat \ {0} /\ 0 \in Nat
  /\ Outputs \subseteq {"file", "influxdb"}
  /\ {"constant"} \subseteq {"epoch", "constant", "RFC3339Nano"}
  /\ {"stat"} \subseteq {"cpu", "stat", "net", "ignored"}
  /\ PointsCap \in Nat \ {0} /\ {0} \subseteq Int
  /\ MaxFrames \in Nat /\ MaxFrames \in Nat \ {0}
<1>1. Cardinality(Collectors) \in Nat /\ Cardinality(Collectors) # 0
  BY DeliveryAssumption, FS_CardinalityType, FS_EmptySet
<1>2. \A a, b \in Nat \ {0} : a * b \in Nat \ {0}
  OBVIOUS
<1> QED  BY <1>1, <1>2, DeliveryAssumption DEF MaxFrames

-----------------------------------------------------------------------------
(* Each step is one of the client and one of the server. *)

(* What a step of the client's goroutines does to the connections: it      *)
(* dials the next one, or writes at most one frame and leaves them, or     *)
(* ends the process (Reconnect, WriteMessage, os.Exit).                    *)
DialsNext ==
  /\ lpc = "dial" /\ lpc' = "sendId"
  /\ dials' = dials + 1 /\ ws' = dials + 1
  /\ link' = [link EXCEPT ![dials + 1] = TRUE]
  /\ UNCHANGED <<out, clientAlive>>

StaysConnected ==
  /\ UNCHANGED <<link, clientAlive>>
  /\ ws' = ws \/ lpc = "dial"
  /\ lpc' = "dial" => lpc = "dial" \/ ~A!Up(ws)

Leaves ==
  /\ link' = [g \in Dials |-> FALSE]
  /\ UNCHANGED <<ws, lpc>>

(* The frames of a step, if it writes one. *)
PutsOne == out' = out \/ \E f \in A!Frames : A!Put(f)

(* A step of the client dials the next connection (Reconnect), or writes   *)
(* at most one frame and stays on c.WS or leaves it; it never answers an   *)
(* id, which is the server's part (Listen, MessageWriter, handleSignals).  *)
LEMMA ClientKinds ==
  ASSUME A!Invariant,
         \/ A!ListenStep \/ A!WriterStep \/ A!ProcessStep
         \/ \E k \in Collectors : A!CollectorStep(k)
  PROVE  /\ UNCHANGED welcomed
         /\ \/ DialsNext
            \/ dials' = dials /\ PutsOne /\ (StaysConnected \/ Leaves)
<1> USE DEF StaysConnected, Leaves, PutsOne, A!netVars, A!listenVars,
            A!processVars
<1>1. \A k \in {"id", "load", "loadText", "close"} : A!Plain(k) \in A!Frames
  BY DEF A!Frames
<1>2. CASE A!ListenStep
  <2>1. CASE A!Dial
    BY <1>2, <2>1 DEF A!ListenStep, A!Dial, DialsNext
  <2>2. CASE A!Reply \/ A!ReplyAgainAsText \/ A!SendId
    BY <1>1, <1>2, <2>2
    DEF A!ListenStep, A!Reply, A!ReplyAgainAsText, A!SendId, A!Write
  <2>3. CASE A!ListenRead \/ A!LoadAvgFails \/ A!DialFails \/ A!HandshakeDone
    BY <1>2, <2>3
    DEF A!ListenStep, A!ListenRead, A!LoadAvgFails, A!DialFails, A!HandshakeDone
  <2>4. CASE A!ListenReadFails \/ A!ReplyFails \/ A!DialTimeout \/ A!HandshakeFails
    BY <1>2, <2>4
    DEF A!ListenStep, A!ListenReadFails, A!ReplyFails, A!DialTimeout, A!HandshakeFails,
        A!ConnectFalse, A!Failed, A!Reconnect, A!Return
  <2> QED  BY <1>2, <2>1, <2>2, <2>3, <2>4 DEF A!ListenStep
<1>3. CASE A!WriterStep
  <2>1. CASE A!WriterReceive \/ A!WriterCheck
    BY <1>3, <2>1 DEF A!WriterStep, A!WriterReceive, A!WriterCheck
  <2>2. CASE A!WriterWrite
    <3>1. A!Data(hand) \in A!Frames
      BY <2>2 DEF A!WriterWrite, A!Frames, A!Invariant, A!TypeOK, A!Numbered, A!InHand
    <3> QED  BY <1>3, <2>2, <3>1 DEF A!WriterStep, A!WriterWrite, A!Write
  <2>3. CASE A!WriterPanics
    BY <1>3, <2>3 DEF A!WriterStep, A!WriterPanics, A!End, A!Dials, Dials
  <2> QED  BY <1>3, <2>1, <2>2, <2>3 DEF A!WriterStep
<1>4. CASE A!ProcessStep
  BY <1>1, <1>4
  DEF A!ProcessStep, A!ProcessEnds, A!Signal, A!SignalExits, A!SignalClose, A!SignalPanics,
      A!MainReturns, A!End, A!Dials, Dials
<1>5. CASE \E k \in Collectors : A!CollectorStep(k)
  BY <1>5 DEF A!CollectorStep
<1> QED  BY <1>2, <1>3, <1>4, <1>5

(* A step that can only take frames' way on c.WS away is a lost connection *)
(* to the client ...                                                       *)
LinkFalls ==
  /\ link' \in [Dials -> BOOLEAN]
  /\ \A g \in Dials : link'[g] => link[g]

(* The client has at most one connection that frames get through on, so    *)
(* what falls is that one or nothing (Reconnect replaces c.WS).            *)
LEMMA LinkLost ==
  ASSUME A!TypeOK, OneLink, LinkFalls
  PROVE  \/ link' = link
         \/ ws \in Dials /\ A!Up(ws) /\ link' = [link EXCEPT ![ws] = FALSE]
            /\ clientAlive /\ serverAlive
<1>1. link \in [Dials -> BOOLEAN] /\ \A g \in Dials : g # 0
  BY DEF A!TypeOK, A!Dials, Dials
<1> SUFFICES ASSUME link' # link
    PROVE  ws \in Dials /\ A!Up(ws) /\ link' = [link EXCEPT ![ws] = FALSE]
           /\ clientAlive /\ serverAlive
  OBVIOUS
<1>2. PICK g \in Dials : link'[g] # link[g]
  BY <1>1 DEF LinkFalls
<1>3. link[g] /\ ~link'[g] /\ g = ws /\ clientAlive /\ serverAlive
  BY <1>1, <1>2 DEF LinkFalls, OneLink
<1>4. \A h \in Dials : h # ws => link'[h] = link[h]
  BY <1>1 DEF LinkFalls, OneLink
<1> QED  BY <1>1, <1>3, <1>4 DEF LinkFalls, A!Up

(* A connection that falls is, for the client, the network's LoseLink or   *)
(* no step at all (serveClient closes it, or the server ends).             *)
LEMMA ClientLoses ==
  ASSUME A!TypeOK, OneLink, LinkFalls, UNCHANGED clientVars
  PROVE  [A!Next]_A!vars
<1>1. CASE link' = link
  BY <1>1
  DEF clientVars, A!vars, A!netVars, A!listenVars, A!writerVars, A!collectorVars,
      A!processVars
<1>2. CASE link' # link
  BY <1>2, LinkLost
  DEF clientVars, A!Next, A!Running, A!LoseLink, A!listenVars, A!writerVars,
      A!collectorVars, A!processVars
<1> QED  BY <1>1, <1>2

(* ... and to the server. *)
LEMMA ServerLoses ==
  ASSUME A!TypeOK, OneLink, LinkFalls, UNCHANGED serverVars
  PROVE  [S!Next]_S!vars
<1>1. CASE link' = link
  BY <1>1 DEF serverVars, S!vars, S!flags, S!clientVars, S!listenVars, S!outputVars
<1>2. CASE link' # link
  <2>1. ws \in Dials /\ S!LoseLink(ws) /\ serverAlive
    BY <1>2, LinkLost
    DEF serverVars, S!LoseLink, S!flags, S!listenVars, S!outputVars, A!Up
  <2> QED  BY <2>1 DEF S!Next, S!Running, S!SessionStep
<1> QED  BY <1>1, <1>2

(* What a step of the server does to the connections, and to what has      *)
(* arrived and been answered (serveClient).                                *)
ServerLeaves ==
  /\ LinkFalls /\ sent' = sent
  /\ serverAlive' = serverAlive \/ \A g \in Dials : ~link'[g]
  /\ \A g \in Dials : handler'[g] \in {"idle", "hello"} => handler'[g] = handler[g]

(* A step of the server is a step of Session that lets connections fall    *)
(* and raises none; of the client's state it changes at most the answer to *)
(* the id (serveClient, Listen, Healthbeat, InfluxClient.Write).           *)
LEMMA ServerKinds ==
  ASSUME A!TypeOK, S!TypeOK, ServerStep
  PROVE  /\ S!Next /\ ServerLeaves
         /\ UNCHANGED clientVars \/ \E g \in Dials : Welcome(g)
<1> USE DEF ServerLeaves, LinkFalls, S!clientVars
<1>0. link \in [Dials -> BOOLEAN] /\ handler \in [Dials -> {"idle", "hello", "wait", "closed"}]
  BY DEF A!TypeOK, A!Dials, Dials, S!TypeOK
<1>1. ASSUME NEW g \in Dials,
             \/ Welcome(g) \/ Refuse(g)
             \/ ListenStep(g) \/ SendStep(g) \/ EndSession(g)
      PROVE  /\ S!SessionStep(g) /\ ServerLeaves
             /\ UNCHANGED clientVars \/ Welcome(g)
  <2>1. CASE Welcome(g)
    BY <1>0, <2>1 DEF Welcome, S!SessionStep, S!StartSession
  <2>2. CASE Refuse(g)
    BY <1>0, <2>2 DEF Refuse, S!SessionStep, S!Reject
  <2>3. CASE ListenStep(g)
    BY <1>0, <2>3
    DEF ListenStep, S!SessionStep, S!ListenWork, S!ListenRead, S!ReadFails, S!Ignore,
        S!MakePoint, S!WriteLine, S!ListenPanics, S!End
  <2>4. CASE SendStep(g)
    BY <1>0, <2>4 DEF SendStep, S!SessionStep, S!ListenSend, S!SendPoint
  <2>5. CASE EndSession(g)
    BY <1>0, <2>5 DEF EndSession, S!SessionStep, S!EndSession
  <2> QED  BY <1>1, <2>1, <2>2, <2>3, <2>4, <2>5
<1>2. CASE WriterStep
  BY <1>0, <1>2 DEF ServerStep, WriterStep, S!WriterStep, S!Next, S!Running
<1>3. CASE ServerEnds
  BY <1>0, <1>3 DEF ServerStep, ServerEnds, S!ServerEnds, S!End, S!Next, S!Running
<1>4. CASE \E g \in Dials : \/ Welcome(g) \/ Refuse(g)
                            \/ ListenStep(g) \/ SendStep(g) \/ EndSession(g)
  <2>1. PICK g \in Dials : \/ Welcome(g) \/ Refuse(g)
                           \/ ListenStep(g) \/ SendStep(g) \/ EndSession(g)
    BY <1>4
  <2> QED  BY <1>1, <2>1 DEF ServerStep, S!Next, S!Running
<1> QED  BY <1>2, <1>3, <1>4 DEF ServerStep

(* A step of either process, or of the network, is one of the client, the  *)
(* answer of an id included (serveClient).                                 *)
LEMMA StepOfClient ==
  ASSUME Invariant, [Next]_vars
  PROVE  [A!Next]_A!vars
<1>1. A!TypeOK /\ S!TypeOK /\ OneLink /\ AnsweredOnce
  BY DEF Invariant, A!Invariant, S!Invariant
<1>2. CASE ClientStep
  BY <1>2 DEF ClientStep, Joined, A!Next, A!Running
<1>3. ASSUME NEW g \in Dials, Welcome(g), ServerStep
      PROVE  [A!Next]_A!vars
  <2>1. welcomed \in [Dials -> BOOLEAN] /\ link \in [Dials -> BOOLEAN] /\ g # 0
    BY <1>1 DEF A!TypeOK, A!Dials, Dials
  <2>2. link' = link /\ ~welcomed[g]
    BY <1>1, <1>3 DEF Welcome, S!StartSession, S!clientVars, AnsweredOnce
  <2>3. CASE ~link[g]
    <3>1. welcomed' = welcomed
      BY <1>3, <2>1, <2>2, <2>3 DEF Welcome
    <3> QED
      BY <1>3, <2>2, <3>1
      DEF Welcome, A!vars, A!netVars, A!listenVars, A!writerVars, A!collectorVars, A!processVars
  <2>4. CASE link[g]
    <3>1. g = ws /\ clientAlive
      BY <1>1, <2>4 DEF OneLink
    <3>2. A!ServerAnswers
      BY <1>3, <2>1, <2>2, <2>4, <3>1
      DEF Welcome, FirstIsId, A!ServerAnswers, A!Up, A!listenVars, A!writerVars,
          A!collectorVars, A!processVars
    <3> QED  BY <3>1, <3>2 DEF A!Next, A!Running
  <2> QED  BY <2>3, <2>4
<1>4. CASE ServerStep
  <2>1. LinkFalls /\ (UNCHANGED clientVars \/ \E g \in Dials : Welcome(g))
    BY <1>1, <1>4, ServerKinds DEF ServerLeaves
  <2>2. CASE UNCHANGED clientVars
    BY <1>1, <2>1, <2>2, ClientLoses
  <2>3. CASE \E g \in Dials : Welcome(g)
    BY <1>3, <1>4, <2>3
  <2> QED  BY <2>1, <2>2, <2>3
<1>5. CASE LoseLink
  <2>1. ws \in Dials /\ link[ws]
    BY <1>1, <1>5, Parameters DEF LoseLink, A!LoseLink, A!Up, A!TypeOK, A!Dials, Dials
  <2> QED  BY <1>1, <1>5, <2>1 DEF LoseLink, OneLink, A!Next, A!Running
<1>6. CASE BothEnded \/ UNCHANGED vars
  BY <1>6
  DEF BothEnded, vars, clientVars, A!vars, A!netVars, A!listenVars, A!writerVars,
      A!collectorVars, A!processVars
<1> QED  BY <1>2, <1>4, <1>5, <1>6 DEF Next

(* The client's own invariant carries over, for each step is one of Agent  *)
(* or none (Listen, MessageWriter, the collectors).                        *)
LEMMA ClientInvariantStep ==
  ASSUME Invariant, [Next]_vars
  PROVE  A!Invariant'
<1>1. [AP!Next]_AP!vars /\ AP!Invariant
  BY StepOfClient, SameAgent DEF Invariant
<1>2. AP!Invariant'
  BY <1>1, Parameters, AP!InvariantStep
<1> QED  BY <1>2, SameAgent

(* What a step of the client brings to the server: a connection, a message *)
(* or nothing (DialServer, MessageWriter).                                 *)
MessageArrives ==
  \E f \in A!Frames :
    /\ f.kind = "data" /\ A!Up(ws) /\ ws \in Dials
    /\ out' = [out EXCEPT ![ws] = Append(@, f)]
    /\ S!SendData(ws, "stat") /\ serverAlive

NothingArrives ==
  /\ UNCHANGED serverVars
  /\ out' = out \/ \E f \in A!Frames : f.kind # "data" /\ A!Put(f)

(* What a step of the client brings to the server: a dial is accepted, a   *)
(* data frame is one more message of its session, and everything else      *)
(* leaves the server alone (Reconnect, MessageWriter, serveClient).        *)
LEMMA ClientArrives ==
  ASSUME Invariant, ClientStep
  PROVE  /\ UNCHANGED welcomed
         /\ \/ DialsNext /\ dials + 1 \in Dials /\ S!Accept(dials + 1) /\ serverAlive
            \/ /\ dials' = dials
               /\ StaysConnected \/ Leaves
               /\ MessageArrives \/ NothingArrives
<1>0. [Next]_vars
  BY DEF Next
<1>1. A!TypeOK /\ A!TypeOK' /\ OneLink
  BY <1>0, ClientInvariantStep DEF Invariant, A!Invariant
<1>2. /\ out \in [Dials -> Seq(A!Frames)] /\ ws \in 0..dials
      /\ dials \in Dials /\ dials' \in Dials /\ Dials \subseteq Nat
  BY <1>1 DEF A!TypeOK, A!Dials, Dials
<1>3. /\ UNCHANGED welcomed
      /\ Connects \/ Writes \/ Silent
      /\ \/ DialsNext
         \/ dials' = dials /\ PutsOne /\ (StaysConnected \/ Leaves)
  BY ClientKinds DEF ClientStep, Joined, Invariant
<1>4. CASE DialsNext
  <2>1. dials' # dials /\ out' = out
    BY <1>2, <1>4 DEF DialsNext
  <2> QED  BY <1>2, <1>3, <1>4, <2>1 DEF Connects, Writes, Silent, DialsNext
<1>5. CASE dials' = dials /\ PutsOne /\ (StaysConnected \/ Leaves)
  <2>1. ~Connects
    BY <1>2, <1>5 DEF Connects
  <2>2. CASE Silent
    BY <1>3, <1>5, <2>2 DEF Silent, NothingArrives
  <2>3. CASE Writes
    <3>1. PICK g \in Dials : out'[g] # out[g] /\ Arrives(g)
      BY <2>3 DEF Writes
    <3>2. PICK f \in A!Frames : A!Put(f)
      BY <1>5, <3>1 DEF PutsOne
    <3>3. A!Up(ws) /\ g = ws /\ out' = [out EXCEPT ![ws] = Append(@, f)]
      BY <1>2, <3>1, <3>2 DEF A!Put
    <3>4. out'[g] = Append(out[g], f) /\ out[g] \in Seq(A!Frames)
      BY <1>2, <3>3
    <3>5. out'[g][Len(out'[g])] = f
      BY <3>4
    <3>6. CASE f.kind = "data"
      <4>1. S!SendData(ws, "stat") /\ link[ws]
        BY <3>1, <3>3, <3>5, <3>6 DEF Arrives, S!SendData, S!CanSend
      <4> QED  BY <1>1, <1>3, <1>5, <3>3, <3>6, <4>1 DEF MessageArrives, OneLink
    <3>7. CASE f.kind # "data"
      BY <1>3, <1>5, <3>1, <3>2, <3>5, <3>7 DEF Arrives, NothingArrives
    <3> QED  BY <3>6, <3>7
  <2> QED  BY <1>3, <2>1, <2>2, <2>3
<1> QED  BY <1>3, <1>4, <1>5

(* And one of the server: what arrives from the client is what Session     *)
(* expects of its clients (serveClient, Listen).                           *)
LEMMA StepOfServer ==
  ASSUME Invariant, [Next]_vars
  PROVE  [S!Next]_S!vars
<1>1. A!TypeOK /\ S!TypeOK /\ OneLink /\ link \in [Dials -> BOOLEAN]
  BY DEF Invariant, A!Invariant, S!Invariant, A!TypeOK, A!Dials, Dials
<1>2. CASE ClientStep
  <2>1. CASE dials + 1 \in Dials /\ S!Accept(dials + 1) /\ serverAlive
    BY <2>1 DEF S!Next, S!Running, S!SessionStep
  <2>2. CASE MessageArrives
    <3>1. ws \in Dials /\ S!SendData(ws, "stat") /\ serverAlive
      BY <2>2 DEF MessageArrives
    <3> QED  BY <3>1 DEF S!Next, S!Running, S!SessionStep, S!ClientSends
  <2>3. CASE NothingArrives /\ (StaysConnected \/ Leaves)
    <3>1. LinkFalls
      BY <1>1, <2>3 DEF LinkFalls, StaysConnected, Leaves
    <3> QED  BY <1>1, <2>3, <3>1, ServerLoses DEF NothingArrives
  <2> QED  BY <1>2, <2>1, <2>2, <2>3, ClientArrives
<1>3. CASE ServerStep
  BY <1>1, <1>3, ServerKinds
<1>4. CASE LoseLink
  <2>1. LinkFalls
    BY <1>1, <1>4 DEF LoseLink, A!LoseLink, LinkFalls
  <2> QED  BY <1>1, <1>4, <2>1, ServerLoses DEF LoseLink
<1>5. CASE BothEnded \/ UNCHANGED vars
  BY <1>5
  DEF BothEnded, vars, serverVars, S!vars, S!flags, S!clientVars, S!listenVars, S!outputVars
<1> QED  BY <1>2, <1>3, <1>4, <1>5 DEF Next

(* The server's own invariant carries over, for each step is one of        *)
(* Session or none (serveClient, Listen, InfluxClient.Write).              *)
LEMMA ServerInvariantStep ==
  ASSUME Invariant, [Next]_vars
  PROVE  S!Invariant'
<1>1. [SP!Next]_SP!vars /\ SP!Invariant
  BY StepOfServer, SameSession DEF Invariant
<1>2. SP!Invariant'
  BY <1>1, Parameters, SP!InvariantStep
<1> QED  BY <1>2, SameSession

-----------------------------------------------------------------------------
(* The conditions on both, that neither keeps alone. *)

(* Frames get through on c.WS only (Reconnect, serveClient, os.Exit).      *)
LEMMA LinkStep ==
  ASSUME Invariant, [Next]_vars
  PROVE  OneLink'
<1>1. /\ A!TypeOK /\ S!TypeOK /\ OneLink
      /\ link \in [Dials -> BOOLEAN] /\ ws \in Nat /\ \A g \in Dials : g # 0
  BY Parameters DEF Invariant, A!Invariant, S!Invariant, A!TypeOK, A!Dials, Dials
<1>2. CASE ClientStep
  <2>0. clientAlive
    BY <1>2 DEF ClientStep, Joined
  <2>1. CASE DialsNext /\ dials + 1 \in Dials /\ S!Accept(dials + 1) /\ serverAlive
    BY <1>1, <2>0, <2>1 DEF DialsNext, S!Accept, OneLink
  <2>2. CASE StaysConnected /\ (MessageArrives \/ NothingArrives)
    <3>1. serverAlive' = serverAlive
      BY <2>2 DEF MessageArrives, NothingArrives, S!SendData, serverVars
    <3>2. CASE lpc = "dial"
      BY <1>1, <2>2, <3>1, <3>2 DEF StaysConnected, OneLink
    <3>3. CASE lpc # "dial"
      BY <1>1, <2>2, <3>1, <3>3 DEF StaysConnected, OneLink, A!Up
    <3> QED  BY <3>2, <3>3
  <2>3. CASE Leaves
    BY <2>3 DEF Leaves, OneLink
  <2> QED  BY <1>2, <2>1, <2>2, <2>3, ClientArrives
<1>3. CASE ServerStep
  <2>1. ServerLeaves
    BY <1>1, <1>3, ServerKinds
  <2>2. UNCHANGED <<ws, lpc, clientAlive>>
    <3>1. UNCHANGED clientVars \/ \E g \in Dials : Welcome(g)
      BY <1>1, <1>3, ServerKinds
    <3> QED  BY <3>1 DEF clientVars, Welcome
  <2> QED  BY <1>1, <2>1, <2>2 DEF ServerLeaves, LinkFalls, OneLink
<1>4. CASE LoseLink
  BY <1>1, <1>4
  DEF LoseLink, A!LoseLink, A!listenVars, A!processVars, serverVars, OneLink
<1>5. CASE BothEnded \/ UNCHANGED vars
  BY <1>1, <1>5 DEF BothEnded, vars, clientVars, serverVars, OneLink
<1> QED  BY <1>2, <1>3, <1>4, <1>5 DEF Next

(* An id is answered once (serveClient). *)
LEMMA AnswerStep ==
  ASSUME Invariant, [Next]_vars
  PROVE  AnsweredOnce'
<1>1. /\ A!TypeOK /\ S!TypeOK /\ AnsweredOnce
      /\ welcomed \in [Dials -> BOOLEAN] /\ link \in [Dials -> BOOLEAN]
      /\ handler \in [Dials -> {"idle", "hello", "wait", "closed"}]
  BY DEF Invariant, A!Invariant, S!Invariant, A!TypeOK, S!TypeOK, A!Dials, Dials
<1>2. CASE ClientStep
  <2>1. welcomed' = welcomed
    BY <1>2, ClientArrives
  <2>2. \A g \in Dials : handler'[g] \in {"idle", "hello"} => handler[g] \in {"idle", "hello"}
    <3>1. CASE S!Accept(dials + 1)
      BY <1>1, <3>1 DEF S!Accept
    <3>2. CASE MessageArrives \/ NothingArrives
      BY <1>1, <3>2 DEF MessageArrives, NothingArrives, S!SendData, serverVars
    <3> QED  BY <1>2, <3>1, <3>2, ClientArrives
  <2> QED  BY <1>1, <2>1, <2>2 DEF AnsweredOnce
<1>3. CASE ServerStep
  <2>1. ServerLeaves
    BY <1>1, <1>3, ServerKinds
  <2>2. CASE UNCHANGED clientVars
    BY <1>1, <2>1, <2>2 DEF ServerLeaves, clientVars, AnsweredOnce
  <2>3. ASSUME NEW g \in Dials, Welcome(g)
        PROVE  AnsweredOnce'
    BY <1>1, <2>1, <2>3 DEF ServerLeaves, Welcome, S!StartSession, AnsweredOnce
  <2> QED
    <3>1. UNCHANGED clientVars \/ \E g \in Dials : Welcome(g)
      BY <1>1, <1>3, ServerKinds
    <3> QED  BY <2>2, <2>3, <3>1
<1>4. CASE LoseLink \/ BothEnded \/ UNCHANGED vars
  BY <1>1, <1>4
  DEF LoseLink, A!LoseLink, BothEnded, vars, clientVars, serverVars, AnsweredOnce
<1> QED  BY <1>2, <1>3, <1>4 DEF Next

(* The data frames of a connection are finitely many. *)
LEMMA FramesFinite ==
  ASSUME A!TypeOK, NEW g \in Dials
  PROVE  /\ IsFiniteSet(A!DataFrames(g)) /\ A!DataFrames(g) \subseteq Nat
         /\ \A j \in A!DataFrames(g) : j \in 1..Len(out[g])
<1>1. out[g] \in Seq(A!Frames) /\ A!DataFrames(g) \subseteq 1..Len(out[g])
  BY DEF A!TypeOK, A!Dials, Dials, A!DataFrames
<1>2. IsFiniteSet(1..Len(out[g])) /\ Len(out[g]) \in Nat
  BY <1>1, FS_Interval
<1> QED  BY <1>1, <1>2, FS_Subset

(* A later frame has a larger number. *)
LEMMA NumbersRise ==
  ASSUME A!TypeOK, NEW g \in Dials, NEW i \in A!DataFrames(g), NEW j \in A!DataFrames(g)
  PROVE  /\ Number(g, i) \in Nat
         /\ i < j => Number(g, i) < Number(g, j)
         /\ Number(g, i) <= Cardinality(A!DataFrames(g)) /\ 1 <= Number(g, i)
<1> DEFINE D == A!DataFrames(g)
           upTo(k) == {m \in D : m <= k}
<1>1. IsFiniteSet(D) /\ D \subseteq Nat
  BY FramesFinite
<1>2. IsFiniteSet(upTo(i)) /\ IsFiniteSet(upTo(j))
  <2>1. upTo(i) \subseteq D /\ upTo(j) \subseteq D
    OBVIOUS
  <2> QED  BY <1>1, <2>1, FS_Subset
<1>3. /\ Cardinality(upTo(i)) \in Nat /\ Cardinality(upTo(j)) \in Nat
      /\ Cardinality(upTo(i)) <= Cardinality(D)
  <2>1. upTo(i) \subseteq D
    OBVIOUS
  <2> QED  BY <1>1, <1>2, <2>1, FS_CardinalityType, FS_Subset
<1>4. 1 <= Cardinality(upTo(i))
  <2>1. upTo(i) # {}
    BY <1>1
  <2> QED  BY <1>2, <1>3, <2>1, FS_EmptySet
<1>5. ASSUME i < j
      PROVE  Cardinality(upTo(i)) < Cardinality(upTo(j))
  <2>1. j \notin upTo(i) /\ upTo(i) \cup {j} \subseteq upTo(j)
    BY <1>1, <1>5
  <2>2. Cardinality(upTo(i) \cup {j}) = Cardinality(upTo(i)) + 1
    BY <1>2, <2>1, FS_AddElement
  <2>3. Cardinality(upTo(i) \cup {j}) <= Cardinality(upTo(j))
    BY <1>2, <2>1, FS_Subset
  <2> QED  BY <1>3, <2>2, <2>3
<1> QED  BY <1>3, <1>4, <1>5 DEF Number

(* Without a message nothing is numbered anew. *)
LEMMA NoMessage ==
  ASSUME A!TypeOK, out' = out \/ \E f \in A!Frames : f.kind # "data" /\ A!Put(f)
  PROVE  \A g \in Dials : /\ A!DataFrames(g)' = A!DataFrames(g)
                          /\ \A j : Number(g, j)' = Number(g, j)
<1>1. out \in [Dials -> Seq(A!Frames)]
  BY DEF A!TypeOK, A!Dials, Dials
<1>2. CASE out' = out
  BY <1>2 DEF A!DataFrames, Number
<1>3. ASSUME NEW f \in A!Frames, f.kind # "data", A!Put(f), NEW g \in Dials
      PROVE  A!DataFrames(g)' = A!DataFrames(g)
  <2>1. CASE out'[g] = out[g]
    BY <2>1 DEF A!DataFrames
  <2>2. CASE out'[g] # out[g]
    <3>1. out'[g] = Append(out[g], f)
      BY <1>1, <1>3, <2>2 DEF A!Put
    <3>2. /\ DOMAIN out[g] = 1..Len(out[g]) /\ Len(out[g]) \in Nat
          /\ DOMAIN out'[g] = 1..(Len(out[g]) + 1) /\ out'[g][Len(out[g]) + 1] = f
          /\ \A j \in DOMAIN out[g] : out'[g][j] = out[g][j]
      BY <1>1, <3>1
    <3> QED  BY <1>3, <3>2 DEF A!DataFrames
  <2> QED  BY <2>1, <2>2
<1>4. CASE \E f \in A!Frames : f.kind # "data" /\ A!Put(f)
  <2>1. \A g \in Dials : A!DataFrames(g)' = A!DataFrames(g)
    BY <1>3, <1>4
  <2> QED  BY <2>1 DEF Number
<1> QED  BY <1>2, <1>4

(* A message gets the next number. *)
LEMMA NextMessage ==
  ASSUME A!TypeOK, MessageArrives, NEW g \in Dials
  PROVE  /\ g # ws => A!DataFrames(g)' = A!DataFrames(g)
         /\ g = ws => /\ Len(out[g]) + 1 \notin A!DataFrames(g)
                      /\ \A j \in A!DataFrames(g) : j < Len(out[g]) + 1
                      /\ A!DataFrames(g)' = A!DataFrames(g) \cup {Len(out[g]) + 1}
<1>1. out \in [Dials -> Seq(A!Frames)]
  BY DEF A!TypeOK, A!Dials, Dials
<1>2. PICK f \in A!Frames : f.kind = "data" /\ out' = [out EXCEPT ![ws] = Append(@, f)]
  BY DEF MessageArrives
<1>3. CASE g # ws
  <2>1. out'[g] = out[g]
    BY <1>1, <1>2, <1>3
  <2> QED  BY <1>3, <2>1 DEF A!DataFrames
<1>4. CASE g = ws
  <2>1. out'[g] = Append(out[g], f)
    BY <1>1, <1>2, <1>4
  <2>2. /\ DOMAIN out[g] = 1..Len(out[g]) /\ Len(out[g]) \in Nat
        /\ DOMAIN out'[g] = 1..(Len(out[g]) + 1) /\ out'[g][Len(out[g]) + 1] = f
        /\ \A j \in DOMAIN out[g] : out'[g][j] = out[g][j]
    BY <1>1, <2>1
  <2> QED  BY <1>2, <1>4, <2>2 DEF A!DataFrames
<1> QED  BY <1>3, <1>4

(* The server counts a message when its data frame gets through and at no  *)
(* other time (MessageWriter, Listen of the server).                       *)
LEMMA NumberStep ==
  ASSUME Invariant, [Next]_vars
  PROVE  FramesNumbered'
<1>1. /\ A!TypeOK /\ S!TypeOK /\ FramesNumbered
      /\ sent \in [Dials -> Nat]
  BY DEF Invariant, A!Invariant, S!Invariant, S!TypeOK
<1>2. CASE /\ sent' = sent
           /\ out' = out \/ \E f \in A!Frames : f.kind # "data" /\ A!Put(f)
  <2>1. \A g \in Dials : /\ A!DataFrames(g)' = A!DataFrames(g)
                        /\ \A j : Number(g, j)' = Number(g, j)
    BY <1>1, <1>2, NoMessage
  <2> QED  BY <1>1, <1>2, <2>1 DEF FramesNumbered
<1>3. CASE MessageArrives
  <2> SUFFICES ASSUME NEW g \in Dials
      PROVE  /\ sent'[g] = Cardinality(A!DataFrames(g)')
             /\ \A n \in 1..sent'[g] : \E j \in A!DataFrames(g)' : Number(g, j)' = n
    BY DEF FramesNumbered
  <2>1. sent' = [sent EXCEPT ![ws] = @ + 1] /\ ws \in Dials
    BY <1>3 DEF MessageArrives, S!SendData
  <2>2. CASE g # ws
    <3>1. A!DataFrames(g)' = A!DataFrames(g)
      BY <1>1, <1>3, <2>2, NextMessage
    <3>2. sent'[g] = sent[g] /\ \A j : Number(g, j)' = Number(g, j)
      BY <1>1, <2>1, <2>2, <3>1 DEF Number
    <3> QED  BY <1>1, <3>1, <3>2 DEF FramesNumbered
  <2>3. CASE g = ws
    <3> DEFINE D == A!DataFrames(g)
    <3>0. PICK last : last = Len(out[g]) + 1
      OBVIOUS
    <3>1. /\ last \notin D /\ A!DataFrames(g)' = D \cup {last}
          /\ \A j \in D : j < last
      BY <1>1, <1>3, <2>3, <3>0, NextMessage
    <3>2. IsFiniteSet(D) /\ D \subseteq Nat /\ last \in Nat
      BY <1>1, <3>0, FramesFinite DEF A!TypeOK, A!Dials, Dials
    <3>3. Cardinality(D \cup {last}) = Cardinality(D) + 1 /\ Cardinality(D) = sent[g]
      BY <1>1, <3>1, <3>2, FS_AddElement DEF FramesNumbered
    <3>4. sent'[g] = sent[g] + 1 /\ sent[g] \in Nat
      BY <1>1, <2>1, <2>3
    <3>5. \A j \in D : Number(g, j)' = Number(g, j)
      <4>1. \A j \in D : {i \in D \cup {last} : i <= j} = {i \in D : i <= j}
        BY <3>1, <3>2
      <4> QED  BY <3>1, <4>1 DEF Number
    <3>6. Number(g, last)' = sent'[g]
      <4>1. {i \in D \cup {last} : i <= last} = D \cup {last}
        BY <3>1, <3>2
      <4>2. Number(g, last)' = Cardinality({i \in A!DataFrames(g)' : i <= last})
        BY <2>3 DEF Number
      <4> QED  BY <3>1, <3>3, <3>4, <4>1, <4>2
    <3>7. \A n \in 1..sent[g] : \E j \in D : Number(g, j) = n
      BY <1>1 DEF FramesNumbered
    <3> QED  BY <3>1, <3>3, <3>4, <3>5, <3>6, <3>7
  <2> QED  BY <2>2, <2>3
<1>4. CASE ClientStep
  <2>1. CASE DialsNext /\ S!Accept(dials + 1)
    BY <1>2, <2>1 DEF DialsNext, S!Accept
  <2>2. CASE NothingArrives
    BY <1>2, <2>2 DEF NothingArrives, serverVars
  <2> QED  BY <1>3, <1>4, <2>1, <2>2, ClientArrives
<1>5. CASE ServerStep
  <2>1. sent' = sent
    BY <1>1, <1>5, ServerKinds DEF ServerLeaves
  <2>2. UNCHANGED clientVars \/ \E g \in Dials : Welcome(g)
    BY <1>1, <1>5, ServerKinds
  <2>3. out' = out
    BY <2>2 DEF clientVars, Welcome
  <2> QED  BY <1>2, <2>1, <2>3
<1>6. CASE LoseLink \/ BothEnded \/ UNCHANGED vars
  BY <1>2, <1>6 DEF LoseLink, A!LoseLink, BothEnded, vars, clientVars, serverVars
<1> QED  BY <1>4, <1>5, <1>6 DEF Next

(* Where the messages of the client are is the same in its proofs.         *)
LEMMA SamePlaces ==
  /\ \A k \in Collectors : AP!Waiting(k) = A!Waiting(k) /\ AP!Waiting(k)' = A!Waiting(k)'
  /\ \A k \in Collectors : AP!Arrived(k) = A!Arrived(k) /\ AP!Arrived(k)' = A!Arrived(k)'
  /\ (AP!Disturbed <=> A!Disturbed) /\ (AP!Disturbed' <=> A!Disturbed')
<1>1. \A k \in Collectors : AP!Waiting(k) = A!Waiting(k) /\ AP!Waiting(k)' = A!Waiting(k)'
  BY
  DEF A!Waiting, AP!Waiting, A!Of, AP!Of, A!InHand, AP!InHand, A!Queued,
      AP!Queued, A!Unsent, AP!Unsent
<1>2. \A k \in Collectors : AP!Arrived(k) = A!Arrived(k) /\ AP!Arrived(k)' = A!Arrived(k)'
  BY
  DEF A!Arrived, AP!Arrived, A!Of, AP!Of, A!Written, AP!Written,
      A!DataFrames, AP!DataFrames, A!Dials, AP!Dials
<1> QED  BY <1>1, <1>2 DEF A!Disturbed, AP!Disturbed

(* While the first connection holds nothing gets lost on the client        *)
(* (MessageWriter, Listen).                                                *)
LEMMA WholeStep ==
  ASSUME Invariant, [Next]_vars
  PROVE  FirstConnectionWhole'
<1>1. [AP!Next]_AP!vars /\ AP!Invariant
  BY StepOfClient, SameAgent DEF Invariant
<1> SUFFICES ASSUME ~AP!Disturbed'
    PROVE  /\ connected' /\ lpc' \in {"read", "reply", "replyText"}
           /\ \A k \in Collectors : 1..made'[k] \subseteq A!Waiting(k)' \cup A!Arrived(k)'
  BY SamePlaces DEF FirstConnectionWhole
<1>2. /\ ~AP!Disturbed
      /\ connected /\ lpc \in {"read", "reply", "replyText"} =>
           /\ connected' /\ lpc' \in {"read", "reply", "replyText"}
           /\ AP!Up(ws)'
  BY <1>1, Parameters, AP!LoopStays
<1>3. /\ connected /\ lpc \in {"read", "reply", "replyText"}
      /\ \A k \in Collectors : 1..made[k] \subseteq A!Waiting(k) \cup A!Arrived(k)
  BY <1>2, SamePlaces DEF Invariant, FirstConnectionWhole
<1>4. ASSUME NEW k \in Collectors
      PROVE  1..made'[k] \subseteq A!Waiting(k)' \cup A!Arrived(k)'
  <2>1. 1..made[k] \subseteq AP!Waiting(k) \cup AP!Arrived(k)
    BY <1>3, SamePlaces
  <2>2. (connected /\ AP!Up(ws))'
    BY <1>2, <1>3
  <2>3. 1..made'[k] \subseteq AP!Waiting(k)' \cup AP!Arrived(k)'
    BY <1>1, <2>1, <2>2, Parameters, AP!NothingLost
  <2> QED  BY <2>3, SamePlaces
<1> QED  BY <1>2, <1>3, <1>4

-----------------------------------------------------------------------------
(* The invariant. *)

(* The server has accepted the first connection and received nothing yet.  *)
LEMMA ServerInit ==
  ASSUME Init
  PROVE  S!Invariant
<1>1. /\ settled = <<>> /\ batch = <<>> /\ pointsCh = <<>>
      /\ \A g \in Dials : inq[g] = <<>> /\ cur[g] = S!None /\ sent[g] = 0
  BY DEF Init
<1>2. link = [g \in Dials |-> g = 1]
  BY DEF Init, A!Init, A!Dials, Dials
<1>3. /\ S!AtOutput = {} /\ S!InHand = {} /\ S!InChannel = {} /\ S!InListen = {}
  BY <1>1 DEF S!AtOutput, S!InHand, S!InChannel, S!InListen, S!IsData
<1>4. ASSUME NEW g \in Dials
      PROVE  S!Done(g) = {} /\ S!Held(g) = {} /\ S!Incoming(g) = {} /\ S!Rising(inq[g])
  BY <1>1, <1>3 DEF S!Done, S!Held, S!Of, S!Incoming, S!Numbers, S!Rising
<1>5. S!Accounted
  <2>1. S!InLine
    <3>1. DOMAIN settled = {} /\ DOMAIN pointsCh = {}
      BY <1>1
    <3>2. S!Sorted([i \in DOMAIN settled |-> settled[i].point]) /\ S!Sorted(pointsCh)
      BY <3>1 DEF S!Sorted
    <3> QED  BY <1>3, <1>4, <3>2 DEF S!InLine, S!Before
  <2>2. \A g \in Dials : S!Known(g) = {}
    BY <1>4 DEF S!Known
  <2>3. \A g \in Dials : 1..sent[g] = {}
    BY <1>1
  <2> QED  BY <2>1, <2>2, <2>3 DEF S!Accounted
<1>6. S!OneBatch /\ S!OneFrame /\ S!OneOutput /\ S!LinkServed
  BY <1>2 DEF Init, S!OneBatch, S!OneFrame, S!OneOutput, S!LinkServed, S!HasLogger
<1>7. S!TypeOK
  <2>1. /\ output \in Outputs /\ layout \in {"constant"} /\ serverAlive \in BOOLEAN
        /\ link \in [Dials -> BOOLEAN] /\ logger \in [Dials -> BOOLEAN]
    BY <1>2 DEF Init, S!HasLogger
  <2>2. sent \in [Dials -> 0..MaxFrames] /\ missed \in [Dials -> 0..0]
    <3>1. 0 \in 0..MaxFrames /\ 0 \in 0..0
      BY Parameters
    <3> QED  BY <3>1 DEF Init
  <2>3. inq \in [Dials -> Seq(S!DataFrames \cup {S!Ignored})]
    <3>1. <<>> \in Seq(S!DataFrames \cup {S!Ignored})
      OBVIOUS
    <3> QED  BY <3>1 DEF Init
  <2>4. /\ handler \in [Dials -> {"idle", "hello", "wait", "closed"}]
        /\ listen \in [Dials -> {"idle", "read", "process", "send", "returned"}]
        /\ beat \in [Dials -> {"idle", "start", "select", "returned"}]
        /\ writer \in {"select", "write"}
    BY DEF Init
  <2>5. cur \in [Dials -> S!DataFrames \cup {S!Ignored, S!None}]
    BY DEF Init
  <2>6. /\ pointsCh \in Seq(S!Points) /\ Len(pointsCh) <= PointsCap
        /\ batch \in Seq(S!Points) /\ settled \in Seq(S!Entries)
    BY <1>1, Parameters
  <2> QED  BY <2>1, <2>2, <2>3, <2>4, <2>5, <2>6 DEF S!TypeOK
<1> QED  BY <1>5, <1>6, <1>7 DEF S!Invariant

(* The first connection is accepted and answered, and nothing has been     *)
(* made or sent on it (main of the client, serveClient).                   *)
LEMMA InvariantInit ==
  ASSUME Init
  PROVE  Invariant
<1>1. A!Init /\ A!Invariant
  <2>1. AP!Init
    BY SameAgent DEF Init
  <2>2. AP!Invariant
    BY <2>1, Parameters, AP!InvariantInit
  <2> QED  BY <2>2, SameAgent DEF Init
<1>2. /\ link = [g \in Dials |-> g = 1] /\ welcomed = [g \in Dials |-> g = 1]
      /\ ws = 1 /\ lpc = "read" /\ connected /\ clientAlive /\ serverAlive
      /\ made = [k \in Collectors |-> 0]
      /\ handler = [g \in Dials |-> IF g = 1 THEN "wait" ELSE "idle"]
      /\ sent = [g \in Dials |-> 0]
  BY <1>1 DEF Init, A!Init, A!Dials, Dials
<1>3. OneLink /\ AnsweredOnce
  BY <1>2 DEF OneLink, AnsweredOnce
<1>4. FramesNumbered
  <2>1. \A g \in Dials : A!DataFrames(g) = {}
    BY <1>1 DEF A!Init, A!Dials, Dials, A!DataFrames, A!Plain
  <2>2. Cardinality({}) = 0 /\ 1..0 = {}
    BY FS_EmptySet
  <2> QED  BY <1>2, <2>1, <2>2 DEF FramesNumbered
<1>5. FirstConnectionWhole
  <2>1. \A k \in Collectors : 1..made[k] = {}
    BY <1>2
  <2> QED  BY <1>2, <2>1 DEF FirstConnectionWhole
<1> QED  BY <1>1, <1>3, <1>4, <1>5, ServerInit DEF Invariant

(* The invariant of a client and its server, for any number of collectors, *)
(* messages and connections and any capacity of the channels.              *)
THEOREM InvariantHolds == Spec => []Invariant
<1>1. Invariant /\ [Next]_vars => Invariant'
  BY ClientInvariantStep, ServerInvariantStep, LinkStep, AnswerStep, NumberStep, WholeStep
  DEF Invariant
<1> QED  BY InvariantInit, <1>1, PTL DEF Spec

(* Type correctness of both at once (sendB, pointsCh, c.WS).               *)
THEOREM TypesHold == Spec => []TypeOK
<1>1. Invariant => TypeOK
  BY DEF Invariant, TypeOK, A!Invariant, S!Invariant
<1> QED  BY InvariantHolds, <1>1, PTL

(* The server does to the client what Agent expects of a server            *)
(* (serveClient).                                                          *)
THEOREM ClientImplementsAgent == Spec => ClientIsAgent
<1>1. Init => A!Init
  BY DEF Init
<1>2. Invariant /\ [Next]_vars => [A!Next]_(A!vars)
  BY StepOfClient
<1> QED  BY InvariantHolds, <1>1, <1>2, PTL DEF Spec, ClientIsAgent, A!Spec

(* The client does to the server what Session expects of clients           *)
(* (DialServer, MessageWriter).                                            *)
THEOREM ServerStepsAreSessions == Spec => ServerIsSession
<1>1. Invariant /\ [Next]_vars => [S!Next]_(S!vars)
  BY StepOfServer
<1> QED  BY InvariantHolds, <1>1, PTL DEF Spec, ServerIsSession

-----------------------------------------------------------------------------
(* Where a message is. *)

(* The server's n-th message is in a data frame of its connection.         *)
LEMMA CarriedFrame ==
  ASSUME Invariant, NEW g \in Dials, NEW n \in 1..sent[g]
  PROVE  \E j \in A!DataFrames(g) : Number(g, j) = n /\ Carried(g, n) = out[g][j].msg
<1>1. \E j \in A!DataFrames(g) : Number(g, j) = n
  BY DEF Invariant, FramesNumbered
<1> QED  BY <1>1 DEF Carried

(* It is a message of a collector that the client has written.             *)
LEMMA CarriedWritten ==
  ASSUME Invariant, NEW g \in Dials, NEW n \in 1..sent[g]
  PROVE  /\ Carried(g, n) \in A!Written
         /\ Carried(g, n).from \in Collectors /\ Carried(g, n).n \in Nat
<1>1. Carried(g, n) \in A!Written
  BY CarriedFrame DEF A!Written, A!Dials, Dials
<1> QED  BY <1>1 DEF Invariant, A!Invariant, A!Numbered, A!Messages

(* The messages of a collector lie in the order they were made, over all   *)
(* connections (MessageWriter, Reconnect).                                 *)
LEMMA CarriedInOrder ==
  ASSUME Invariant,
         NEW g \in Dials, NEW n \in 1..sent[g], NEW h \in Dials, NEW m \in 1..sent[h],
         Carried(g, n).from = Carried(h, m).from, g < h \/ (g = h /\ n < m)
  PROVE  Carried(g, n).n < Carried(h, m).n
<1>1. PICK i \in A!DataFrames(g) : Number(g, i) = n /\ Carried(g, n) = out[g][i].msg
  BY CarriedFrame
<1>2. PICK j \in A!DataFrames(h) : Number(h, j) = m /\ Carried(h, m) = out[h][j].msg
  BY CarriedFrame
<1>3. A!TypeOK /\ A!OrderKept
  BY DEF Invariant, A!Invariant
<1>4. g = h => i < j
  <2> SUFFICES ASSUME g = h PROVE i < j
    OBVIOUS
  <2>1. i \in Nat /\ j \in Nat /\ n < m /\ n \in Nat /\ m \in Nat /\ j \in A!DataFrames(g)
    BY <1>3, FramesFinite DEF Dials
  <2>2. j < i => m < n
    BY <1>1, <1>2, <1>3, <2>1, NumbersRise
  <2> QED  BY <1>1, <1>2, <2>1, <2>2
<1> QED  BY <1>1, <1>2, <1>3, <1>4 DEF A!OrderKept, A!Dials, Dials

(* So none of them has two numbers.                                        *)
LEMMA CarriedOnce ==
  ASSUME Invariant,
         NEW g \in Dials, NEW n \in 1..sent[g], NEW h \in Dials, NEW m \in 1..sent[h],
         Carried(g, n) = Carried(h, m)
  PROVE  g = h /\ n = m
<1>1. g \in Nat /\ h \in Nat /\ n \in Nat /\ m \in Nat /\ Carried(g, n).n \in Nat
  BY CarriedWritten DEF Dials
<1>2. ~(g < h \/ (g = h /\ n < m))
  BY <1>1, CarriedInOrder
<1>3. ~(h < g \/ (h = g /\ m < n))
  BY <1>1, CarriedInOrder
<1> QED  BY <1>1, <1>2, <1>3

(* What a session has is numbered as it was sent, and in one place (Listen,*)
(* InfluxClient.Write).                                                    *)
LEMMA SessionPlaces ==
  ASSUME Invariant, NEW g \in Dials
  PROVE  /\ S!Done(g) \cup S!Held(g) \cup S!Incoming(g) \subseteq 1..sent[g]
         /\ S!Done(g) \cap S!Held(g) = {}
         /\ (S!Done(g) \cup S!Held(g)) \cap S!Incoming(g) = {}
<1>1. /\ S!InLine /\ S!Known(g) \subseteq 1..sent[g]
  BY DEF Invariant, S!Invariant, S!Accounted
<1>2. S!Done(g) \cup S!Held(g) \cup S!Incoming(g) \subseteq 1..sent[g]
  BY <1>1 DEF S!Known
<1>3. S!Done(g) \cap S!Held(g) = {}
  <2> SUFFICES ASSUME NEW n \in S!Done(g), n \in S!Held(g) PROVE FALSE
    OBVIOUS
  <2>1. PICK p \in S!AtOutput : p.from = g /\ p.n = n
    BY DEF S!Done, S!Of
  <2>2. PICK q \in S!InHand \cup S!InChannel \cup S!InListen : q.from = g /\ q.n = n
    BY DEF S!Held, S!Of
  <2>3. n < n
    BY <1>1, <2>1, <2>2 DEF S!InLine, S!Before
  <2> QED  BY <1>2, <2>3
<1>4. (S!Done(g) \cup S!Held(g)) \cap S!Incoming(g) = {}
  <2>1. \A n \in S!Done(g) \cup S!Held(g), m \in S!Incoming(g) : n < m
    BY <1>1 DEF S!InLine
  <2> QED  BY <1>2, <2>1
<1> QED  BY <1>2, <1>3, <1>4

(* What is at the output has a number of its session.                      *)
LEMMA StoredPoint ==
  ASSUME Invariant, NEW i \in DOMAIN settled
  PROVE  /\ i \in Nat /\ settled[i].point.from \in Dials
         /\ settled[i].point.n \in S!Done(settled[i].point.from)
         /\ settled[i].point.n \in 1..sent[settled[i].point.from]
<1>1. settled \in Seq(S!Entries)
  BY DEF Invariant, S!Invariant, S!TypeOK
<1>2. settled[i] \in S!Entries /\ i \in Nat
  BY <1>1
<1>3. settled[i].point \in S!Points
  BY <1>2 DEF S!Entries
<1>4. settled[i].point.from \in Dials
  BY <1>3 DEF S!Points
<1>5. settled[i].point.n \in S!Done(settled[i].point.from)
  BY DEF S!Done, S!Of, S!AtOutput
<1> QED  BY <1>2, <1>4, <1>5, SessionPlaces

(* What the client holds is not written yet.                               *)
LEMMA ClientPlaces ==
  ASSUME Invariant
  PROVE  InClient \cap A!Written = {}
<1> SUFFICES ASSUME NEW m \in InClient, m \in A!Written PROVE FALSE
  OBVIOUS
<1>1. m.n \in Nat
  BY DEF Invariant, A!Invariant, A!Numbered, A!Messages
<1>2. m.n < m.n
  BY DEF InClient, Invariant, A!Invariant, A!InLine, A!Before
<1> QED  BY <1>1, <1>2

(* No message is in two places: not in two sessions, not in a session and  *)
(* in the client, not twice at the output (MessageWriter, Reconnect,       *)
(* serveClient, InfluxClient.Write).                                       *)
THEOREM EachIsInOnePlace == Spec => []OnePlace
<1> DEFINE At(g) == S!Held(g) \cup S!Incoming(g)
           Messages(g) == InSession(g) \cup OnTheWay(g)
<1>1. Invariant => \A i, j \in DOMAIN settled : Stored(i) = Stored(j) => i = j
  <2> SUFFICES ASSUME Invariant, NEW i \in DOMAIN settled, NEW j \in DOMAIN settled,
                      Stored(i) = Stored(j)
               PROVE  i = j
    OBVIOUS
  <2> DEFINE p == settled[i].point
             q == settled[j].point
  <2>1. p.from \in Dials /\ q.from \in Dials /\ p.n \in 1..sent[p.from] /\ q.n \in 1..sent[q.from]
    BY StoredPoint
  <2>2. i \in Nat /\ j \in Nat /\ p.n \in Nat /\ q.n \in Nat
    BY <2>1, StoredPoint
  <2>3. p.from = q.from /\ p.n = q.n
    BY <2>1, CarriedOnce DEF Stored
  <2>4. \A a, b \in DOMAIN settled :
          a < b /\ settled[a].point.from = settled[b].point.from
            => settled[a].point.n < settled[b].point.n
    BY DEF Invariant, S!Invariant, S!Accounted, S!InLine, S!Sorted, S!Before
  <2> QED  BY <2>2, <2>3, <2>4
<1>2. Invariant => \A i \in DOMAIN settled : Stored(i) \in A!Written
  BY StoredPoint, CarriedWritten DEF Stored
<1>3. ASSUME Invariant, NEW g \in Dials
      PROVE  \A m \in Messages(g) : \E n \in At(g) : n \in 1..sent[g] /\ m = Carried(g, n)
  BY <1>3, SessionPlaces DEF InSession, OnTheWay
<1>4. Invariant => InClient \cap AtOutput = {}
  BY <1>2, ClientPlaces DEF AtOutput
<1>5. ASSUME Invariant, NEW g \in Dials
      PROVE  Messages(g) \cap (InClient \cup AtOutput) = {}
  <2> SUFFICES ASSUME NEW m \in Messages(g), m \in InClient \cup AtOutput PROVE FALSE
    OBVIOUS
  <2>1. PICK n \in At(g) : n \in 1..sent[g] /\ m = Carried(g, n)
    BY <1>3, <1>5
  <2>2. m \in A!Written
    BY <1>5, <2>1, CarriedWritten
  <2>3. m \in AtOutput
    BY <1>5, <2>2, ClientPlaces
  <2>4. PICK i \in DOMAIN settled : m = Stored(i)
    BY <2>3 DEF AtOutput
  <2> PICK p : p = settled[i].point
    OBVIOUS
  <2>5. p.from \in Dials /\ p.n \in S!Done(p.from) /\ p.n \in 1..sent[p.from]
    BY <1>5, StoredPoint
  <2>6. Carried(p.from, p.n) = Carried(g, n)
    BY <2>1, <2>4 DEF Stored
  <2>7. p.from = g /\ p.n = n
    BY <1>5, <2>1, <2>5, <2>6, CarriedOnce
  <2> QED  BY <1>5, <2>5, <2>7, SessionPlaces
<1>6. ASSUME Invariant, NEW g \in Dials
      PROVE  InSession(g) \cap OnTheWay(g) = {}
  <2> SUFFICES ASSUME NEW n \in S!Held(g), NEW m \in S!Incoming(g),
                      Carried(g, n) = Carried(g, m)
               PROVE  FALSE
    BY DEF InSession, OnTheWay
  <2>1. n \in 1..sent[g] /\ m \in 1..sent[g] /\ n # m
    BY <1>6, SessionPlaces
  <2> QED  BY <1>6, <2>1, CarriedOnce
<1>7. ASSUME Invariant, NEW g \in Dials, NEW h \in Dials \ {g}
      PROVE  Messages(g) \cap Messages(h) = {}
  <2> SUFFICES ASSUME NEW m \in Messages(g), m \in Messages(h) PROVE FALSE
    OBVIOUS
  <2>1. PICK n \in At(g) : n \in 1..sent[g] /\ m = Carried(g, n)
    BY <1>3, <1>7
  <2>2. PICK k \in At(h) : k \in 1..sent[h] /\ m = Carried(h, k)
    BY <1>3, <1>7
  <2> QED  BY <1>7, <2>1, <2>2, CarriedOnce
<1>8. Invariant => OnePlace
  BY <1>1, <1>4, <1>5, <1>6, <1>7 DEF OnePlace
<1> HIDE DEF At, Messages
<1> QED  BY InvariantHolds, <1>8, PTL

(* As long as nothing disturbs them nothing is missing between the tickers *)
(* and the output, or out of order (MessageWriter, Listen,                 *)
(* InfluxClient.Write).                                                    *)
THEOREM NothingIsMissing == Spec => []NothingMissing
<1>1. ASSUME Invariant, Undisturbed
      PROVE  /\ 1 \in Dials /\ \A g \in Dials : g # 1 => sent[g] = 0
             /\ link[1]
  <2>1. dials = 1 /\ link[1] /\ \A g \in Dials : g > dials => out[g] = <<>>
    BY <1>1
    DEF Undisturbed, Invariant, A!Invariant, A!TypeOK, A!LastConnection, A!Disturbed, A!Dials,
        Dials
  <2>2. \A g \in Dials : g # 1 => A!DataFrames(g) = {}
    BY <2>1 DEF A!DataFrames, Dials
  <2>3. \A g \in Dials : g # 1 => sent[g] = 0
    BY <1>1, <2>2, FS_EmptySet DEF Invariant, FramesNumbered
  <2> QED  BY <2>1, <2>3, Parameters DEF Dials
<1>2. ASSUME Invariant, Undisturbed, NEW i \in DOMAIN settled, NEW j \in DOMAIN settled, i < j,
             Stored(i).from = Stored(j).from
      PROVE  Stored(i).n < Stored(j).n
  <2> DEFINE p == settled[i].point
             q == settled[j].point
  <2>1. /\ p.from \in Dials /\ p.n \in 1..sent[p.from]
        /\ q.from \in Dials /\ q.n \in 1..sent[q.from]
    BY <1>2, StoredPoint
  <2>2. p.from = 1 /\ q.from = 1
    BY <1>1, <1>2, <2>1
  <2>3. p.n < q.n
    BY <1>2, <2>2 DEF Invariant, S!Invariant, S!Accounted, S!InLine, S!Sorted, S!Before
  <2> QED  BY <1>2, <2>1, <2>2, <2>3, CarriedInOrder DEF Stored
<1>3. ASSUME Invariant, Undisturbed, NEW m \in A!Written
      PROVE  m \in AtOutput \cup InSession(1) \cup OnTheWay(1)
  <2> PICK g \in Dials : m \in {out[g][i].msg : i \in A!DataFrames(g)}
    BY DEF A!Written, A!Dials, Dials
  <2>1. PICK j \in A!DataFrames(g) : m = out[g][j].msg
    OBVIOUS
  <2>2. Number(g, j) \in 1..sent[g]
    <3>1. /\ Number(g, j) \in Nat /\ 1 <= Number(g, j)
          /\ Number(g, j) <= Cardinality(A!DataFrames(g))
      BY <1>3, NumbersRise DEF Invariant, A!Invariant
    <3>2. sent[g] = Cardinality(A!DataFrames(g)) /\ sent[g] \in Nat
      BY <1>3 DEF Invariant, FramesNumbered, S!Invariant, S!TypeOK
    <3> QED  BY <3>1, <3>2
  <2> PICK n \in 1..sent[g] : n = Number(g, j)
    BY <2>2
  <2>3. Carried(g, n) = m
    <3>1. PICK i \in A!DataFrames(g) : Number(g, i) = n /\ Carried(g, n) = out[g][i].msg
      BY <1>3, CarriedFrame
    <3>2. i \in Nat /\ j \in Nat /\ n \in Nat
      BY <1>3, FramesFinite DEF Invariant, A!Invariant
    <3>3. ~(i < j) /\ ~(j < i)
      BY <1>3, <3>1, <3>2, NumbersRise DEF Invariant, A!Invariant
    <3> QED  BY <2>1, <3>1, <3>2, <3>3
  <2>4. g = 1
    BY <1>1, <1>3, <2>2
  <2>5. n \in S!Done(1) \cup S!Held(1) \cup S!Incoming(1)
    <3>1. handler[1] # "closed" /\ ~S!DoneClosed(1)
      BY <1>1, <1>3 DEF Invariant, S!Invariant, S!LinkServed, S!DoneClosed
    <3>2. 1..sent[1] \subseteq S!Known(1)
      BY <1>1, <1>3, <3>1 DEF Invariant, S!Invariant, S!Accounted
    <3> QED  BY <2>4, <3>2 DEF S!Known
  <2>6. CASE n \in S!Done(1)
    <3>1. PICK x \in S!AtOutput : x.from = 1 /\ x.n = n
      BY <2>6 DEF S!Done, S!Of
    <3>2. PICK i \in DOMAIN settled : x = settled[i].point
      BY DEF S!AtOutput
    <3> QED  BY <2>3, <2>4, <3>1, <3>2 DEF AtOutput, Stored
  <2>7. CASE n \in S!Held(1) \cup S!Incoming(1)
    BY <2>3, <2>4, <2>7 DEF InSession, OnTheWay
  <2> QED  BY <2>5, <2>6, <2>7
<1>4. ASSUME Invariant, Undisturbed, NEW k \in Collectors, NEW n \in 1..made[k]
      PROVE  [from |-> k, n |-> n] \in InClient \cup A!Written
  <2>1. n \in A!Waiting(k) \cup A!Arrived(k)
    BY <1>4 DEF Undisturbed, Invariant, FirstConnectionWhole
  <2>2. PICK m \in InClient \cup A!Written : m.from = k /\ m.n = n
    BY <2>1 DEF A!Waiting, A!Arrived, A!Of, InClient
  <2>3. CASE m \in A!Unsent
    BY <2>2, <2>3 DEF A!Unsent
  <2>4. CASE m \notin A!Unsent
    <3>1. m \in A!Messages
      BY <1>4, <2>4 DEF InClient, Invariant, A!Invariant, A!Numbered
    <3>2. m = [from |-> k, n |-> n]
      BY <2>2, <3>1 DEF A!Messages
    <3> QED  BY <3>2
  <2> QED  BY <2>3, <2>4
<1>5. Invariant => NothingMissing
  <2> SUFFICES ASSUME Invariant, Undisturbed
      PROVE  /\ StoredInOrder
             /\ \A k \in Collectors : \A n \in 1..made[k] :
                  [from |-> k, n |-> n]
                    \in InClient \cup AtOutput \cup InSession(1) \cup OnTheWay(1)
    BY DEF NothingMissing
  <2>1. StoredInOrder
    BY <1>2 DEF StoredInOrder
  <2>2. A!Written \subseteq AtOutput \cup InSession(1) \cup OnTheWay(1)
    BY <1>3
  <2> QED  BY <1>4, <2>1, <2>2
<1> QED  BY InvariantHolds, <1>5, PTL
=============================================================================
