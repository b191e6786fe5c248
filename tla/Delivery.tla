------------------------------ MODULE Delivery ------------------------------
(***************************************************************************)
(* A running client and the server it is connected to: the goroutines of   *)
(* Agent and those of Session, joined by the connections.  Each connection *)
(* the client dials becomes a session of the server; each frame that gets  *)
(* through is on its way to that session's handler or Listen.              *)
(*                                                                         *)
(* A step of the client that dials or writes is one with the arrival at    *)
(* the server, the answer to an id one with its arrival at the client.     *)
(* The clients have a HealthbeatPeriod of zero, so nothing is requested;   *)
(* a reply would be one more data message of its session.                  *)
(***************************************************************************)
EXTENDS Integers, Sequences, FiniteSets

CONSTANTS
  Collectors, BufCap, ReconnectTries, MaxMsgs, MaxDials,  \* see Agent
  Outputs, PointsCap                                      \* see Session

(* As in Agent and Session, and there is something to deliver. *)
ASSUME DeliveryAssumption ==
  /\ IsFiniteSet(Collectors) /\ Collectors # {} /\ MaxMsgs \in Nat \ {0}
  /\ BufCap \in Nat \ {0} /\ ReconnectTries \in Nat \ {0} /\ MaxDials \in Nat \ {0}
  /\ Outputs \subseteq {"file", "influxdb"} /\ PointsCap \in Nat \ {0}

VARIABLES
  (* the client: see Agent *)
  ws, dials, out, welcomed, asked, toRead, connected, lpc, tries, wpc, hand,
  cpc, made, sendB, spc, clientAlive, panicked,
  (* the connections *)
  link,
  (* the server: see Session *)
  output, layout, serverAlive, sent, inq, handler, logger, listen, cur, beat,
  missed, pointsCh, writer, batch, settled

clientVars ==
  <<ws, dials, out, welcomed, asked, toRead, connected, lpc, tries, wpc, hand,
    cpc, made, sendB, spc, clientAlive, panicked>>
serverVars ==
  <<output, layout, serverAlive, sent, inq, handler, logger, listen, cur, beat,
    missed, pointsCh, writer, batch, settled>>
vars == <<clientVars, link, serverVars>>

Dials == 1..MaxDials

(* Room for every message on one connection. *)
MaxFrames == Cardinality(Collectors) * MaxMsgs

A == INSTANCE Agent WITH MaxRequests <- 0, alive <- clientAlive
S == INSTANCE Session WITH
       Sessions <- Dials, Kinds <- {"stat"}, Layouts <- {"constant"},
       Periods <- {0}, Several <- 0, MaxData <- MaxFrames, MaxQueue <- MaxFrames,
       alive <- serverAlive, lpc <- listen, hand <- batch

TypeOK == A!TypeOK /\ S!TypeOK

(* The first connection is through its handshake. *)
Init ==
  /\ A!Init
  /\ output \in Outputs /\ layout = "constant"
  /\ serverAlive = TRUE
  /\ sent = [g \in Dials |-> 0]
  /\ inq = [g \in Dials |-> <<>>]
  /\ handler = [g \in Dials |-> IF g = 1 THEN "wait" ELSE "idle"]
  /\ logger = [g \in Dials |-> g = 1 /\ S!HasLogger(FALSE)]
  /\ listen = [g \in Dials |-> IF g = 1 THEN "read" ELSE "idle"]
  /\ cur = [g \in Dials |-> S!None]
  /\ beat = [g \in Dials |-> IF g = 1 THEN "returned" ELSE "idle"]
  /\ missed = [g \in Dials |-> 0]
  /\ pointsCh = <<>> /\ writer = "select" /\ batch = <<>> /\ settled = <<>>

-----------------------------------------------------------------------------
(* The client's steps, with what arrives at the server. *)

(* A message is on its way to Listen; the id is the business of the        *)
(* handler, the close frame that of the connection.                        *)
Arrives(g) ==
  IF out'[g][Len(out'[g])].kind = "data"
  THEN S!SendData(g, "stat")
  ELSE UNCHANGED serverVars

(* Mutant: a connection is accepted that no handler serves. *)
ConnectsUnserved == dials' = dials + 1 /\ serverAlive /\ UNCHANGED serverVars

(* DialServer and Upgrade. *)
Connects == dials' = dials + 1 /\ serverAlive /\ S!Accept(dials + 1)

Writes == \E g \in Dials : out'[g] # out[g] /\ Arrives(g)

Silent == dials' = dials /\ out' = out /\ UNCHANGED serverVars

Joined(step) == clientAlive /\ step /\ (Connects \/ Writes \/ Silent)

ClientStep ==
  \/ Joined(A!ListenStep) \/ Joined(A!WriterStep) \/ Joined(A!ProcessStep)
  \/ \E k \in Collectors : Joined(A!CollectorStep(k))

-----------------------------------------------------------------------------
(* The server's steps, with what arrives at the client. *)

FirstIsId(g) == out[g] # <<>> /\ Head(out[g]).kind = "id"

WelcomeAnything(g) ==  \* mutant: the type of the first message is not looked at
  /\ out[g] # <<>>
  /\ S!StartSession(g)
  /\ welcomed' = [welcomed EXCEPT ![g] = link[g]]
  /\ UNCHANGED <<ws, dials, out, asked, toRead, connected, lpc, tries, wpc, hand,
                 cpc, made, sendB, spc, clientAlive, panicked>>

(* The answer is lost with the connection, the goroutines start all the    *)
(* same.                                                                   *)
Welcome(g) ==
  /\ FirstIsId(g)
  /\ S!StartSession(g)
  /\ welcomed' = [welcomed EXCEPT ![g] = link[g]]
  /\ UNCHANGED <<ws, dials, out, asked, toRead, connected, lpc, tries, wpc, hand,
                 cpc, made, sendB, spc, clientAlive, panicked>>

Refuse(g) ==
  /\ ~link[g] \/ (out[g] # <<>> /\ ~FirstIsId(g))
  /\ S!Reject(g)
  /\ UNCHANGED clientVars

ListenStep(g) == S!ListenWork(g) /\ UNCHANGED clientVars
SendStep(g) == S!ListenSend(g) /\ UNCHANGED clientVars
EndSession(g) == S!EndSession(g) /\ UNCHANGED clientVars
WriterStep == S!WriterStep /\ UNCHANGED clientVars
ServerEnds == S!ServerEnds /\ UNCHANGED clientVars

ServerStep ==
  /\ serverAlive
  /\ \/ \E g \in Dials :
          \/ Welcome(g) \/ Refuse(g)
          \/ ListenStep(g) \/ SendStep(g) \/ EndSession(g)
     \/ WriterStep \/ ServerEnds

LoseLink == A!LoseLink /\ UNCHANGED serverVars

BothEnded == ~clientAlive /\ ~serverAlive /\ UNCHANGED vars

Next == ClientStep \/ ServerStep \/ LoseLink \/ BothEnded

Spec == Init /\ [][Next]_vars

ClientRuns ==
  \/ Joined(A!ListenStep) \/ Joined(A!WriterStep) \/ Joined(A!ProcessEnds)
  \/ \E k \in Collectors : Joined(A!Send(k) /\ A!CollectorStep(k))

ServerRuns ==
  /\ serverAlive
  /\ \/ \E g \in Dials :
          \/ Welcome(g) \/ Refuse(g)
          \/ ListenStep(g) \/ SendStep(g) \/ EndSession(g)
     \/ WriterStep

(* Some goroutine of each process runs, as long as one can.  That is less  *)
(* than Agent and Session assume, and enough: without ticks and dials no   *)
(* goroutine has work for ever.                                            *)
Fairness == WF_vars(ClientRuns) /\ WF_vars(ServerRuns)

FairSpec == Spec /\ Fairness

-----------------------------------------------------------------------------
(* What the two together promise. *)

(* The server does to the client only what Agent expects of a server: it   *)
(* answers an id, asks on connections it has answered, and closes the rest *)
(* (serveClient, Healthbeat).                                              *)
ClientIsAgent == A!Spec

(* The client does to the server only what Session expects of its clients. *)
ServerIsSession == [][S!Next]_(S!vars)

(* The n-th message of connection g, as the server numbers them. *)
Number(g, j) == Cardinality({i \in A!DataFrames(g) : i <= j})

Carried(g, n) == out[g][CHOOSE j \in A!DataFrames(g) : Number(g, j) = n].msg

Stored(i) == Carried(settled[i].point.from, settled[i].point.n)

(* Where a message is: in the client, at the output, or in a session,      *)
(* which holds it or to which it is on its way.                            *)
InClient == A!InHand \cup A!Queued \cup A!Unsent

AtOutput == {Stored(i) : i \in DOMAIN settled}

InSession(g) == {Carried(g, n) : n \in S!Held(g)}

OnTheWay(g) == {Carried(g, n) : n \in S!Incoming(g)}

(* No message is in two places: not in two sessions when the client has    *)
(* reconnected while the server still works on the old connection, not at  *)
(* the server and in the client, not twice at the output (MessageWriter,   *)
(* Reconnect, serveClient, InfluxClient.Write).                            *)
OnePlace ==
  /\ \A i, j \in DOMAIN settled : Stored(i) = Stored(j) => i = j
  /\ InClient \cap AtOutput = {}
  /\ \A g \in Dials :
       /\ (InSession(g) \cup OnTheWay(g)) \cap (InClient \cup AtOutput) = {}
       /\ InSession(g) \cap OnTheWay(g) = {}
       /\ \A h \in Dials \ {g} :
            (InSession(g) \cup OnTheWay(g)) \cap (InSession(h) \cup OnTheWay(h)) = {}

(* The messages of a collector come to the output in the order they were   *)
(* made.  Over a reconnect they need not: Listen of the old connection and *)
(* Listen of the new one run side by side.                                 *)
StoredInOrder ==
  \A i, j \in DOMAIN settled :
    i < j /\ Stored(i).from = Stored(j).from => Stored(i).n < Stored(j).n

Undisturbed == ~A!Disturbed /\ serverAlive

(* Nothing is missing or out of order either, from the ticker to the       *)
(* output, as long as the first connection and both processes last         *)
(* (MessageWriter, Listen, InfluxClient.Write).                            *)
NothingMissing ==
  Undisturbed =>
    /\ StoredInOrder
    /\ \A k \in Collectors : \A n \in 1..made[k] :
         [from |-> k, n |-> n] \in InClient \cup AtOutput \cup InSession(1) \cup OnTheWay(1)

(* What a collector makes gets to the output, or fails there (MessageWriter,*)
(* Listen, InfluxClient.Write).                                            *)
CollectedIsStored ==
  \A k \in Collectors, n \in 1..MaxMsgs :
    made[k] = n
      ~> ((\E i \in DOMAIN settled : Stored(i) = [from |-> k, n |-> n]) \/ ~Undisturbed)

(* A client that lost its connection has one again or ends, whatever the   *)
(* handler makes of the first frame it gets (Reconnect, serveClient).      *)
ClientRecovers == A!ReconnectsOrEnds

(* The sessions of a client that has ended, or left for a new connection,  *)
(* come to their end (serveClient).                                        *)
NoSessionStays == S!SessionEnds

-----------------------------------------------------------------------------
(* Why no message is in two places and none is missing. *)

(* Frames get through on c.WS alone, while both processes run, and on no   *)
(* connection while Reconnect dials.                                       *)
OneLink ==
  /\ \A g \in Dials : link[g] => g = ws /\ clientAlive /\ serverAlive
  /\ lpc = "dial" => \A g \in Dials : ~link[g]

(* serveClient answers the first message, and that one only. *)
AnsweredOnce == \A g \in Dials : handler[g] \in {"idle", "hello"} => ~welcomed[g]

(* The server's numbers are those of the data frames, without a gap. *)
FramesNumbered ==
  \A g \in Dials :
    /\ sent[g] = Cardinality(A!DataFrames(g))
    /\ \A n \in 1..sent[g] : \E j \in A!DataFrames(g) : Number(g, j) = n

(* As long as the first connection holds Listen is in its loop and         *)
(* MessageWriter drops nothing.                                            *)
FirstConnectionWhole ==
  ~A!Disturbed =>
    /\ connected /\ lpc \in {"read", "reply", "replyText"}
    /\ \A k \in Collectors : 1..made[k] \subseteq A!Waiting(k) \cup A!Arrived(k)

(* Every reachable state satisfies it, and every step of either process    *)
(* and of the network keeps it (Reconnect, MessageWriter, serveClient).    *)
Invariant ==
  /\ A!Invariant /\ S!Invariant
  /\ OneLink /\ AnsweredOnce /\ FramesNumbered /\ FirstConnectionWhole
=============================================================================
