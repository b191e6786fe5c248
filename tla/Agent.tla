-------------------------------- MODULE Agent --------------------------------
(***************************************************************************)
(* The goroutines of a running, connected autofact client                  *)
(* (cmd/autofact/client.go, main.go): the collectors that queue messages   *)
(* on sendB, MessageWriter that writes them to the websocket, Listen that  *)
(* answers the server's healthbeat requests and reconnects, the signal     *)
(* handler, and main that waits for doneCh.                                *)
(*                                                                         *)
(* They share c.WS, which Listen replaces when it reconnects, and          *)
(* c.isConnected.  Connections are numbered as they are dialed; c.WS = 0   *)
(* is the nil pointer a failed dial leaves behind.                         *)
(***************************************************************************)
EXTENDS Naturals, Sequences, FiniteSets

CONSTANTS
  Collectors,      \* the collecting goroutines: cpu, memory, network
  BufCap,          \* capacity of sendB (code: 8)
  ReconnectTries,  \* calls of Connect that Reconnect makes (code: 4)
  MaxMsgs,         \* bound: messages of one collector
  MaxDials,        \* bound: successful dials
  MaxRequests      \* bound: healthbeat requests on one connection

ASSUME AgentAssumption ==
  /\ BufCap \in Nat \ {0} /\ ReconnectTries \in Nat \ {0}
  /\ MaxMsgs \in Nat /\ MaxDials \in Nat \ {0} /\ MaxRequests \in Nat

VARIABLES
  ws,         \* c.WS
  dials,      \* connections dialed so far
  link,       \* link[g]: frames still get through on connection g
  out,        \* out[g]: the frames that got through to the server
  welcomed,   \* welcomed[g]: the server has answered the id
  asked,      \* asked[g]: healthbeat requests of the server
  toRead,     \* toRead[g]: those that Listen has not read
  connected,  \* c.isConnected
  lpc,        \* where Listen is
  tries,      \* failed calls of Connect in this Reconnect
  wpc,        \* where MessageWriter is
  hand,       \* the message MessageWriter has received
  cpc,        \* cpc[k]: where collector k is
  made,       \* made[k]: messages of collector k so far
  sendB,      \* the channel
  spc,        \* where the signal handler is
  alive,      \* the process has not ended
  panicked    \* who ended it by a write to a nil c.WS

netVars == <<dials, link, out, welcomed, asked, toRead>>
listenVars == <<connected, lpc, tries>>
writerVars == <<wpc, hand>>
collectorVars == <<cpc, made>>
processVars == <<spc, alive, panicked>>
vars == <<ws, netVars, listenVars, writerVars, collectorVars, sendB, processVars>>

Dials == 1..MaxDials
Messages == [from : Collectors, n : 1..MaxMsgs]

Data(m) == [kind |-> "data", msg |-> m]
Plain(k) == [kind |-> k]
Frames ==
  {Data(m) : m \in Messages} \cup {Plain(k) : k \in {"id", "load", "loadText", "close"}}

Panicking == {"nobody", "MessageWriter", "handleSignals"}

TypeOK ==
  /\ ws \in 0..dials /\ dials \in Dials
  /\ link \in [Dials -> BOOLEAN] /\ out \in [Dials -> Seq(Frames)]
  /\ welcomed \in [Dials -> BOOLEAN]
  /\ asked \in [Dials -> 0..MaxRequests] /\ toRead \in [Dials -> 0..MaxRequests]
  /\ connected \in BOOLEAN
  /\ lpc \in {"read", "reply", "replyText", "dial", "sendId", "handshake", "returned"}
  /\ tries \in 0..(ReconnectTries - 1)
  /\ wpc \in {"recv", "check", "write"}
  /\ hand \in Messages \cup {<<>>}
  /\ cpc \in [Collectors -> {"tick", "send", "end"}]
  /\ made \in [Collectors -> 0..MaxMsgs]
  /\ sendB \in Seq(Messages) /\ Len(sendB) <= BufCap
  /\ spc \in {"wait", "close"}
  /\ alive \in BOOLEAN /\ panicked \in Panicking

(* main has connected, saved the connection file and started everything.   *)
Init ==
  /\ ws = 1 /\ dials = 1
  /\ link = [g \in Dials |-> g = 1]
  /\ out = [g \in Dials |-> IF g = 1 THEN <<Plain("id")>> ELSE <<>>]
  /\ welcomed = [g \in Dials |-> g = 1]
  /\ asked = [g \in Dials |-> 0] /\ toRead = [g \in Dials |-> 0]
  /\ connected = TRUE /\ lpc = "read" /\ tries = 0
  /\ wpc = "recv" /\ hand = <<>>
  /\ cpc = [k \in Collectors |-> "tick"] /\ made = [k \in Collectors |-> 0]
  /\ sendB = <<>>
  /\ spc = "wait" /\ alive = TRUE /\ panicked = "nobody"

-----------------------------------------------------------------------------
(* The network and the server. *)

Up(g) == g # 0 /\ link[g]

(* WriteMessage on c.WS: a write on a lost connection leaves nothing.      *)
Put(f) == out' = IF Up(ws) THEN [out EXCEPT ![ws] = Append(@, f)] ELSE out

Write(f) == Put(f) /\ UNCHANGED <<dials, link, welcomed, asked, toRead>>

(* The process ends, and its connections with it. *)
End ==
  /\ alive' = FALSE
  /\ link' = [g \in Dials |-> FALSE]
  /\ UNCHANGED <<dials, welcomed, asked, toRead>>

(* The connection is lost, or the server closes it. *)
LoseLink ==
  /\ Up(ws)
  /\ link' = [link EXCEPT ![ws] = FALSE]
  /\ UNCHANGED <<dials, out, welcomed, asked, toRead>>
  /\ UNCHANGED <<ws, listenVars, writerVars, collectorVars, sendB, processVars>>

(* serveClient reads the first frame: a text message is the id and is      *)
(* answered, anything else is rejected and the connection closed.          *)
ServerAnswers ==
  /\ Up(ws) /\ ~welcomed[ws] /\ out[ws] # <<>>
  /\ IF Head(out[ws]).kind = "id"
     THEN welcomed' = [welcomed EXCEPT ![ws] = TRUE] /\ link' = link
     ELSE link' = [link EXCEPT ![ws] = FALSE] /\ welcomed' = welcomed
  /\ UNCHANGED <<dials, out, asked, toRead>>
  /\ UNCHANGED <<ws, listenVars, writerVars, collectorVars, sendB, processVars>>

(* A tick of the server's Healthbeat. *)
ServerAsks ==
  /\ Up(ws) /\ welcomed[ws] /\ asked[ws] < MaxRequests
  /\ asked' = [asked EXCEPT ![ws] = @ + 1]
  /\ toRead' = [toRead EXCEPT ![ws] = @ + 1]
  /\ UNCHANGED <<dials, link, out, welcomed>>
  /\ UNCHANGED <<ws, listenVars, writerVars, collectorVars, sendB, processVars>>

-----------------------------------------------------------------------------
(* Listen. *)

(* Reconnect clears isConnected before it dials. *)
Reconnect == connected' = FALSE /\ lpc' = "dial" /\ tries' = 0

(* The deferred close(doneCh). *)
Return == lpc' = "returned" /\ UNCHANGED <<connected, tries>>

(* A read or a write failed: with a close error Listen reconnects, with    *)
(* any other it returns.                                                   *)
Failed == Reconnect \/ Return

ListenRead ==
  /\ lpc = "read"
  /\ toRead[ws] > 0
  /\ toRead' = [toRead EXCEPT ![ws] = @ - 1]
  /\ lpc' = "reply"
  /\ UNCHANGED <<ws, dials, link, out, welcomed, asked, connected, tries>>

ListenReadFails ==
  /\ lpc = "read" /\ ~Up(ws)
  /\ Failed
  /\ UNCHANGED <<ws, netVars>>

(* c.LoadAvg returned an error. *)
LoadAvgFails ==
  /\ lpc = "reply"
  /\ lpc' = "read"
  /\ UNCHANGED <<ws, netVars, connected, tries>>

Reply ==
  /\ lpc = "reply" /\ Up(ws)
  /\ Write(Plain("load"))
  /\ lpc' = "replyText"
  /\ UNCHANGED <<ws, connected, tries>>

ReplyFails ==
  /\ lpc = "reply" /\ ~Up(ws)
  /\ Failed
  /\ UNCHANGED <<ws, netVars>>

(* The same data once more, as text; its error is not looked at. *)
ReplyAgainAsText ==
  /\ lpc = "replyText"
  /\ Write(Plain("loadText"))
  /\ lpc' = "read"
  /\ UNCHANGED <<ws, connected, tries>>

(* Connect, in the loop of Reconnect. *)
Dial ==
  /\ lpc = "dial"
  /\ dials < MaxDials
  /\ dials' = dials + 1
  /\ ws' = dials + 1
  /\ link' = [link EXCEPT ![dials + 1] = TRUE]
  /\ lpc' = "sendId"
  /\ UNCHANGED <<out, welcomed, asked, toRead, connected, tries>>

(* Dial returns a nil connection with its error. *)
DialFails ==
  /\ lpc = "dial"
  /\ ws' = 0
  /\ UNCHANGED <<netVars, listenVars>>

(* Mutant: the attempts are not counted. *)
ConnectFalseUncounted ==
  /\ lpc' = "dial" /\ tries' = tries
  /\ UNCHANGED <<ws, netVars, connected>>

ConnectFalse ==
  /\ IF tries + 1 < ReconnectTries
     THEN lpc' = "dial" /\ tries' = tries + 1
     ELSE lpc' = "returned" /\ tries' = tries
  /\ UNCHANGED <<ws, netVars, connected>>

DialTimeout == lpc = "dial" /\ ConnectFalse

SendId ==
  /\ lpc = "sendId" /\ Up(ws)
  /\ Write(Plain("id"))
  /\ lpc' = "handshake"
  /\ UNCHANGED <<ws, connected, tries>>

HandshakeFails == lpc \in {"sendId", "handshake"} /\ ~Up(ws) /\ ConnectFalse

(* Mutant: after a reconnect Listen takes up the reply it had to give up. *)
HandshakeDoneReplies ==
  /\ lpc = "handshake" /\ welcomed[ws]
  /\ connected' = TRUE
  /\ lpc' = "reply"
  /\ UNCHANGED <<ws, netVars, tries>>

HandshakeDone ==
  /\ lpc = "handshake" /\ welcomed[ws]
  /\ connected' = TRUE
  /\ lpc' = "read"
  /\ UNCHANGED <<ws, netVars, tries>>

ListenStep ==
  /\ \/ ListenRead \/ ListenReadFails
     \/ LoadAvgFails \/ Reply \/ ReplyFails \/ ReplyAgainAsText
     \/ Dial \/ DialFails \/ DialTimeout
     \/ SendId \/ HandshakeFails \/ HandshakeDone
  /\ UNCHANGED <<writerVars, collectorVars, sendB, processVars>>

-----------------------------------------------------------------------------
(* MessageWriter. *)

WriterReceive ==
  /\ wpc = "recv" /\ sendB # <<>>
  /\ hand' = Head(sendB)
  /\ sendB' = Tail(sendB)
  /\ wpc' = "check"
  /\ UNCHANGED <<ws, netVars, processVars>>

(* Mutant: the test is the wrong way round. *)
WriterCheckInverted ==
  /\ wpc = "check"
  /\ IF ~connected
     THEN wpc' = "write" /\ hand' = hand
     ELSE wpc' = "recv" /\ hand' = <<>>
  /\ UNCHANGED <<ws, netVars, sendB, processVars>>

(* Not connected: the message is dropped. *)
WriterCheck ==
  /\ wpc = "check"
  /\ IF connected
     THEN wpc' = "write" /\ hand' = hand
     ELSE wpc' = "recv" /\ hand' = <<>>
  /\ UNCHANGED <<ws, netVars, sendB, processVars>>

(* Mutant: a message that could not be written is queued again. *)
WriterWriteRequeues ==
  /\ wpc = "write" /\ ws # 0
  /\ Write(Data(hand))
  /\ sendB' = IF Up(ws) \/ Len(sendB) = BufCap THEN sendB ELSE Append(sendB, hand)
  /\ wpc' = "recv" /\ hand' = <<>>
  /\ UNCHANGED <<ws, processVars>>

(* Mutant: what is written during a reconnect is queued again. *)
WriterWriteRepeats ==
  /\ wpc = "write" /\ ws # 0
  /\ Write(Data(hand))
  /\ sendB' = IF connected \/ Len(sendB) = BufCap THEN sendB ELSE Append(sendB, hand)
  /\ wpc' = "recv" /\ hand' = <<>>
  /\ UNCHANGED <<ws, processVars>>

(* Mutant: MessageWriter returns on an error and leaves doneCh open. *)
WriterWriteStops ==
  /\ wpc = "write" /\ ws # 0
  /\ Write(Data(hand))
  /\ wpc' = IF Up(ws) THEN "recv" ELSE "returned"
  /\ hand' = <<>>
  /\ UNCHANGED <<ws, sendB, processVars>>

(* c.WS is read here, after the check. *)
WriterWrite ==
  /\ wpc = "write" /\ ws # 0
  /\ Write(Data(hand))
  /\ wpc' = "recv" /\ hand' = <<>>
  /\ UNCHANGED <<ws, sendB, processVars>>

WriterPanics ==
  /\ wpc = "write" /\ ws = 0
  /\ End /\ panicked' = "MessageWriter"
  /\ UNCHANGED <<ws, out, writerVars, sendB, spc>>

WriterStep ==
  /\ WriterReceive \/ WriterCheck \/ WriterWrite \/ WriterPanics
  /\ UNCHANGED <<listenVars, collectorVars>>

-----------------------------------------------------------------------------
(* Collectors, signal handler and main. *)

DoneClosed == lpc = "returned"

(* The ticker delivers: NewMessage. *)
Tick(k) ==
  /\ cpc[k] = "tick" /\ made[k] < MaxMsgs
  /\ made' = [made EXCEPT ![k] = @ + 1]
  /\ cpc' = [cpc EXCEPT ![k] = "send"]
  /\ UNCHANGED sendB

SendUnbounded(k) ==  \* mutant: a queue without a limit
  /\ cpc[k] = "send"
  /\ sendB' = Append(sendB, [from |-> k, n |-> made[k]])
  /\ cpc' = [cpc EXCEPT ![k] = "tick"]
  /\ UNCHANGED made

(* The send blocks while the channel is full, doneCh or not. *)
Send(k) ==
  /\ cpc[k] = "send" /\ Len(sendB) < BufCap
  /\ sendB' = Append(sendB, [from |-> k, n |-> made[k]])
  /\ cpc' = [cpc EXCEPT ![k] = "tick"]
  /\ UNCHANGED made

Finish(k) ==
  /\ cpc[k] = "tick" /\ DoneClosed
  /\ cpc' = [cpc EXCEPT ![k] = "end"]
  /\ UNCHANGED <<made, sendB>>

CollectorStep(k) ==
  /\ Tick(k) \/ Send(k) \/ Finish(k)
  /\ UNCHANGED <<ws, netVars, listenVars, writerVars, processVars>>

(* handleSignals: if connected a close frame, then os.Exit. *)
Signal ==
  /\ spc = "wait" /\ connected
  /\ spc' = "close"
  /\ UNCHANGED <<ws, netVars, alive, panicked>>

SignalExits ==
  /\ spc = "wait" /\ ~connected
  /\ End
  /\ UNCHANGED <<ws, out, spc, panicked>>

(* c.WS is read here, after the check, as in MessageWriter.                *)
SignalClose ==
  /\ spc = "close" /\ ws # 0
  /\ Put(Plain("close"))
  /\ End
  /\ UNCHANGED <<ws, spc, panicked>>

SignalPanics ==
  /\ spc = "close" /\ ws = 0
  /\ End /\ panicked' = "handleSignals"
  /\ UNCHANGED <<ws, out, spc>>

(* main has waited for doneCh and returns. *)
MainReturns ==
  /\ DoneClosed
  /\ End
  /\ UNCHANGED <<ws, out, spc, panicked>>

ProcessEnds ==
  /\ SignalClose \/ SignalPanics \/ MainReturns
  /\ UNCHANGED <<listenVars, writerVars, collectorVars, sendB>>

ProcessStep ==
  \/ /\ Signal \/ SignalExits
     /\ UNCHANGED <<listenVars, writerVars, collectorVars, sendB>>
  \/ ProcessEnds

-----------------------------------------------------------------------------

Running ==
  \/ LoseLink \/ ServerAnswers \/ ServerAsks
  \/ ListenStep \/ WriterStep \/ ProcessStep
  \/ \E k \in Collectors : CollectorStep(k)

Ended == ~alive /\ UNCHANGED vars

Next == (alive /\ Running) \/ Ended

Spec == Init /\ [][Next]_vars

(* A goroutine that can run does run, a write returns, a server that got   *)
(* an id answers, and the retry period passes.  Ticks, requests, signals   *)
(* and lost connections are not fair.                                      *)
Fairness ==
  /\ WF_vars(alive /\ ListenStep)
  /\ WF_vars(alive /\ WriterStep)
  /\ WF_vars(alive /\ ServerAnswers)
  /\ WF_vars(alive /\ ProcessEnds)
  /\ \A k \in Collectors : WF_vars(alive /\ Send(k) /\ CollectorStep(k))

FairSpec == Spec /\ Fairness

-----------------------------------------------------------------------------
(* What the client promises. *)

DataFrames(g) == {j \in DOMAIN out[g] : out[g][j].kind = "data"}
Count(g, kind) == Cardinality({j \in DOMAIN out[g] : out[g][j].kind = kind})

(* The server gets the messages of a collector in the order they were made *)
(* and none twice, over all the connections of the client (MessageWriter,  *)
(* Reconnect).                                                             *)
OrderKept ==
  \A g, h \in Dials : \A i \in DataFrames(g), j \in DataFrames(h) :
    LET a == out[g][i].msg
        b == out[h][j].msg
    IN  a.from = b.from /\ (g < h \/ (g = h /\ i < j)) => a.n < b.n

(* Every loadavg frame answers a request made on its own connection; a     *)
(* reconnect in the middle of a reply does not carry it over (Listen).     *)
RepliesMatchRequests ==
  \A g \in Dials : Count(g, "loadText") <= Count(g, "load") /\ Count(g, "load") <= asked[g]

(* As long as the first connection holds, whatever a collector makes gets  *)
(* to the server (sendB, MessageWriter).                                   *)
Sent(k, n) ==
  \E g \in Dials : \E i \in DataFrames(g) : out[g][i].msg = [from |-> k, n |-> n]

Disturbed == dials > 1 \/ ~link[1] \/ ~alive

DataArrives ==
  \A k \in Collectors, n \in 1..MaxMsgs :
    made[k] = n ~> (Sent(k, n) \/ Disturbed)

(* Where the messages are: written to a connection, with MessageWriter, in *)
(* the channel, with a collector that waits for room in it.                *)
Written == UNION {{out[g][i].msg : i \in DataFrames(g)} : g \in Dials}

InHand == IF wpc \in {"check", "write"} THEN {hand} ELSE {}

Queued == {sendB[i] : i \in DOMAIN sendB}

Unsent == {[from |-> k, n |-> made[k]] : k \in {c \in Collectors : cpc[c] = "send"}}

Of(k, messages) == {m.n : m \in {x \in messages : x.from = k}}

Waiting(k) == Of(k, InHand \cup Queued \cup Unsent)

Arrived(k) == Of(k, Written)

(* Each collector has a pipe to the server: nothing gets lost, reordered   *)
(* or doubled between its ticker and the websocket but what is in it while *)
(* the client has no connection (MessageWriter, Reconnect).                *)
P == INSTANCE Pipe WITH
       Sources <- Collectors,
       inside <- [k \in Collectors |-> Waiting(k)],
       out <- [k \in Collectors |-> Arrived(k)],
       open <- [k \in Collectors |-> connected /\ Up(ws)]

ImplementsPipe == P!Spec

(* No collector hangs on a full sendB, connected or not (MessageWriter     *)
(* drops what it receives while there is no connection).                   *)
CollectorsRun ==
  \A k \in Collectors : cpc[k] = "send" ~> (cpc[k] # "send" \/ ~alive)

(* A client that lost its connection has one again or ends (Reconnect and  *)
(* main).                                                                  *)
ReconnectsOrEnds == ~connected ~> (connected \/ ~alive)

-----------------------------------------------------------------------------
(* Why the order is kept and replies match. *)

Before(S, T) == \A a \in S, b \in T : a.from = b.from => a.n < b.n

(* Messages stand in line, from the connections back to the collectors.    *)
InLine ==
  /\ Before(Written, InHand \cup Queued \cup Unsent)
  /\ Before(InHand, Queued \cup Unsent)
  /\ Before(Queued, Unsent)
  /\ \A i, j \in DOMAIN sendB : i < j => Before({sendB[i]}, {sendB[j]})

Numbered ==
  /\ \A m \in Written \cup InHand \cup Queued : m \in Messages /\ m.n <= made[m.from]
  /\ \A k \in Collectors : cpc[k] = "send" => made[k] > 0

(* Only the last connection is used, and none before it has been dialed.   *)
LastConnection ==
  /\ ws \in {0, dials}
  /\ lpc \notin {"dial", "returned"} => ws = dials
  /\ \A g \in Dials : g > dials => out[g] = <<>>

(* What Listen still owes the server on connection g. *)
Owed(g, where) == IF lpc = where /\ ws = g THEN 1 ELSE 0

RequestsCounted ==
  \A g \in Dials :
    /\ Count(g, "load") + toRead[g] + Owed(g, "reply") <= asked[g]
    /\ Count(g, "loadText") + Owed(g, "replyText") <= Count(g, "load")

(* Every reachable state satisfies it, and every step of a goroutine, the  *)
(* network or the server keeps it (MessageWriter, Listen, the collectors). *)
Invariant ==
  /\ TypeOK /\ OrderKept
  /\ InLine /\ Numbered /\ LastConnection /\ RequestsCounted

-----------------------------------------------------------------------------
(* What comments say and the code does not do. *)

(* The first message on a connection is the client's id                    *)
(* (cmd/autofactory/conn.go:37; MessageWriter may write between the dial   *)
(* and the id).                                                            *)
FirstMessageIsId ==
  \A g \in Dials : out[g] # <<>> => out[g][1].kind = "id"

(* MessageWriter sends nothing while the client is not connected           *)
(* (cmd/autofact/client.go:201; the check and the write are two steps, and *)
(* in between Listen may dial): a connection that has data on it has had   *)
(* its id answered.                                                        *)
SendsOnlyConnected == \A g \in Dials : DataFrames(g) # {} => welcomed[g]

(* Nor does it write to the nil c.WS of a failed dial (the same line).     *)
WritesToConnection == panicked # "MessageWriter"

(* A signal sends its close frame if there is a connection                 *)
(* (cmd/autofact/main.go:289; again the check and the write are two        *)
(* steps), so that the process ends by CloseOut and exit and not by the    *)
(* panic of a write to the nil c.WS of a failed dial.                      *)
ClosesOnlyConnected == panicked # "handleSignals"

(* Nobody sends text messages after the id (cmd/autofactory/server.go:257; *)
(* Listen sends each loadavg a second time as text).                       *)
NoTextExpected == \A g \in Dials : Count(g, "loadText") = 0

(* What c.mu does not guard is threadsafe (cmd/autofact/client.go:40-41;   *)
(* the websocket takes one writer at a time).                              *)
OneWriterAtATime ==
  ~(alive /\ Up(ws) /\ wpc = "write" /\ lpc \in {"sendId", "replyText"})
=============================================================================
