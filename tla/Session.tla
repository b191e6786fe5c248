------------------------------- MODULE Session -------------------------------
(***************************************************************************)
(* The data side of the autofactory server (cmd/autofactory/conn.go,       *)
(* server.go, influx.go): for each connection the handler, which takes the *)
(* first message, starts Listen and Healthbeat and waits for doneCh; for   *)
(* all of them pointsCh and the one goroutine that writes the points to    *)
(* InfluxDB, or the data file.  What the handshake decides is Registration.*)
(*                                                                         *)
(* The data messages of a session are numbered as its client sends them.   *)
(* What Listen does not store (text, unknown kinds, messages that yield no *)
(* point) is a frame of kind "ignored".                                    *)
(***************************************************************************)
EXTENDS Integers, Sequences

CONSTANTS
  Sessions,   \* connections
  Outputs,    \* outputs the server may be started with
  Layouts,    \* values of -tslayout: "epoch", "constant" for a name that
              \* TimeLayout knows, "RFC3339Nano"
  Kinds,      \* what the clients send: "cpu", "stat" (load, memory), "net",
              \* "ignored"
  PointsCap,  \* capacity of pointsCh (code: 100)
  Periods,    \* HealthbeatPeriods of the clients: 0 for no healthbeat, or a
              \* negative number, which time.ParseDuration takes as well
  Several,    \* requests left unanswered that are counted
  MaxData,    \* bound: data messages of one session
  MaxQueue    \* bound: frames of one session on their way

ASSUME SessionAssumption ==
  /\ Outputs \subseteq {"file", "influxdb"}
  /\ Layouts \subseteq {"epoch", "constant", "RFC3339Nano"}
  /\ Kinds \subseteq {"cpu", "stat", "net", "ignored"}
  /\ PointsCap \in Nat \ {0} /\ Several \in Nat /\ Periods \subseteq Int
  /\ MaxData \in Nat /\ MaxQueue \in Nat \ {0}

VARIABLES
  output,    \* outputType, from the flags
  layout,    \* tsLayout, from the flags
  alive,     \* the server process has not ended
  link,      \* link[s]: frames still get through
  sent,      \* sent[s]: data messages the client has sent
  inq,       \* inq[s]: frames on their way to the server
  handler,   \* handler[s]: where serveClient is
  logger,    \* logger[s]: Client.Data is not nil
  lpc,       \* lpc[s]: where Listen is
  cur,       \* cur[s]: the frame Listen works on
  beat,      \* beat[s]: where Healthbeat is
  missed,    \* missed[s]: requests since the last frame, up to Several
  pointsCh,  \* the channel
  writer,    \* where InfluxClient.Write is
  hand,      \* the points it has received
  settled    \* what was written to the output or failed to be, in order

clientVars == <<link, sent, inq>>
listenVars == <<lpc, cur, missed>>
outputVars == <<pointsCh, writer, hand, settled>>
flags == <<output, layout>>
vars == <<flags, alive, clientVars, handler, logger, listenVars, beat, outputVars>>

None == [kind |-> "none", n |-> 0]
Ignored == [kind |-> "ignored", n |-> 0]
DataFrames == [kind : {"cpu", "stat", "net"}, n : 1..MaxData]
Points == [from : Sessions, n : 1..MaxData]
Entries == [point : Points, ok : BOOLEAN, ts : {"time", "nanoseconds", "text"}]

TypeOK ==
  /\ output \in Outputs /\ layout \in Layouts
  /\ alive \in BOOLEAN
  /\ link \in [Sessions -> BOOLEAN]
  /\ sent \in [Sessions -> 0..MaxData]
  /\ inq \in [Sessions -> Seq(DataFrames \cup {Ignored})]
  /\ handler \in [Sessions -> {"idle", "hello", "wait", "closed"}]
  /\ logger \in [Sessions -> BOOLEAN]
  /\ lpc \in [Sessions -> {"idle", "read", "process", "send", "returned"}]
  /\ cur \in [Sessions -> DataFrames \cup {Ignored, None}]
  /\ beat \in [Sessions -> {"idle", "start", "select", "returned"}]
  /\ missed \in [Sessions -> 0..Several]
  /\ pointsCh \in Seq(Points) /\ Len(pointsCh) <= PointsCap
  /\ writer \in {"select", "write"}
  /\ hand \in Seq(Points)
  /\ settled \in Seq(Entries)

Init ==
  /\ output \in Outputs /\ layout \in Layouts
  /\ alive = TRUE
  /\ link = [s \in Sessions |-> FALSE]
  /\ sent = [s \in Sessions |-> 0]
  /\ inq = [s \in Sessions |-> <<>>]
  /\ handler = [s \in Sessions |-> "idle"]
  /\ logger = [s \in Sessions |-> FALSE]
  /\ lpc = [s \in Sessions |-> "idle"]
  /\ cur = [s \in Sessions |-> None]
  /\ beat = [s \in Sessions |-> "idle"]
  /\ missed = [s \in Sessions |-> 0]
  /\ pointsCh = <<>>
  /\ writer = "select" /\ hand = <<>>
  /\ settled = <<>>

-----------------------------------------------------------------------------
(* The client and the network. *)

CanSend(s) == link[s] /\ Len(inq[s]) < MaxQueue

SendData(s, kind) ==
  /\ CanSend(s) /\ sent[s] < MaxData
  /\ sent' = [sent EXCEPT ![s] = @ + 1]
  /\ inq' = [inq EXCEPT ![s] = Append(@, [kind |-> kind, n |-> sent[s] + 1])]
  /\ UNCHANGED <<flags, alive, link, handler, logger, listenVars, beat, outputVars>>

SendIgnored(s) ==
  /\ CanSend(s)
  /\ inq' = [inq EXCEPT ![s] = Append(@, Ignored)]
  /\ UNCHANGED <<flags, alive, link, sent, handler, logger, listenVars, beat, outputVars>>

ClientSends(s) ==
  \/ \E k \in Kinds \ {"ignored"} : SendData(s, k)
  \/ "ignored" \in Kinds /\ SendIgnored(s)

LoseLink(s) ==
  /\ link[s]
  /\ link' = [link EXCEPT ![s] = FALSE]
  /\ UNCHANGED <<flags, alive, sent, inq, handler, logger, listenVars, beat, outputVars>>

-----------------------------------------------------------------------------
(* serveClient. *)

(* Upgrade; the handler then reads the first message.                      *)
Accept(s) ==
  /\ handler[s] = "idle"
  /\ handler' = [handler EXCEPT ![s] = "hello"]
  /\ link' = [link EXCEPT ![s] = TRUE]
  /\ UNCHANGED <<flags, alive, sent, inq, logger, listenVars, beat, outputVars>>

RejectKeepsOpen(s) ==  \* mutant: without the deferred Close
  /\ handler[s] = "hello"
  /\ handler' = [handler EXCEPT ![s] = "closed"]
  /\ inq' = [inq EXCEPT ![s] = <<>>]
  /\ UNCHANGED <<flags, alive, link, sent, logger, listenVars, beat, outputVars>>

(* There is none, or it is not a text message: the deferred Close runs.    *)
Reject(s) ==
  /\ handler[s] = "hello"
  /\ handler' = [handler EXCEPT ![s] = "closed"]
  /\ link' = [link EXCEPT ![s] = FALSE]
  /\ inq' = [inq EXCEPT ![s] = <<>>]
  /\ UNCHANGED <<flags, alive, sent, logger, listenVars, beat, outputVars>>

(* NewClient gives the Client a logger if the output is a file; Client,    *)
(* for a client in the inventory, does not.                                *)
HasLogger(known) == ~known /\ output = "file"

(* The first message is an id, both goroutines start.  Frames the client   *)
(* sent meanwhile are already on their way.  Healthbeat returns at once if *)
(* its period is zero; time.NewTicker takes no negative one.               *)
StartSession(s) ==
  /\ handler[s] = "hello"
  /\ handler' = [handler EXCEPT ![s] = "wait"]
  /\ \E known \in BOOLEAN : logger' = [logger EXCEPT ![s] = HasLogger(known)]
  /\ lpc' = [lpc EXCEPT ![s] = "read"]
  /\ \E p \in Periods :
       beat' = [beat EXCEPT ![s] =
         IF p = 0 THEN "returned" ELSE IF p < 0 THEN "start" ELSE "select"]
  /\ UNCHANGED <<flags, alive, clientVars, cur, missed, outputVars>>

DoneClosed(s) == lpc[s] = "returned"

(* The wait for doneCh is over, the deferred Close runs. *)
EndSession(s) ==
  /\ handler[s] = "wait" /\ DoneClosed(s)
  /\ handler' = [handler EXCEPT ![s] = "closed"]
  /\ link' = [link EXCEPT ![s] = FALSE]
  /\ UNCHANGED <<flags, alive, sent, inq, logger, listenVars, beat, outputVars>>

-----------------------------------------------------------------------------
(* Listen. *)

ListenRead(s) ==
  /\ lpc[s] = "read" /\ inq[s] # <<>>
  /\ cur' = [cur EXCEPT ![s] = Head(inq[s])]
  /\ inq' = [inq EXCEPT ![s] = Tail(@)]
  /\ missed' = [missed EXCEPT ![s] = 0]
  /\ lpc' = [lpc EXCEPT ![s] = "process"]
  /\ UNCHANGED <<flags, alive, link, sent, outputVars>>

(* Mutant: a session waits for its client to come back. *)
ReadFailsWaits(s) ==
  /\ lpc[s] = "read" /\ ~link[s]
  /\ inq' = [inq EXCEPT ![s] = <<>>]
  /\ UNCHANGED <<flags, alive, link, sent, lpc, cur, missed, outputVars>>

(* Any error ends the session; what was still on its way is lost.          *)
ReadFails(s) ==
  /\ lpc[s] = "read" /\ ~link[s]
  /\ inq' = [inq EXCEPT ![s] = <<>>]
  /\ lpc' = [lpc EXCEPT ![s] = "returned"]
  /\ UNCHANGED <<flags, alive, link, sent, cur, missed, outputVars>>

Processed(s) ==
  /\ lpc' = [lpc EXCEPT ![s] = "read"]
  /\ cur' = [cur EXCEPT ![s] = None]
  /\ UNCHANGED missed

Point(s) == [from |-> s, n |-> cur[s].n]

Settled(point, ok, ts) == Append(settled, [point |-> point, ok |-> ok, ts |-> ts])

(* TimeLayout upper-cases the name and so never finds RFC3339Nano: neither *)
(* "epoch" nor RFC3339NANO is a layout that tells the time.                *)
UseTS == layout = "epoch"

FormattedTime == IF layout = "constant" THEN "time" ELSE "text"

(* Of the functions for the file only CPUUtilizationFile looks at useTS.   *)
Stamp(kind) == IF kind = "cpu" /\ UseTS THEN "nanoseconds" ELSE FormattedTime

(* SetFuncs: with InfluxDB as the output all but NetUsage go there.        *)
ToFile(s) == output = "file" \/ cur[s].kind = "net"

Ignore(s) ==
  /\ lpc[s] = "process" /\ cur[s] = Ignored
  /\ Processed(s)
  /\ UNCHANGED <<flags, alive, clientVars, outputVars>>

MakePoint(s) ==
  /\ lpc[s] = "process" /\ cur[s] # Ignored /\ ~ToFile(s)
  /\ lpc' = [lpc EXCEPT ![s] = "send"]
  /\ UNCHANGED <<flags, alive, clientVars, cur, missed, outputVars>>

SendPointOrDrop(s) ==  \* mutant: a send that does not wait
  /\ lpc[s] = "send"
  /\ pointsCh' = IF Len(pointsCh) < PointsCap THEN Append(pointsCh, Point(s)) ELSE pointsCh
  /\ Processed(s)
  /\ UNCHANGED <<flags, alive, clientVars, writer, hand, settled>>

SendPointUnbounded(s) ==  \* mutant
  /\ lpc[s] = "send"
  /\ pointsCh' = Append(pointsCh, Point(s))
  /\ Processed(s)
  /\ UNCHANGED <<flags, alive, clientVars, writer, hand, settled>>

(* The send blocks while the channel is full. *)
SendPoint(s) ==
  /\ lpc[s] = "send" /\ Len(pointsCh) < PointsCap
  /\ pointsCh' = Append(pointsCh, Point(s))
  /\ Processed(s)
  /\ UNCHANGED <<flags, alive, clientVars, writer, hand, settled>>

WriteLine(s) ==
  /\ lpc[s] = "process" /\ cur[s] # Ignored /\ ToFile(s) /\ logger[s]
  /\ settled' = Settled(Point(s), TRUE, Stamp(cur[s].kind))
  /\ Processed(s)
  /\ UNCHANGED <<flags, alive, clientVars, pointsCh, writer, hand>>

(* The process ends, and its connections with it. *)
End == alive' = FALSE /\ link' = [s \in Sessions |-> FALSE]

(* The nil logger: nothing recovers a panic of Listen's goroutine.         *)
ListenPanics(s) ==
  /\ lpc[s] = "process" /\ cur[s] # Ignored /\ ToFile(s) /\ ~logger[s]
  /\ End
  /\ UNCHANGED <<flags, sent, inq, listenVars, outputVars>>

ListenWork(s) ==
  /\ \/ ListenRead(s) \/ ReadFails(s) \/ Ignore(s) \/ MakePoint(s)
     \/ WriteLine(s) \/ ListenPanics(s)
  /\ UNCHANGED <<handler, logger, beat>>

ListenSend(s) == SendPoint(s) /\ UNCHANGED <<handler, logger, beat>>

-----------------------------------------------------------------------------
(* Healthbeat. *)

(* The panic of NewTicker ends the server. *)
BeatPanics(s) ==
  /\ beat[s] = "start"
  /\ End
  /\ UNCHANGED <<flags, sent, inq, handler, logger, listenVars, beat, outputVars>>

(* The ticker delivers and the request is written. *)
Request(s) ==
  /\ beat[s] = "select" /\ link[s]
  /\ missed' = [missed EXCEPT ![s] = IF @ < Several THEN @ + 1 ELSE @]
  /\ UNCHANGED <<flags, alive, clientVars, handler, logger, lpc, cur, beat, outputVars>>

BeatReturns(s) ==
  /\ beat' = [beat EXCEPT ![s] = "returned"]
  /\ UNCHANGED <<flags, alive, clientVars, handler, logger, listenVars, outputVars>>

RequestFails(s) == beat[s] = "select" /\ ~link[s] /\ BeatReturns(s)

BeatDone(s) == beat[s] = "select" /\ DoneClosed(s) /\ BeatReturns(s)

-----------------------------------------------------------------------------
(* InfluxClient.Write, started for InfluxDB only: nothing else fills the   *)
(* channel.                                                                *)

Receive ==
  /\ writer = "select" /\ pointsCh # <<>>
  /\ hand' = <<Head(pointsCh)>>
  /\ pointsCh' = Tail(pointsCh)
  /\ writer' = "write"
  /\ UNCHANGED <<settled>>

WriteInflux ==
  /\ writer = "write"
  /\ settled' = Settled(Head(hand), TRUE, "time")
  /\ hand' = <<>> /\ writer' = "select"
  /\ UNCHANGED pointsCh

WriteFailsRetries ==  \* mutant: the points go back to the channel
  /\ writer = "write" /\ Len(pointsCh) < PointsCap
  /\ pointsCh' = Append(pointsCh, Head(hand))
  /\ hand' = <<>> /\ writer' = "select"
  /\ UNCHANGED settled

WriteFailsReturns ==  \* mutant: the goroutine ends
  /\ writer = "write"
  /\ settled' = Settled(Head(hand), FALSE, "time")
  /\ hand' = <<>> /\ writer' = "returned"
  /\ UNCHANGED pointsCh

(* An error of NewBatchPoints or of the write is logged. *)
WriteFails ==
  /\ writer = "write"
  /\ settled' = Settled(Head(hand), FALSE, "time")
  /\ hand' = <<>> /\ writer' = "select"
  /\ UNCHANGED pointsCh

WriterStep ==
  /\ Receive \/ WriteInflux \/ WriteFails
  /\ UNCHANGED <<flags, alive, clientVars, handler, logger, listenVars, beat>>

(* A signal: the files are closed, os.Exit. *)
ServerEnds ==
  /\ End
  /\ UNCHANGED <<flags, sent, inq, handler, logger, listenVars, beat, outputVars>>

-----------------------------------------------------------------------------

SessionStep(s) ==
  \/ ClientSends(s) \/ LoseLink(s)
  \/ Accept(s) \/ Reject(s) \/ StartSession(s) \/ EndSession(s)
  \/ ListenWork(s) \/ ListenSend(s)
  \/ BeatPanics(s) \/ Request(s) \/ RequestFails(s) \/ BeatDone(s)

Running == (\E s \in Sessions : SessionStep(s)) \/ WriterStep \/ ServerEnds

Ended == ~alive /\ UNCHANGED vars

Next == (alive /\ Running) \/ Ended

Spec == Init /\ [][Next]_vars

(* A goroutine that can run does run; InfluxDB answers, with success or an *)
(* error; the senders that wait for a full channel are served in turn.     *)
(* Clients, ticks, signals and lost connections are not fair.              *)
Fairness ==
  /\ \A s \in Sessions :
       /\ WF_vars(alive /\ ~link[s] /\ Reject(s))
       /\ WF_vars(alive /\ ListenWork(s))
       /\ SF_vars(alive /\ ListenSend(s))
       /\ WF_vars(alive /\ EndSession(s))
       /\ WF_vars(alive /\ (BeatPanics(s) \/ BeatDone(s)))
  /\ WF_vars(alive /\ WriterStep)

FairSpec == Spec /\ Fairness

-----------------------------------------------------------------------------
(* What a session promises. *)

IsData(f) == f \notin {Ignored, None}

(* Where the messages are: written to the output, or failed to be; in the  *)
(* writer's hand, in the channel, with a Listen; the numbers of those that *)
(* are still on their way.                                                 *)
AtOutput == {settled[i].point : i \in DOMAIN settled}

InHand == {hand[i] : i \in DOMAIN hand}

InChannel == {pointsCh[i] : i \in DOMAIN pointsCh}

InListen == {Point(s) : s \in {t \in Sessions : IsData(cur[t])}}

Numbers(frames) == {frames[i].n : i \in {j \in DOMAIN frames : IsData(frames[j])}}

Incoming(s) == Numbers(inq[s])

Of(s, points) == {p.n : p \in {x \in points : x.from = s}}

Done(s) == Of(s, AtOutput)

Held(s) == Of(s, InHand \cup InChannel \cup InListen)

Known(s) == Done(s) \cup Held(s) \cup Incoming(s)

Before(S, T) == \A p \in S, q \in T : p.from = q.from => p.n < q.n

Sorted(points) == \A i, j \in DOMAIN points : i < j => Before({points[i]}, {points[j]})

Rising(frames) ==
  \A i, j \in DOMAIN frames :
    i < j /\ IsData(frames[i]) /\ IsData(frames[j]) => frames[i].n < frames[j].n

(* The messages of a session stand in line, from the output to the         *)
(* connection.                                                             *)
InLine ==
  /\ Before(AtOutput, InHand \cup InChannel \cup InListen)
  /\ Before(InHand, InChannel \cup InListen)
  /\ Before(InChannel, InListen)
  /\ \A s \in Sessions : \A n \in Done(s) \cup Held(s), m \in Incoming(s) : n < m
  /\ Sorted([i \in DOMAIN settled |-> settled[i].point]) /\ Sorted(pointsCh)
  /\ \A s \in Sessions : Rising(inq[s])

(* Every data message of a session is in one place only and none overtakes *)
(* another, from the connection through pointsCh to the output; none       *)
(* vanishes but with the connection, and then the last ones (Listen, the   *)
(* SetFuncs functions, InfluxClient.Write).                                *)
Accounted ==
  /\ InLine
  /\ \A s \in Sessions :
       /\ Known(s) \subseteq 1..sent[s]
       /\ \A n \in Known(s) : 1..n \subseteq Known(s)
       /\ handler[s] # "closed" /\ ~DoneClosed(s) => 1..sent[s] \subseteq Known(s)

(* Each session has a pipe from its connection to the output: whatever the *)
(* other sessions send into pointsCh and InfluxDB answers, nothing is lost *)
(* without an answer, reordered or doubled but what is on its way when the *)
(* connection is lost (Listen, the SetFuncs functions,                     *)
(* InfluxClient.Write).                                                    *)
P == INSTANCE Pipe WITH
       Sources <- Sessions,
       made <- sent,
       inside <- [s \in Sessions |-> Held(s) \cup Incoming(s)],
       out <- [s \in Sessions |-> Done(s)],
       open <- link

ImplementsPipe == P!Spec

(* A session whose connection is lost comes to an end, all three of its    *)
(* goroutines, also when Listen is blocked on the full channel at the time *)
(* (Listen, Healthbeat, serveClient).                                      *)
SessionEnds ==
  \A s \in Sessions :
    (handler[s] \in {"hello", "wait"} /\ ~link[s])
      ~> ((handler[s] = "closed" /\ beat[s] \in {"idle", "returned"}) \/ ~alive)

(* A data message that Listen has read is settled in the end, however many *)
(* sessions wait for the channel and whatever InfluxDB answers             *)
(* (InfluxClient.Write).                                                   *)
DataSettles ==
  \A s \in Sessions, n \in 1..MaxData :
    n \in Held(s) ~> (n \in Done(s) \/ ~alive)

-----------------------------------------------------------------------------
(* Why every message is accounted for. *)

(* The writer has points only while it writes them. *)
OneBatch ==
  /\ writer = "select" => hand = <<>>
  /\ writer = "write" => Len(hand) = 1

(* Listen has a frame from its read to the end of its processing. *)
OneFrame ==
  \A s \in Sessions :
    /\ lpc[s] \notin {"process", "send"} => cur[s] = None
    /\ lpc[s] = "process" => cur[s] # None
    /\ lpc[s] = "send" => IsData(cur[s])

(* What goes to the file does not pass the channel, and a session has a    *)
(* logger only if all do.                                                  *)
OneOutput ==
  /\ \A s \in Sessions : logger[s] => output = "file"
  /\ output = "file" => pointsCh = <<>> /\ hand = <<>> /\ \A s \in Sessions : lpc[s] # "send"

(* Frames get through to an accepted session whose Listen has not returned.*)
LinkServed ==
  \A s \in Sessions :
    /\ handler[s] \in {"idle", "hello"} => lpc[s] = "idle"
    /\ link[s] => handler[s] \in {"hello", "wait"} /\ lpc[s] # "returned"

(* Every reachable state satisfies it, and every step of a client, the     *)
(* network or a goroutine keeps it (serveClient, Listen, Write).           *)
Invariant ==
  /\ TypeOK /\ Accounted
  /\ OneBatch /\ OneFrame /\ OneOutput /\ LinkServed

-----------------------------------------------------------------------------
(* What comments say and the code does not do. *)

(* Client.Data is a logger when the output is a file                       *)
(* (cmd/autofactory/server.go:205; the Client of a known id has none).     *)
LoggerForFile ==
  output = "file" =>
    \A s \in Sessions : lpc[s] = "process" /\ IsData(cur[s]) => logger[s]

(* The processing functions are those of the output                        *)
(* (cmd/autofactory/server.go:209; NetUsage goes to the file's for         *)
(* InfluxDB too).                                                          *)
FuncsMatchOutput ==
  output = "influxdb" =>
    \A s \in Sessions : lpc[s] = "process" /\ IsData(cur[s]) => ~ToFile(s)

(* With the layout epoch the time is written as time since the epoch, and  *)
(* a name of time.Constants stands for its layout (util/util.go:154-158;   *)
(* all but the cpu lines pass "epoch" to Format as a layout).              *)
LinesDated == \A i \in DOMAIN settled : settled[i].ts # "text"

(* The connection of a client that leaves several consecutive requests     *)
(* unanswered is closed (cmd/autofactory/server.go:281-283; Healthbeat     *)
(* does not look at answers).                                              *)
UnresponsiveClosed ==
  \A s \in Sessions :
    missed[s] = Several ~> (missed[s] < Several \/ handler[s] = "closed" \/ ~alive)
=============================================================================
