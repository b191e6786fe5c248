----------------------------- MODULE AgentProofs -----------------------------
(***************************************************************************)
(* Theorems about the goroutines of a client, for any number of            *)
(* collectors, connections, messages and requests and any capacity of      *)
(* sendB.  Invariant (in Agent) is inductive; it falls into types, the     *)
(* line in which the messages stand, and the count of requests.            *)
(***************************************************************************)
EXTENDS Agent, FiniteSetTheorems, TLAPS

-----------------------------------------------------------------------------
(* What a write leaves on the connections. *)

(* One frame at the end of c.WS, or nothing if the connection is lost.     *)
LEMMA PutFrame ==
  ASSUME TypeOK, NEW f \in Frames, Put(f)
  PROVE  /\ out' \in [Dials -> Seq(Frames)]
         /\ \A g \in Dials : g # ws \/ ~Up(ws) => out'[g] = out[g]
         /\ Up(ws) => /\ ws \in Dials
                      /\ out'[ws] = Append(out[ws], f)
<1>1. CASE Up(ws)
  <2>1. ws \in Dials
    BY <1>1, AgentAssumption DEF Up, TypeOK, Dials
  <2>2. out' = [out EXCEPT ![ws] = Append(out[ws], f)] /\ out[ws] \in Seq(Frames)
    BY <1>1, <2>1 DEF Put, TypeOK
  <2> QED  BY <1>1, <2>1, <2>2 DEF TypeOK
<1>2. CASE ~Up(ws)
  BY <1>2 DEF Put, TypeOK
<1> QED  BY <1>1, <1>2

(* The frames that were there stay where they were.                        *)
LEMMA PutKeeps ==
  ASSUME TypeOK, NEW f \in Frames, Put(f), NEW g \in Dials
  PROVE  /\ DOMAIN out[g] \subseteq DOMAIN out'[g]
         /\ \A i \in DOMAIN out[g] : out'[g][i] = out[g][i]
         /\ \A i \in DOMAIN out'[g] \ DOMAIN out[g] :
              /\ Up(ws) /\ g = ws /\ i = Len(out[g]) + 1 /\ out'[g][i] = f
              /\ \A j \in DOMAIN out[g] : j < i
         /\ Up(ws) /\ g = ws => Len(out[g]) + 1 \in DOMAIN out'[g]
<1>1. out[g] \in Seq(Frames)
  BY DEF TypeOK
<1>2. CASE Up(ws) /\ g = ws
  <2>1. out'[g] = Append(out[g], f)
    BY <1>2, PutFrame
  <2> QED  BY <1>1, <1>2, <2>1
<1>3. CASE ~(Up(ws) /\ g = ws)
  <2>1. out'[g] = out[g]
    BY <1>3, PutFrame
  <2> QED  BY <1>3, <2>1
<1> QED  BY <1>2, <1>3

(* A frame without a message adds none to what is written.                 *)
LEMMA PutPlain ==
  ASSUME TypeOK, NEW f \in Frames, Put(f), f.kind # "data"
  PROVE  /\ Written' = Written
         /\ \A g \in Dials :
              /\ DataFrames(g)' = DataFrames(g)
              /\ \A i \in DataFrames(g) : out'[g][i] = out[g][i]
<1>1. ASSUME NEW g \in Dials
      PROVE  /\ DataFrames(g)' = DataFrames(g)
             /\ \A i \in DataFrames(g) : out'[g][i] = out[g][i]
  BY <1>1, PutKeeps DEF DataFrames
<1> QED  BY <1>1 DEF Written

(* A message is added.                                                     *)
LEMMA PutData ==
  ASSUME TypeOK, NEW m \in Messages, Put(Data(m))
  PROVE  Written' = Written \cup (IF Up(ws) THEN {m} ELSE {})
<1> DEFINE f == Data(m)
<1>1. f \in Frames /\ f.kind = "data" /\ f.msg = m
  BY DEF Frames, Data
<1> HIDE DEF f
<1>2. Put(f)
  BY DEF f
<1>3. ASSUME NEW g \in Dials, NEW i \in DataFrames(g)'
      PROVE  out'[g][i].msg \in Written \cup (IF Up(ws) THEN {m} ELSE {})
  BY <1>1, <1>2, <1>3, PutKeeps DEF DataFrames, Written
<1>4. ASSUME NEW g \in Dials, NEW i \in DataFrames(g)
      PROVE  out[g][i].msg \in Written'
  <2>1. i \in DataFrames(g)' /\ out'[g][i] = out[g][i]
    BY <1>1, <1>2, <1>4, PutKeeps DEF DataFrames
  <2> QED  BY <2>1 DEF Written
<1>5. ASSUME Up(ws) PROVE m \in Written'
  <2>1. PICK g \in Dials : g = ws /\ out'[g] = Append(out[g], f) /\ out[g] \in Seq(Frames)
    BY <1>1, <1>2, <1>5, PutFrame DEF TypeOK
  <2>2. Len(out[g]) + 1 \in DataFrames(g)' /\ out'[g][Len(out[g]) + 1] = f
    BY <1>1, <2>1 DEF DataFrames
  <2> QED  BY <1>1, <2>2 DEF Written
<1>6. Written' \subseteq Written \cup (IF Up(ws) THEN {m} ELSE {})
  BY <1>3 DEF Written
<1>7. Written \subseteq Written'
  BY <1>4 DEF Written
<1> QED  BY <1>5, <1>6, <1>7

(* The frames of a kind are finitely many.                                 *)
LEMMA CountType ==
  ASSUME TypeOK, NEW g \in Dials, NEW kind
  PROVE  /\ IsFiniteSet({j \in DOMAIN out[g] : out[g][j].kind = kind})
         /\ Count(g, kind) \in Nat
<1>1. DOMAIN out[g] = 1..Len(out[g]) /\ Len(out[g]) \in Nat
  BY DEF TypeOK
<1>2. IsFiniteSet(1..Len(out[g]))
  <2> DEFINE n == Len(out[g])
  <2>1. n \in Int /\ 1 \in Int
    BY <1>1
  <2> HIDE DEF n
  <2>2. IsFiniteSet(1..n)
    BY <2>1, FS_Interval
  <2> QED  BY <2>2 DEF n
<1>3. IsFiniteSet({j \in DOMAIN out[g] : out[g][j].kind = kind})
  BY <1>1, <1>2, FS_Subset
<1> QED  BY <1>3, FS_CardinalityType DEF Count

(* There is one more of a kind after a write of that kind.                 *)
LEMMA CountPut ==
  ASSUME TypeOK, NEW f \in Frames, Put(f), NEW g \in Dials, NEW kind
  PROVE  /\ Count(g, kind) \in Nat
         /\ Count(g, kind)' =
              Count(g, kind) + (IF Up(ws) /\ g = ws /\ f.kind = kind THEN 1 ELSE 0)
<1> DEFINE old == {j \in DOMAIN out[g] : out[g][j].kind = kind}
           new == {j \in DOMAIN out'[g] : out'[g][j].kind = kind}
<1>0. Count(g, kind) = Cardinality(old) /\ Count(g, kind)' = Cardinality(new)
  BY DEF Count
<1>1. IsFiniteSet(old) /\ Cardinality(old) \in Nat
  BY <1>0, CountType
<1>2. CASE Up(ws) /\ g = ws /\ f.kind = kind
  <2> DEFINE top == Len(out[g]) + 1
  <2>1. out[g] \in Seq(Frames) /\ out'[g] = Append(out[g], f)
    BY <1>2, PutFrame DEF TypeOK
  <2>2. /\ DOMAIN out'[g] = DOMAIN out[g] \cup {top} /\ top \notin DOMAIN out[g]
        /\ out'[g][top] = f /\ \A j \in DOMAIN out[g] : out'[g][j] = out[g][j]
    BY <2>1
  <2>a. new = old \cup {top} /\ top \notin old
    <3> HIDE DEF top
    <3>1. ASSUME NEW j \in new PROVE j \in old \cup {top}
      BY <2>2, <3>1
    <3>2. ASSUME NEW j \in old PROVE j \in new
      BY <2>2, <3>2
    <3>3. top \notin old
      BY <2>2
    <3>4. top \in new
      <4>1. top \in DOMAIN out'[g]
        BY <2>2
      <4>2. out'[g][top] = f
        BY <2>2
      <4> QED  BY <1>2, <4>1, <4>2
    <3> QED  BY <3>1, <3>2, <3>3, <3>4
  <2>3. Cardinality(new) = Cardinality(old) + 1
    BY <1>1, <2>a, FS_AddElement
  <2>4. (IF Up(ws) /\ g = ws /\ f.kind = kind THEN 1 ELSE 0) = 1
    BY <1>2
  <2> HIDE DEF old, new, top
  <2> QED  BY <1>0, <1>1, <2>3, <2>4
<1>3. CASE ~(Up(ws) /\ g = ws /\ f.kind = kind)
  <2>1. new = old
    BY <1>3, PutKeeps
  <2>2. (IF Up(ws) /\ g = ws /\ f.kind = kind THEN 1 ELSE 0) = 0
    BY <1>3
  <2> HIDE DEF old, new
  <2> QED  BY <1>0, <1>1, <2>1, <2>2
<1> QED  BY <1>2, <1>3

-----------------------------------------------------------------------------
(* Types. *)

(* TypeOK, goroutine by goroutine. *)
NetTypes ==
  /\ ws \in 0..dials /\ dials \in Dials
  /\ link \in [Dials -> BOOLEAN] /\ out \in [Dials -> Seq(Frames)]
  /\ welcomed \in [Dials -> BOOLEAN]
  /\ asked \in [Dials -> 0..MaxRequests] /\ toRead \in [Dials -> 0..MaxRequests]

ListenParts ==
  /\ connected \in BOOLEAN
  /\ lpc \in {"read", "reply", "replyText", "dial", "sendId", "handshake", "returned"}
  /\ tries \in 0..(ReconnectTries - 1)

WriterParts ==
  /\ wpc \in {"recv", "check", "write"}
  /\ hand \in Messages \cup {<<>>}

CollectorParts ==
  /\ cpc \in [Collectors -> {"tick", "send", "end"}]
  /\ made \in [Collectors -> 0..MaxMsgs]

ChannelType == sendB \in Seq(Messages) /\ Len(sendB) <= BufCap

ProcessParts ==
  /\ spc \in {"wait", "close"}
  /\ alive \in BOOLEAN /\ panicked \in Panicking

(* These are all of it, before a step and after it.                        *)
LEMMA TypeParts ==
  /\ TypeOK <=> /\ NetTypes /\ ListenParts /\ WriterParts
                /\ CollectorParts /\ ChannelType /\ ProcessParts
  /\ TypeOK' <=> /\ NetTypes' /\ ListenParts' /\ WriterParts'
                 /\ CollectorParts' /\ ChannelType' /\ ProcessParts'
<1>1. TypeOK <=> /\ NetTypes /\ ListenParts /\ WriterParts
                 /\ CollectorParts /\ ChannelType /\ ProcessParts
  BY DEF TypeOK, NetTypes, ListenParts, WriterParts, CollectorParts, ChannelType, ProcessParts
<1>2. TypeOK' <=> /\ NetTypes' /\ ListenParts' /\ WriterParts'
                  /\ CollectorParts' /\ ChannelType' /\ ProcessParts'
  BY DEF TypeOK, NetTypes, ListenParts, WriterParts, CollectorParts, ChannelType, ProcessParts
<1> QED  BY <1>1, <1>2

(* What a step leaves alone keeps its types.                               *)
LEMMA SameTypes ==
  /\ NetTypes /\ UNCHANGED <<ws, netVars>> => NetTypes'
  /\ ListenParts /\ UNCHANGED listenVars => ListenParts'
  /\ WriterParts /\ UNCHANGED writerVars => WriterParts'
  /\ CollectorParts /\ UNCHANGED collectorVars => CollectorParts'
  /\ ChannelType /\ UNCHANGED sendB => ChannelType'
  /\ ProcessParts /\ UNCHANGED processVars => ProcessParts'
<1>1. NetTypes /\ UNCHANGED <<ws, netVars>> => NetTypes'
  BY DEF NetTypes, netVars
<1>2. ListenParts /\ UNCHANGED listenVars => ListenParts'
  BY DEF ListenParts, listenVars
<1>3. WriterParts /\ UNCHANGED writerVars => WriterParts'
  BY DEF WriterParts, writerVars
<1>4. CollectorParts /\ UNCHANGED collectorVars => CollectorParts'
  BY DEF CollectorParts, collectorVars
<1>5. ChannelType /\ UNCHANGED sendB => ChannelType'
  BY DEF ChannelType
<1>6. ProcessParts /\ UNCHANGED processVars => ProcessParts'
  BY DEF ProcessParts, processVars
<1> QED  BY <1>1, <1>2, <1>3, <1>4, <1>5, <1>6

(* A frame that is written is one more frame of c.WS, or of none.          *)
LEMMA WriteTypes ==
  ASSUME TypeOK, NEW f \in Frames, Write(f), ws' = ws
  PROVE  NetTypes'
<1>1. NetTypes
  BY TypeParts
<1>2. out' \in [Dials -> Seq(Frames)]
  BY PutFrame DEF Write
<1> QED  BY <1>1, <1>2 DEF Write, NetTypes

(* The end of the process, with or without a close frame before it.        *)
LEMMA EndTypes ==
  ASSUME TypeOK, End, out' \in [Dials -> Seq(Frames)],
         spc' = spc, panicked' \in Panicking,
         UNCHANGED <<ws, listenVars, writerVars, collectorVars, sendB>>
  PROVE  TypeOK'
<1>1. NetTypes'
  <2>1. NetTypes
    BY TypeParts
  <2>2. link' \in [Dials -> BOOLEAN] /\ UNCHANGED <<ws, dials, welcomed, asked, toRead>>
    BY DEF End
  <2> QED  BY <2>1, <2>2 DEF NetTypes
<1>2. ProcessParts'
  BY TypeParts DEF End, ProcessParts
<1> QED  BY <1>1, <1>2, TypeParts, SameTypes

(* Every step of Listen keeps the types; the counts keep toRead in range.  *)
LEMMA ListenTypes ==
  ASSUME Invariant, ListenStep
  PROVE  TypeOK'
<1>0. /\ TypeOK /\ NetTypes /\ ListenParts
      /\ WriterParts' /\ CollectorParts' /\ ChannelType' /\ ProcessParts'
  BY TypeParts, SameTypes DEF Invariant, ListenStep
<1>a. ListenParts' => (NetTypes' => TypeOK')
  BY <1>0, TypeParts
<1>b. ReconnectTries - 1 \in Nat /\ MaxRequests \in Nat /\ tries \in 0..(ReconnectTries - 1)
  BY <1>0, AgentAssumption DEF ListenParts
<1>1. CASE ListenRead
  <2>1. ws \in Dials
    BY <1>1 DEF Invariant, LastConnection, ListenRead, TypeOK
  <2>2. toRead[ws] \in 0..MaxRequests /\ toRead[ws] > 0
    BY <1>0, <1>1, <2>1 DEF ListenRead, NetTypes
  <2>3. toRead[ws] - 1 \in 0..MaxRequests
    BY <1>b, <2>2
  <2>4. toRead' \in [Dials -> 0..MaxRequests]
    BY <1>0, <1>1, <2>3 DEF ListenRead, NetTypes
  <2>5. NetTypes'
    BY <1>0, <1>1, <2>4 DEF ListenRead, NetTypes
  <2>6. ListenParts'
    BY <1>0, <1>1 DEF ListenRead, ListenParts
  <2> QED  BY <1>a, <2>5, <2>6
<1>2. CASE ListenReadFails \/ ReplyFails
  <2>1. UNCHANGED <<ws, netVars>> /\ (Reconnect \/ Return)
    BY <1>2 DEF ListenReadFails, ReplyFails, Failed
  <2>2. CASE Reconnect
    <3>1. 0 \in 0..(ReconnectTries - 1)
      BY <1>b
    <3>2. ListenParts'
      BY <2>2, <3>1 DEF Reconnect, ListenParts
    <3> QED  BY <1>0, <1>a, <2>1, <3>2, SameTypes
  <2>3. CASE Return
    <3>1. ListenParts'
      BY <1>0, <2>3 DEF Return, ListenParts
    <3> QED  BY <1>0, <1>a, <2>1, <3>1, SameTypes
  <2> QED  BY <2>1, <2>2, <2>3
<1>3. CASE LoadAvgFails
  <2>1. UNCHANGED <<ws, netVars>>
    BY <1>3 DEF LoadAvgFails
  <2>2. ListenParts'
    BY <1>0, <1>3 DEF LoadAvgFails, ListenParts
  <2> QED  BY <1>0, <1>a, <2>1, <2>2, SameTypes
<1>4. ASSUME NEW f \in Frames, Write(f), lpc' \in {"replyText", "read", "handshake"},
             UNCHANGED <<ws, connected, tries>>
      PROVE  TypeOK'
  <2>1. NetTypes'
    BY <1>0, <1>4, WriteTypes
  <2>2. ListenParts'
    BY <1>0, <1>4 DEF ListenParts
  <2> QED  BY <1>a, <2>1, <2>2
<1>5. CASE Reply \/ ReplyAgainAsText \/ SendId
  <2>1. Plain("load") \in Frames /\ Plain("loadText") \in Frames /\ Plain("id") \in Frames
    BY DEF Frames
  <2> QED  BY <1>4, <1>5, <2>1 DEF Reply, ReplyAgainAsText, SendId
<1>6. CASE Dial
  <2>1. dials' \in Dials /\ ws' \in 0..dials'
    BY <1>0, <1>6, AgentAssumption DEF Dial, NetTypes, Dials
  <2>2. link' \in [Dials -> BOOLEAN]
    BY <1>0, <1>6 DEF Dial, NetTypes
  <2>3. NetTypes'
    BY <1>0, <1>6, <2>1, <2>2 DEF Dial, NetTypes
  <2>4. ListenParts'
    BY <1>0, <1>6 DEF Dial, ListenParts
  <2> QED  BY <1>a, <2>3, <2>4
<1>7. CASE DialFails
  <2>1. ws' \in 0..dials'
    BY <1>0, <1>7, AgentAssumption DEF DialFails, NetTypes, Dials, netVars
  <2>2. NetTypes'
    BY <1>0, <1>7, <2>1 DEF DialFails, NetTypes, netVars
  <2> QED  BY <1>0, <1>7, <1>a, <2>2, SameTypes DEF DialFails
<1>8. CASE DialTimeout \/ HandshakeFails
  <2>1. ConnectFalse
    BY <1>8 DEF DialTimeout, HandshakeFails
  <2>2. tries' \in 0..(ReconnectTries - 1)
    BY <1>b, <2>1, AgentAssumption DEF ConnectFalse
  <2>3. ListenParts'
    BY <1>0, <2>1, <2>2 DEF ConnectFalse, ListenParts
  <2> QED  BY <1>0, <1>a, <2>1, <2>3, SameTypes DEF ConnectFalse
<1>9. CASE HandshakeDone
  <2>1. ListenParts'
    BY <1>0, <1>9 DEF HandshakeDone, ListenParts
  <2> QED  BY <1>0, <1>9, <1>a, <2>1, SameTypes DEF HandshakeDone
<1> QED
  BY <1>1, <1>2, <1>3, <1>5, <1>6, <1>7, <1>8, <1>9 DEF ListenStep

(* So does every step of MessageWriter.                                    *)
LEMMA WriterTypes ==
  ASSUME Invariant, WriterStep
  PROVE  TypeOK'
<1>0. /\ TypeOK /\ NetTypes /\ WriterParts /\ ChannelType /\ ProcessParts
      /\ ListenParts' /\ CollectorParts'
  BY TypeParts, SameTypes DEF Invariant, WriterStep
<1>a. NetTypes' /\ WriterParts' /\ ChannelType' /\ ProcessParts' => TypeOK'
  BY <1>0, TypeParts
<1>1. CASE WriterReceive
  <2>1. /\ Head(sendB) \in Messages /\ Tail(sendB) \in Seq(Messages)
        /\ Len(Tail(sendB)) <= BufCap
    BY <1>0, <1>1, AgentAssumption DEF WriterReceive, ChannelType
  <2>2. WriterParts' /\ ChannelType'
    BY <1>1, <2>1 DEF WriterReceive, WriterParts, ChannelType
  <2> QED  BY <1>0, <1>1, <1>a, <2>2, SameTypes DEF WriterReceive
<1>2. CASE WriterCheck
  <2>1. WriterParts'
    BY <1>0, <1>2 DEF WriterCheck, WriterParts
  <2> QED  BY <1>0, <1>2, <1>a, <2>1, SameTypes DEF WriterCheck
<1>3. CASE WriterWrite
  <2>1. hand \in Messages
    BY <1>3 DEF WriterWrite, Invariant, Numbered, InHand
  <2>2. Data(hand) \in Frames
    BY <2>1 DEF Frames
  <2>3. NetTypes'
    BY <1>0, <1>3, <2>2, WriteTypes DEF WriterWrite
  <2>4. WriterParts'
    BY <1>3 DEF WriterWrite, WriterParts
  <2> QED  BY <1>0, <1>3, <1>a, <2>3, <2>4, SameTypes DEF WriterWrite
<1>4. CASE WriterPanics
  <2>1. out' \in [Dials -> Seq(Frames)] /\ UNCHANGED <<ws, writerVars, sendB, spc>>
    BY <1>0, <1>4 DEF WriterPanics, NetTypes
  <2>2. End /\ panicked' \in Panicking
    BY <1>4 DEF WriterPanics, Panicking
  <2> QED  BY <1>0, <2>1, <2>2, EndTypes DEF WriterStep
<1> QED  BY <1>1, <1>2, <1>3, <1>4 DEF WriterStep

(* So do the collectors: what they make is a message, and the channel has  *)
(* its capacity.                                                           *)
LEMMA CollectorTypes ==
  ASSUME Invariant, NEW k \in Collectors, CollectorStep(k)
  PROVE  TypeOK'
<1>0. /\ TypeOK /\ CollectorParts /\ ChannelType
      /\ NetTypes' /\ ListenParts' /\ WriterParts' /\ ProcessParts'
  BY TypeParts, SameTypes DEF Invariant, CollectorStep
<1>a. CollectorParts' /\ ChannelType' => TypeOK'
  BY <1>0, TypeParts
<1>1. CASE Tick(k)
  <2>1. made[k] \in 0..MaxMsgs /\ made[k] < MaxMsgs
    BY <1>0, <1>1 DEF Tick, CollectorParts
  <2>2. made[k] + 1 \in 0..MaxMsgs
    BY <2>1, AgentAssumption
  <2>3. CollectorParts'
    BY <1>0, <1>1, <2>2 DEF Tick, CollectorParts
  <2> QED  BY <1>0, <1>1, <1>a, <2>3, SameTypes DEF Tick
<1>2. CASE Send(k)
  <2>1. [from |-> k, n |-> made[k]] \in Messages
    BY <1>0, <1>2, AgentAssumption DEF Send, Messages, Invariant, Numbered, CollectorParts
  <2>2. sendB' \in Seq(Messages) /\ Len(sendB') <= BufCap
    BY <1>0, <1>2, <2>1, AgentAssumption DEF Send, ChannelType
  <2>3. CollectorParts'
    BY <1>0, <1>2 DEF Send, CollectorParts
  <2> QED  BY <1>a, <2>2, <2>3 DEF ChannelType
<1>3. CASE Finish(k)
  <2>1. CollectorParts'
    BY <1>0, <1>3 DEF Finish, CollectorParts
  <2> QED  BY <1>0, <1>3, <1>a, <2>1, SameTypes DEF Finish
<1> QED  BY <1>1, <1>2, <1>3 DEF CollectorStep

(* So do the signal handler and main.                                      *)
LEMMA ProcessTypes ==
  ASSUME Invariant, ProcessStep
  PROVE  TypeOK'
<1>0. /\ TypeOK /\ NetTypes /\ ProcessParts
      /\ UNCHANGED <<listenVars, writerVars, collectorVars, sendB>>
  BY TypeParts DEF Invariant, ProcessStep, ProcessEnds
<1>a. panicked \in Panicking /\ out \in [Dials -> Seq(Frames)]
  BY <1>0 DEF NetTypes, ProcessParts
<1>1. CASE Signal
  <2>1. ProcessParts' /\ UNCHANGED <<ws, netVars>>
    BY <1>0, <1>1 DEF Signal, ProcessParts, netVars
  <2> QED  BY <1>0, <2>1, TypeParts, SameTypes
<1>2. CASE SignalExits \/ MainReturns \/ SignalPanics
  BY <1>0, <1>2, <1>a, EndTypes DEF SignalExits, MainReturns, SignalPanics, Panicking
<1>3. CASE SignalClose
  <2>1. Plain("close") \in Frames
    BY DEF Frames
  <2>2. out' \in [Dials -> Seq(Frames)]
    BY <1>0, <1>3, <2>1, PutFrame DEF SignalClose
  <2> QED  BY <1>0, <1>3, <1>a, <2>2, EndTypes DEF SignalClose
<1> QED  BY <1>1, <1>2, <1>3 DEF ProcessStep, ProcessEnds

(* So do the network and the server.                                       *)
LEMMA ServerTypes ==
  ASSUME Invariant, LoseLink \/ ServerAnswers \/ ServerAsks
  PROVE  TypeOK'
<1>0. TypeOK /\ NetTypes
  BY TypeParts DEF Invariant
<1>a. NetTypes' => TypeOK'
  BY <1>0, TypeParts, SameTypes DEF LoseLink, ServerAnswers, ServerAsks
<1>1. CASE LoseLink
  BY <1>0, <1>1, <1>a DEF LoseLink, NetTypes
<1>2. CASE ServerAnswers
  BY <1>0, <1>2, <1>a DEF ServerAnswers, NetTypes
<1>3. CASE ServerAsks
  <2>1. ws \in Dials
    BY <1>0, <1>3, AgentAssumption DEF ServerAsks, Up, NetTypes, Dials
  <2>2. /\ asked[ws] \in 0..MaxRequests /\ toRead[ws] \in 0..MaxRequests
        /\ Count(ws, "load") \in Nat
    BY <1>0, <2>1, CountType DEF NetTypes
  <2>3. asked[ws] + 1 \in 0..MaxRequests /\ toRead[ws] + 1 \in 0..MaxRequests
    <3>1. asked[ws] < MaxRequests
      BY <1>3 DEF ServerAsks
    <3>2. Count(ws, "load") + toRead[ws] + Owed(ws, "reply") <= asked[ws]
      BY <2>1 DEF Invariant, RequestsCounted
    <3>3. Owed(ws, "reply") \in {0, 1}
      BY DEF Owed
    <3> QED  BY <2>2, <3>1, <3>2, <3>3, AgentAssumption
  <2>4. asked' \in [Dials -> 0..MaxRequests] /\ toRead' \in [Dials -> 0..MaxRequests]
    BY <1>0, <1>3, <2>1, <2>3 DEF ServerAsks, NetTypes
  <2> QED  BY <1>0, <1>3, <1>a, <2>4 DEF ServerAsks, NetTypes
<1> QED  BY <1>1, <1>2, <1>3

(* Every step keeps the types.                                             *)
LEMMA TypesStep ==
  ASSUME Invariant, [Next]_vars
  PROVE  TypeOK'
<1>1. CASE UNCHANGED vars
  <2>1. UNCHANGED <<ws, netVars, listenVars, writerVars, collectorVars, sendB, processVars>>
    BY <1>1 DEF vars
  <2> QED  BY <2>1, TypeParts, SameTypes DEF Invariant
<1>2. CASE Running
  BY <1>2, ListenTypes, WriterTypes, CollectorTypes, ProcessTypes, ServerTypes DEF Running
<1> QED  BY <1>1, <1>2 DEF Next, Ended

-----------------------------------------------------------------------------
(* The line of the messages. *)

(* A step that moves no message: a frame without one is written, or none.  *)
Quiet ==
  /\ UNCHANGED <<wpc, hand, sendB, cpc, made>>
  /\ out' = out \/ \E f \in Frames : f.kind # "data" /\ Put(f)

(* What a step does to the messages.                                       *)
LEMMA StepKinds ==
  ASSUME [Next]_vars
  PROVE  \/ Quiet
         \/ WriterReceive /\ UNCHANGED collectorVars
         \/ WriterCheck /\ UNCHANGED collectorVars /\ UNCHANGED listenVars
         \/ WriterWrite /\ UNCHANGED collectorVars /\ UNCHANGED listenVars
         \/ \E k \in Collectors :
              /\ Tick(k) \/ Send(k) \/ Finish(k)
              /\ UNCHANGED <<netVars, writerVars>> /\ UNCHANGED <<ws, listenVars>>
<1> USE DEF Quiet, netVars, writerVars, collectorVars
<1>0. /\ \A k \in {"id", "load", "loadText", "close"} :
             Plain(k) \in Frames /\ Plain(k).kind # "data"
  BY DEF Frames, Plain
<1>1. CASE UNCHANGED vars
  BY <1>1 DEF vars
<1>2. CASE ListenStep
  <2>1. CASE Reply \/ ReplyAgainAsText \/ SendId
    BY <1>0, <1>2, <2>1 DEF ListenStep, Reply, ReplyAgainAsText, SendId, Write
  <2>2. CASE ListenRead \/ ListenReadFails \/ LoadAvgFails \/ ReplyFails
    BY <1>2, <2>2 DEF ListenStep, ListenRead, ListenReadFails, LoadAvgFails, ReplyFails
  <2>3. CASE Dial \/ DialFails \/ DialTimeout \/ HandshakeFails \/ HandshakeDone
    BY <1>2, <2>3
       DEF ListenStep, Dial, DialFails, DialTimeout, HandshakeFails, HandshakeDone, ConnectFalse
  <2> QED  BY <1>2, <2>1, <2>2, <2>3 DEF ListenStep
<1>3. CASE WriterStep
  BY <1>3 DEF WriterStep, WriterPanics
<1>4. CASE ProcessStep
  BY <1>0, <1>4 DEF ProcessStep, ProcessEnds, Signal, SignalExits, SignalClose,
                    SignalPanics, MainReturns
<1>5. CASE LoseLink \/ ServerAnswers \/ ServerAsks
  BY <1>5 DEF LoseLink, ServerAnswers, ServerAsks
<1>6. ASSUME NEW k \in Collectors, CollectorStep(k)
      PROVE  /\ Tick(k) \/ Send(k) \/ Finish(k)
             /\ UNCHANGED <<netVars, writerVars>> /\ UNCHANGED <<ws, listenVars>>
  BY <1>6 DEF CollectorStep
<1> QED  BY <1>1, <1>2, <1>3, <1>4, <1>5, <1>6 DEF Next, Running, Ended

(* A quiet step leaves all messages where they are.                        *)
LEMMA QuietStays ==
  ASSUME TypeOK, Quiet
  PROVE  /\ Written' = Written /\ InHand' = InHand
         /\ Queued' = Queued /\ Unsent' = Unsent
<1>1. Written' = Written
  BY PutPlain DEF Quiet, Written, DataFrames
<1> QED  BY <1>1 DEF Quiet, InHand, Queued, Unsent

(* The order on the connections after a step that writes no message.       *)
LEMMA QuietOrder ==
  ASSUME TypeOK, OrderKept,
         out' = out \/ \E f \in Frames : f.kind # "data" /\ Put(f)
  PROVE  OrderKept'
<1>1. CASE out' = out
  BY <1>1 DEF OrderKept, DataFrames
<1>2. ASSUME NEW f \in Frames, f.kind # "data", Put(f) PROVE OrderKept'
  <2>1. \A g \in Dials :
          /\ DataFrames(g)' = DataFrames(g)
          /\ \A i \in DataFrames(g) : out'[g][i] = out[g][i]
    BY <1>2, PutPlain
  <2> QED  BY <2>1 DEF OrderKept
<1> QED  BY <1>1, <1>2

(* The order after MessageWriter has written: what it writes is younger    *)
(* than all that is written, on the last connection.                       *)
LEMMA WriteOrder ==
  ASSUME Invariant, WriterWrite
  PROVE  OrderKept'
<1> DEFINE f == Data(hand)
<1>1. /\ hand \in Messages /\ f \in Frames /\ f.kind = "data" /\ f.msg = hand
      /\ InHand = {hand} /\ Put(f) /\ TypeOK
  BY DEF WriterWrite, Write, Invariant, Numbered, InHand, Frames, Data
<1> HIDE DEF f
<1>2. ASSUME NEW g \in Dials, NEW i \in DataFrames(g)
      PROVE  /\ out[g][i].msg \in Written
             /\ out[g][i].msg.from = hand.from => out[g][i].msg.n < hand.n
  <2>1. out[g][i].msg \in Written
    BY <1>2 DEF Written
  <2> QED  BY <1>1, <2>1 DEF Invariant, InLine, Before
<1>3. ASSUME NEW g \in Dials, NEW i \in DataFrames(g)'
      PROVE  \/ i \in DataFrames(g) /\ out'[g][i] = out[g][i]
             \/ /\ g = ws /\ out'[g][i] = f /\ i \notin DOMAIN out[g]
                /\ \A j \in DOMAIN out[g] : j < i
  BY <1>1, <1>3, PutKeeps DEF DataFrames
<1>4. ASSUME NEW g \in Dials, NEW h \in Dials,
             NEW i \in DataFrames(g)', NEW j \in DataFrames(h)',
             out'[g][i].msg.from = out'[h][j].msg.from, g < h \/ (g = h /\ i < j)
      PROVE  out'[g][i].msg.n < out'[h][j].msg.n
  <2>1. CASE i \in DataFrames(g) /\ out'[g][i] = out[g][i]
    <3>1. CASE j \in DataFrames(h) /\ out'[h][j] = out[h][j]
      BY <1>4, <2>1, <3>1 DEF Invariant, OrderKept
    <3>2. CASE out'[h][j] = f
      BY <1>1, <1>2, <1>4, <2>1, <3>2
    <3> QED  BY <1>3, <3>1, <3>2
  <2>2. CASE g = ws /\ i \notin DOMAIN out[g] /\ \A l \in DOMAIN out[g] : l < i
    <3>1. ws = dials
      BY <2>2 DEF Invariant, LastConnection, Dials
    <3>2. j \in DOMAIN out[h] \/ (h = ws /\ \A l \in DOMAIN out[h] : l < j)
      BY <1>3 DEF DataFrames
    <3>3. CASE h # g
      <4>1. out[h] = <<>>
        BY <1>4, <2>2, <3>1, <3>3 DEF Invariant, LastConnection, Dials, TypeOK
      <4> QED  BY <2>2, <3>2, <3>3, <4>1
    <3>4. CASE h = g
      <4>1. i < j /\ i \in DOMAIN out'[g] /\ j \in DOMAIN out'[g]
        BY <1>4, <3>4 DEF DataFrames, Dials
      <4>2. i \in Nat /\ j \in Nat
        <5>1. out'[g] \in Seq(Frames)
          BY <1>1, PutFrame
        <5> QED  BY <4>1, <5>1
      <4>3. j \notin DOMAIN out[g]
        BY <2>2, <4>1, <4>2
      <4>4. \A l \in DOMAIN out'[g] \ DOMAIN out[g] : l = Len(out[g]) + 1
        BY <1>1, PutKeeps
      <4>5. i = j
        BY <2>2, <4>1, <4>3, <4>4
      <4> QED  BY <4>1, <4>2, <4>5
    <3> QED  BY <3>3, <3>4
  <2> QED  BY <1>3, <2>1, <2>2
<1> QED  BY <1>4 DEF OrderKept

(* The channel after a receive.                                            *)
LEMMA QueueHead ==
  ASSUME TypeOK, sendB # <<>>, sendB' = Tail(sendB)
  PROVE  /\ Queued = Queued' \cup {Head(sendB)} /\ Head(sendB) = sendB[1]
         /\ Head(sendB) \in Messages
         /\ \A i \in DOMAIN sendB' : i + 1 \in DOMAIN sendB /\ sendB'[i] = sendB[i + 1] /\ i \in Nat
         /\ 1 \in DOMAIN sendB /\ \A i \in DOMAIN sendB' : 1 < i + 1
<1>1. sendB \in Seq(Messages) /\ Len(sendB) > 0
  BY DEF TypeOK
<1>2. /\ Head(sendB) = sendB[1] /\ 1 \in DOMAIN sendB /\ Head(sendB) \in Messages
      /\ \A i \in DOMAIN sendB' : i + 1 \in DOMAIN sendB /\ sendB'[i] = sendB[i + 1] /\ i \in Nat
      /\ \A i \in DOMAIN sendB' : 1 < i + 1
  BY <1>1
<1>3. \A i \in DOMAIN sendB : i = 1 \/ (i - 1 \in DOMAIN sendB' /\ sendB'[i - 1] = sendB[i])
  BY <1>1
<1>4. Queued \subseteq Queued' \cup {Head(sendB)}
  <2> SUFFICES ASSUME NEW i \in DOMAIN sendB
               PROVE  sendB[i] = Head(sendB) \/ \E j \in DOMAIN sendB' : sendB'[j] = sendB[i]
    BY DEF Queued
  <2> QED  BY <1>2, <1>3
<1>5. Queued' \cup {Head(sendB)} \subseteq Queued
  BY <1>2 DEF Queued
<1> QED  BY <1>2, <1>4, <1>5

(* The channel after a send.                                               *)
LEMMA QueueLast ==
  ASSUME TypeOK, NEW m \in Messages, sendB' = Append(sendB, m)
  PROVE  /\ Queued' = Queued \cup {m}
         /\ \A i \in DOMAIN sendB' :
              \/ i \in DOMAIN sendB /\ sendB'[i] = sendB[i]
              \/ i = Len(sendB) + 1 /\ sendB'[i] = m /\ \A j \in DOMAIN sendB : j < i
<1>1. sendB \in Seq(Messages)
  BY DEF TypeOK
<1>2. \A i \in DOMAIN sendB' :
        \/ i \in DOMAIN sendB /\ sendB'[i] = sendB[i]
        \/ i = Len(sendB) + 1 /\ sendB'[i] = m /\ \A j \in DOMAIN sendB : j < i
  BY <1>1
<1>3. /\ \A i \in DOMAIN sendB : i \in DOMAIN sendB' /\ sendB'[i] = sendB[i]
      /\ Len(sendB) + 1 \in DOMAIN sendB' /\ sendB'[Len(sendB) + 1] = m
  BY <1>1
<1> QED  BY <1>2, <1>3 DEF Queued

(* The message in MessageWriter's hand.                                    *)
LEMMA HandMessage ==
  ASSUME Invariant, wpc \in {"check", "write"}
  PROVE  hand \in Messages /\ InHand = {hand}
  BY DEF Invariant, Numbered, InHand

(* What a collector sends is a message, the youngest of its own.           *)
LEMMA Pending ==
  ASSUME Invariant, NEW k \in Collectors, cpc[k] = "send"
  PROVE  [from |-> k, n |-> made[k]] \in Messages \cap Unsent
  BY DEF Invariant, Numbered, TypeOK, Messages, Unsent

(* A receive, a send and a tick keep the line, and so does a message that  *)
(* leaves it at the head.                                                  *)
LEMMA LineStep ==
  ASSUME Invariant, [Next]_vars
  PROVE  InLine' /\ Numbered'
<1>0. TypeOK /\ InLine /\ Numbered
  BY DEF Invariant
<1>1. CASE Quiet
  <2>1. /\ Written' = Written /\ InHand' = InHand
        /\ Queued' = Queued /\ Unsent' = Unsent /\ UNCHANGED <<sendB, cpc, made>>
    BY <1>0, <1>1, QuietStays DEF Quiet
  <2> QED  BY <1>0, <2>1 DEF InLine, Numbered
<1>2. CASE WriterReceive /\ UNCHANGED collectorVars
  <2>1. /\ Written' = Written /\ Unsent' = Unsent
        /\ InHand = {} /\ InHand' = {Head(sendB)}
        /\ sendB # <<>> /\ sendB' = Tail(sendB)
        /\ UNCHANGED <<cpc, made>>
    BY <1>2 DEF WriterReceive, Written, DataFrames, netVars, Unsent, collectorVars, InHand
  <2>2. /\ Queued = Queued' \cup {Head(sendB)} /\ Head(sendB) = sendB[1]
        /\ Head(sendB) \in Messages /\ 1 \in DOMAIN sendB
        /\ \A i \in DOMAIN sendB' :
              i + 1 \in DOMAIN sendB /\ sendB'[i] = sendB[i + 1] /\ i \in Nat /\ 1 < i + 1
    BY <1>0, <2>1, QueueHead
  <2>3. Before({Head(sendB)}, Queued')
    BY <1>0, <2>2 DEF InLine, Before, Queued
  <2>4. \A i, j \in DOMAIN sendB' : i < j => Before({sendB'[i]}, {sendB'[j]})
    <3> SUFFICES ASSUME NEW i \in DOMAIN sendB', NEW j \in DOMAIN sendB', i < j
                 PROVE  Before({sendB'[i]}, {sendB'[j]})
      OBVIOUS
    <3>1. /\ i + 1 \in DOMAIN sendB /\ j + 1 \in DOMAIN sendB /\ i + 1 < j + 1
          /\ sendB'[i] = sendB[i + 1] /\ sendB'[j] = sendB[j + 1]
      BY <2>2
    <3>2. Before({sendB[i + 1]}, {sendB[j + 1]})
      BY <1>0, <3>1 DEF InLine
    <3> QED  BY <3>1, <3>2
  <2>5. Before(Written', InHand' \cup Queued' \cup Unsent')
    BY <1>0, <2>1, <2>2 DEF InLine, Before
  <2>6. Before(InHand', Queued' \cup Unsent') /\ Before(Queued', Unsent')
    BY <1>0, <2>1, <2>2, <2>3 DEF InLine, Before
  <2>7. Numbered'
    BY <1>0, <2>1, <2>2 DEF Numbered
  <2> QED  BY <2>4, <2>5, <2>6, <2>7 DEF InLine
<1>3. CASE WriterCheck /\ UNCHANGED collectorVars
  <2>1. /\ Written' = Written /\ Unsent' = Unsent /\ Queued' = Queued
        /\ InHand' \subseteq InHand
        /\ UNCHANGED <<sendB, cpc, made>>
    BY <1>3 DEF WriterCheck, Written, DataFrames, netVars, Unsent, collectorVars, InHand, Queued
  <2> QED  BY <1>0, <2>1 DEF InLine, Numbered, Before
<1>4. CASE WriterWrite /\ UNCHANGED collectorVars
  <2>1. hand \in Messages /\ InHand = {hand}
    BY <1>4, HandMessage DEF WriterWrite
  <2>2. /\ Written' \subseteq Written \cup InHand
        /\ Unsent' = Unsent /\ Queued' = Queued /\ InHand' = {}
        /\ UNCHANGED <<sendB, cpc, made>>
    BY <1>0, <1>4, <2>1, PutData DEF WriterWrite, Write, Unsent, collectorVars, InHand, Queued
  <2>3. Before(Written', InHand' \cup Queued' \cup Unsent')
    BY <1>0, <2>2 DEF InLine, Before
  <2> QED  BY <1>0, <2>2, <2>3 DEF InLine, Numbered, Before
<1>5. ASSUME NEW k \in Collectors, Tick(k), UNCHANGED <<netVars, writerVars>>
      PROVE  InLine' /\ Numbered'
  <2> DEFINE m == [from |-> k, n |-> made[k] + 1]
  <2>1. /\ Written' = Written /\ InHand' = InHand /\ Queued' = Queued
        /\ UNCHANGED <<sendB>>
        /\ made[k] \in Nat /\ made' = [made EXCEPT ![k] = made[k] + 1]
        /\ cpc' = [cpc EXCEPT ![k] = "send"] /\ cpc[k] = "tick"
    BY <1>0, <1>5 DEF Tick, Written, DataFrames, netVars, writerVars, InHand, Queued, TypeOK
  <2>2. /\ made \in [Collectors -> 0..MaxMsgs]
        /\ cpc \in [Collectors -> {"tick", "send", "end"}]
    BY <1>0 DEF TypeOK
  <2>3. Unsent' = Unsent \cup {m}
    BY <2>1, <2>2 DEF Unsent
  <2>4. \A x \in Written \cup InHand \cup Queued : x.from = k => x.n < m.n
    BY <1>0, <2>1 DEF Numbered, Messages
  <2>5. Before(Written \cup InHand \cup Queued, {m})
    BY <2>4 DEF Before
  <2> HIDE DEF m
  <2>6. InLine'
    <3>1. \A i, j \in DOMAIN sendB' : i < j => Before({sendB'[i]}, {sendB'[j]})
      BY <1>0, <2>1 DEF InLine
    <3>2. /\ Before(Written', InHand' \cup Queued' \cup Unsent')
          /\ Before(InHand', Queued' \cup Unsent') /\ Before(Queued', Unsent')
      BY <1>0, <2>1, <2>3, <2>5 DEF InLine, Before
    <3> QED  BY <3>1, <3>2 DEF InLine
  <2>7. \A c \in Collectors : made[c] \in Nat /\ made'[c] \in Nat /\ made[c] <= made'[c]
    BY <2>1, <2>2
  <2>8. \A x \in Messages : x.from \in Collectors /\ x.n \in Nat
    BY DEF Messages
  <2>9. Numbered'
    BY <1>0, <2>1, <2>2, <2>7, <2>8 DEF Numbered
  <2> QED  BY <2>6, <2>9
<1>6. ASSUME NEW k \in Collectors, Send(k), UNCHANGED <<netVars, writerVars>>
      PROVE  InLine' /\ Numbered'
  <2> DEFINE m == [from |-> k, n |-> made[k]]
  <2>1. /\ Written' = Written /\ InHand' = InHand /\ sendB' = Append(sendB, m)
        /\ made' = made /\ cpc[k] = "send" /\ cpc' = [cpc EXCEPT ![k] = "tick"]
    BY <1>6 DEF Send, Written, DataFrames, netVars, writerVars, InHand
  <2>2. /\ made \in [Collectors -> 0..MaxMsgs]
        /\ cpc \in [Collectors -> {"tick", "send", "end"}]
    BY <1>0 DEF TypeOK
  <2>3. m \in Messages /\ m \in Unsent /\ m.from = k /\ m.n = made[k]
    BY <2>1, Pending
  <2>4. Unsent' \subseteq Unsent /\ \A x \in Unsent' : x.from # k
    BY <2>1, <2>2 DEF Unsent
  <2> HIDE DEF m
  <2>5. /\ Queued' = Queued \cup {m}
        /\ \A i \in DOMAIN sendB' :
             \/ i \in DOMAIN sendB /\ sendB'[i] = sendB[i]
             \/ i = Len(sendB) + 1 /\ sendB'[i] = m /\ \A j \in DOMAIN sendB : j < i
    BY <1>0, <2>1, <2>3, QueueLast
  <2>6. Before(Queued, {m})
    BY <1>0, <2>3 DEF InLine, Before
  <2>7. \A i, j \in DOMAIN sendB' : i < j => Before({sendB'[i]}, {sendB'[j]})
    <3> SUFFICES ASSUME NEW i \in DOMAIN sendB', NEW j \in DOMAIN sendB', i < j
                 PROVE  Before({sendB'[i]}, {sendB'[j]})
      OBVIOUS
    <3>1. i \in Nat /\ j \in Nat /\ Len(sendB) \in Nat /\ DOMAIN sendB = 1..Len(sendB)
      BY <1>0, <2>1, <2>3 DEF TypeOK
    <3>2. i \in DOMAIN sendB /\ sendB'[i] = sendB[i]
      BY <2>5, <3>1
    <3>3. CASE j \in DOMAIN sendB /\ sendB'[j] = sendB[j]
      BY <1>0, <3>2, <3>3 DEF InLine
    <3>4. CASE sendB'[j] = m
      BY <2>6, <3>2, <3>4 DEF Queued, Before
    <3> QED  BY <2>5, <3>3, <3>4
  <2>8. Before({m}, Unsent')
    BY <2>3, <2>4 DEF Before
  <2>9. /\ Before(Written', InHand' \cup Queued' \cup Unsent')
        /\ Before(InHand', Queued' \cup Unsent') /\ Before(Queued', Unsent')
    BY <1>0, <2>1, <2>3, <2>4, <2>5, <2>8 DEF InLine, Before
  <2>10. Numbered'
    BY <1>0, <2>1, <2>2, <2>3, <2>5 DEF Numbered
  <2> QED  BY <2>7, <2>9, <2>10 DEF InLine
<1>7. ASSUME NEW k \in Collectors, Finish(k), UNCHANGED <<netVars, writerVars>>
      PROVE  InLine' /\ Numbered'
  <2>1. /\ Written' = Written /\ InHand' = InHand /\ Queued' = Queued
        /\ UNCHANGED <<sendB, made>>
        /\ \A c \in Collectors : cpc'[c] = "send" <=> cpc[c] = "send"
    BY <1>0, <1>7 DEF Finish, Written, DataFrames, netVars, writerVars, InHand, Queued, TypeOK
  <2>2. Unsent' = Unsent
    BY <2>1 DEF Unsent
  <2> QED  BY <1>0, <2>1, <2>2 DEF InLine, Numbered
<1> QED
  BY <1>1, <1>2, <1>3, <1>4, <1>5, <1>6, <1>7, StepKinds

(* Only Dial changes the connection, and it takes a new one.               *)
LEMMA ConnectionStep ==
  ASSUME Invariant, [Next]_vars
  PROVE  LastConnection'
<1>0. TypeOK /\ LastConnection
  BY DEF Invariant
<1>1. CASE Dial
  BY <1>0, <1>1 DEF Dial, LastConnection, TypeOK, Dials
<1>2. CASE DialFails
  BY <1>0, <1>2 DEF DialFails, LastConnection, netVars, listenVars
<1>3. ASSUME UNCHANGED <<ws, dials>>,
             lpc' \notin {"dial", "returned"} => lpc \notin {"dial", "returned"},
             out' = out \/ \E f \in Frames : Put(f)
      PROVE  LastConnection'
  <2>1. \A g \in Dials : g > dials => out'[g] = out[g]
    <3>1. ASSUME NEW f \in Frames, Put(f) PROVE \A g \in Dials : g > dials => out'[g] = out[g]
      <4>1. \A g \in Dials : g > dials => g # ws
        BY <1>0 DEF LastConnection, Dials, TypeOK
      <4> QED  BY <1>0, <3>1, <4>1, PutFrame
    <3> QED  BY <1>3, <3>1
  <2> QED  BY <1>0, <1>3, <2>1 DEF LastConnection
<1>4. out' = out \/ \E f \in Frames : Put(f)
  <2>1. CASE WriterWrite
    <3>1. hand \in Messages
      BY <2>1, HandMessage DEF WriterWrite
    <3>2. Data(hand) \in Frames
      BY <3>1 DEF Frames
    <3> QED  BY <2>1, <3>2 DEF WriterWrite, Write
  <2> QED  BY <2>1, StepKinds DEF Quiet, WriterReceive, WriterCheck, netVars
<1>5. CASE UNCHANGED vars
  BY <1>3, <1>5 DEF vars, netVars, listenVars
<1>6. CASE ListenStep
  <2>1. CASE ListenRead \/ ListenReadFails \/ LoadAvgFails \/ Reply \/ ReplyFails
             \/ ReplyAgainAsText
    BY <1>3, <1>4, <2>1 DEF ListenRead, ListenReadFails, LoadAvgFails, Reply, ReplyFails,
       ReplyAgainAsText, Failed, Reconnect, Return, Write, netVars
  <2>2. CASE DialTimeout \/ SendId \/ HandshakeFails \/ HandshakeDone
    BY <1>3, <1>4, <2>2 DEF DialTimeout, SendId, HandshakeFails, HandshakeDone, ConnectFalse,
       Write, netVars
  <2> QED  BY <1>1, <1>2, <1>6, <2>1, <2>2 DEF ListenStep
<1>7. CASE WriterStep
  BY <1>3, <1>4, <1>7 DEF WriterStep, WriterReceive, WriterCheck, WriterWrite, WriterPanics,
     Write, End, listenVars, netVars
<1>8. CASE ProcessStep
  BY <1>3, <1>4, <1>8 DEF ProcessStep, ProcessEnds, Signal, SignalExits, SignalClose,
     SignalPanics, MainReturns, End, listenVars, netVars
<1>9. CASE LoseLink \/ ServerAnswers \/ ServerAsks
  BY <1>3, <1>9 DEF LoseLink, ServerAnswers, ServerAsks, listenVars
<1>10. ASSUME NEW k \in Collectors, CollectorStep(k) PROVE LastConnection'
  BY <1>3, <1>10 DEF CollectorStep, listenVars, netVars
<1> QED
  BY <1>5, <1>6, <1>7, <1>8, <1>9, <1>10 DEF Next, Running, Ended

-----------------------------------------------------------------------------
(* The requests and their replies. *)

(* Steps that write no reply, take no request and begin no reply.          *)
LEMMA NothingOwed ==
  ASSUME Invariant,
         \A g \in Dials : /\ Count(g, "load")' = Count(g, "load")
                         /\ Count(g, "loadText")' = Count(g, "loadText")
                         /\ toRead'[g] = toRead[g] /\ asked'[g] = asked[g],
         (ws' = ws /\ lpc' = lpc) \/ lpc' \notin {"reply", "replyText"}
  PROVE  RequestsCounted'
<1> SUFFICES ASSUME NEW g \in Dials
             PROVE  /\ Count(g, "load")' + toRead'[g] + Owed(g, "reply")' <= asked'[g]
                    /\ Count(g, "loadText")' + Owed(g, "replyText")' <= Count(g, "load")'
  BY DEF RequestsCounted
<1>1. /\ Count(g, "load") \in Nat /\ Count(g, "loadText") \in Nat
      /\ toRead[g] \in Nat /\ asked[g] \in Nat
  <2>1. Count(g, "load") \in Nat /\ Count(g, "loadText") \in Nat
    BY CountType DEF Invariant
  <2>2. toRead[g] \in Nat /\ asked[g] \in Nat
    BY AgentAssumption DEF Invariant, TypeOK
  <2> QED  BY <2>1, <2>2
<1>2. /\ Owed(g, "reply") \in {0, 1} /\ Owed(g, "replyText") \in {0, 1}
      /\ Owed(g, "reply")' \in {0, Owed(g, "reply")}
      /\ Owed(g, "replyText")' \in {0, Owed(g, "replyText")}
  BY DEF Owed
<1>3. /\ Count(g, "load") + toRead[g] + Owed(g, "reply") <= asked[g]
      /\ Count(g, "loadText") + Owed(g, "replyText") <= Count(g, "load")
  BY DEF Invariant, RequestsCounted
<1> QED  BY <1>1, <1>2, <1>3

(* A write of another kind is no reply.                                    *)
LEMMA NoReplyWritten ==
  ASSUME Invariant,
         out' = out \/ \E f \in Frames : f.kind \notin {"load", "loadText"} /\ Put(f),
         NEW g \in Dials
  PROVE  /\ Count(g, "load")' = Count(g, "load")
         /\ Count(g, "loadText")' = Count(g, "loadText")
<1>1. CASE out' = out
  BY <1>1 DEF Count
<1>2. ASSUME NEW f \in Frames, f.kind \notin {"load", "loadText"}, Put(f)
      PROVE  /\ Count(g, "load")' = Count(g, "load")
             /\ Count(g, "loadText")' = Count(g, "loadText")
  <2>1. ASSUME NEW kind \in {"load", "loadText"}
        PROVE  Count(g, kind) \in Nat /\ Count(g, kind)' = Count(g, kind) + 0
    <3>1. (IF Up(ws) /\ g = ws /\ f.kind = kind THEN 1 ELSE 0) = 0
      BY <1>2, <2>1
    <3> QED  BY <1>2, <3>1, CountPut DEF Invariant
  <2> QED  BY <2>1
<1> QED  BY <1>1, <1>2

(* Every reply answers a request of its own connection.                    *)
LEMMA RequestsStep ==
  ASSUME Invariant, [Next]_vars
  PROVE  RequestsCounted'
<1> DEFINE Owes(g) == /\ Count(g, "load") + toRead[g] + Owed(g, "reply") <= asked[g]
                      /\ Count(g, "loadText") + Owed(g, "replyText") <= Count(g, "load")
<1>0. /\ TypeOK /\ ws \in Dials \cup {0}
      /\ lpc \notin {"dial", "returned"} => ws \in Dials
  BY DEF Invariant, TypeOK, LastConnection, Dials
<1>1. ASSUME NEW g \in Dials
      PROVE  /\ Owes(g)
             /\ Count(g, "load") \in Nat /\ Count(g, "loadText") \in Nat
             /\ toRead[g] \in Nat /\ asked[g] \in Nat
  <2>1. Count(g, "load") \in Nat /\ Count(g, "loadText") \in Nat
    BY <1>0, CountType
  <2>2. toRead[g] \in Nat /\ asked[g] \in Nat
    BY <1>0, AgentAssumption DEF TypeOK
  <2> QED  BY <2>1, <2>2 DEF Invariant, RequestsCounted
<1>2. CASE ListenRead
  <2>1. /\ lpc = "read" /\ lpc' = "reply" /\ ws' = ws /\ out' = out /\ asked' = asked
        /\ ws \in Dials /\ toRead[ws] > 0
        /\ \A g \in Dials : toRead'[g] = IF g = ws THEN toRead[g] - 1 ELSE toRead[g]
    BY <1>0, <1>2 DEF ListenRead, TypeOK
  <2>2. ASSUME NEW g \in Dials PROVE Owes(g)'
    <3>1. Count(g, "load")' = Count(g, "load") /\ Count(g, "loadText")' = Count(g, "loadText")
      BY <2>1 DEF Count
    <3>2. /\ Owed(g, "reply") = 0 /\ Owed(g, "replyText") = 0 /\ Owed(g, "replyText")' = 0
          /\ Owed(g, "reply")' = IF g = ws THEN 1 ELSE 0
      BY <2>1 DEF Owed
    <3> QED  BY <1>1, <2>1, <3>1, <3>2
  <2> QED  BY <2>2 DEF RequestsCounted
<1>3. CASE Reply
  <2>1. /\ lpc = "reply" /\ lpc' = "replyText" /\ ws' = ws /\ Up(ws) /\ Put(Plain("load"))
        /\ UNCHANGED <<asked, toRead>> /\ Plain("load") \in Frames
        /\ Plain("load").kind = "load" /\ ws \in Dials
    BY <1>0, <1>3 DEF Reply, Write, Frames, Plain
  <2>2. ASSUME NEW g \in Dials PROVE Owes(g)'
    <3>1. Count(g, "load")' = Count(g, "load") + (IF g = ws THEN 1 ELSE 0)
      <4>1. (IF Up(ws) /\ g = ws /\ Plain("load").kind = "load" THEN 1 ELSE 0)
              = (IF g = ws THEN 1 ELSE 0)
        BY <2>1
      <4> QED  BY <1>0, <2>1, <4>1, CountPut
    <3>2. Count(g, "loadText")' = Count(g, "loadText") + 0
      <4>1. (IF Up(ws) /\ g = ws /\ Plain("load").kind = "loadText" THEN 1 ELSE 0) = 0
        BY <2>1
      <4> QED  BY <1>0, <2>1, <4>1, CountPut
    <3>3. /\ Owed(g, "reply") = (IF g = ws THEN 1 ELSE 0) /\ Owed(g, "replyText") = 0
          /\ Owed(g, "reply")' = 0 /\ Owed(g, "replyText")' = (IF g = ws THEN 1 ELSE 0)
      BY <2>1 DEF Owed
    <3> QED  BY <1>1, <2>1, <3>1, <3>2, <3>3
  <2> QED  BY <2>2 DEF RequestsCounted
<1>4. CASE ReplyAgainAsText
  <2>1. /\ lpc = "replyText" /\ lpc' = "read" /\ ws' = ws /\ Put(Plain("loadText"))
        /\ UNCHANGED <<asked, toRead>> /\ Plain("loadText") \in Frames
        /\ Plain("loadText").kind = "loadText" /\ ws \in Dials
    BY <1>0, <1>4 DEF ReplyAgainAsText, Write, Frames, Plain
  <2>2. ASSUME NEW g \in Dials PROVE Owes(g)'
    <3>1. Count(g, "loadText")' \in {Count(g, "loadText"),
                                    Count(g, "loadText") + (IF g = ws THEN 1 ELSE 0)}
      <4>1. (IF Up(ws) /\ g = ws /\ Plain("loadText").kind = "loadText" THEN 1 ELSE 0)
              \in {0, IF g = ws THEN 1 ELSE 0}
        BY <2>1
      <4>2. Count(g, "loadText")' = Count(g, "loadText") +
              (IF Up(ws) /\ g = ws /\ Plain("loadText").kind = "loadText" THEN 1 ELSE 0)
        BY <1>0, <2>1, CountPut
      <4> HIDE DEF Owes
      <4> QED  BY <1>1, <4>1, <4>2
    <3>2. Count(g, "load")' = Count(g, "load") + 0
      <4>1. (IF Up(ws) /\ g = ws /\ Plain("loadText").kind = "load" THEN 1 ELSE 0) = 0
        BY <2>1
      <4> QED  BY <1>0, <2>1, <4>1, CountPut
    <3>3. /\ Owed(g, "reply") = 0 /\ Owed(g, "replyText") = (IF g = ws THEN 1 ELSE 0)
          /\ Owed(g, "reply")' = 0 /\ Owed(g, "replyText")' = 0
      BY <2>1 DEF Owed
    <3> QED  BY <1>1, <2>1, <3>1, <3>2, <3>3
  <2> QED  BY <2>2 DEF RequestsCounted
<1>5. CASE ServerAsks
  <2>1. /\ UNCHANGED <<ws, lpc, out>>
        /\ \A g \in Dials :
             /\ toRead'[g] = IF g = ws THEN toRead[g] + 1 ELSE toRead[g]
             /\ asked'[g] = IF g = ws THEN asked[g] + 1 ELSE asked[g]
    BY <1>0, <1>5 DEF ServerAsks, TypeOK, listenVars
  <2>2. ASSUME NEW g \in Dials PROVE Owes(g)'
    <3>1. /\ Count(g, "load")' = Count(g, "load") /\ Count(g, "loadText")' = Count(g, "loadText")
          /\ Owed(g, "reply") \in Nat /\ Owed(g, "reply")' = Owed(g, "reply")
          /\ Owed(g, "replyText")' = Owed(g, "replyText")
      BY <2>1 DEF Count, Owed
    <3> QED  BY <1>1, <2>1, <3>1
  <2> QED  BY <2>2 DEF RequestsCounted
<1>6. ASSUME out' = out \/ \E f \in Frames : f.kind \notin {"load", "loadText"} /\ Put(f),
             UNCHANGED <<asked, toRead>>,
             (ws' = ws /\ lpc' = lpc) \/ lpc' \notin {"reply", "replyText"}
      PROVE  RequestsCounted'
  BY <1>6, NoReplyWritten, NothingOwed
<1>7. CASE UNCHANGED vars
  BY <1>6, <1>7 DEF vars, netVars, listenVars
<1>8. CASE ListenStep
  <2>1. CASE ListenReadFails \/ ReplyFails \/ LoadAvgFails
    BY <1>6, <2>1 DEF ListenReadFails, ReplyFails, LoadAvgFails, Failed, Reconnect, Return, netVars
  <2>2. CASE Dial \/ DialFails \/ DialTimeout \/ HandshakeFails \/ HandshakeDone
    BY <1>6, <2>2 DEF Dial, DialFails, DialTimeout, HandshakeFails, HandshakeDone, ConnectFalse,
       netVars, listenVars
  <2>3. CASE SendId
    <3>1. Plain("id") \in Frames /\ Plain("id").kind = "id"
      BY DEF Frames, Plain
    <3> QED  BY <1>6, <2>3, <3>1 DEF SendId, Write
  <2> QED  BY <1>2, <1>3, <1>4, <1>8, <2>1, <2>2, <2>3 DEF ListenStep
<1>9. CASE WriterStep
  <2>1. CASE WriterWrite
    <3>1. Data(hand) \in Frames /\ Data(hand).kind = "data"
      BY <2>1, HandMessage DEF WriterWrite, Frames, Data
    <3> QED  BY <1>6, <1>9, <2>1, <3>1 DEF WriterStep, WriterWrite, Write, listenVars
  <2> QED  BY <1>6, <1>9, <2>1 DEF WriterStep, WriterReceive, WriterCheck, WriterPanics, End,
               netVars, listenVars
<1>10. CASE ProcessStep
  <2>1. CASE SignalClose
    <3>1. Plain("close") \in Frames /\ Plain("close").kind = "close"
      BY DEF Frames, Plain
    <3> QED  BY <1>6, <1>10, <2>1, <3>1 DEF ProcessStep, ProcessEnds, SignalClose, End, listenVars,
                 Signal, SignalExits, netVars
  <2> QED  BY <1>6, <1>10, <2>1 DEF ProcessStep, ProcessEnds, Signal, SignalExits, SignalPanics,
               MainReturns, End, listenVars, netVars
<1>11. CASE LoseLink \/ ServerAnswers
  BY <1>6, <1>11 DEF LoseLink, ServerAnswers, listenVars
<1>12. ASSUME NEW k \in Collectors, CollectorStep(k) PROVE RequestsCounted'
  BY <1>6, <1>12 DEF CollectorStep, listenVars, netVars
<1> QED
  BY <1>5, <1>7, <1>8, <1>9, <1>10, <1>11, <1>12 DEF Next, Running, Ended

-----------------------------------------------------------------------------
(* The invariant. *)

(* After main has connected only the id is on its way.                     *)
LEMMA InitialFrames ==
  ASSUME Init
  PROVE  /\ TypeOK
         /\ \A g \in Dials : DataFrames(g) = {} /\ Count(g, "load") = 0 /\ Count(g, "loadText") = 0
         /\ Written = {} /\ InHand = {} /\ Queued = {} /\ Unsent = {}
<1>1. /\ 1 \in Dials /\ <<Plain("id")>> \in Seq(Frames) /\ Plain("id").kind = "id"
      /\ 0 \in 0..MaxRequests /\ 0 \in 0..MaxMsgs /\ 0 \in 0..(ReconnectTries - 1)
  BY AgentAssumption DEF Dials, Frames, Plain
<1>2. out \in [Dials -> Seq(Frames)]
  BY <1>1 DEF Init
<1>3. TypeOK
  <2>1. ws \in 0..dials /\ dials \in Dials /\ tries \in 0..(ReconnectTries - 1)
    BY <1>1 DEF Init
  <2>2. link \in [Dials -> BOOLEAN] /\ welcomed \in [Dials -> BOOLEAN]
    BY DEF Init
  <2>3. asked \in [Dials -> 0..MaxRequests] /\ toRead \in [Dials -> 0..MaxRequests]
    BY <1>1 DEF Init
  <2>4. cpc \in [Collectors -> {"tick", "send", "end"}] /\ made \in [Collectors -> 0..MaxMsgs]
    BY <1>1 DEF Init
  <2>5. sendB \in Seq(Messages) /\ Len(sendB) <= BufCap /\ hand \in Messages \cup {<<>>}
    <3>1. <<>> \in Seq(Messages) /\ Len(<<>>) = 0
      OBVIOUS
    <3> QED  BY <3>1, AgentAssumption DEF Init
  <2>6. connected \in BOOLEAN /\ alive \in BOOLEAN /\ panicked \in Panicking
    BY DEF Init, Panicking
  <2>7. /\ lpc \in {"read", "reply", "replyText", "dial", "sendId", "handshake", "returned"}
        /\ wpc \in {"recv", "check", "write"} /\ spc \in {"wait", "close"}
    BY DEF Init
  <2> QED  BY <1>2, <2>1, <2>2, <2>3, <2>4, <2>5, <2>6, <2>7 DEF TypeOK
<1>4. ASSUME NEW g \in Dials, NEW i \in DOMAIN out[g] PROVE out[g][i].kind = "id"
  BY <1>1, <1>4 DEF Init
<1>5. ASSUME NEW g \in Dials
      PROVE  DataFrames(g) = {} /\ Count(g, "load") = 0 /\ Count(g, "loadText") = 0
  <2>1. /\ DataFrames(g) = {}
        /\ {j \in DOMAIN out[g] : out[g][j].kind = "load"} = {}
        /\ {j \in DOMAIN out[g] : out[g][j].kind = "loadText"} = {}
    BY <1>4 DEF DataFrames
  <2> QED  BY <2>1, FS_EmptySet DEF Count
<1>6. Written = {}
  BY <1>5 DEF Written
<1>7. InHand = {} /\ Unsent = {}
  BY DEF Init, InHand, Unsent
<1>8. sendB = <<>>
  BY DEF Init
<1>9. Queued = {}
  BY <1>8 DEF Queued
<1> QED  BY <1>3, <1>5, <1>6, <1>7, <1>9

(* A client starts connected, with nothing made, queued or written (main,  *)
(* before its goroutines run).                                             *)
LEMMA InvariantInit ==
  ASSUME Init
  PROVE  Invariant
<1>1. OrderKept
  BY InitialFrames DEF OrderKept
<1>2. sendB = <<>> /\ \A k \in Collectors : cpc[k] = "tick"
  BY DEF Init
<1>3. InLine /\ Numbered
  BY <1>2, InitialFrames DEF InLine, Numbered, Before
<1>4. LastConnection
  BY DEF Init, LastConnection, Dials
<1>5. RequestsCounted
  <2>1. ASSUME NEW g \in Dials
        PROVE  /\ Count(g, "load") + toRead[g] + Owed(g, "reply") <= asked[g]
               /\ Count(g, "loadText") + Owed(g, "replyText") <= Count(g, "load")
    <3>1. /\ Owed(g, "reply") = 0 /\ Owed(g, "replyText") = 0 /\ toRead[g] = 0 /\ asked[g] = 0
      BY DEF Init, Owed
    <3> QED  BY <3>1, InitialFrames
  <2> QED  BY <2>1 DEF RequestsCounted
<1> QED  BY <1>1, <1>3, <1>4, <1>5, InitialFrames DEF Invariant

(* Every step keeps the invariant.                                         *)
LEMMA InvariantStep ==
  ASSUME Invariant, [Next]_vars
  PROVE  Invariant'
<1>1. OrderKept'
  <2>1. CASE WriterWrite
    BY <2>1, WriteOrder
  <2>2. CASE ~WriterWrite
    BY <2>2, StepKinds, QuietOrder
       DEF Invariant, Quiet, WriterReceive, WriterCheck, netVars
  <2> QED  BY <2>1, <2>2
<1> QED  BY <1>1, TypesStep, LineStep, ConnectionStep, RequestsStep DEF Invariant

(* The invariant of the client holds for any numbers of collectors,        *)
(* connections, messages and requests.                                     *)
THEOREM InvariantHolds == Spec => []Invariant
<1>1. Init => Invariant
  BY InvariantInit
<1>2. Invariant /\ [Next]_vars => Invariant'
  BY InvariantStep
<1> QED  BY <1>1, <1>2, PTL DEF Spec

(* Type correctness of the client's goroutines; sendB never holds more     *)
(* than its capacity.                                                      *)
THEOREM TypesHold == Spec => []TypeOK
<1>1. Invariant => TypeOK
  BY DEF Invariant
<1> QED  BY InvariantHolds, <1>1, PTL

(* The messages of a collector reach the server in the order they were     *)
(* made, none twice, over all connections (MessageWriter, Reconnect).      *)
THEOREM OrderIsKept == Spec => []OrderKept
<1>1. Invariant => OrderKept
  BY DEF Invariant
<1> QED  BY InvariantHolds, <1>1, PTL

(* A reply answers a request of its own connection (Listen).               *)
THEOREM RepliesMatch == Spec => []RepliesMatchRequests
<1>1. ASSUME Invariant PROVE RepliesMatchRequests
  <2> SUFFICES ASSUME NEW g \in Dials
               PROVE  Count(g, "loadText") <= Count(g, "load") /\ Count(g, "load") <= asked[g]
    BY DEF RepliesMatchRequests
  <2>1. Count(g, "load") \in Nat /\ Count(g, "loadText") \in Nat
    BY <1>1, CountType DEF Invariant
  <2>2. toRead[g] \in Nat /\ asked[g] \in Nat
    BY <1>1, AgentAssumption DEF Invariant, TypeOK
  <2>3. Owed(g, "reply") \in {0, 1} /\ Owed(g, "replyText") \in {0, 1}
    BY DEF Owed
  <2> QED  BY <1>1, <2>1, <2>2, <2>3 DEF Invariant, RequestsCounted
<1>2. Invariant => RepliesMatchRequests
  BY <1>1
<1> QED  BY InvariantHolds, <1>2, PTL

-----------------------------------------------------------------------------
(* The client implements the pipe of each collector. *)

(* The numbers that wait are numbers of the collector's messages.          *)
LEMMA WaitingNumbers ==
  ASSUME Invariant, NEW k \in Collectors
  PROVE  Waiting(k) \subseteq 1..made[k] /\ made[k] \in Nat
<1>1. made[k] \in Nat
  BY AgentAssumption DEF Invariant, TypeOK
<1>2. ASSUME NEW x \in InHand \cup Queued, x.from = k PROVE x.n \in 1..made[k]
  BY <1>1, <1>2 DEF Invariant, Numbered, Messages
<1>3. ASSUME NEW x \in Unsent, x.from = k PROVE x.n \in 1..made[k]
  BY <1>1, <1>3 DEF Invariant, Numbered, Unsent
<1> QED  BY <1>1, <1>2, <1>3 DEF Waiting, Of

(* Whatever else a step does, a pipe whose messages stay is at most cut or *)
(* joined again.                                                           *)
LEMMA PipeStays ==
  ASSUME made' = made,
         \A k \in Collectors : Waiting(k)' = Waiting(k) /\ Arrived(k)' = Arrived(k)
  PROVE  P!Next
  BY DEF P!Next, P!Cut

(* The step of MessageWriter that drops its message: the client is not     *)
(* connected, or the connection is lost.                                   *)
LEMMA PipeLoses ==
  ASSUME Invariant, NEW m \in Messages, InHand = {m}, InHand' = {},
         UNCHANGED <<sendB, cpc, made>>, Written' = Written, ~(connected' /\ Up(ws)')
  PROVE  P!Next
<1> DEFINE k == m.from
<1>1. k \in Collectors /\ m.n \in Nat
  BY DEF Messages
<1>2. /\ Queued' = Queued /\ Unsent' = Unsent
  BY DEF Queued, Unsent
<1>3. \A x \in Queued \cup Unsent : x.from = k => x.n # m.n
  <2>1. \A x \in Queued \cup Unsent : x.from = k => m.n < x.n
    BY DEF Invariant, InLine, Before
  <2> QED  BY <1>1, <2>1
<1>4. /\ \A c \in Collectors : Arrived(c)' = Arrived(c)
      /\ \A c \in Collectors : c # k => Waiting(c)' = Waiting(c)
      /\ m.n \in Waiting(k) /\ Waiting(k)' = Waiting(k) \ {m.n}
  BY <1>1, <1>2, <1>3 DEF Arrived, Waiting, Of
<1>5. [c \in Collectors |-> Waiting(c)']
        = [[c \in Collectors |-> Waiting(c)] EXCEPT ![k] = @ \ {m.n}]
  BY <1>1, <1>4
<1>6. P!Neighbours({m.n}, Waiting(k))
  BY <1>1, <1>4, WaitingNumbers DEF P!Neighbours
<1> DEFINE opened == [c \in Collectors |-> connected' /\ Up(ws)']
<1>7. opened \in [Collectors -> BOOLEAN] /\ ~opened[k]
  BY <1>1
<1>8. [c \in Collectors |-> Arrived(c)'] = [c \in Collectors |-> Arrived(c)]
  BY <1>4
<1> HIDE DEF k
<1>9. P!Lose(k)
  <2>1. {m.n} \in SUBSET [c \in Collectors |-> Waiting(c)][k]
    BY <1>1, <1>4
  <2>2. P!Neighbours({m.n}, [c \in Collectors |-> Waiting(c)][k])
    BY <1>1, <1>6
  <2> QED  BY <1>5, <1>7, <1>8, <2>1, <2>2 DEF P!Lose
<1> QED  BY <1>1, <1>9 DEF P!Next

(* Every step of the client is one of the pipes, or leaves them alone.     *)
LEMMA PipeStep ==
  ASSUME Invariant, [Next]_vars
  PROVE  P!Next
<1>0. TypeOK
  BY DEF Invariant
<1>1. CASE Quiet
  BY <1>0, <1>1, QuietStays, PipeStays DEF Quiet, Waiting, Arrived, Of
<1>2. CASE WriterReceive /\ UNCHANGED collectorVars
  <2>1. /\ Written' = Written /\ Unsent' = Unsent
        /\ InHand = {} /\ InHand' = {Head(sendB)}
        /\ sendB # <<>> /\ sendB' = Tail(sendB) /\ made' = made
    BY <1>2 DEF WriterReceive, Written, DataFrames, netVars, Unsent, collectorVars, InHand
  <2>2. InHand' \cup Queued' = InHand \cup Queued
    BY <1>0, <2>1, QueueHead
  <2> QED  BY <2>1, <2>2, PipeStays DEF Waiting, Arrived
<1>3. CASE WriterCheck /\ UNCHANGED collectorVars /\ UNCHANGED listenVars
  <2>1. /\ Written' = Written /\ Unsent' = Unsent /\ Queued' = Queued
        /\ UNCHANGED <<sendB, cpc, made>>
    BY <1>3 DEF WriterCheck, Written, DataFrames, netVars, Unsent, collectorVars, Queued
  <2>2. CASE connected
    <3>1. InHand' = InHand
      BY <1>3, <2>2 DEF WriterCheck, InHand
    <3> QED  BY <2>1, <3>1, PipeStays DEF Waiting, Arrived
  <2>3. CASE ~connected
    <3>1. InHand' = {} /\ wpc = "check"
      BY <1>3, <2>3 DEF WriterCheck, InHand
    <3>2. hand \in Messages /\ InHand = {hand}
      BY <3>1, HandMessage
    <3>3. ~connected'
      BY <1>3, <2>3 DEF listenVars
    <3> QED  BY <2>1, <3>1, <3>2, <3>3, PipeLoses
  <2> QED  BY <2>2, <2>3
<1>4. CASE WriterWrite /\ UNCHANGED collectorVars /\ UNCHANGED listenVars
  <2>0. /\ hand \in Messages /\ InHand = {hand} /\ Put(Data(hand))
        /\ Written' = Written \cup (IF Up(ws) THEN {hand} ELSE {})
    BY <1>0, <1>4, HandMessage, PutData DEF WriterWrite, Write, Messages
  <2> PICK m \in Messages : m = hand
    BY <2>0
  <2> PICK k \in Collectors : k = m.from
    BY DEF Messages
  <2>1. /\ InHand = {m} /\ m.n \in Nat
        /\ Written' = Written \cup (IF Up(ws) THEN {m} ELSE {})
    BY <2>0 DEF Messages
  <2>2. /\ Unsent' = Unsent /\ Queued' = Queued /\ InHand' = {}
        /\ UNCHANGED <<sendB, cpc, made>>
        /\ Up(ws)' = Up(ws) /\ connected' = connected
    BY <1>4 DEF WriterWrite, Write, Unsent, collectorVars, listenVars, InHand, Queued, Up
  <2>3. CASE ~Up(ws)
    BY <2>1, <2>2, <2>3, PipeLoses
  <2>4. CASE Up(ws)
    <3>1. \A x \in Queued \cup Unsent : x.from = k => m.n < x.n
      BY <2>1 DEF Invariant, InLine, Before
    <3>2. \A x \in Queued \cup Unsent : x.from = k => x.n # m.n
      BY <2>1, <3>1
    <3>3. /\ \A c \in Collectors : c # k => Waiting(c)' = Waiting(c)
          /\ m.n \in Waiting(k) /\ Waiting(k)' = Waiting(k) \ {m.n}
      BY <2>1, <2>2, <3>2 DEF Waiting, Of
    <3>4. /\ \A c \in Collectors : c # k => Arrived(c)' = Arrived(c)
          /\ Arrived(k)' = Arrived(k) \cup {m.n}
      BY <2>1, <2>4 DEF Arrived, Of
    <3>5. \A n \in Waiting(k) : m.n <= n
      <4>1. \A n \in Waiting(k) : n = m.n \/ \E x \in Queued \cup Unsent : x.from = k /\ n = x.n
        BY <2>1 DEF Waiting, Of
      <4>2. \A n \in Waiting(k) : n \in Nat
        BY WaitingNumbers
      <4> QED  BY <2>1, <3>1, <4>1, <4>2
    <3>6. /\ [c \in Collectors |-> Waiting(c)']
               = [[c \in Collectors |-> Waiting(c)] EXCEPT ![k] = @ \ {m.n}]
          /\ [c \in Collectors |-> Arrived(c)']
               = [[c \in Collectors |-> Arrived(c)] EXCEPT ![k] = @ \cup {m.n}]
      BY <3>3, <3>4
    <3>7. /\ m.n \in [c \in Collectors |-> Waiting(c)][k]
          /\ \A n \in [c \in Collectors |-> Waiting(c)][k] : m.n <= n
      BY <3>3, <3>5
    <3>8. made' = made /\ [c \in Collectors |-> connected /\ Up(ws)]'
                         = [c \in Collectors |-> connected /\ Up(ws)]
      BY <2>2
    <3>9. P!Deliver(k)
      BY <3>6, <3>7, <3>8 DEF P!Deliver
    <3> QED  BY <3>9 DEF P!Next
  <2> QED  BY <2>3, <2>4
<1>5. ASSUME NEW k \in Collectors, Tick(k), UNCHANGED <<netVars, writerVars>>,
             UNCHANGED <<ws, listenVars>>
      PROVE  P!Next
  <2> DEFINE m == [from |-> k, n |-> made[k] + 1]
  <2>1. /\ Written' = Written /\ InHand' = InHand /\ Queued' = Queued
        /\ made' = [made EXCEPT ![k] = made[k] + 1]
        /\ cpc' = [cpc EXCEPT ![k] = "send"] /\ cpc[k] = "tick"
        /\ Up(ws)' = Up(ws) /\ connected' = connected
    BY <1>5 DEF Tick, Written, DataFrames, netVars, writerVars, listenVars, InHand, Queued, Up
  <2>2. /\ made \in [Collectors -> 0..MaxMsgs]
        /\ cpc \in [Collectors -> {"tick", "send", "end"}]
    BY <1>0 DEF TypeOK
  <2>3. Unsent' = Unsent \cup {m}
    BY <2>1, <2>2 DEF Unsent
  <2>6. m.from = k /\ m.n = made[k] + 1
    OBVIOUS
  <2> HIDE DEF m
  <2>7. \A c \in Collectors : Arrived(c)' = Arrived(c)
    BY <2>1 DEF Arrived, Of
  <2>8. \A c \in Collectors : c # k => Waiting(c)' = Waiting(c)
    BY <2>1, <2>3, <2>6 DEF Waiting, Of
  <2>9. Waiting(k)' = Waiting(k) \cup {made[k] + 1}
    BY <2>1, <2>3, <2>6 DEF Waiting, Of
  <2>4. /\ \A c \in Collectors : Arrived(c)' = Arrived(c)
        /\ \A c \in Collectors : c # k => Waiting(c)' = Waiting(c)
        /\ Waiting(k)' = Waiting(k) \cup {made[k] + 1}
    BY <2>7, <2>8, <2>9
  <2>5. [c \in Collectors |-> Waiting(c)']
          = [[c \in Collectors |-> Waiting(c)] EXCEPT ![k] = @ \cup {made[k] + 1}]
    BY <2>4
  <2> QED  BY <2>1, <2>4, <2>5 DEF P!Next, P!Accept
<1>6. ASSUME NEW k \in Collectors, Send(k), UNCHANGED <<netVars, writerVars>>
      PROVE  P!Next
  <2> DEFINE m == [from |-> k, n |-> made[k]]
  <2>1. /\ Written' = Written /\ InHand' = InHand /\ sendB' = Append(sendB, m)
        /\ made' = made /\ cpc[k] = "send" /\ cpc' = [cpc EXCEPT ![k] = "tick"]
    BY <1>6 DEF Send, Written, DataFrames, netVars, writerVars, InHand
  <2>2. cpc \in [Collectors -> {"tick", "send", "end"}]
    BY <1>0 DEF TypeOK
  <2>3. m \in Messages /\ m \in Unsent
    BY <2>1, Pending
  <2>4. Unsent = Unsent' \cup {m}
    BY <2>1, <2>2 DEF Unsent
  <2> HIDE DEF m
  <2>5. Queued' = Queued \cup {m}
    BY <1>0, <2>1, <2>3, QueueLast
  <2>6. InHand' \cup Queued' \cup Unsent' = InHand \cup Queued \cup Unsent
    BY <2>1, <2>4, <2>5
  <2> QED  BY <2>1, <2>6, PipeStays DEF Waiting, Arrived
<1>7. ASSUME NEW k \in Collectors, Finish(k), UNCHANGED <<netVars, writerVars>>
      PROVE  P!Next
  <2>1. /\ Written' = Written /\ InHand' = InHand /\ Queued' = Queued /\ made' = made
        /\ \A c \in Collectors : cpc'[c] = "send" <=> cpc[c] = "send"
    BY <1>0, <1>7 DEF Finish, Written, DataFrames, netVars, writerVars, InHand, Queued, TypeOK
  <2>2. Unsent' = Unsent
    BY <2>1 DEF Unsent
  <2> QED  BY <2>1, <2>2, PipeStays DEF Waiting, Arrived
<1> QED
  BY <1>1, <1>2, <1>3, <1>4, <1>5, <1>6, <1>7, StepKinds

(* Each collector has a pipe to the server (MessageWriter, Reconnect): for *)
(* any numbers, Spec implements Pipe.                                      *)
THEOREM PipeIsImplemented == Spec => ImplementsPipe
<1>1. Init => P!Init
  <2> SUFFICES ASSUME Init PROVE P!Init
    OBVIOUS
  <2>1. \A k \in Collectors : Waiting(k) = {} /\ Arrived(k) = {}
    BY InitialFrames DEF Waiting, Arrived, Of
  <2>2. /\ [k \in Collectors |-> Waiting(k)] = [k \in Collectors |-> {}]
        /\ [k \in Collectors |-> Arrived(k)] = [k \in Collectors |-> {}]
    BY <2>1
  <2>3. made = [k \in Collectors |-> 0]
    BY DEF Init
  <2> QED  BY <2>2, <2>3 DEF P!Init
<1>2. Invariant /\ [Next]_vars => [P!Next]_(P!vars)
  BY PipeStep
<1> QED  BY <1>1, <1>2, InvariantHolds, PTL DEF Spec, ImplementsPipe, P!Spec

-----------------------------------------------------------------------------
(* The first connection, as long as nothing disturbs it. *)

(* Nothing leaves a pipe that is open at both ends of a step but at its    *)
(* end (MessageWriter).                                                    *)
LEMMA NothingLost ==
  ASSUME Invariant, [Next]_vars, (connected /\ Up(ws))',
         NEW k \in Collectors, 1..made[k] \subseteq Waiting(k) \cup Arrived(k)
  PROVE  1..made'[k] \subseteq Waiting(k)' \cup Arrived(k)'
<1> DEFINE inside == [c \in Collectors |-> Waiting(c)]
           arrived == [c \in Collectors |-> Arrived(c)]
<1>0. made \in [Collectors -> 0..MaxMsgs] /\ MaxMsgs \in Nat
  BY AgentAssumption DEF Invariant, TypeOK
<1>1. /\ inside[k] = Waiting(k) /\ arrived[k] = Arrived(k)
      /\ [c \in Collectors |-> Waiting(c)'][k] = Waiting(k)'
      /\ [c \in Collectors |-> Arrived(c)'][k] = Arrived(k)'
  OBVIOUS
<1>2. CASE P!Cut
  BY <1>1, <1>2 DEF P!Cut
<1>3. ASSUME NEW c \in Collectors, P!Accept(c)
      PROVE  1..made'[k] \subseteq Waiting(k)' \cup Arrived(k)'
  <2>1. /\ made' = [made EXCEPT ![c] = @ + 1] /\ Arrived(k)' = Arrived(k)
        /\ [d \in Collectors |-> Waiting(d)'] = [inside EXCEPT ![c] = @ \cup {made[c] + 1}]
    BY <1>1, <1>3 DEF P!Accept
  <2>2. Waiting(k)' = IF k = c THEN Waiting(k) \cup {made[k] + 1} ELSE Waiting(k)
    BY <1>1, <2>1
  <2> QED  BY <1>0, <2>1, <2>2
<1>4. ASSUME NEW c \in Collectors, P!Deliver(c)
      PROVE  1..made'[k] \subseteq Waiting(k)' \cup Arrived(k)'
  <2>1. PICK n \in inside[c] :
          /\ [d \in Collectors |-> Arrived(d)'] = [arrived EXCEPT ![c] = @ \cup {n}]
          /\ [d \in Collectors |-> Waiting(d)'] = [inside EXCEPT ![c] = @ \ {n}]
          /\ made' = made
    BY <1>4 DEF P!Deliver
  <2>2. /\ Arrived(k)' = IF k = c THEN Arrived(k) \cup {n} ELSE Arrived(k)
        /\ Waiting(k)' = IF k = c THEN Waiting(k) \ {n} ELSE Waiting(k)
    BY <1>1, <2>1
  <2> QED  BY <2>1, <2>2
<1>5. ASSUME NEW c \in Collectors, P!Lose(c)
      PROVE  FALSE
  <2>1. ~[d \in Collectors |-> (connected /\ Up(ws))'][c]
    BY <1>5 DEF P!Lose
  <2> QED  BY <2>1
<1> QED  BY <1>2, <1>3, <1>4, <1>5, PipeStep DEF P!Next

(* As long as the first connection holds Listen stays in its loop and the  *)
(* client connected (Listen, Reconnect).                                   *)
LEMMA LoopStays ==
  ASSUME Invariant, [Next]_vars, ~Disturbed'
  PROVE  /\ ~Disturbed
         /\ (connected /\ lpc \in {"read", "reply", "replyText"}) =>
               /\ connected' /\ lpc' \in {"read", "reply", "replyText"}
               /\ Up(ws)'
<1>0. /\ dials \in Dials /\ Dials \subseteq Nat \ {0} /\ 1 \in Dials /\ ws \in 0..dials
      /\ link \in [Dials -> BOOLEAN] /\ alive \in BOOLEAN /\ connected \in BOOLEAN
      /\ (lpc \notin {"dial", "returned"} => ws = dials)
  BY AgentAssumption DEF Invariant, TypeOK, Dials, LastConnection
<1>1. /\ dials' \in Dials /\ (lpc' \notin {"dial", "returned"} => ws' = dials')
      /\ link' \in [Dials -> BOOLEAN] /\ alive' \in BOOLEAN
  BY InvariantStep DEF Invariant, TypeOK, Dials, LastConnection
<1>2. dials' = 1 /\ link'[1] /\ alive'
  BY <1>0, <1>1 DEF Disturbed
<1> DEFINE Goal == /\ dials = 1 /\ link[1] /\ alive
                   /\ connected /\ lpc \in {"read", "reply", "replyText"} =>
                        connected' /\ lpc' \in {"read", "reply", "replyText"}
<1> SUFFICES Goal
  <2>1. Goal => ~Disturbed
    BY DEF Disturbed
  <2>2. lpc' \in {"read", "reply", "replyText"} => Up(ws)'
    BY <1>1, <1>2 DEF Up
  <2> QED  BY <2>1, <2>2
<1>3. CASE ListenStep
  <2>1. CASE Dial
    BY <1>0, <1>2, <2>1 DEF Dial
  <2>2. CASE ListenRead
    BY <1>0, <1>2, <1>3, <2>2 DEF ListenStep, ListenRead, processVars
  <2>5. CASE ListenReadFails
    BY <1>0, <1>2, <1>3, <2>5 DEF ListenStep, ListenReadFails, Up, netVars, processVars
  <2>3. CASE LoadAvgFails \/ Reply \/ ReplyFails \/ ReplyAgainAsText
    BY <1>0, <1>2, <1>3, <2>3
    DEF ListenStep, LoadAvgFails, Reply, ReplyFails, ReplyAgainAsText, Up, Write, netVars,
        processVars
  <2>4. CASE DialFails \/ DialTimeout \/ SendId \/ HandshakeFails \/ HandshakeDone
    BY <1>0, <1>2, <1>3, <2>4
    DEF ListenStep, DialFails, DialTimeout, SendId, HandshakeFails, HandshakeDone,
        ConnectFalse, Write, netVars, processVars
  <2> QED
    BY <1>3, <2>1, <2>2, <2>3, <2>4, <2>5 DEF ListenStep
<1>4. CASE WriterStep
  BY <1>0, <1>2, <1>4
  DEF WriterStep, WriterReceive, WriterCheck, WriterWrite, WriterPanics, Write, End,
      listenVars, netVars, processVars
<1>5. CASE ProcessStep
  <2>1. CASE Signal /\ UNCHANGED listenVars
    BY <1>2, <2>1 DEF Signal, listenVars, netVars
  <2>2. CASE SignalExits \/ ProcessEnds
    BY <1>2, <2>2
    DEF SignalExits, ProcessEnds, SignalClose, SignalPanics, MainReturns, End
  <2> QED  BY <1>5, <2>1, <2>2 DEF ProcessStep
<1>6. CASE \E k \in Collectors : CollectorStep(k)
  BY <1>0, <1>2, <1>6 DEF CollectorStep, listenVars, netVars, processVars
<1>7. CASE LoseLink \/ ServerAnswers \/ ServerAsks
  <2>1. UNCHANGED <<dials, connected, lpc, alive>>
    BY <1>7 DEF LoseLink, ServerAnswers, ServerAsks, listenVars, processVars
  <2>2. link'[1] => link[1]
    BY <1>0, <1>7 DEF LoseLink, ServerAnswers, ServerAsks, Up
  <2> QED  BY <1>2, <2>1, <2>2
<1>8. CASE Ended \/ UNCHANGED vars
  <2>1. UNCHANGED <<dials, link, alive, connected, lpc>>
    BY <1>8 DEF Ended, vars, netVars, listenVars, processVars
  <2> QED  BY <1>0, <1>2, <2>1
<1> HIDE DEF Goal
<1> QED  BY <1>3, <1>4, <1>5, <1>6, <1>7, <1>8 DEF Next, Running
=============================================================================
