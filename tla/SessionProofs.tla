---------------------------- MODULE SessionProofs ----------------------------
(***************************************************************************)
(* Theorems about the server's sessions, for any number of connections and *)
(* messages, any capacity of pointsCh, either output.  Invariant (in       *)
(* Session) is inductive; it falls into types, the states the goroutines   *)
(* can be in together, and the line in which the messages stand.           *)
(***************************************************************************)
EXTENDS Session, TLAPS

-----------------------------------------------------------------------------
(* Queues of frames and of points. *)

(* A point at the end of a queue is above those before it.                 *)
LEMMA QueueAppend ==
  ASSUME NEW T, NEW q \in Seq(T), NEW x \in T
  PROVE  /\ {Append(q, x)[i] : i \in DOMAIN Append(q, x)} = {q[i] : i \in DOMAIN q} \cup {x}
         /\ Sorted(q) /\ Before({q[i] : i \in DOMAIN q}, {x}) => Sorted(Append(q, x))
<1> DEFINE r == Append(q, x)
<1>1. /\ DOMAIN q = 1..Len(q) /\ Len(q) \in Nat
      /\ DOMAIN r = 1..(Len(q) + 1) /\ r[Len(q) + 1] = x
      /\ \A i \in DOMAIN q : r[i] = q[i]
  OBVIOUS
<1> HIDE DEF r
<1>2. {r[i] : i \in DOMAIN r} = {q[i] : i \in DOMAIN q} \cup {x}
  <2>1. ASSUME NEW i \in DOMAIN r PROVE r[i] \in {q[j] : j \in DOMAIN q} \cup {x}
    <3>1. i = Len(q) + 1 \/ i \in DOMAIN q
      BY <1>1
    <3> QED  BY <1>1, <3>1
  <2>2. ASSUME NEW i \in DOMAIN q PROVE q[i] \in {r[j] : j \in DOMAIN r}
    BY <1>1
  <2>3. x \in {r[j] : j \in DOMAIN r}
    BY <1>1
  <2> QED  BY <2>1, <2>2, <2>3
<1>3. ASSUME Sorted(q), Before({q[i] : i \in DOMAIN q}, {x}),
             NEW i \in DOMAIN r, NEW j \in DOMAIN r, i < j
      PROVE  Before({r[i]}, {r[j]})
  <2>1. i \in DOMAIN q /\ r[i] = q[i]
    BY <1>1, <1>3
  <2>2. j \in DOMAIN q \/ j = Len(q) + 1
    BY <1>1
  <2> QED  BY <1>1, <1>3, <2>1, <2>2 DEF Before, Sorted
<1> QED  BY <1>2, <1>3 DEF r, Sorted

(* The point at the head of a queue is below those behind it.              *)
LEMMA QueueTail ==
  ASSUME NEW T, NEW q \in Seq(T), q # <<>>
  PROVE  /\ Head(q) \in T /\ Tail(q) \in Seq(T)
         /\ {q[i] : i \in DOMAIN q} = {Head(q)} \cup {Tail(q)[i] : i \in DOMAIN Tail(q)}
         /\ Sorted(q) => /\ Before({Head(q)}, {Tail(q)[i] : i \in DOMAIN Tail(q)})
                         /\ Sorted(Tail(q))
<1> DEFINE r == Tail(q)
           h == Head(q)
<1>1. /\ DOMAIN q = 1..Len(q) /\ Len(q) \in Nat \ {0}
      /\ DOMAIN r = 1..(Len(q) - 1) /\ h = q[1] /\ h \in T /\ r \in Seq(T)
      /\ \A i \in DOMAIN r : r[i] = q[i + 1] /\ i + 1 \in DOMAIN q
  OBVIOUS
<1> HIDE DEF r, h
<1>2. {q[i] : i \in DOMAIN q} = {h} \cup {r[i] : i \in DOMAIN r}
  <2>1. ASSUME NEW i \in DOMAIN q PROVE q[i] \in {h} \cup {r[j] : j \in DOMAIN r}
    <3>1. i = 1 \/ (i - 1 \in DOMAIN r /\ r[i - 1] = q[i])
      BY <1>1
    <3> QED  BY <1>1, <3>1
  <2>2. ASSUME NEW i \in DOMAIN r PROVE r[i] \in {q[j] : j \in DOMAIN q}
    BY <1>1
  <2>3. h \in {q[j] : j \in DOMAIN q}
    BY <1>1
  <2> QED  BY <2>1, <2>2, <2>3
<1>3. ASSUME Sorted(q)
      PROVE  Before({h}, {r[i] : i \in DOMAIN r}) /\ Sorted(r)
  <2>1. ASSUME NEW i \in DOMAIN r PROVE Before({h}, {r[i]})
    <3>1. 1 \in DOMAIN q /\ 1 < i + 1
      BY <1>1
    <3> QED  BY <1>1, <1>3, <3>1 DEF Sorted
  <2>2. ASSUME NEW i \in DOMAIN r, NEW j \in DOMAIN r, i < j PROVE Before({r[i]}, {r[j]})
    <3>1. i + 1 < j + 1
      BY <1>1, <2>2
    <3> QED  BY <1>1, <1>3, <3>1 DEF Sorted
  <2> QED  BY <2>1, <2>2 DEF Before, Sorted
<1> QED  BY <1>1, <1>2, <1>3 DEF r, h

Frames == DataFrames \cup {Ignored}

(* A frame of data has a number.                                           *)
LEMMA FrameNumber ==
  ASSUME NEW f \in Frames \cup {None}, IsData(f)
  PROVE  f \in DataFrames /\ f.n \in 1..MaxData /\ f.n \in Nat
BY SessionAssumption DEF IsData, Frames, DataFrames

(* A frame that the client sends is the last one on its way.               *)
LEMMA FramesAppend ==
  ASSUME NEW q \in Seq(Frames), NEW f \in Frames
  PROVE  /\ Append(q, f) \in Seq(Frames)
         /\ Numbers(Append(q, f)) = Numbers(q) \cup (IF IsData(f) THEN {f.n} ELSE {})
         /\ Rising(q) /\ (IsData(f) => \A n \in Numbers(q) : n < f.n) => Rising(Append(q, f))
<1> DEFINE r == Append(q, f)
<1>1. /\ DOMAIN q = 1..Len(q) /\ Len(q) \in Nat /\ r \in Seq(Frames)
      /\ DOMAIN r = 1..(Len(q) + 1) /\ r[Len(q) + 1] = f
      /\ \A i \in DOMAIN q : r[i] = q[i]
  OBVIOUS
<1> HIDE DEF r
<1>2. Numbers(r) = Numbers(q) \cup (IF IsData(f) THEN {f.n} ELSE {})
  <2>1. ASSUME NEW i \in DOMAIN r, IsData(r[i])
        PROVE  r[i].n \in Numbers(q) \cup (IF IsData(f) THEN {f.n} ELSE {})
    <3>1. i = Len(q) + 1 \/ i \in DOMAIN q
      BY <1>1
    <3> QED  BY <1>1, <2>1, <3>1 DEF Numbers
  <2>2. ASSUME NEW i \in DOMAIN q, IsData(q[i]) PROVE q[i].n \in Numbers(r)
    BY <1>1, <2>2 DEF Numbers
  <2>3. IsData(f) => f.n \in Numbers(r)
    BY <1>1 DEF Numbers
  <2> QED  BY <2>1, <2>2, <2>3 DEF Numbers
<1>3. ASSUME Rising(q), IsData(f) => \A n \in Numbers(q) : n < f.n,
             NEW i \in DOMAIN r, NEW j \in DOMAIN r, i < j, IsData(r[i]), IsData(r[j])
      PROVE  r[i].n < r[j].n
  <2>1. i \in DOMAIN q /\ r[i] = q[i]
    BY <1>1, <1>3
  <2>2. CASE j \in DOMAIN q
    BY <1>1, <1>3, <2>1, <2>2 DEF Rising
  <2>3. CASE j = Len(q) + 1
    <3>1. q[i].n \in Numbers(q)
      BY <1>3, <2>1 DEF Numbers
    <3> QED  BY <1>1, <1>3, <2>1, <2>3, <3>1
  <2> QED  BY <1>1, <2>2, <2>3
<1> QED  BY <1>1, <1>2, <1>3 DEF r, Rising

(* The frame that Listen reads is the first of them.                       *)
LEMMA FramesTail ==
  ASSUME NEW q \in Seq(Frames), q # <<>>
  PROVE  /\ Head(q) \in Frames /\ Tail(q) \in Seq(Frames)
         /\ Numbers(q) = (IF IsData(Head(q)) THEN {Head(q).n} ELSE {}) \cup Numbers(Tail(q))
         /\ Rising(q) => /\ Rising(Tail(q))
                         /\ IsData(Head(q)) => \A n \in Numbers(Tail(q)) : Head(q).n < n
<1> DEFINE r == Tail(q)
           h == Head(q)
<1>1. /\ DOMAIN q = 1..Len(q) /\ Len(q) \in Nat \ {0}
      /\ DOMAIN r = 1..(Len(q) - 1) /\ h = q[1] /\ h \in Frames /\ r \in Seq(Frames)
      /\ \A i \in DOMAIN r : r[i] = q[i + 1] /\ i + 1 \in DOMAIN q
  OBVIOUS
<1> HIDE DEF r, h
<1>2. Numbers(q) = (IF IsData(h) THEN {h.n} ELSE {}) \cup Numbers(r)
  <2>1. ASSUME NEW i \in DOMAIN q, IsData(q[i])
        PROVE  q[i].n \in (IF IsData(h) THEN {h.n} ELSE {}) \cup Numbers(r)
    <3>1. i = 1 \/ (i - 1 \in DOMAIN r /\ r[i - 1] = q[i])
      BY <1>1
    <3> QED  BY <1>1, <2>1, <3>1 DEF Numbers
  <2>2. ASSUME NEW i \in DOMAIN r, IsData(r[i]) PROVE r[i].n \in Numbers(q)
    BY <1>1, <2>2 DEF Numbers
  <2>3. IsData(h) => h.n \in Numbers(q)
    BY <1>1 DEF Numbers
  <2> QED  BY <2>1, <2>2, <2>3 DEF Numbers
<1>3. ASSUME Rising(q)
      PROVE  Rising(r) /\ (IsData(h) => \A n \in Numbers(r) : h.n < n)
  <2>1. ASSUME NEW i \in DOMAIN r, IsData(h), IsData(r[i]) PROVE h.n < r[i].n
    <3>1. 1 \in DOMAIN q /\ 1 < i + 1
      BY <1>1
    <3> QED  BY <1>1, <1>3, <2>1, <3>1 DEF Rising
  <2>2. ASSUME NEW i \in DOMAIN r, NEW j \in DOMAIN r, i < j, IsData(r[i]), IsData(r[j])
        PROVE  r[i].n < r[j].n
    <3>1. i + 1 < j + 1
      BY <1>1, <2>2
    <3> QED  BY <1>1, <1>3, <2>2, <3>1 DEF Rising
  <2>3. Rising(r)
    BY <2>2 DEF Rising
  <2> QED  BY <2>1, <2>3 DEF Numbers
<1> QED  BY <1>1, <1>2, <1>3 DEF r, h

-----------------------------------------------------------------------------
(* Types. *)

(* What a session has numbered is a point.                                 *)
LEMMA PointType ==
  ASSUME TypeOK, NEW s \in Sessions, IsData(cur[s])
  PROVE  Point(s) \in Points /\ Point(s).from = s /\ Point(s).n = cur[s].n
<1>1. cur[s] \in DataFrames
  BY FrameNumber DEF TypeOK, Frames
<1> QED  BY <1>1 DEF Point, Points, DataFrames

(* Another point at the output.                                            *)
LEMMA SettledType ==
  ASSUME TypeOK, NEW p \in Points, NEW ok \in BOOLEAN,
         NEW ts \in {"time", "nanoseconds", "text"}
  PROVE  /\ Settled(p, ok, ts) \in Seq(Entries)
         /\ \E e \in Entries : e.point = p /\ Settled(p, ok, ts) = Append(settled, e)
<1> DEFINE e == [point |-> p, ok |-> ok, ts |-> ts]
<1>1. e \in Entries /\ e.point = p
  BY DEF Entries
<1> HIDE DEF e
<1>2. Settled(p, ok, ts) = Append(settled, e)
  BY DEF Settled, e
<1> QED  BY <1>1, <1>2 DEF TypeOK

(* The step of one client.                                                 *)
LEMMA ClientTypes ==
  ASSUME TypeOK, NEW s \in Sessions, ClientSends(s) \/ LoseLink(s)
  PROVE  TypeOK'
<1>1. inq[s] \in Seq(Frames) /\ sent[s] \in Nat
  BY SessionAssumption DEF TypeOK, Frames
<1>2. ASSUME NEW kind \in Kinds \ {"ignored"}, SendData(s, kind) PROVE TypeOK'
  <2> DEFINE f == [kind |-> kind, n |-> sent[s] + 1]
  <2>1. sent[s] + 1 \in 1..MaxData /\ sent[s] + 1 \in 0..MaxData
    BY <1>1, <1>2, SessionAssumption DEF SendData
  <2>2. f \in Frames
    BY <2>1, SessionAssumption DEF Frames, DataFrames
  <2> HIDE DEF f
  <2>3. Append(inq[s], f) \in Seq(Frames)
    BY <1>1, <2>2
  <2>4. sent' \in [Sessions -> 0..MaxData]
    <3>1. sent' = [sent EXCEPT ![s] = sent[s] + 1]
      BY <1>2 DEF SendData
    <3> HIDE <1>2
    <3> QED  BY <2>1, <3>1 DEF TypeOK
  <2>5. inq' \in [Sessions -> Seq(DataFrames \cup {Ignored})]
    <3>1. inq' = [inq EXCEPT ![s] = Append(inq[s], f)]
      BY <1>2 DEF SendData, f
    <3> QED  BY <2>3, <3>1 DEF TypeOK, Frames
  <2> QED  BY <1>2, <2>4, <2>5 DEF SendData, TypeOK, flags, listenVars, outputVars
<1>3. CASE SendIgnored(s)
  <2>1. Append(inq[s], Ignored) \in Seq(DataFrames \cup {Ignored})
    BY <1>1 DEF Frames
  <2>2. inq' \in [Sessions -> Seq(DataFrames \cup {Ignored})]
    BY <1>3, <2>1 DEF SendIgnored, TypeOK
  <2> QED  BY <1>3, <2>2 DEF SendIgnored, TypeOK, flags, listenVars, outputVars
<1>4. CASE LoseLink(s)
  BY <1>4 DEF LoseLink, TypeOK, flags, listenVars, outputVars
<1> QED  BY <1>2, <1>3, <1>4 DEF ClientSends

(* The step of a handler, or of a Healthbeat.                              *)
LEMMA HandlerTypes ==
  ASSUME TypeOK, NEW s \in Sessions,
         \/ Accept(s) \/ Reject(s) \/ StartSession(s) \/ EndSession(s)
         \/ BeatPanics(s) \/ Request(s) \/ RequestFails(s) \/ BeatDone(s)
  PROVE  TypeOK'
<1>1. CASE Accept(s) \/ EndSession(s) \/ BeatPanics(s) \/ RequestFails(s) \/ BeatDone(s)
  BY <1>1 DEF Accept, EndSession, BeatPanics, RequestFails, BeatDone, BeatReturns, End, TypeOK,
     flags, clientVars, listenVars, outputVars
<1>2. CASE Reject(s)
  <2>1. <<>> \in Seq(DataFrames \cup {Ignored})
    OBVIOUS
  <2> QED  BY <1>2, <2>1 DEF Reject, TypeOK, flags, listenVars, outputVars
<1>3. CASE StartSession(s)
  <2>1. logger' \in [Sessions -> BOOLEAN] /\ lpc' = [lpc EXCEPT ![s] = "read"]
    BY <1>3 DEF StartSession, HasLogger, TypeOK
  <2>2. beat' \in [Sessions -> {"idle", "start", "select", "returned"}]
    BY <1>3 DEF StartSession, TypeOK
  <2> QED  BY <1>3, <2>1, <2>2 DEF StartSession, TypeOK, flags, clientVars, outputVars
<1>4. CASE Request(s)
  <2>1. (IF missed[s] < Several THEN missed[s] + 1 ELSE missed[s]) \in 0..Several
    BY SessionAssumption DEF TypeOK
  <2>2. missed' \in [Sessions -> 0..Several]
    BY <1>4, <2>1 DEF Request, TypeOK
  <2> QED  BY <1>4, <2>2 DEF Request, TypeOK, flags, clientVars, outputVars
<1> QED  BY <1>1, <1>2, <1>3, <1>4

(* The step of a Listen.                                                   *)
LEMMA ListenTypes ==
  ASSUME TypeOK, OneFrame, NEW s \in Sessions, ListenWork(s) \/ ListenSend(s)
  PROVE  TypeOK'
<1>1. inq[s] \in Seq(Frames)
  BY DEF TypeOK, Frames
<1>2. None \in DataFrames \cup {Ignored, None}
  OBVIOUS
<1>3. CASE ListenRead(s) /\ UNCHANGED <<handler, logger, beat>>
  <2>1. Head(inq[s]) \in Frames /\ Tail(inq[s]) \in Seq(Frames)
    BY <1>1, <1>3, FramesTail DEF ListenRead
  <2>2. cur' \in [Sessions -> DataFrames \cup {Ignored, None}]
    BY <1>3, <2>1 DEF ListenRead, TypeOK, Frames
  <2>3. inq' \in [Sessions -> Seq(DataFrames \cup {Ignored})]
    BY <1>3, <2>1 DEF ListenRead, TypeOK, Frames
  <2>4. missed' \in [Sessions -> 0..Several]
    BY <1>3, SessionAssumption DEF ListenRead, TypeOK
  <2> QED  BY <1>3, <2>2, <2>3, <2>4 DEF ListenRead, TypeOK, flags, outputVars
<1>4. CASE ReadFails(s) /\ UNCHANGED <<handler, logger, beat>>
  <2>1. <<>> \in Seq(DataFrames \cup {Ignored})
    OBVIOUS
  <2> QED  BY <1>4, <2>1 DEF ReadFails, TypeOK, flags, outputVars
<1>5. CASE (Ignore(s) \/ MakePoint(s) \/ ListenPanics(s)) /\ UNCHANGED <<handler, logger, beat>>
  BY <1>2, <1>5 DEF Ignore, MakePoint, ListenPanics, Processed, End, TypeOK,
     flags, clientVars, listenVars, outputVars
<1>6. CASE WriteLine(s) /\ UNCHANGED <<handler, logger, beat>>
  <2>1. IsData(cur[s])
    BY <1>6 DEF WriteLine, OneFrame, IsData
  <2>2. Stamp(cur[s].kind) \in {"time", "nanoseconds", "text"}
    BY DEF Stamp, FormattedTime
  <2>3. settled' \in Seq(Entries)
    BY <1>6, <2>1, <2>2, PointType, SettledType DEF WriteLine
  <2> QED  BY <1>2, <1>6, <2>3 DEF WriteLine, Processed, TypeOK, flags, clientVars
<1>7. CASE ListenSend(s)
  <2>1. IsData(cur[s])
    BY <1>7 DEF ListenSend, SendPoint, OneFrame
  <2>2. pointsCh' = Append(pointsCh, Point(s)) /\ Len(pointsCh) < PointsCap /\ pointsCh \in Seq(Points)
    BY <1>7 DEF ListenSend, SendPoint, TypeOK
  <2>3. pointsCh' \in Seq(Points) /\ Len(pointsCh') <= PointsCap
    <3>1. Len(pointsCh') = Len(pointsCh) + 1 /\ pointsCh' \in Seq(Points)
      BY <2>1, <2>2, PointType
    <3> QED  BY <2>2, <3>1, SessionAssumption
  <2> QED  BY <1>2, <1>7, <2>3 DEF ListenSend, SendPoint, Processed, TypeOK, flags, clientVars
<1> QED  BY <1>3, <1>4, <1>5, <1>6, <1>7 DEF ListenWork

(* While it writes, the writer has one point in hand.                      *)
LEMMA HandPoint ==
  ASSUME TypeOK, OneBatch, writer = "write"
  PROVE  Head(hand) \in Points /\ InHand = {Head(hand)}
<1>1. hand \in Seq(Points) /\ Len(hand) = 1
  BY DEF TypeOK, OneBatch
<1>2. Head(hand) \in Points /\ DOMAIN hand = {1} /\ Head(hand) = hand[1]
  BY <1>1
<1> QED  BY <1>2 DEF InHand

(* The step of the writer.                                                 *)
LEMMA WriterTypes ==
  ASSUME TypeOK, OneBatch, WriterStep
  PROVE  TypeOK'
<1>1. CASE Receive /\ UNCHANGED <<flags, alive, clientVars, handler, logger, listenVars, beat>>
  <2>1. /\ pointsCh \in Seq(Points) /\ pointsCh # <<>> /\ pointsCh' = Tail(pointsCh)
        /\ hand' = <<Head(pointsCh)>> /\ Len(pointsCh) <= PointsCap
    BY <1>1 DEF Receive, TypeOK
  <2>2. hand' \in Seq(Points) /\ pointsCh' \in Seq(Points) /\ Len(pointsCh') <= PointsCap
    <3>1. Len(pointsCh') = Len(pointsCh) - 1 /\ Len(pointsCh) \in Nat /\ pointsCh' \in Seq(Points)
      BY <2>1
    <3>2. hand' \in Seq(Points)
      <4>1. Head(pointsCh) \in Points
        BY <2>1, QueueTail
      <4> QED  BY <2>1, <4>1
    <3> QED  BY <2>1, <3>1, <3>2, SessionAssumption
  <2> QED  BY <1>1, <2>2 DEF Receive, TypeOK, flags, clientVars, listenVars
<1>2. CASE (WriteInflux \/ WriteFails)
           /\ UNCHANGED <<flags, alive, clientVars, handler, logger, listenVars, beat>>
  <2>1. Head(hand) \in Points
    BY <1>2, HandPoint DEF WriteInflux, WriteFails
  <2>2. settled' \in Seq(Entries)
    BY <1>2, <2>1, SettledType DEF WriteInflux, WriteFails
  <2>3. hand' \in Seq(Points)
    <3>1. <<>> \in Seq(Points)
      OBVIOUS
    <3> QED  BY <1>2, <3>1 DEF WriteInflux, WriteFails
  <2> QED  BY <1>2, <2>2, <2>3 DEF WriteInflux, WriteFails, TypeOK, flags, clientVars, listenVars
<1> QED  BY <1>1, <1>2 DEF WriterStep

(* Type correctness is kept, given what the goroutines can be doing.       *)
LEMMA TypesStep ==
  ASSUME TypeOK, OneBatch, OneFrame, [Next]_vars
  PROVE  TypeOK'
<1>1. CASE UNCHANGED vars
  BY <1>1 DEF vars, flags, clientVars, listenVars, outputVars, TypeOK
<1>2. ASSUME NEW s \in Sessions, SessionStep(s) PROVE TypeOK'
  BY <1>2, ClientTypes, HandlerTypes, ListenTypes DEF SessionStep
<1>3. CASE WriterStep
  BY <1>3, WriterTypes
<1>4. CASE ServerEnds
  BY <1>4 DEF ServerEnds, End, TypeOK, flags, listenVars, outputVars
<1> QED  BY <1>1, <1>2, <1>3, <1>4 DEF Next, Running, Ended

-----------------------------------------------------------------------------
(* What the goroutines can be doing together. *)

States == OneBatch /\ OneFrame /\ OneOutput /\ LinkServed

(* A client, a handler or a Healthbeat leaves Listen's frame and the       *)
(* channel alone; a connection is up only from Accept to the end.          *)
LEMMA HandlerStates ==
  ASSUME TypeOK, States, NEW s \in Sessions,
         \/ ClientSends(s) \/ LoseLink(s)
         \/ Accept(s) \/ Reject(s) \/ StartSession(s) \/ EndSession(s)
         \/ BeatPanics(s) \/ Request(s) \/ RequestFails(s) \/ BeatDone(s)
  PROVE  States'
<1>1. CASE ClientSends(s)
  BY <1>1 DEF ClientSends, SendData, SendIgnored, States, OneBatch, OneFrame, OneOutput,
     LinkServed, flags, listenVars, outputVars
<1>2. CASE LoseLink(s) \/ Accept(s) \/ Reject(s) \/ EndSession(s)
  <2>1. LinkServed'
    <3>1. CASE LoseLink(s)
      BY <3>1 DEF LoseLink, States, LinkServed, TypeOK, listenVars
    <3>2. CASE Accept(s)
      BY <3>2 DEF Accept, States, LinkServed, TypeOK, listenVars
    <3>3. CASE Reject(s) \/ EndSession(s)
      BY <3>3 DEF Reject, EndSession, States, LinkServed, TypeOK, listenVars
    <3> QED  BY <1>2, <3>1, <3>2, <3>3
  <2>2. OneBatch' /\ OneFrame' /\ OneOutput'
    BY <1>2 DEF LoseLink, Accept, Reject, EndSession, States, OneBatch, OneFrame, OneOutput, flags,
       listenVars, outputVars
  <2> QED  BY <2>1, <2>2 DEF States
<1>3. CASE StartSession(s)
  <2>1. /\ lpc' = [lpc EXCEPT ![s] = "read"] /\ handler' = [handler EXCEPT ![s] = "wait"]
        /\ UNCHANGED <<output, link, cur, pointsCh, writer, hand>>
        /\ handler[s] = "hello"
    BY <1>3 DEF StartSession, flags, clientVars, outputVars
  <2>2. \A t \in Sessions : logger'[t] => output = "file"
    BY <1>3 DEF StartSession, HasLogger, States, OneOutput, TypeOK
  <2>3. OneFrame' /\ OneBatch' /\ LinkServed'
    BY <2>1 DEF States, OneFrame, OneBatch, LinkServed, TypeOK
  <2>4. OneOutput'
    BY <2>1, <2>2 DEF States, OneOutput, TypeOK
  <2> QED  BY <2>3, <2>4 DEF States
<1>4. CASE BeatPanics(s) \/ Request(s) \/ RequestFails(s) \/ BeatDone(s)
  BY <1>4 DEF BeatPanics, Request, RequestFails, BeatDone, BeatReturns, End, States, OneBatch,
     OneFrame, OneOutput, LinkServed, TypeOK, flags, clientVars, listenVars, outputVars
<1> QED  BY <1>1, <1>2, <1>3, <1>4

(* Listen drops its frame when it is done with it; only a frame of data is *)
(* sent, and to the channel of InfluxDB.                                   *)
LEMMA ListenStates ==
  ASSUME TypeOK, States, NEW s \in Sessions, ListenWork(s) \/ ListenSend(s)
  PROVE  States'
<1>1. CASE ListenRead(s) /\ UNCHANGED <<handler, logger, beat>>
  <2>1. Head(inq[s]) # None
    <3>1. Head(inq[s]) \in Frames
      BY <1>1, FramesTail DEF ListenRead, TypeOK, Frames
    <3> QED  BY <3>1 DEF Frames, DataFrames, Ignored, None
  <2> QED  BY <1>1, <2>1 DEF ListenRead, States, OneBatch, OneFrame, OneOutput, LinkServed,
               TypeOK, flags, outputVars
<1>2. CASE ReadFails(s) /\ UNCHANGED <<handler, logger, beat>>
  BY <1>2 DEF ReadFails, States, OneBatch, OneFrame, OneOutput, LinkServed, TypeOK, flags, outputVars
<1>3. CASE (Ignore(s) \/ WriteLine(s)) /\ UNCHANGED <<handler, logger, beat>>
  <2>0. /\ UNCHANGED <<link, handler, writer, hand>>
        /\ lpc' = [lpc EXCEPT ![s] = "read"] /\ cur' = [cur EXCEPT ![s] = None]
    BY <1>3 DEF Ignore, WriteLine, Processed, clientVars, outputVars
  <2>1. OneBatch' /\ OneFrame' /\ LinkServed'
    <3>1. lpc[s] = "process"
      BY <1>3 DEF Ignore, WriteLine
    <3> HIDE <1>3
    <3>2. LinkServed'
      BY <2>0, <3>1 DEF States, LinkServed, TypeOK
    <3>3. OneFrame'
      BY <2>0 DEF States, OneFrame, TypeOK
    <3> QED  BY <2>0, <3>2, <3>3 DEF States, OneBatch
  <2>2. OneOutput'
    BY <1>3 DEF Ignore, WriteLine, Processed, States, OneOutput, TypeOK, flags, outputVars
  <2> QED  BY <2>1, <2>2 DEF States
<1>4. CASE MakePoint(s) /\ UNCHANGED <<handler, logger, beat>>
  BY <1>4 DEF MakePoint, ToFile, IsData, States, OneBatch, OneFrame, OneOutput, LinkServed,
     TypeOK, flags, clientVars, outputVars
<1>5. CASE ListenPanics(s) /\ UNCHANGED <<handler, logger, beat>>
  BY <1>5 DEF ListenPanics, End, States, OneBatch, OneFrame, OneOutput, LinkServed,
     TypeOK, flags, listenVars, outputVars
<1>6. CASE ListenSend(s)
  BY <1>6 DEF ListenSend, SendPoint, Processed, States, OneBatch, OneFrame, OneOutput, LinkServed,
     TypeOK, flags, clientVars
<1> QED  BY <1>1, <1>2, <1>3, <1>4, <1>5, <1>6 DEF ListenWork

(* Every step keeps what the goroutines can be doing together.             *)
LEMMA StatesStep ==
  ASSUME TypeOK, States, [Next]_vars
  PROVE  States'
<1>1. CASE UNCHANGED vars
  BY <1>1 DEF vars, flags, clientVars, listenVars, outputVars, States, OneBatch, OneFrame,
     OneOutput, LinkServed
<1>2. ASSUME NEW s \in Sessions, SessionStep(s) PROVE States'
  BY <1>2, HandlerStates, ListenStates DEF SessionStep
<1>3. CASE WriterStep
  <2>1. OneBatch'
    <3>1. CASE Receive
      BY <3>1 DEF Receive, OneBatch
    <3>2. CASE WriteInflux \/ WriteFails
      BY <3>2 DEF WriteInflux, WriteFails, OneBatch
    <3> QED  BY <1>3, <3>1, <3>2 DEF WriterStep
  <2>2. OneOutput'
    <3>1. CASE Receive
      BY <1>3, <3>1 DEF Receive, WriterStep, States, OneOutput, flags, listenVars
    <3>2. CASE WriteInflux \/ WriteFails
      BY <1>3, <3>2 DEF WriteInflux, WriteFails, WriterStep, States, OneOutput, flags, listenVars
    <3> QED  BY <1>3, <3>1, <3>2 DEF WriterStep
  <2>3. OneFrame' /\ LinkServed'
    BY <1>3 DEF WriterStep, States, OneFrame, LinkServed, clientVars, listenVars
  <2> QED  BY <2>1, <2>2, <2>3 DEF States
<1>4. CASE ServerEnds
  BY <1>4 DEF ServerEnds, End, States, OneBatch, OneFrame, OneOutput, LinkServed, TypeOK, flags,
     listenVars, outputVars
<1> QED  BY <1>1, <1>2, <1>3, <1>4 DEF Next, Running, Ended

-----------------------------------------------------------------------------
(* The line in which the messages stand. *)

InServer == AtOutput \cup InHand \cup InChannel \cup InListen

ServerLine ==
  /\ Before(AtOutput, InHand \cup InChannel \cup InListen)
  /\ Before(InHand, InChannel \cup InListen)
  /\ Before(InChannel, InListen)
  /\ Sorted([i \in DOMAIN settled |-> settled[i].point]) /\ Sorted(pointsCh)

Open(s) == handler[s] # "closed" /\ ~DoneClosed(s)

(* The points of the server are points.                                    *)
LEMMA InServerType ==
  ASSUME TypeOK
  PROVE  /\ AtOutput \subseteq Points /\ InHand \subseteq Points
         /\ InChannel \subseteq Points /\ InListen \subseteq Points
         /\ \A x \in Points : x.from \in Sessions /\ x.n \in Nat
<1>1. \A s \in Sessions : IsData(cur[s]) => Point(s) \in Points
  BY PointType
<1>2. \A i \in DOMAIN settled : settled[i].point \in Points
  <2>1. settled \in Seq(Entries) /\ \A e \in Entries : e.point \in Points
    BY DEF TypeOK, Entries
  <2> QED  BY <2>1
<1>3. /\ \A i \in DOMAIN hand : hand[i] \in Points
      /\ \A i \in DOMAIN pointsCh : pointsCh[i] \in Points
  BY DEF TypeOK
<1>4. \A x \in Points : x.from \in Sessions /\ x.n \in Nat
  BY SessionAssumption DEF Points
<1> QED  BY <1>1, <1>2, <1>3, <1>4 DEF AtOutput, InHand, InChannel, InListen

(* When Listen takes up frame f, or drops its frame, only its own place    *)
(* changes.                                                                *)
LEMMA ListenPlace ==
  ASSUME TypeOK, NEW s \in Sessions, NEW f, cur' = [cur EXCEPT ![s] = f]
  PROVE  /\ InListen' = {x \in InListen : x.from # s}
                          \cup (IF IsData(f) THEN {[from |-> s, n |-> f.n]} ELSE {})
         /\ \A x \in InListen : x.from = s => IsData(cur[s]) /\ x = Point(s)
         /\ IsData(cur[s]) => Point(s) \in InListen
<1>1. cur'[s] = f /\ \A t \in Sessions : t # s => cur'[t] = cur[t]
  BY DEF TypeOK
<1>2. \A t \in Sessions : Point(t) = [from |-> t, n |-> cur[t].n] /\ Point(t).from = t
  BY DEF Point
<1>3. \A t \in Sessions : Point(t)' = [from |-> t, n |-> cur'[t].n]
  BY DEF Point
<1>4. InListen' = {[from |-> t, n |-> cur'[t].n] : t \in {u \in Sessions : IsData(cur'[u])}}
  BY DEF InListen, Point, IsData
<1>5. InListen = {[from |-> t, n |-> cur[t].n] : t \in {u \in Sessions : IsData(cur[u])}}
  BY DEF InListen, Point
<1>6. /\ \A x \in InListen : x.from = s => IsData(cur[s]) /\ x = Point(s)
      /\ IsData(cur[s]) => Point(s) \in InListen
  BY <1>2, <1>5
<1> DEFINE others == {x \in InListen : x.from # s}
           new == IF IsData(f) THEN {[from |-> s, n |-> f.n]} ELSE {}
<1>7. ASSUME NEW x \in InListen' PROVE x \in others \cup new
  <2>1. PICK t \in Sessions : IsData(cur'[t]) /\ x = [from |-> t, n |-> cur'[t].n]
    BY <1>4
  <2>2. CASE t = s
    BY <1>1, <2>1, <2>2
  <2>3. CASE t # s
    BY <1>1, <1>5, <2>1, <2>3
  <2> QED  BY <2>2, <2>3
<1>8. ASSUME NEW x \in others PROVE x \in InListen'
  <2>1. PICK t \in Sessions : IsData(cur[t]) /\ x = [from |-> t, n |-> cur[t].n] /\ t # s
    BY <1>5
  <2> QED  BY <1>1, <1>4, <2>1
<1>9. ASSUME NEW x \in new PROVE x \in InListen'
  BY <1>1, <1>4
<1> QED  BY <1>6, <1>7, <1>8, <1>9

(* While messages only move on within the server, all is accounted for.    *)
LEMMA MovesOn ==
  ASSUME Accounted, ServerLine', InServer' = InServer, sent' = sent,
         \A s \in Sessions : Incoming(s)' = Incoming(s) /\ Rising(inq'[s])
                              /\ (Open(s)' => Open(s))
  PROVE  Accounted'
<1>1. ASSUME NEW s \in Sessions
      PROVE  /\ (Done(s) \cup Held(s))' = Done(s) \cup Held(s) /\ Known(s)' = Known(s)
  BY DEF Known, Done, Held, Of, InServer
<1>2. ASSUME NEW s \in Sessions, NEW n \in (Done(s) \cup Held(s))', NEW m \in Incoming(s)'
      PROVE  n < m
  BY <1>1, <1>2 DEF Accounted, InLine
<1>3. InLine'
  BY <1>2 DEF ServerLine, InLine
<1> QED  BY <1>1, <1>3 DEF Accounted, Open

(* The client sends its next message.                                      *)
LEMMA Sends ==
  ASSUME Accounted, TypeOK, NEW s \in Sessions, NEW f \in Frames, IsData(f), f.n = sent[s] + 1,
         inq' = [inq EXCEPT ![s] = Append(inq[s], f)], sent' = [sent EXCEPT ![s] = sent[s] + 1],
         Open(s), \A t \in Sessions : Open(t)' => Open(t),
         UNCHANGED <<settled, hand, pointsCh, cur>>
  PROVE  Accounted'
<1>1. sent[s] \in Nat /\ inq[s] \in Seq(Frames)
  BY SessionAssumption DEF TypeOK, Frames
<1>2. /\ AtOutput' = AtOutput /\ InHand' = InHand /\ InChannel' = InChannel
      /\ InListen' = InListen
  BY DEF AtOutput, InHand, InChannel, InListen, Point
<1>3. \A t \in Sessions : Done(t)' = Done(t) /\ Held(t)' = Held(t)
  BY <1>2 DEF Done, Held, Of
<1>4. \A t \in Sessions : t # s => inq'[t] = inq[t] /\ Incoming(t)' = Incoming(t) /\ sent'[t] = sent[t]
  BY DEF Incoming, TypeOK
<1>5. inq'[s] = Append(inq[s], f) /\ sent'[s] = sent[s] + 1
  BY DEF TypeOK
<1>6. Incoming(s)' = Incoming(s) \cup {sent[s] + 1}
  BY <1>1, <1>5, FramesAppend DEF Incoming
<1>7. Known(s) = 1..sent[s]
  BY DEF Accounted, Open
<1>8. Rising(inq'[s])
  <2>1. \A n \in Numbers(inq[s]) : n < f.n
    BY <1>1, <1>7 DEF Known, Incoming
  <2> QED  BY <1>1, <1>5, <2>1, FramesAppend DEF Accounted, InLine
<1>9. ASSUME NEW t \in Sessions, NEW n \in Done(t)' \cup Held(t)', NEW m \in Incoming(t)'
      PROVE  n < m
  <2>1. CASE t = s
    BY <1>1, <1>3, <1>6, <1>7, <1>9, <2>1 DEF Accounted, InLine, Known
  <2>2. CASE t # s
    BY <1>3, <1>4, <1>9, <2>2 DEF Accounted, InLine
  <2> QED  BY <2>1, <2>2
<1>10. InLine'
  BY <1>2, <1>4, <1>8, <1>9 DEF Accounted, InLine
<1>11. Known(s)' = 1..(sent[s] + 1)
  BY <1>1, <1>3, <1>6, <1>7 DEF Known
<1>12. ASSUME NEW t \in Sessions
       PROVE  /\ Known(t)' \subseteq 1..sent'[t]
              /\ \A n \in Known(t)' : 1..n \subseteq Known(t)'
              /\ Open(t)' => 1..sent'[t] \subseteq Known(t)'
  <2>1. CASE t = s
    BY <1>1, <1>5, <1>11, <2>1
  <2>2. CASE t # s
    <3>1. Known(t)' = Known(t)
      BY <1>3, <1>4, <2>2 DEF Known
    <3> QED  BY <1>4, <2>2, <3>1 DEF Accounted, Open
  <2> QED  BY <2>1, <2>2
<1> QED  BY <1>10, <1>12 DEF Accounted, Open

(* What is on its way is lost with the connection.                         *)
LEMMA Drops ==
  ASSUME Accounted, TypeOK, NEW s \in Sessions,
         inq' = [inq EXCEPT ![s] = <<>>], sent' = sent,
         ~Open(s)', \A t \in Sessions : Open(t)' => Open(t),
         UNCHANGED <<settled, hand, pointsCh, cur>>
  PROVE  Accounted'
<1>1. /\ AtOutput' = AtOutput /\ InHand' = InHand /\ InChannel' = InChannel
      /\ InListen' = InListen
  BY DEF AtOutput, InHand, InChannel, InListen, Point
<1>2. \A t \in Sessions : Done(t)' = Done(t) /\ Held(t)' = Held(t)
  BY <1>1 DEF Done, Held, Of
<1>3. \A t \in Sessions : t # s => inq'[t] = inq[t] /\ Incoming(t)' = Incoming(t)
  BY DEF Incoming, TypeOK
<1>4. inq'[s] = <<>> /\ Incoming(s)' = {} /\ Rising(inq'[s])
  BY DEF Incoming, Numbers, Rising, TypeOK
<1>5. InLine'
  BY <1>1, <1>2, <1>3, <1>4 DEF Accounted, InLine
<1>6. ASSUME NEW t \in Sessions
      PROVE  /\ Known(t)' \subseteq 1..sent'[t]
             /\ \A n \in Known(t)' : 1..n \subseteq Known(t)'
             /\ Open(t)' => 1..sent'[t] \subseteq Known(t)'
  <2>1. CASE t = s
    <3>1. Known(s)' = Done(s) \cup Held(s) /\ Known(s) = Known(s)' \cup Incoming(s)
      BY <1>2, <1>4 DEF Known
    <3>2. Known(s) \subseteq 1..sent[s] /\ \A n \in Known(s) : 1..n \subseteq Known(s)
      BY DEF Accounted
    <3>3. sent[s] \in Nat
      BY SessionAssumption DEF TypeOK
    <3>4. ASSUME NEW n \in Known(s)', NEW m \in 1..n PROVE m \in Known(s)'
      <4>1. m \in Known(s) /\ n \in Nat /\ m \in Nat /\ m <= n
        BY <3>1, <3>2, <3>3
      <4>2. m \in Incoming(s) => n < m
        BY <3>1 DEF Accounted, InLine
      <4> QED  BY <3>1, <4>1, <4>2
    <3> QED  BY <2>1, <3>1, <3>2, <3>4
  <2>2. CASE t # s
    <3>1. Known(t)' = Known(t)
      BY <1>2, <1>3, <2>2 DEF Known
    <3> QED  BY <3>1 DEF Accounted, Open
  <2> QED  BY <2>1, <2>2
<1> QED  BY <1>5, <1>6 DEF Accounted, Open

(* Listen reads the first message on its way.                              *)
LEMMA Reads ==
  ASSUME Accounted, TypeOK, NEW s \in Sessions, cur[s] = None, inq[s] # <<>>,
         cur' = [cur EXCEPT ![s] = Head(inq[s])], inq' = [inq EXCEPT ![s] = Tail(inq[s])],
         sent' = sent, \A t \in Sessions : Open(t)' => Open(t),
         UNCHANGED <<settled, hand, pointsCh>>
  PROVE  Accounted'
<1> DEFINE f == Head(inq[s])
<1>1. /\ inq[s] \in Seq(Frames) /\ f \in Frames
      /\ Incoming(s) = (IF IsData(f) THEN {f.n} ELSE {}) \cup Numbers(Tail(inq[s]))
      /\ Rising(Tail(inq[s])) /\ (IsData(f) => \A n \in Numbers(Tail(inq[s])) : f.n < n)
  <2>1. inq[s] \in Seq(Frames) /\ Rising(inq[s])
    BY DEF TypeOK, Frames, Accounted, InLine
  <2> QED  BY <2>1, FramesTail DEF Incoming
<1>2. inq'[s] = Tail(inq[s]) /\ Incoming(s)' = Numbers(Tail(inq[s]))
  BY DEF Incoming, TypeOK
<1>3. \A t \in Sessions : t # s => inq'[t] = inq[t] /\ Incoming(t)' = Incoming(t)
  BY DEF Incoming, TypeOK
<1>4. AtOutput' = AtOutput /\ InHand' = InHand /\ InChannel' = InChannel
  BY DEF AtOutput, InHand, InChannel
<1> DEFINE new == IF IsData(f) THEN {[from |-> s, n |-> f.n]} ELSE {}
           num == IF IsData(f) THEN {f.n} ELSE {}
<1>5. InListen' = InListen \cup new
  <2>1. ~IsData(cur[s])
    BY DEF IsData
  <2> QED  BY <2>1, ListenPlace
<1>6. \A x \in new : x.from = s /\ x.n \in num
  OBVIOUS
<1>7. \A t \in Sessions : Of(t, new) = IF t = s THEN num ELSE {}
  <2>1. CASE IsData(f)
    <3> DEFINE r == [from |-> s, n |-> f.n]
    <3>1. new = {r} /\ num = {f.n} /\ r.from = s /\ r.n = f.n
      BY <2>1
    <3> HIDE DEF new, num, f, r
    <3>2. ASSUME NEW t \in Sessions PROVE Of(t, {r}) = IF t = s THEN {r.n} ELSE {}
      BY <3>1 DEF Of
    <3> QED  BY <3>1, <3>2
  <2>2. CASE ~IsData(f)
    BY <2>2 DEF Of
  <2> QED  BY <2>1, <2>2
<1>8. /\ num \subseteq Incoming(s) /\ Incoming(s) = num \cup Incoming(s)'
      /\ \A n \in num, m \in Incoming(s)' : n < m
  BY <1>1, <1>2
<1> HIDE DEF new, num, f
<1>9. \A t \in Sessions :
        /\ Done(t)' = Done(t) /\ Held(t)' = Held(t) \cup (IF t = s THEN num ELSE {})
        /\ Known(t)' = Known(t)
  <2>1. \A t \in Sessions : Done(t)' = Done(t) /\ Held(t)' = Held(t) \cup Of(t, new)
    BY <1>4, <1>5 DEF Done, Held, Of
  <2> QED  BY <1>3, <1>7, <1>8, <2>1 DEF Known
<1>10. Before(InServer, new)
  <2>1. ASSUME NEW x \in InServer, x.from = s, NEW n \in num PROVE x.n < n
    <3>1. x.n \in Done(s) \cup Held(s)
      BY <2>1 DEF InServer, Done, Held, Of
    <3> QED  BY <1>8, <3>1 DEF Accounted, InLine
  <2> QED  BY <1>6, <2>1 DEF Before
<1>11. ServerLine'
  BY <1>4, <1>5, <1>10 DEF Accounted, InLine, ServerLine, InServer, Before
<1>12. \A t \in Sessions : Rising(inq'[t])
  BY <1>1, <1>2, <1>3 DEF Accounted, InLine
<1>13. ASSUME NEW t \in Sessions, NEW n \in Done(t)' \cup Held(t)', NEW m \in Incoming(t)'
       PROVE  n < m
  <2>1. CASE t = s
    BY <1>8, <1>9, <1>13, <2>1 DEF Accounted, InLine
  <2>2. CASE t # s
    BY <1>3, <1>9, <1>13, <2>2 DEF Accounted, InLine
  <2> QED  BY <2>1, <2>2
<1>14. InLine'
  BY <1>11, <1>12, <1>13 DEF InLine, ServerLine
<1> QED  BY <1>9, <1>14 DEF Accounted, Open

(* A message comes to the output behind those that are there.              *)
LEMMA OutputAppend ==
  ASSUME TypeOK, NEW p \in Points,
         \E ok \in BOOLEAN, ts \in {"time", "nanoseconds", "text"} : settled' = Settled(p, ok, ts)
  PROVE  /\ AtOutput' = AtOutput \cup {p}
         /\ Before(AtOutput, {p}) /\ Sorted([i \in DOMAIN settled |-> settled[i].point])
              => Sorted([i \in DOMAIN settled |-> settled[i].point])'
<1>1. /\ DOMAIN settled = 1..Len(settled) /\ Len(settled) \in Nat
      /\ DOMAIN settled' = 1..(Len(settled) + 1)
      /\ \A i \in DOMAIN settled : settled'[i] = settled[i]
      /\ settled'[Len(settled) + 1].point = p
  <2>1. PICK e \in Entries : e.point = p /\ settled' = Append(settled, e)
    BY SettledType
  <2> QED  BY <2>1 DEF TypeOK
<1>2. AtOutput' = AtOutput \cup {p}
  <2>1. ASSUME NEW i \in DOMAIN settled' PROVE settled'[i].point \in AtOutput \cup {p}
    <3>1. i \in DOMAIN settled \/ i = Len(settled) + 1
      BY <1>1
    <3> QED  BY <1>1, <3>1 DEF AtOutput
  <2>2. ASSUME NEW i \in DOMAIN settled PROVE settled[i].point \in AtOutput'
    <3>1. i \in DOMAIN settled' /\ settled'[i] = settled[i]
      BY <1>1
    <3> QED  BY <3>1 DEF AtOutput
  <2>3. p \in AtOutput'
    <3>1. Len(settled) + 1 \in DOMAIN settled'
      BY <1>1
    <3> QED  BY <1>1, <3>1 DEF AtOutput
  <2> QED  BY <2>1, <2>2, <2>3 DEF AtOutput
<1>3. ASSUME Before(AtOutput, {p}), Sorted([i \in DOMAIN settled |-> settled[i].point]),
             NEW i \in DOMAIN settled', NEW j \in DOMAIN settled', i < j
      PROVE  Before({settled'[i].point}, {settled'[j].point})
  <2>1. i \in DOMAIN settled /\ settled'[i] = settled[i]
    BY <1>1, <1>3
  <2>2. CASE j \in DOMAIN settled
    <3>1. settled'[j] = settled[j]
      BY <1>1, <2>2
    <3> QED  BY <1>3, <2>1, <2>2, <3>1 DEF Sorted
  <2>3. CASE j = Len(settled) + 1
    <3>1. settled[i].point \in AtOutput
      BY <2>1 DEF AtOutput
    <3> QED  BY <1>1, <1>3, <2>1, <2>3, <3>1 DEF Before
  <2> QED  BY <1>1, <2>2, <2>3
<1> QED  BY <1>2, <1>3 DEF Sorted

(* The point of a Listen goes to the channel.                              *)
LEMMA PointMoves ==
  ASSUME Accounted, TypeOK, NEW s \in Sessions, IsData(cur[s]), SendPoint(s)
  PROVE  ServerLine' /\ InServer' = InServer
<1> DEFINE p == Point(s)
<1>1. p \in Points /\ p.from = s /\ p \in InListen
  <2>1. cur' = [cur EXCEPT ![s] = None]
    BY DEF SendPoint, Processed
  <2> QED  BY <2>1, PointType, ListenPlace
<1>2. InListen' = {x \in InListen : x.from # s} /\ \A x \in InListen : x.from = s => x = p
  <2>1. cur' = [cur EXCEPT ![s] = None] /\ ~IsData(None)
    BY DEF SendPoint, Processed, IsData
  <2> QED  BY <2>1, ListenPlace
<1>3. pointsCh' = Append(pointsCh, p) /\ pointsCh \in Seq(Points)
  BY DEF SendPoint, TypeOK
<1>4. AtOutput' = AtOutput /\ InHand' = InHand /\ settled' = settled
  BY DEF SendPoint, AtOutput, InHand
<1> HIDE DEF p
<1>5. InChannel' = InChannel \cup {p} /\ Sorted(pointsCh')
  <2>1. Before(InChannel, {p}) /\ Sorted(pointsCh)
    BY <1>1 DEF Accounted, InLine, Before
  <2> QED  BY <1>1, <1>3, <2>1, QueueAppend DEF InChannel
<1>6. Before({p}, InListen')
  BY <1>1, <1>2 DEF Before
<1>7. InServer' = InServer
  BY <1>1, <1>2, <1>4, <1>5 DEF InServer
<1>8. ServerLine'
  BY <1>1, <1>2, <1>4, <1>5, <1>6 DEF Accounted, InLine, ServerLine, Before
<1> QED  BY <1>7, <1>8

(* The line of a Listen goes to the file, and the channel is not in use.   *)
LEMMA LineMoves ==
  ASSUME Accounted, TypeOK, OneOutput, NEW s \in Sessions, IsData(cur[s]), WriteLine(s)
  PROVE  ServerLine' /\ InServer' = InServer
<1> DEFINE p == Point(s)
<1>1. p \in Points /\ p.from = s /\ p \in InListen
  <2>1. cur' = [cur EXCEPT ![s] = None]
    BY DEF WriteLine, Processed
  <2> QED  BY <2>1, PointType, ListenPlace
<1>2. InListen' = {x \in InListen : x.from # s} /\ \A x \in InListen : x.from = s => x = p
  <2>1. cur' = [cur EXCEPT ![s] = None] /\ ~IsData(None)
    BY DEF WriteLine, Processed, IsData
  <2> QED  BY <2>1, ListenPlace
<1>3. pointsCh = <<>> /\ hand = <<>> /\ pointsCh' = pointsCh /\ hand' = hand
  BY DEF WriteLine, OneOutput
<1>4. InHand = {} /\ InChannel = {} /\ InHand' = {} /\ InChannel' = {}
  BY <1>3 DEF InHand, InChannel
<1>5. AtOutput' = AtOutput \cup {p} /\ Sorted([i \in DOMAIN settled |-> settled[i].point])'
  <2>1. settled' = Settled(p, TRUE, Stamp(cur[s].kind))
    BY DEF WriteLine
  <2>2. Stamp(cur[s].kind) \in {"time", "nanoseconds", "text"}
    BY DEF Stamp, FormattedTime
  <2>3. Before(AtOutput, {p}) /\ Sorted([i \in DOMAIN settled |-> settled[i].point])
    BY <1>1 DEF Accounted, InLine, Before
  <2> HIDE DEF p
  <2> QED  BY <1>1, <2>1, <2>2, <2>3, OutputAppend
<1> HIDE DEF p
<1>6. Before({p}, InListen')
  BY <1>1, <1>2 DEF Before
<1>7. InServer' = InServer
  BY <1>1, <1>2, <1>4, <1>5 DEF InServer
<1>8. ServerLine'
  BY <1>2, <1>3, <1>4, <1>5, <1>6 DEF Accounted, InLine, ServerLine, Before
<1> QED  BY <1>7, <1>8

(* The writer receives a point, or is done with it.                        *)
LEMMA WriterMoves ==
  ASSUME Accounted, TypeOK, OneBatch, WriterStep
  PROVE  ServerLine' /\ InServer' = InServer
<1>1. InListen' = InListen
  BY DEF WriterStep, InListen, Point, listenVars
<1>2. CASE Receive
  <2> DEFINE h == Head(pointsCh)
  <2>1. pointsCh \in Seq(Points) /\ pointsCh # <<>> /\ Sorted(pointsCh)
    BY <1>2 DEF Receive, TypeOK, Accounted, InLine
  <2>2. pointsCh' = Tail(pointsCh) /\ hand' = <<h>> /\ hand = <<>> /\ settled' = settled
    BY <1>2 DEF Receive, OneBatch
  <2>3. /\ InChannel = {h} \cup InChannel' /\ Sorted(pointsCh') /\ Before({h}, InChannel')
    <3>1. /\ InChannel = {h} \cup {Tail(pointsCh)[i] : i \in DOMAIN Tail(pointsCh)}
          /\ Sorted(Tail(pointsCh))
          /\ Before({h}, {Tail(pointsCh)[i] : i \in DOMAIN Tail(pointsCh)})
      BY <2>1, QueueTail DEF InChannel
    <3>2. InChannel' = {Tail(pointsCh)[i] : i \in DOMAIN Tail(pointsCh)}
      BY <2>2 DEF InChannel
    <3> HIDE DEF h
    <3> QED  BY <2>2, <3>1, <3>2
  <2>4. InHand = {} /\ InHand' = {h} /\ AtOutput' = AtOutput
    BY <2>2 DEF InHand, AtOutput
  <2> HIDE DEF h
  <2> QED  BY <1>1, <2>2, <2>3, <2>4 DEF Accounted, InLine, ServerLine, InServer, Before
<1>3. CASE WriteInflux \/ WriteFails
  <2>1. PICK p \in Points : p = Head(hand) /\ InHand = {p}
    BY <1>3, HandPoint DEF WriteInflux, WriteFails
  <2>2. /\ InHand' = {} /\ pointsCh' = pointsCh /\ InChannel' = InChannel
    <3>1. hand' = <<>> /\ pointsCh' = pointsCh
      BY <1>3 DEF WriteInflux, WriteFails
    <3> QED  BY <3>1 DEF InHand, InChannel
  <2>3. AtOutput' = AtOutput \cup {p} /\ Sorted([i \in DOMAIN settled |-> settled[i].point])'
    <3>1. settled' = Settled(p, TRUE, "time") \/ settled' = Settled(p, FALSE, "time")
      BY <1>3, <2>1 DEF WriteInflux, WriteFails
    <3>2. Before(AtOutput, {p}) /\ Sorted([i \in DOMAIN settled |-> settled[i].point])
      BY <2>1 DEF Accounted, InLine, Before
    <3> QED  BY <3>1, <3>2, OutputAppend
  <2> QED  BY <1>1, <2>1, <2>2, <2>3 DEF Accounted, InLine, ServerLine, InServer, Before
<1> QED  BY <1>2, <1>3 DEF WriterStep

-----------------------------------------------------------------------------
(* The invariant. *)

(* A step that leaves the messages of the server and those on their way    *)
(* where they are: the one kind of step that only cuts a pipe, if anything.*)
Quiet ==
  /\ UNCHANGED <<settled, hand, pointsCh, sent>> /\ InListen' = InListen
  /\ \A s \in Sessions : Incoming(s)' = Incoming(s) /\ (Rising(inq[s]) => Rising(inq'[s]))

(* The kinds of steps a session takes.                                     *)
Sending(s, f) ==
  /\ IsData(f) /\ f.n = sent[s] + 1 /\ Open(s)
  /\ inq' = [inq EXCEPT ![s] = Append(inq[s], f)]
  /\ sent' = [sent EXCEPT ![s] = sent[s] + 1]
  /\ UNCHANGED <<settled, hand, pointsCh, cur>>

Dropping(s) ==
  /\ ~Open(s)' /\ ~link'[s]
  /\ inq' = [inq EXCEPT ![s] = <<>>]
  /\ UNCHANGED <<sent, settled, hand, pointsCh, cur>>

Reading(s) ==
  /\ cur[s] = None /\ inq[s] # <<>>
  /\ cur' = [cur EXCEPT ![s] = Head(inq[s])]
  /\ inq' = [inq EXCEPT ![s] = Tail(inq[s])]
  /\ UNCHANGED <<sent, settled, hand, pointsCh>>

(* A session that is over stays so.                                        *)
LEMMA OpenStep ==
  ASSUME Invariant, [Next]_vars, NEW t \in Sessions, Open(t)'
  PROVE  Open(t)
<1>1. lpc \in [Sessions -> {"idle", "read", "process", "send", "returned"}]
      /\ handler \in [Sessions -> {"idle", "hello", "wait", "closed"}]
  BY DEF Invariant, TypeOK
<1>2. CASE UNCHANGED vars
  BY <1>2 DEF vars, listenVars, Open, DoneClosed
<1>3. ASSUME NEW s \in Sessions, SessionStep(s) PROVE Open(t)
  <2>1. CASE \/ ClientSends(s) \/ LoseLink(s) \/ BeatPanics(s) \/ Request(s)
             \/ RequestFails(s) \/ BeatDone(s)
    <3>1. handler' = handler /\ lpc' = lpc
      BY <2>1 DEF ClientSends, SendData, SendIgnored, LoseLink, BeatPanics, Request, RequestFails,
         BeatDone, BeatReturns, listenVars
    <3> QED  BY <3>1 DEF Open, DoneClosed
  <2>2. CASE Accept(s) \/ Reject(s) \/ EndSession(s)
    <3>1. /\ lpc' = lpc /\ handler[s] # "closed"
          /\ \/ handler' = [handler EXCEPT ![s] = "hello"]
             \/ handler' = [handler EXCEPT ![s] = "closed"]
      BY <2>2 DEF Accept, Reject, EndSession, listenVars
    <3> QED  BY <1>1, <3>1 DEF Open, DoneClosed
  <2>3. CASE StartSession(s)
    <3>1. handler[s] = "hello" /\ lpc[s] = "idle"
      BY <2>3 DEF StartSession, Invariant, LinkServed
    <3>2. \A u \in Sessions : u # s => handler'[u] = handler[u] /\ lpc'[u] = lpc[u]
      BY <1>1, <2>3 DEF StartSession
    <3> QED  BY <3>1, <3>2 DEF Open, DoneClosed
  <2>4. CASE ListenWork(s) \/ ListenSend(s)
    <3>1. /\ handler' = handler /\ lpc[s] # "returned"
          /\ \A u \in Sessions : u # s => lpc'[u] = lpc[u]
      BY <1>1, <2>4 DEF ListenWork, ListenRead, ReadFails, Ignore, MakePoint, WriteLine, ListenPanics,
         ListenSend, SendPoint, Processed, listenVars
    <3> QED  BY <3>1 DEF Open, DoneClosed
  <2> QED  BY <1>3, <2>1, <2>2, <2>3, <2>4 DEF SessionStep
<1>4. CASE WriterStep \/ ServerEnds
  BY <1>4 DEF WriterStep, ServerEnds, listenVars, Open, DoneClosed
<1> QED  BY <1>2, <1>3, <1>4 DEF Next, Running, Ended

(* The client's and the handler's steps are of these kinds.                *)
LEMMA HandlerKinds ==
  ASSUME Invariant, NEW s \in Sessions,
         \/ ClientSends(s) \/ LoseLink(s)
         \/ Accept(s) \/ Reject(s) \/ StartSession(s) \/ EndSession(s)
         \/ BeatPanics(s) \/ Request(s) \/ RequestFails(s) \/ BeatDone(s)
  PROVE  Quiet \/ (\E f \in Frames : Sending(s, f) /\ link' = link) \/ Dropping(s)
<1>1. inq \in [Sessions -> Seq(Frames)] /\ handler \in [Sessions -> {"idle", "hello", "wait", "closed"}]
      /\ sent[s] \in Nat /\ link \in [Sessions -> BOOLEAN]
  BY SessionAssumption DEF Invariant, TypeOK, Frames
<1>2. CASE \/ LoseLink(s) \/ Accept(s) \/ StartSession(s) \/ EndSession(s)
           \/ BeatPanics(s) \/ Request(s) \/ RequestFails(s) \/ BeatDone(s)
  <2>1. UNCHANGED <<settled, hand, pointsCh, sent, inq, cur>>
    BY <1>2 DEF LoseLink, Accept, StartSession, EndSession, BeatPanics, Request, RequestFails,
       BeatDone, BeatReturns, clientVars, listenVars, outputVars
  <2> QED  BY <2>1 DEF Quiet, Incoming, InListen, Point
<1>3. CASE SendIgnored(s)
  <2>1. /\ UNCHANGED <<settled, hand, pointsCh, sent, cur>>
        /\ inq' = [inq EXCEPT ![s] = Append(inq[s], Ignored)]
    BY <1>3 DEF SendIgnored, listenVars, outputVars
  <2>2. ~IsData(Ignored) /\ Ignored \in Frames
    BY DEF IsData, Frames
  <2>3. ASSUME NEW t \in Sessions
        PROVE  Incoming(t)' = Incoming(t) /\ (Rising(inq[t]) => Rising(inq'[t]))
    <3>1. CASE t = s
      BY <1>1, <2>1, <2>2, <3>1, FramesAppend DEF Incoming
    <3>2. CASE t # s
      BY <1>1, <2>1, <3>2 DEF Incoming
    <3> QED  BY <3>1, <3>2
  <2> QED  BY <2>1, <2>3 DEF Quiet, InListen, Point
<1>4. ASSUME NEW kind \in Kinds \ {"ignored"}, SendData(s, kind)
      PROVE  \E f \in Frames : Sending(s, f) /\ link' = link
  <2> DEFINE f == [kind |-> kind, n |-> sent[s] + 1]
  <2>1. f \in Frames /\ IsData(f) /\ f.n = sent[s] + 1
    <3>1. sent[s] + 1 \in 1..MaxData /\ sent[s] + 1 # 0 /\ kind \in {"cpu", "stat", "net"}
      BY <1>1, <1>4, SessionAssumption DEF SendData
    <3> QED  BY <3>1 DEF Frames, DataFrames, IsData, Ignored, None
  <2>2. Open(s)
    BY <1>4 DEF SendData, CanSend, Invariant, LinkServed, Open, DoneClosed
  <2>3. /\ inq' = [inq EXCEPT ![s] = Append(inq[s], f)] /\ sent' = [sent EXCEPT ![s] = sent[s] + 1]
        /\ UNCHANGED <<settled, hand, pointsCh, cur, link>>
    BY <1>4 DEF SendData, listenVars, outputVars
  <2> HIDE DEF f
  <2> QED  BY <2>1, <2>2, <2>3 DEF Sending
<1>5. CASE Reject(s)
  <2>1. /\ UNCHANGED <<sent, settled, hand, pointsCh, cur>>
        /\ inq' = [inq EXCEPT ![s] = <<>>] /\ handler'[s] = "closed" /\ ~link'[s]
    BY <1>1, <1>5 DEF Reject, listenVars, outputVars
  <2> QED  BY <2>1 DEF Dropping, Open
<1> QED  BY <1>2, <1>3, <1>4, <1>5 DEF ClientSends

(* So are the steps of Listen that do not pass a message on.               *)
LEMMA ListenKinds ==
  ASSUME Invariant, NEW s \in Sessions, ListenWork(s), ~WriteLine(s)
  PROVE  Quiet \/ Dropping(s) \/ (Reading(s) /\ link' = link)
<1>1. /\ lpc \in [Sessions -> {"idle", "read", "process", "send", "returned"}]
      /\ cur \in [Sessions -> DataFrames \cup {Ignored, None}]
  BY DEF Invariant, TypeOK
<1>2. CASE ListenRead(s)
  BY <1>2 DEF ListenRead, Invariant, OneFrame, Reading, outputVars
<1>3. CASE ReadFails(s)
  <2>1. /\ UNCHANGED <<sent, settled, hand, pointsCh, cur>> /\ ~link'[s]
        /\ inq' = [inq EXCEPT ![s] = <<>>] /\ lpc'[s] = "returned"
    BY <1>1, <1>3 DEF ReadFails, outputVars
  <2> QED  BY <2>1 DEF Dropping, Open, DoneClosed
<1>4. CASE Ignore(s)
  <2>1. /\ UNCHANGED <<settled, hand, pointsCh, sent, inq>>
        /\ cur' = [cur EXCEPT ![s] = None] /\ ~IsData(cur[s]) /\ ~IsData(None)
    BY <1>4 DEF Ignore, Processed, IsData, clientVars, outputVars
  <2>2. InListen' = InListen
    <3>1. TypeOK /\ cur' = [cur EXCEPT ![s] = None]
      BY <2>1 DEF Invariant
    <3>2. /\ InListen' = {x \in InListen : x.from # s}
                            \cup (IF IsData(None) THEN {[from |-> s, n |-> None.n]} ELSE {})
          /\ \A x \in InListen : x.from = s => IsData(cur[s])
      BY <3>1, ListenPlace
    <3>3. \A x \in InListen : x.from # s
      BY <2>1, <3>2
    <3> QED  BY <2>1, <3>2, <3>3
  <2> QED  BY <2>1, <2>2 DEF Quiet, Incoming
<1>5. CASE MakePoint(s) \/ ListenPanics(s)
  <2>1. UNCHANGED <<settled, hand, pointsCh, sent, inq, cur>>
    BY <1>5 DEF MakePoint, ListenPanics, clientVars, listenVars, outputVars
  <2> QED  BY <2>1 DEF Quiet, Incoming, InListen, Point
<1> QED  BY <1>2, <1>3, <1>4, <1>5 DEF ListenWork

(* What every step of the server or a client is to the messages.           *)
LEMMA StepKinds ==
  ASSUME Invariant, [Next]_vars
  PROVE  \/ Quiet \/ WriterStep
         \/ \E s \in Sessions :
              \/ \E f \in Frames : Sending(s, f) /\ link' = link
              \/ Dropping(s) \/ (Reading(s) /\ link' = link)
              \/ WriteLine(s) \/ SendPoint(s)
<1>1. CASE UNCHANGED vars \/ ServerEnds
  <2>1. UNCHANGED <<settled, hand, pointsCh, sent, inq, cur>>
    BY <1>1 DEF vars, ServerEnds, clientVars, listenVars, outputVars
  <2> QED  BY <2>1 DEF Quiet, Incoming, InListen, Point
<1>2. ASSUME NEW s \in Sessions, SessionStep(s)
      PROVE  \/ Quiet
             \/ \E f \in Frames : Sending(s, f) /\ link' = link
             \/ Dropping(s) \/ (Reading(s) /\ link' = link)
             \/ WriteLine(s) \/ SendPoint(s)
  BY <1>2, HandlerKinds, ListenKinds DEF SessionStep, ListenSend
<1> QED  BY <1>1, <1>2 DEF Next, Running, Ended

(* No step loses sight of a message, doubles it or lets it overtake.       *)
LEMMA AccountedStep ==
  ASSUME Invariant, [Next]_vars
  PROVE  Accounted'
<1>1. Accounted /\ TypeOK /\ OneBatch /\ OneOutput /\ OneFrame
  BY DEF Invariant
<1>2. \A t \in Sessions : Open(t)' => Open(t)
  BY OpenStep
<1>3. \A t \in Sessions : Rising(inq[t])
  BY <1>1 DEF Accounted, InLine
<1>4. CASE Quiet
  <2>1. ServerLine' /\ InServer' = InServer
    <3>1. /\ AtOutput' = AtOutput /\ InHand' = InHand /\ InChannel' = InChannel
          /\ InListen' = InListen /\ settled' = settled /\ pointsCh' = pointsCh
      BY <1>4 DEF Quiet, AtOutput, InHand, InChannel
    <3> QED  BY <1>1, <3>1 DEF Accounted, InLine, ServerLine, InServer
  <2> QED  BY <1>1, <1>2, <1>3, <1>4, <2>1, MovesOn DEF Quiet
<1>5. ASSUME NEW s \in Sessions, NEW f \in Frames, Sending(s, f) PROVE Accounted'
  BY <1>1, <1>2, <1>5, Sends DEF Sending
<1>6. ASSUME NEW s \in Sessions, Dropping(s) PROVE Accounted'
  BY <1>1, <1>2, <1>6, Drops DEF Dropping
<1>7. ASSUME NEW s \in Sessions, Reading(s) PROVE Accounted'
  BY <1>1, <1>2, <1>7, Reads DEF Reading
<1>8. ASSUME NEW s \in Sessions, WriteLine(s) \/ SendPoint(s) PROVE Accounted'
  <2>1. IsData(cur[s])
    BY <1>1, <1>8 DEF WriteLine, SendPoint, OneFrame, IsData
  <2>2. ServerLine' /\ InServer' = InServer
    BY <1>1, <1>8, <2>1, LineMoves, PointMoves
  <2>3. sent' = sent /\ inq' = inq
    BY <1>8 DEF WriteLine, SendPoint, clientVars
  <2> QED  BY <1>1, <1>2, <1>3, <2>2, <2>3, MovesOn DEF Incoming
<1>9. CASE WriterStep
  <2>1. ServerLine' /\ InServer' = InServer
    BY <1>1, <1>9, WriterMoves
  <2>2. sent' = sent /\ inq' = inq
    BY <1>9 DEF WriterStep, clientVars
  <2> QED  BY <1>1, <1>2, <1>3, <2>1, <2>2, MovesOn DEF Incoming
<1> QED  BY <1>4, <1>5, <1>6, <1>7, <1>8, <1>9, StepKinds

(* A server that has just started has nothing.                             *)
LEMMA InvariantInit ==
  ASSUME Init
  PROVE  /\ Invariant
         /\ \A s \in Sessions : Done(s) = {} /\ Held(s) = {} /\ Incoming(s) = {}
<1>1. /\ settled = <<>> /\ hand = <<>> /\ pointsCh = <<>>
      /\ \A s \in Sessions : inq[s] = <<>> /\ cur[s] = None /\ sent[s] = 0
  BY DEF Init
<1>2. /\ AtOutput = {} /\ InHand = {} /\ InChannel = {} /\ InListen = {}
  BY <1>1 DEF AtOutput, InHand, InChannel, InListen, IsData
<1>3. ASSUME NEW s \in Sessions
      PROVE  Done(s) = {} /\ Held(s) = {} /\ Incoming(s) = {} /\ Rising(inq[s])
  BY <1>1, <1>2 DEF Done, Held, Of, Incoming, Numbers, Rising
<1>4. Accounted
  <2>1. InLine
    <3>1. DOMAIN settled = {} /\ DOMAIN pointsCh = {}
      BY <1>1
    <3>2. Sorted([i \in DOMAIN settled |-> settled[i].point]) /\ Sorted(pointsCh)
      BY <3>1 DEF Sorted
    <3> QED  BY <1>2, <1>3, <3>2 DEF InLine, Before
  <2>2. \A s \in Sessions : Known(s) = {} /\ 1..sent[s] = {}
    <3>1. 1..0 = {}
      OBVIOUS
    <3>2. \A s \in Sessions : Known(s) = {}
      BY <1>3 DEF Known
    <3> QED  BY <1>1, <3>1, <3>2
  <2> QED  BY <2>1, <2>2 DEF Accounted
<1>5. OneBatch /\ OneFrame /\ OneOutput /\ LinkServed
  BY DEF Init, OneBatch, OneFrame, OneOutput, LinkServed
<1>6. TypeOK
  <2>1. /\ output \in Outputs /\ layout \in Layouts /\ alive \in BOOLEAN
        /\ link \in [Sessions -> BOOLEAN] /\ logger \in [Sessions -> BOOLEAN]
    BY DEF Init
  <2>2. sent \in [Sessions -> 0..MaxData] /\ missed \in [Sessions -> 0..Several]
    <3>1. 0 \in 0..MaxData /\ 0 \in 0..Several
      BY SessionAssumption
    <3> QED  BY <3>1 DEF Init
  <2>3. inq \in [Sessions -> Seq(DataFrames \cup {Ignored})]
    <3>1. <<>> \in Seq(DataFrames \cup {Ignored})
      OBVIOUS
    <3> QED  BY <3>1 DEF Init
  <2>4. /\ handler \in [Sessions -> {"idle", "hello", "wait", "closed"}]
        /\ lpc \in [Sessions -> {"idle", "read", "process", "send", "returned"}]
        /\ beat \in [Sessions -> {"idle", "start", "select", "returned"}]
        /\ writer \in {"select", "write"}
    BY DEF Init
  <2>5. cur \in [Sessions -> DataFrames \cup {Ignored, None}]
    BY DEF Init
  <2>6. /\ pointsCh \in Seq(Points) /\ Len(pointsCh) <= PointsCap
        /\ hand \in Seq(Points) /\ settled \in Seq(Entries)
    BY <1>1, SessionAssumption
  <2> QED  BY <2>1, <2>2, <2>3, <2>4, <2>5, <2>6 DEF TypeOK
<1> QED  BY <1>3, <1>4, <1>5, <1>6 DEF Invariant

(* Every step keeps the invariant.                                         *)
LEMMA InvariantStep ==
  ASSUME Invariant, [Next]_vars
  PROVE  Invariant'
BY TypesStep, StatesStep, AccountedStep DEF Invariant, States

(* The invariant of the server's sessions holds for any numbers of         *)
(* connections and messages and any capacity of pointsCh.                  *)
THEOREM InvariantHolds == Spec => []Invariant
<1>1. Init => Invariant
  BY InvariantInit
<1>2. Invariant /\ [Next]_vars => Invariant'
  BY InvariantStep
<1> QED  BY <1>1, <1>2, PTL DEF Spec

(* Type correctness of the sessions; pointsCh never holds more than its    *)
(* capacity.                                                               *)
THEOREM TypesHold == Spec => []TypeOK
<1>1. Invariant => TypeOK
  BY DEF Invariant
<1> QED  BY InvariantHolds, <1>1, PTL

(* Every data message of a session is in one place and none overtakes      *)
(* another; none vanishes but with its connection (Listen, the SetFuncs    *)
(* functions, InfluxClient.Write).                                         *)
THEOREM AllAccounted == Spec => []Accounted
<1>1. Invariant => Accounted
  BY DEF Invariant
<1> QED  BY InvariantHolds, <1>1, PTL

-----------------------------------------------------------------------------
(* The sessions implement the pipe of each connection. *)

(* A step that moves no message out of a pipe at most cuts it.             *)
LEMMA PipeStays ==
  ASSUME link' \in [Sessions -> BOOLEAN], sent' = sent,
         \A s \in Sessions : /\ Done(s)' = Done(s)
                             /\ Held(s)' \cup Incoming(s)' = Held(s) \cup Incoming(s)
  PROVE  P!Next
BY DEF P!Next, P!Cut

(* A message in the pipe that comes to the output comes out of the pipe.   *)
LEMMA PipeDelivers ==
  ASSUME TypeOK, Accounted, Accounted', NEW p \in Points, AtOutput' = AtOutput \cup {p},
         InHand \cup InChannel \cup InListen = (InHand \cup InChannel \cup InListen)' \cup {p},
         UNCHANGED <<inq, sent, link>>
  PROVE  P!Next
<1> PICK s \in Sessions : s = p.from
  BY InServerType
<1>1. p.n \in Nat /\ p \in AtOutput'
  BY InServerType
<1> DEFINE In(t) == Held(t) \cup Incoming(t)
           left == (InHand \cup InChannel \cup InListen)'
<1>2. /\ left \subseteq Points /\ \A x \in left : x.from = s => p.n < x.n
  <2>1. Before(AtOutput', left)
    BY DEF Accounted, InLine
  <2>2. left \subseteq Points
    BY InServerType
  <2> QED  BY <1>1, <2>1, <2>2 DEF Before
<1>3. /\ Incoming(s)' = Incoming(s) /\ \A m \in Incoming(s) : p.n < m /\ m \in Nat
  <2>1. p.n \in Done(s)'
    BY <1>1 DEF Done, Of
  <2>2. Incoming(s)' = Incoming(s)
    BY DEF Incoming
  <2>3. \A m \in Incoming(s) : p.n < m
    BY <2>1, <2>2 DEF Accounted, InLine
  <2>4. Incoming(s) \subseteq 1..sent[s] /\ sent[s] \in Nat
    BY SessionAssumption DEF Accounted, Known, TypeOK
  <2> QED  BY <2>2, <2>3, <2>4
<1>4. Held(s) = Held(s)' \cup {p.n} /\ Held(s)' = Of(s, left)
  BY DEF Held, Of
<1> HIDE DEF left
<1>5. \A n \in In(s)' : p.n < n /\ n \in Nat
  <2>1. \A n \in Of(s, left) : p.n < n /\ n \in Nat
    BY <1>2, InServerType DEF Of
  <2> QED  BY <1>3, <1>4, <2>1
<1>6. p.n \notin In(s)' /\ In(s) = In(s)' \cup {p.n}
  BY <1>1, <1>3, <1>4, <1>5
<1>7. \A t \in Sessions : t # s => Held(t)' = Held(t) /\ Incoming(t)' = Incoming(t)
  BY DEF Held, Of, Incoming
<1>8. \A t \in Sessions : Done(t)' = IF t = s THEN Done(t) \cup {p.n} ELSE Done(t)
  BY DEF Done, Of
<1>9. /\ [t \in Sessions |-> In(t)'] = [[t \in Sessions |-> In(t)] EXCEPT ![s] = @ \ {p.n}]
      /\ [t \in Sessions |-> Done(t)'] = [[t \in Sessions |-> Done(t)] EXCEPT ![s] = @ \cup {p.n}]
  <2>1. ASSUME NEW t \in Sessions
        PROVE  In(t)' = [[u \in Sessions |-> In(u)] EXCEPT ![s] = @ \ {p.n}][t]
    BY <1>6, <1>7, <2>1
  <2>2. ASSUME NEW t \in Sessions
        PROVE  Done(t)' = [[u \in Sessions |-> Done(u)] EXCEPT ![s] = @ \cup {p.n}][t]
    BY <1>8, <2>2
  <2> QED  BY <2>1, <2>2
<1>10. P!Deliver(s)
  <2>1. p.n \in In(s) /\ \A m \in In(s) : p.n <= m
    BY <1>1, <1>5, <1>6
  <2> QED  BY <1>9, <2>1 DEF P!Deliver
<1> QED  BY <1>10 DEF P!Next

(* Every step of a client or the server is one of the pipes, or leaves     *)
(* them alone.                                                             *)
LEMMA PipeStep ==
  ASSUME Invariant, [Next]_vars
  PROVE  P!Next
<1>1. Accounted /\ TypeOK /\ OneBatch /\ OneOutput /\ OneFrame /\ Accounted'
  BY AccountedStep DEF Invariant
<1>2. link \in [Sessions -> BOOLEAN] /\ link' \in [Sessions -> BOOLEAN]
  <2>1. TypeOK'
    BY <1>1, TypesStep
  <2> QED  BY <1>1, <2>1 DEF TypeOK
<1>3. CASE Quiet
  <2>1. /\ AtOutput' = AtOutput /\ InHand' = InHand /\ InChannel' = InChannel
        /\ InListen' = InListen
    BY <1>3 DEF Quiet, AtOutput, InHand, InChannel
  <2>2. \A s \in Sessions : Done(s)' = Done(s) /\ Held(s)' = Held(s) /\ Incoming(s)' = Incoming(s)
    BY <1>3, <2>1 DEF Quiet, Done, Held, Of
  <2> QED  BY <1>2, <1>3, <2>2, PipeStays DEF Quiet
<1>4. ASSUME NEW s \in Sessions, NEW f \in Frames, Sending(s, f), link' = link PROVE P!Next
  <2>1. /\ AtOutput' = AtOutput /\ InHand' = InHand /\ InChannel' = InChannel
        /\ InListen' = InListen
    BY <1>4 DEF Sending, AtOutput, InHand, InChannel, InListen, Point
  <2>2. \A t \in Sessions : Done(t)' = Done(t) /\ Held(t)' = Held(t)
    BY <2>1 DEF Done, Held, Of
  <2>3. Incoming(s)' = Incoming(s) \cup {sent[s] + 1}
    <3>1. inq[s] \in Seq(Frames) /\ inq'[s] = Append(inq[s], f) /\ IsData(f) /\ f.n = sent[s] + 1
      BY <1>1, <1>4 DEF Sending, TypeOK, Frames
    <3> QED  BY <3>1, FramesAppend DEF Incoming
  <2>4. \A t \in Sessions : t # s => Incoming(t)' = Incoming(t)
    BY <1>1, <1>4 DEF Sending, Incoming, TypeOK
  <2>5. [t \in Sessions |-> (Held(t) \cup Incoming(t))']
          = [[t \in Sessions |-> Held(t) \cup Incoming(t)] EXCEPT ![s] = @ \cup {sent[s] + 1}]
    BY <2>2, <2>3, <2>4
  <2>6. [t \in Sessions |-> Done(t)'] = [t \in Sessions |-> Done(t)]
    BY <2>2
  <2>7. sent' = [sent EXCEPT ![s] = @ + 1]
    BY <1>4 DEF Sending
  <2> QED  BY <1>4, <2>5, <2>6, <2>7 DEF P!Next, P!Accept
<1>5. ASSUME NEW s \in Sessions, Dropping(s) PROVE P!Next
  <2>1. /\ AtOutput' = AtOutput /\ InHand' = InHand /\ InChannel' = InChannel
        /\ InListen' = InListen
    BY <1>5 DEF Dropping, AtOutput, InHand, InChannel, InListen, Point
  <2>2. \A t \in Sessions : Done(t)' = Done(t) /\ Held(t)' = Held(t)
    BY <2>1 DEF Done, Held, Of
  <2>3. Incoming(s)' = {} /\ \A t \in Sessions : t # s => Incoming(t)' = Incoming(t)
    BY <1>1, <1>5 DEF Dropping, Incoming, Numbers, TypeOK
  <2>4. \A n \in Held(s), m \in Incoming(s) : n < m
    BY <1>1 DEF Accounted, InLine
  <2>5. Held(s) \cup Incoming(s) \subseteq Nat
    <3>1. Known(s) \subseteq 1..sent[s] /\ sent[s] \in Nat
      BY <1>1, SessionAssumption DEF Accounted, TypeOK
    <3> QED  BY <3>1 DEF Known
  <2> DEFINE in == [t \in Sessions |-> Held(t) \cup Incoming(t)]
             lost == Incoming(s)
  <2>6. [t \in Sessions |-> (Held(t) \cup Incoming(t))'] = [in EXCEPT ![s] = @ \ lost]
    <3>1. Held(s) = (Held(s) \cup Incoming(s)) \ lost
      <4>1. \A n \in Held(s) : n \notin lost
        BY <2>4, <2>5
      <4> QED  BY <4>1
    <3> QED  BY <2>2, <2>3, <3>1
  <2>7. lost \in SUBSET in[s] /\ P!Neighbours(lost, in[s])
    BY <2>4, <2>5 DEF P!Neighbours
  <2>8. [t \in Sessions |-> Done(t)'] = [t \in Sessions |-> Done(t)]
    BY <2>2
  <2>9. sent' = sent /\ ~link'[s]
    BY <1>5 DEF Dropping
  <2> HIDE DEF lost
  <2>10. P!Lose(s)
    BY <1>2, <2>6, <2>7, <2>8, <2>9 DEF P!Lose
  <2> QED  BY <2>10 DEF P!Next
<1>6. ASSUME NEW s \in Sessions, Reading(s), link' = link PROVE P!Next
  <2> DEFINE f == Head(inq[s])
             new == IF IsData(f) THEN {[from |-> s, n |-> f.n]} ELSE {}
             num == IF IsData(f) THEN {f.n} ELSE {}
  <2>1. AtOutput' = AtOutput /\ InHand' = InHand /\ InChannel' = InChannel
    BY <1>6 DEF Reading, AtOutput, InHand, InChannel
  <2>2. InListen' = InListen \cup new
    <3>1. ~IsData(cur[s]) /\ cur' = [cur EXCEPT ![s] = f]
      BY <1>6 DEF Reading, IsData
    <3> QED  BY <1>1, <3>1, ListenPlace
  <2>3. Incoming(s) = num \cup Incoming(s)'
    <3>1. inq[s] \in Seq(Frames) /\ inq[s] # <<>> /\ inq'[s] = Tail(inq[s])
      BY <1>1, <1>6 DEF Reading, TypeOK, Frames
    <3> QED  BY <3>1, FramesTail DEF Incoming
  <2>4. \A t \in Sessions : t # s => Incoming(t)' = Incoming(t)
    BY <1>1, <1>6 DEF Reading, Incoming, TypeOK
  <2>5. \A x \in new : x.from = s
    OBVIOUS
  <2>6. {x.n : x \in new} = num
    <3>1. CASE IsData(f)
      <4> DEFINE r == [from |-> s, n |-> f.n]
      <4>1. new = {r} /\ r.n = f.n /\ num = {f.n}
        BY <3>1
      <4> HIDE DEF r, new, num
      <4> QED  BY <4>1
    <3>2. CASE ~IsData(f)
      BY <3>2
    <3> QED  BY <3>1, <3>2
  <2> HIDE DEF f, new, num
  <2>7. \A t \in Sessions : Done(t)' = Done(t) /\ (t # s => Held(t)' = Held(t))
    BY <2>1, <2>2, <2>5 DEF Done, Held, Of
  <2>8. Held(s)' = Held(s) \cup num
    <3>1. Held(s)' = Held(s) \cup Of(s, new)
      BY <2>1, <2>2 DEF Held, Of
    <3>2. Of(s, new) = num
      BY <2>5, <2>6 DEF Of
    <3> QED  BY <3>1, <3>2
  <2>9. \A t \in Sessions : Held(t)' \cup Incoming(t)' = Held(t) \cup Incoming(t)
    BY <2>3, <2>4, <2>7, <2>8
  <2>10. sent' = sent
    BY <1>6 DEF Reading
  <2> QED  BY <1>2, <2>7, <2>9, <2>10, PipeStays
<1>7. ASSUME NEW s \in Sessions, WriteLine(s) PROVE P!Next
  <2>1. IsData(cur[s])
    BY <1>1, <1>7 DEF WriteLine, OneFrame, IsData
  <2>2. PICK p \in Points : p = Point(s) /\ p.from = s
    BY <1>1, <2>1, PointType
  <2>3. cur' = [cur EXCEPT ![s] = None] /\ ~IsData(None)
    BY <1>7 DEF WriteLine, Processed, IsData
  <2>4. InListen = InListen' \cup {p}
    <3>1. /\ InListen' = {x \in InListen : x.from # s}
                            \cup (IF IsData(None) THEN {[from |-> s, n |-> None.n]} ELSE {})
          /\ \A x \in InListen : x.from = s => x = p
          /\ p \in InListen
      BY <1>1, <2>1, <2>2, <2>3, ListenPlace
    <3> QED  BY <2>2, <2>3, <3>1
  <2>5. InHand' = InHand /\ InChannel' = InChannel
    BY <1>7 DEF WriteLine, InHand, InChannel
  <2>6. AtOutput' = AtOutput \cup {p}
    <3>1. settled' = Settled(p, TRUE, Stamp(cur[s].kind))
      BY <1>7, <2>2 DEF WriteLine
    <3>2. Stamp(cur[s].kind) \in {"time", "nanoseconds", "text"}
      BY DEF Stamp, FormattedTime
    <3> QED  BY <1>1, <3>1, <3>2, OutputAppend
  <2>7. UNCHANGED <<inq, sent, link>>
    BY <1>7 DEF WriteLine, clientVars
  <2> QED  BY <1>1, <2>4, <2>5, <2>6, <2>7, PipeDelivers
<1>8. ASSUME NEW s \in Sessions, SendPoint(s) PROVE P!Next
  <2>1. IsData(cur[s])
    BY <1>1, <1>8 DEF SendPoint, OneFrame
  <2>2. PICK p \in Points : p = Point(s) /\ p.from = s
    BY <1>1, <2>1, PointType
  <2>3. cur' = [cur EXCEPT ![s] = None] /\ ~IsData(None)
    BY <1>8 DEF SendPoint, Processed, IsData
  <2>4. InListen = InListen' \cup {p}
    <3>1. /\ InListen' = {x \in InListen : x.from # s}
                            \cup (IF IsData(None) THEN {[from |-> s, n |-> None.n]} ELSE {})
          /\ \A x \in InListen : x.from = s => x = p
          /\ p \in InListen
      BY <1>1, <2>1, <2>2, <2>3, ListenPlace
    <3> QED  BY <2>2, <2>3, <3>1
  <2>5. InHand' = InHand /\ InChannel' = InChannel \cup {p} /\ AtOutput' = AtOutput
    <3>1. pointsCh \in Seq(Points) /\ pointsCh' = Append(pointsCh, p)
      BY <1>1, <1>8, <2>2 DEF SendPoint, TypeOK
    <3>2. InChannel' = InChannel \cup {p}
      BY <3>1, QueueAppend DEF InChannel
    <3> QED  BY <1>8, <3>2 DEF SendPoint, InHand, AtOutput
  <2>6. UNCHANGED <<inq, sent, link>>
    BY <1>8 DEF SendPoint, clientVars
  <2>7. \A t \in Sessions : Done(t)' = Done(t) /\ Held(t)' = Held(t) /\ Incoming(t)' = Incoming(t)
    <3>1. (InHand \cup InChannel \cup InListen)' = InHand \cup InChannel \cup InListen
      BY <2>4, <2>5
    <3> QED  BY <2>5, <2>6, <3>1 DEF Done, Held, Of, Incoming
  <2> QED  BY <1>2, <2>6, <2>7, PipeStays
<1>9. CASE WriterStep
  <2>1. InListen' = InListen /\ UNCHANGED <<inq, sent, link>>
    BY <1>9 DEF WriterStep, InListen, Point, listenVars, clientVars
  <2>2. CASE Receive
    <3>1. pointsCh \in Seq(Points) /\ pointsCh # <<>> /\ pointsCh' = Tail(pointsCh)
      BY <1>1, <2>2 DEF Receive, TypeOK
    <3>2. InChannel = {Head(pointsCh)} \cup InChannel'
      <4>1. InChannel = {Head(pointsCh)} \cup {Tail(pointsCh)[i] : i \in DOMAIN Tail(pointsCh)}
        BY <3>1, QueueTail DEF InChannel
      <4>2. InChannel' = {Tail(pointsCh)[i] : i \in DOMAIN Tail(pointsCh)}
        BY <3>1 DEF InChannel
      <4> QED  BY <4>1, <4>2
    <3>3. InHand' = {Head(pointsCh)} /\ InHand = {} /\ AtOutput' = AtOutput
      <4>1. hand = <<>> /\ hand' = <<Head(pointsCh)>> /\ settled' = settled
        BY <1>1, <2>2 DEF Receive, OneBatch
      <4> QED  BY <4>1 DEF InHand, AtOutput
    <3>4. (InHand \cup InChannel \cup InListen)' = InHand \cup InChannel \cup InListen
      BY <2>1, <3>2, <3>3
    <3>5. \A t \in Sessions : Done(t)' = Done(t) /\ Held(t)' = Held(t) /\ Incoming(t)' = Incoming(t)
      BY <2>1, <3>3, <3>4 DEF Done, Held, Of, Incoming
    <3> QED  BY <1>2, <2>1, <3>5, PipeStays
  <2>3. CASE WriteInflux \/ WriteFails
    <3>1. PICK p \in Points : p = Head(hand) /\ InHand = {p}
      BY <1>1, <2>3, HandPoint DEF WriteInflux, WriteFails
    <3>2. hand' = <<>> /\ pointsCh' = pointsCh
      BY <2>3 DEF WriteInflux, WriteFails
    <3>3. InHand' = {} /\ InChannel' = InChannel
      BY <3>2 DEF InHand, InChannel
    <3>4. AtOutput' = AtOutput \cup {p}
      <4>1. settled' = Settled(p, TRUE, "time") \/ settled' = Settled(p, FALSE, "time")
        BY <2>3, <3>1 DEF WriteInflux, WriteFails
      <4> QED  BY <1>1, <4>1, OutputAppend
    <3>5. InHand \cup InChannel \cup InListen = (InHand \cup InChannel \cup InListen)' \cup {p}
      BY <2>1, <3>1, <3>3
    <3> QED  BY <1>1, <2>1, <3>4, <3>5, PipeDelivers
  <2> QED  BY <1>9, <2>2, <2>3 DEF WriterStep
<1> QED
  BY <1>3, <1>4, <1>5, <1>6, <1>7, <1>8, <1>9, StepKinds

(* Each session has a pipe from its connection to the output (Listen, the  *)
(* SetFuncs functions, InfluxClient.Write): for any numbers, Spec          *)
(* implements Pipe.                                                        *)
THEOREM PipeIsImplemented == Spec => ImplementsPipe
<1>1. Init => P!Init
  <2> SUFFICES ASSUME Init PROVE P!Init
    OBVIOUS
  <2>1. /\ [s \in Sessions |-> Held(s) \cup Incoming(s)] = [s \in Sessions |-> {}]
        /\ [s \in Sessions |-> Done(s)] = [s \in Sessions |-> {}]
    BY InvariantInit
  <2>2. sent = [s \in Sessions |-> 0] /\ link \in [Sessions -> BOOLEAN]
    BY DEF Init
  <2> QED  BY <2>1, <2>2 DEF P!Init
<1>2. Invariant /\ [Next]_vars => [P!Next]_(P!vars)
  BY PipeStep
<1> QED  BY <1>1, <1>2, InvariantHolds, PTL DEF Spec, ImplementsPipe, P!Spec
=============================================================================
