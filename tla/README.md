# autofact, modelled and proved

TLA+ modules for the autofact client (`cmd/autofact`) and the autofactory
server (`cmd/autofactory`), TLC configurations that check them on small
instances, and theorems that TLAPS proves for every value of the constants.
Paths below are relative to `src/`.

## 1. Inventory

A client runs on a machine that is monitored. It dials the server's
websocket, sends its id (empty the first time), gets its configuration,
starts collectors and pushes what they collect. The server keeps a registry
of clients in a bolt database, asks every client for its load average at an
interval, and writes what it gets to a file or to InfluxDB.

| component | code | state | operations | what is hard |
|---|---|---|---|---|
| client connection | `cmd/autofact/client.go` 77-186, 222-238, `cmd/autofact/main.go` 85-213, `conf/conf.go` 51-98 | `Conn.ID`, `Collect`, `autofact.json`, `c.WS` | `Load`, `Connect`, `Reconnect`, `Save`, exit | a crash between truncate and write, a handshake cut at any frame, an id that changes on a reconnect |
| server registry | `conn.go`, `server.go` 71-176, `inventory.go`, `db/bolt.go` | bolt file, client bucket, `inventory.clients`, `inventory.mu` | `Open`, `CreateBuckets`, `LoadInventory`, `serveClient`, `NewClient`, `SaveClient`, `AddClient` | concurrent handlers, a crash between draw, save and answer, a save that fails |
| client goroutines | `client.go` 196-387, 451-582, `main.go` 188-213, 281-300 | `sendB`, `isConnected`, `c.WS`, `doneCh` | `Listen`, `MessageWriter`, collectors, `handleSignals` | shared `c.WS` read after a check of `isConnected`, a bounded channel, reconnects |
| server sessions | `conn.go` 120-132, `server.go` 195-587, `influx.go` | `doneCh`, `Client.Data`, `pointsCh` | `Listen`, `Healthbeat`, the processing functions, `InfluxClient.Write` | many senders on one bounded channel, failing writes, a nil logger, a client that is silent |
| serverless mode | `client.go` 389-447, 486-546, 584-634, 660-755, `main.go` 143-210, 240-300 | the data file, the collectors | `SystemInfoServerless`, the local collectors, `CloseOut` | a signal closes the file under the collectors |
| start-up and configuration files | `conf/conf.go` 119-180, both `main.go` | `Collect`, `autocollect.json`, `autoclient.json` | `Load`, `UseDefaults`, `SaveJSON` | a half-read file, a kill between truncate and write, edits |
| utilities | `util/util.go` | none | `TimeLayout`, `Duration`, conversions | names that are never matched, negative periods |
| encodings | `message/`, `conf/Client.go` | none | generated flatbuffers | |
| earlier client package | `client/client.go` | | not imported by anything | |

Interaction: client and server share nothing but the websocket. In the
client, main calls `Connect` and then starts the goroutines; from then on
`Listen` alone reconnects, and the others see that through `c.WS` and
`isConnected`. In the server, net/http runs one `serveClient` per connection;
they meet in the inventory (a mutex), the database (bolt's transactions),
`pointsCh` (a channel of 100) and the data file.

What makes each component correct:

* registration: an id belongs to one client for ever, it is in the database
  before anybody hears of it, a client keeps it through reconnects and server
  restarts and works with the configuration saved for it, handshakes and
  handlers come to an end;
* client goroutines: order is kept, nothing is sent twice, nothing hangs on a
  full channel, a lost connection is replaced or the process ends, and only a
  connected client writes to its connection;
* sessions: what the server read is stored once and in order, or reported; a
  session with a dead connection goes away completely;
* both together: what a collector makes is in one place at a time on its way
  to the output, nothing is missing while the connection lasts, and a client
  whose connection the server gave up recovers;
* start-up: a program runs with one whole set of periods, the same ones until
  somebody edits the file, and never ruins a good file;
* serverless mode: the data file has one line per tick and kind, in order.

## 2. Modules

| module | models | notes |
|---|---|---|
| `Wire` | websocket connections between clients and server | external (gorilla/websocket), modelled from its use |
| `ClientConnect` | connection file, `Connect`, `Reconnect`, process | one action per blocking point of the code |
| `ServerRegistry` | database, inventory, mutex, handlers | one handler per connection |
| `Registration` | composition of the three, properties | `Init`, `Next`, `Spec`, `FairSpec` |
| `Identity` | abstract registry of durable ids | what the registration promises |
| `RegistrationProofs` | theorems about `Registration` | TLAPS |
| `Agent` | the goroutines of one connected client | stands alone, the server is its environment |
| `Session` | the sessions of the server | stands alone, the clients are its environment |
| `Pipe` | abstract pipe: order kept, no doubles, losses only while cut | what `Agent` and `Session` each promise |
| `Delivery` | composition of `Agent` and `Session` over the connections | each takes the other's steps as its environment's |
| `StartUp` | the files with the collection periods, `main` up to the output | both programs |
| `Serverless` | `autofact -serverless` from start to signal | extends `StartUp` |
| `IdentityProofs` | that `Registration` implements `Identity` | extends `RegistrationProofs` |
| `ServerlessProofs`, `AgentProofs`, `SessionProofs` | theorems about the module of that name | each extends it |
| `DeliveryProofs` | theorems about `Delivery` | uses instances of `AgentProofs` and `SessionProofs` |
| `MCRegistration`, `MCAgent`, `MCSession`, `MCDelivery`, `MCServerless` | symmetry and small sets for TLC | |

### Registration

A connection `k` has two ends; `held[k]` says which ends some process still
holds, `link[k]` whether frames get through, `up[k]` and `down[k]` hold the
frames on their way. A write on a lost link leaves nothing, a read fails at
any time after the loss, before or after it has read what arrived. Slots are
used again once neither end is held.

`phase[c]` is the place of the client: `off`, `connect` (the dial loop),
`sendId`, `handshake` (the read loop), `save` and `write` (`Conn.Save` before
and after `O_TRUNC`), `run`. `id`, `file`, `collect` and `tickers` are
`Conn.ID`, the file's id, the periods in memory and the periods the collectors
were started with. A dial that fails and sleeps changes nothing and is not an
action; the end of the retry period is `DialTimeout`. `ClientInit` lets a
client bring the file of another server: its id is in `Foreign`.

`hpc[k]` is the place of the handler: `readId`, `create` (before the lock in
`NewClient`), `register` (the lock is held), `welcome`, `serve`. `PickId` and
`Register` are two steps because the write to the database lies between them;
the mutex (`mu`) is held in between. `RegisterFails` covers a failed
transaction and the panic of `Put` on a bucket that does not exist, which
net/http recovers after the deferred functions ran. `KnownHello` and
`UnknownHello` are the lookup under the mutex. `Welcome` is `AddClient` and
both writes: nobody else writes to the connection before the session starts,
and a loss of the link before, between or after the writes shows as `Break`
before the frames are read (the client may find `down` cut by its own error,
and `HandshakeError` is enabled with frames unread).

The ids of a configuration and the periods are model values: `Confs` is a set
of complete sets of periods, `None` stands for the zero periods a client
starts with.

### Agent

`dials` numbers the connections, `ws` is `c.WS` (0 is nil), `out[g]` what got
through on connection `g`. `lpc`, `wpc`, `cpc`, `spc` are the places of
`Listen`, `MessageWriter`, the collectors and the signal handler. The check of
`isConnected` and the use of `c.WS` are different steps, as in the code. The
server is what `serveClient` and `Healthbeat` do to a connection:
`ServerAnswers`, `ServerAsks`. A mutex that is held for one assignment
(`c.mu`, `genLock`) makes that assignment one step.

`End` ends the process and with it every connection. `panicked` says which
goroutine, if any, ended it by a write to a nil `c.WS`.

### Session

Data messages are numbered per session. The sets of points `AtOutput`,
`InHand` (the writer's), `InChannel` and `InListen` are the places on their
way, `Incoming(s)` the numbers of those still on the connection. `InLine` says
that each of these is ahead of the next, `Accounted` adds that no number is
missing. Frames of kind `ignored` stand for what is not stored:
text, unknown kinds, system information, messages that yield no point.
`logger[s]` is `Client.Data # nil`. A panic in `Listen`'s goroutine is
recovered by nobody and ends the server (`alive`), and so does the panic of
`time.NewTicker` on a negative period (`BeatPanics`). `Accept`, `Reject` and
`StartSession` are the part of `serveClient` that decides whether there is a
session; what it looks up meanwhile is in `ServerRegistry`. `settled` also
says in which form the time was written (`ts`): as nanoseconds, as a time, or
as a text with no time in it. The branches that no
execution reaches are left out: `pointsCh` and `InfluxClient.doneCh` are never
closed by anyone else, and `ReadMessage` returns no close frame as a message.

### Pipe

`made`, `inside`, `out`, `open`, per source; `inside` and `out` are sets of
numbers, and only the least number inside comes out. `Agent!P` maps it to a
client:
the sources are the collectors, inside is what a collector, `sendB` or
`MessageWriter` holds, out is what got through, and the pipe is open while
the client is connected and the connection carries. `Session!P` maps it to
the server: the sources are the sessions, inside is what is on its way to
`Listen`, in its hand, in `pointsCh` or with the InfluxDB writer, out is what
is settled. A step that loses messages must leave the pipe cut.

### Delivery

The variables of both modules with `link` in common, `listen`, `batch`,
`clientAlive` and `serverAlive` for those whose names meet. `Joined` makes a
step of the client one with what it does to the server: a dial is `Accept`,
a data frame that gets through is `SendData`, everything else is silent. The
server's answer to the id, `Welcome`, sets `welcomed`; `Refuse` is what
happens to a connection that is lost or whose first frame is not the id. That
this composition is sound is checked and proved, not assumed: `ClientIsAgent`
and `ServerIsSession` say that every step is one of `Agent` and one of
`Session`, or leaves its variables alone. `Number` and `Carried` tie the
numbers the server gives to the data frames that got through; `OnePlace` and
`NothingMissing` speak of messages in both processes by means of them. The
period of the healthbeat is zero here;
`Agent` and `Session` have it.

### StartUp and Serverless

`file` is `Absent`, `Unreadable`, `Good(periods)` or `Broken(periods)`: JSON
with an error somewhere, and the periods that `Unmarshal` has set by then.
`Truncated` is the content `ioutil.WriteFile` leaves between its open and its
write. `pc` is the place of `main`: `off`, `load`, `save` and `write`
(`SaveJSON` before and after the truncation), `output`, `run`. The two
programs differ in which errors of `Load` they survive (`LoadFails`,
`LoadFatal`). `seen`, `clean` and `last` are history for the properties.

`Serverless` starts and stops with `StartUp` and adds the data file and the
collectors, each `idle`, in its `loop`, about to write its `line`, or `ended`.
Nobody closes `doneCh` in this mode, so a collector that gives up (`Fails`)
leaves the others and the process alone. `CloseOut` is a step of its own
before the process ends: `handleSignals` closes the file while the collectors
still run. `layout` stands for the three things `TimeLayout` makes of
`-tslayout`: nanoseconds, the layout of a known name, or a text in capitals
that is no layout of a time (`RFC3339Nano`, and a layout of the user's own that
means something else in capitals). `ts` is the form in which a line then has
its time; `LinesFaithful` does not depend on it, and `LinesDated`, which does,
fails.

## 3. Runs

Passing:

| run | configuration | shows |
|---|---|---|
| `registration` | `MCRegistration_safety.cfg` | `UniqueIdentity`, `DurableIdentity`, `InventoryCoherent`, `OwnConfiguration`, `StableIdentity`, the inductive `Invariant` with `HandshakeInStep`, and `ImplementsIdentity`: `Registration` implements `Identity` (`saved` is the key set of the bucket, `name` the ids in memory, `disk` those in the files) |
| `registration_live` | `MCRegistration_live.cfg` | `HandshakeEnds`, `HandlerEnds`, with a removal of the database |
| `agent` | `MCAgent_safety.cfg` | `OrderKept`, `RepliesMatchRequests`, the inductive `Invariant` |
| `agent_live` | `MCAgent_live.cfg` | `DataArrives`, `CollectorsRun`, `ReconnectsOrEnds`, and `ImplementsPipe` |
| `session` | `MCSession_safety.cfg` | `Accounted` and the inductive `Invariant`, with InfluxDB and with the file |
| `session_live` | `MCSession_live.cfg` | `SessionEnds`, `DataSettles`, and `ImplementsPipe` |
| `delivery` | `MCDelivery_safety.cfg` | `OnePlace`, `NothingMissing` from the ticker to the output, the inductive `Invariant`, and `ClientIsAgent`, `ServerIsSession` |
| `delivery_live` | `MCDelivery_live.cfg` | `CollectedIsStored`, `ClientRecovers`, `NoSessionStays` |
| `serverless` | `MCServerless_run.cfg` | `PeriodsWhole`, `SamePeriodsAgain`, `WellFormedKept` for both programs, `LinesFaithful` for the serverless client, the inductive `Invariant` |

Violations, each a statement of the repository that the code does not keep:

| run | statement | what happens |
|---|---|---|
| `registration_config` | "it will always get it's configuration from the server" (`cmd/autofact/README.md:19`) | a client that brings its id ignores the periods it is sent and collects with zero periods |
| `agent_unconnected` | "don't send if not connected" (`client.go:201`) | `MessageWriter` finds the client connected, `Listen` loses the connection and dials, and the message goes to the new connection ahead of the id |
| `session_logger` | "a child Data Logger ... for when output is to a File" (`server.go:205`) | the `Client` of a known id has none, its first data message ends the server |

More configurations are kept for the reader and are not among the listed
runs, because what they show is small or a variant of the above; TLC finds
each of them violated too:

| configuration | statement | what happens |
|---|---|---|
| `MCRegistration_buckets.cfg` | open databases have their buckets (`db/bolt.go:34`, `db/bolt_test.go:37`) | a crash between file and buckets is never repaired |
| `MCRegistration_resend.cfg` | "otherwise, it sends Autofactory its ClientID" (`cmd/autofact/README.md:26`) | a crash in `Conn.Save` loses the id |
| `MCRegistration_repersist.cfg` | "If there's a new ID, persist it" (`client.go:141`) | `Reconnect` does not save |
| `MCAgent_firstid.cfg` | "first message is the clientID" (`conn.go:37`) | the race of `agent_unconnected`, as the server sees it |
| `MCAgent_nilwrite.cfg` | "don't send if not connected" (`client.go:201`) | the same race with a dial that fails: `MessageWriter` writes to the nil `c.WS` |
| `MCAgent_nilclose.cfg` | "If there's a connection send a close signal" (`main.go:289`) | `handleSignals` finds the client connected, `Listen` loses the connection and a dial fails, and the close frame goes to the nil `c.WS`: a panic instead of `CloseOut` and exit |
| `MCAgent_text.cfg` | "no text message are expected" (`server.go:257`) | every loadavg is sent again as text |
| `MCAgent_writers.cfg` | "already threadsafe" (`client.go:40`) | two goroutines write to one connection |
| `MCSession_funcs.cfg` | "sets the processing func ... based on the output destination type" (`server.go:209`) | NetUsage goes to the file with InfluxDB too, and ends the server |
| `MCSession_timestamps.cfg` | "the time will be written out as time since unix epoch" (`util/util.go:157`) | only the cpu lines have a time, the others the text "epoch" formatted |
| `MCSession_unresponsive.cfg` | "the client connection is closed" (`server.go:281`) | nobody looks at the answers |
| `MCServerless_defaults.cfg` | "when the collect file cannot be found" (`conf/conf.go:142`) | a file with a typing error is replaced by the defaults |
| `MCServerless_again.cfg` | "a save error isn't fatal" (`cmd/autofactory/main.go:154`) | the truncated file it leaves is fatal at the next start |
| `MCServerless_timestamps.cfg` | "any layout that is a constant as defined by time.Constants" (`util/util.go:154-155`) | the name `RFC3339Nano` is upper-cased and not found, the lines do not tell the time |
| `MCDelivery_order.cfg` | none, a reader's expectation | `Listen` of the old connection stores a message after `Listen` of the new one has stored a later one |

### Bounds

* Registration: two clients are enough for a clash of ids, two connections for
  an abandoned connection of a client beside its new one and for two handlers
  that contend for the mutex, two ids for a changed id, two configurations for
  a default edited between two starts. `ConnectTries` is 1 in the safety run
  and 2 in the liveness run, `ReconnectTries` 2 (code: 3 and 4): a first, a
  repeated and a last attempt.
  `MaxWipes` bounds how often an operator removes the file. The liveness run
  has one client, so that a lock held up by another handler is that of the
  client's own abandoned connection.
* Agent: `BufCap` is 2 in the safety run (a message overtakes another only in
  a channel of two), 1 in the liveness run (code: 8). `MaxMsgs`, `MaxDials`,
  `MaxRequests` bound the messages of a collector, the successful dials and
  the requests on one connection. `ReconnectTries` is 1 in the safety run (a
  second attempt finds what the first one does: a connection that is down, or
  the nil one of a dial that failed), 2 in the liveness run (code: 4). The
  liveness run makes three messages with a channel of one: writer and channel
  are full and the collector blocks.
* Session: `PointsCap` is 2 or 1 (code: 100); `MaxData` bounds the data
  messages of a session, two in both runs: the four of both sessions are more
  than channel and writer hold; `MaxQueue` bounds the frames on their way.
  `Several` counts unanswered requests. `Outputs` and `Kinds` say how the
  server may be started and what clients send. With the file as the output
  the kinds differ in the form of the time only; with InfluxDB NetUsage ends
  the server, as a signal may at any time, and `MCSession_funcs.cfg` has it.
  The liveness run has InfluxDB and point messages only, for the others never
  reach the channel. `Periods` has no healthbeat and a negative period in the
  safety run, none and a healthbeat in the liveness run: a request touches no
  message. `Layouts` has one value where no property looks at the time.
* Delivery: one collector with two messages, so that one can be in the old
  session and one in the new; two connections, `sendB` and `pointsCh` of one,
  so that either is full with the next message waiting. More dials only
  repeat the reconnect. `ReconnectTries` is 1 and 2 as in `Agent`. The liveness
  run has one message.
* Serverless: two kinds, one that both programs have and one more (they differ
  in nothing), the default, a period of zero, another one and a negative one;
  two starts, for what one start leaves to the next; two edits, so that a good
  file is made bad and good again; two ticks per kind and run, for an order of
  lines. The safety run has the layouts `epoch` and `RFC3339Nano`, one that
  sets `useTS` and one that does not; `MCServerless_timestamps.cfg` has all
  three, with one start and one tick.

Symmetry is used in the safety runs of `MCRegistration`, `MCAgent` and
`MCSession` only, never with liveness. Deadlock is checked in every run: a
system that has ended stutters explicitly (`Ended`, `BothEnded`, or a program
that is off), the registration can always start again.

### Fairness

Weak fairness for the steps a goroutine can take by itself: the Go scheduler
runs every runnable goroutine. Strong fairness for a handler that waits for
`inventory.mu` and for a session that waits for room in `pointsCh`: a
`sync.Mutex` is handed to a waiter that has waited for a millisecond, and the
senders blocked on a channel are queued in order. `Agent` assumes that the
server answers an id, which is what `HandshakeEnds` and the network give it,
and that a retry period ends. `Session` assumes that InfluxDB answers a
write, with success or an error, and that a handler notices a lost
connection. `Delivery` takes less: some goroutine of each process runs as long
as one can (`ClientRuns`, `ServerRuns`). Without ticks and dials, which are
bounded, no goroutine has work for ever, so none can hold up another. Starts,
crashes, dials that succeed, lost
connections, ticks, requests and signals are never fair: no liveness property
depends on them. `HandshakeEnds` and `HandlerEnds` have the way out
`~IdsLeft`, for the instance may run out of ids while the code's 62^8 do not.

## 4. Proofs

Every safety property, action property and refinement that a passing run
checks is also a theorem, for all values of the constants that satisfy the
assumptions. Each component has an inductive `Invariant`, stated in its own
module and checked by its safety run; the theorem `InvariantHolds` of its
proof module is `Spec => []Invariant`, and the others follow from it.

| module | theorems |
|---|---|
| `RegistrationProofs` | `InvariantHolds`, `TypesHold`, `IdentityIsUnique`, `IdentityIsDurable`, `InventoryIsCoherent`, `ConfigurationIsOwn` |
| `IdentityProofs` | `HandshakesAreInStep`, `IdentityIsStable`, `IdentityIsImplemented` |
| `ServerlessProofs` | `InvariantHolds`, `TypesHold`, `PeriodsAreWhole`, `LinesAreFaithful`, `PeriodsAreTheSame`, `GoodFilesAreKept` |
| `AgentProofs` | `InvariantHolds`, `TypesHold`, `OrderIsKept`, `RepliesMatch`, `PipeIsImplemented` |
| `SessionProofs` | `InvariantHolds`, `TypesHold`, `AllAccounted`, `PipeIsImplemented` |
| `DeliveryProofs` | `InvariantHolds`, `TypesHold`, `ClientImplementsAgent`, `ServerStepsAreSessions`, `EachIsInOnePlace`, `NothingIsMissing` |

### Assumptions

They are those of the modules, and TLC evaluates each of them in a run.

| assumption | says | because |
|---|---|---|
| `NoneAssumption` | `None` is none of the values | an empty string is no id, a nil pointer no connection |
| `ForeignAssumption` | two servers never hand out the same id | ids are eight random characters |
| `TriesAssumption` | the numbers of attempts are positive | constants in `client.go` |
| `MaxWipesAssumption` | `MaxWipes` is a number | a bound |
| `AgentAssumption` | `BufCap`, `ReconnectTries`, `MaxDials` are positive, the other bounds numbers | `sendB` has room for eight messages; a client begins with a connection |
| `SessionAssumption` | outputs, layouts and kinds are those of the code, periods are integers, `PointsCap` and `MaxQueue` positive | flags and message types; `pointsCh` has room for a hundred |
| `DeliveryAssumption` | what the two above need; finitely many collectors, at least one with a message | `MaxFrames` counts all messages |
| `StartUpAssumption` | periods are integers, zero among them, the default is positive; the programs are the two | `UseDefaults`, `Unmarshal` |
| `ServerlessAssumption` | the layouts are the three of `Session`, `MaxTicks` is a number, the system information is no collector's kind | the outcomes of `TimeLayout` |

The bounds (`MaxMsgs`, `MaxDials`, `MaxTicks` and the like) are any numbers:
the theorems hold for executions of every length.

### Registration

`UniqueIdentity` is not inductive by itself. That the id a handler draws is
used by nobody (`DrawIsFresh`) needs that whatever is used is in the database
(`DurableEverywhere`, for ids in memory, in files, in handlers and on the way
in either direction, since an id in the memory of a dead connection can come
back), that the inventory has what the database has (`InventoryCoherent`),
that the drawn id stays free until it is registered (`HandlerConsistent`, the
mutex), and that a connection that is dialed again carries nothing from its
former life (`WireConsistent`). `OwnConfiguration` needs that a ClientConf
frame on its way carries what is saved (`AnswersSaved`), and that a client
reads from a connection that it dialed itself (`ConnectionOwned`). `Invariant`
is the conjunction; the proof has one lemma per conjunct and in it one step
per action, and `InvariantStep` puts them together.

That a client keeps its id depends on what is under way between it and its
handler: the answer to an id the server knows carries no other id.
`HandshakeInStep` says that the two are at matching places of the handshake,
and it is inductive together with `Invariant`. `StableIdentity` is proved for
any `MaxWipes`, for it says itself that it is about an undisturbed database.
`ImplementsIdentity` is proved for `MaxWipes = 0`: once the operator has
removed the file, ids in use are no longer in it, which `Identity` does not
allow. Initial states map to initial states, and each action maps to a step of
`Identity` or to none.

### Start-up and serverless mode

`StartUp` has no behaviour of its own that a run checks, so its properties
are proved of `Serverless`, whose steps on the file are its steps.
The first part of its `Invariant`, `StartInvariant`, is about the file alone:
a file that the program has left and nobody has touched is what it would run
with again (`FileTellsPeriods`), and `SaveJSON` is never on its way to a good
one (`RewritesNoGoodFile`), because `Load` has failed on it and only the
operator could have repaired it meanwhile. From these the two action
properties follow in one step. The second part relates the places of the
collectors to the lines, with what holds before they start
(`NothingBeforeRun`, `InfoBeforeCollectors`).

### Agent

`OrderKept` compares frames. To be kept by a step that writes one, nothing
that a collector still has may be below what it has sent: `InLine` puts the
messages in hand, in `sendB` and unsent in the order in which they will be
written, and `Numbered` says that they are among those made.
`RepliesMatchRequests` needs that `Listen` and the server agree on how many
requests a connection has had (`RequestsCounted`), and both need that no frame
is on a connection that has not been dialed (`LastConnection`).
`PipeIsImplemented` gives for each action the step of the pipe that it is: a
tick is `Accept`, a frame that gets through is `Deliver`, a message that is
dropped, written to a lost connection or gone with the process is `Lose`, and
a connection that is lost or replaced is `Cut`.

### Session

`Accounted` follows the points from the connection to the output.
`OneBatch`, `OneFrame` and `OneOutput` say what the goroutines can hold at
each place, so that a step takes a point from exactly one place;
`LinkServed` that frames arrive only where a `Listen` reads them. The order is
stated by pairs of places (`Before`, `Sorted`, `Rising`), without recursion
over sequences, so that a step that moves the first point of one queue to the
end of the next has to be looked at once per pair.

### Delivery

The two halves are not proved again. Each step of the composition is a step
of `Agent` or none (`StepOfClient`) and a step of `Session` or none
(`StepOfServer`); with that both invariants carry over, by the step theorems
of `AgentProofs` and `SessionProofs`. What these two facts need themselves is
`OneLink` (only the connection that the client writes to gets frames through)
and `AnsweredOnce`. `FramesNumbered` says that the server's numbers are those
of the data frames, so that a number of `Session` names one message of
`Agent`. `OnePlace` then follows from `OrderKept` for frames, from `Accounted`
for what each session makes of its numbers, and from the fact that a message
is the content of one frame. `NothingMissing` needs that before the first
disturbance `MessageWriter` drops nothing (`FirstConnectionWhole`), which is
proved with the pipe steps of `AgentProofs`.

### Only model-checked

The liveness properties: `HandshakeEnds`, `HandlerEnds`, `DataArrives`,
`CollectorsRun`, `ReconnectsOrEnds`, `SessionEnds`, `DataSettles`,
`CollectedIsStored`, `ClientRecovers`, `NoSessionStays`. They rest on fairness,
whose ENABLED the prover does not know, and most of them on an induction over
the length of a queue. The runs that expect a violation and the
configurations beside them are TLC's too.

## 5. Not modelled

* Encodings are generated code, and the byte conversions of `util` belong to
  them. `client/client.go` is not used. Logging keeps no state that another
  part reads.
* What nobody calls: `SystemInfoServerJSON`, `processBinaryMessage` of the
  client, `NetUsageInfluxDB`, `ClientIDs`, `GetClient`, `Serialize`
  and `Deserialize` of `conf.Collect`.
* The memory behind the slices that `Bolt.Clients` keeps beyond its
  transaction, and the snowflake generator shared by the handlers without a
  lock: what they return is decided in external packages; both are hazards in
  `PROJECT.json`.
* Write deadlines and full TCP windows: a websocket write returns. A frame
  that got through to the server's machine counts as sent.
* The lines that sessions still write to the server's data file between
  `CloseOut` and `os.Exit`: the end of the server is one step. For the
  serverless client these are two steps (`CloseOut`).
* Divergences seen on the way that no configuration is about: system
  information is never sent (`SystemInfoServerJSON` has no caller, against
  `cmd/autofact/README.md:28`), `LoadInventory` returns the last index and not
  the count, `processBinaryMessage` decodes `p` instead of the message's data,
  `Collect.Serialize` leaves out the healthbeat period, a period of zero turns
  the healthbeat off too ("Only the healthbeat is always collected",
  `cmd/autofact/README.md:17`), and both `.example` files end their objects
  with a comma, which `Unmarshal` rejects.

## 6. Plan

1. (done) `Wire`, `ClientConnect`, `ServerRegistry`, `Registration`,
   `Identity`, `RegistrationProofs`; `Agent`; `Session`.
2. (done) `Pipe` and the refinements of `Agent` and `Session`; `Delivery`;
   `StartUp`; `Serverless`, with `TimeLayout` and `Duration` as far as the
   lines and the files depend on them.
3. (done) The inductive invariants of all components and their proofs, the
   refinements `ImplementsIdentity`, `ImplementsPipe` (twice),
   `ClientIsAgent` and `ServerIsSession`, `OnePlace` and `NothingMissing`.
4. An abstract specification of the whole way of a message, from the ticker to
   the output, each stored or reported at most once, that `Delivery`
   implements; the refinement checked, then proved from `OnePlace` and the
   pipes of the two halves. Enabling facts that the liveness properties rest
   on and that are invariants, such as a place of every goroutine at which it
   can go on.
