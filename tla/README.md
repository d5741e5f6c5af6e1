# A verification of meshspy

meshspy listens to a Meshtastic radio on a serial port, remembers the nodes of
the mesh, and connects the mesh to an MQTT broker; a web application lets pages
talk to the mesh through that broker, and a management server collects the
nodes. This directory models them in TLA+, checks the models with TLC and proves
the most important safety properties with TLAPS.

Line numbers below are those of the repository this directory is kept beside.

## 1. Inventory

| component | code | state | operations | talks to |
|---|---|---|---|---|
| Serial framing | `serial/serial.go` readLoop | `buf`, `logBuf` | read a byte; take text, lines, headers and frames from the buffer | port; dispatch |
| Packet decoding and dispatch | `decoder/`, `serial/serial.go` 81-135, 198-236 | none | nine decoders, tried in two orders (frames, lines) | callbacks of meshspy |
| Node registry | `nodemap/`, `storage/nodestore.go`, `client/proto_convert.go`, `serial/serial.go` 136-154, `cmd/meshspy/main.go` 192-286 | node map in memory, tables `nodes`, `positions`, `telemetry`, `lastNode` | update, resolve, upsert, add a waypoint, publish a node | dispatch; MQTT; management server |
| meshspy program, serial manager | `cmd/meshspy/main.go`, `serial/manager.go`, `serial/wait.go`, `serial/sendtext.go` | phase of main, `portMgr`, the manager's port and mutex, signal channel | start-up, forward a command, read, shut down | device; broker; meshtastic-go |
| MQTT session | `client/client.go` 175-200, 251-263 | paho's connection | connect with retry, reconnect, resume subscriptions | broker |
| Node info cache | `client/client.go` 202-248 | `nodes.json` | load, save, fetch | meshtastic-go |
| Web bridge | `cmd/webapp/main.go` | per websocket: queue of ten; one shared subscription | queue, publish with a timeout of 3 s, echo, forward | browser; broker |
| Management server, its client | `cmd/unifiserver/main.go`, `mgmtapi/client.go` | the same node tables | upsert over HTTP, send a command | meshspy; broker |
| Message board | `cmd/messagesapp/main.go`, `storage/storage.go` | a table of messages | add, list | browser |
| Output parsers, version map | `client/client.go` 67-172, `client/nodes.go`, `client/dump_parser.go`, `client/version_map.go` | none | parse what meshtastic-go prints | - |
| Configuration, export, one-shot writers | `config/config.go`, `client/export.go`, `serial/send.go` | none | run once | environment; meshtastic-go |
| Generated and packaging | `proto/`, scripts, images | - | - | - |

How a message travels: the radio writes text and frames on one serial line;
the framing component separates them; a frame is offered to the decoders, whose
callbacks update the registry; a line is searched for the id of a node, which
is published under the best name known. In the other direction a command
published on MQTT enters the callback of meshspy, which writes it to the port.

What is hard, per component, and what makes it correct:

- **Framing**: text, frames and garbage in any order, reads that end anywhere,
  lost bytes. Correct when it finds exactly the frames one finds looking at
  the whole input, keeps lines free of frame bytes, stays bounded, and finds
  its way back after a loss.
- **Dispatch**: protobuf messages do not carry their type, and every decoder
  falls back on reading the same bytes as another type. Correct when each
  kind of message reaches its own callback.
- **Registry**: three copies of what is known (map, rows, what was
  published) fed by messages of several kinds, statements that fail, restarts
  that keep only the database. Correct when a name or a row changes only by a
  message of its node.
- **Program**: main, the MQTT callback and the reading goroutine share a port
  that external processes also open; signals and unplugging at any moment.
  Correct when the port has one user, no write meets a closed port, commands
  are not refused in the middle, and a signal ends the program.
- **MQTT session, web bridge**: connections are lost with what is on its way
  and with the subscriptions; pages come and go, share one client and one
  callback, and are written to by two goroutines. Correct when what a page
  typed reaches meshspy in order and at most once, what the mesh says is shown,
  and a page that leaves takes its goroutines along.
- **Node info cache**: a file written in two steps, a radio that changes, a
  command whose output may be incomplete. Correct when the protocol version is
  that of the radio that was asked.
- **Management server**: requests outlive the client's patience and overlap at
  the server. Correct when what was accepted is stored and not undone, and the
  start-up never depends on the server.
- **Board, parsers, scripts**: sequential or stateless, see "Not modelled".

`PROJECT.json` lists every hazard with its line and the properties that cover it.

## 2. Plan

Done: `SerialFraming`, `SerialLink` over `DemuxChannel`, `PacketDispatch`,
`WireSchema` and `PacketSchemas`, `PacketReading`, `NodeRegistry`, `MeshSpy` over
`Forwarder`, `MqttSession` and `WebBridge` over `Relay`, `LocalInfo`, `MgmtServer` and their
composition `ManagedNode`; the proofs about `SerialFraming`, `SerialLink`,
`MeshSpy`, `PacketDispatch`, `PacketReading`, `NodeRegistry`, `ManagedNode` and
`WebBridge` (section 5).

Left: the parsers of meshtastic-go's tables and the outgoing frame as pure
operators against reference definitions.

## 3. The modules and the code

**`SerialFraming`** is the loop of `readLoop` (`serial/serial.go` 156-239).
`buf` and `logBuf` are the locals of that name; `received` is the history of
all bytes read and `events` the calls of `handleLine` and of the decoders with
the place of their bytes. `Receive` is one successful `port.Read`; it is
enabled when the inner loop has ended (`Blocked`). Each other action is one
iteration of the inner loop: `EndLine`, `DropReturn`, `LogByte` for text (176-186),
`DropStart` for a header with an impossible length (192-195), `TakeFrame` for
a complete frame (196-237). Failed and empty reads change nothing. A reference
definition, `FrameStarts`, says where the frames of a whole byte string are.

**`SerialLink`** puts that scanner behind a device (external) that writes text
and frames, and a UART that may lose bytes. It also states what the code takes
for granted of the device: payloads of 1 to `MaxSize` bytes, text without the
two start bytes in a row. **`DemuxChannel`** is the abstract specification: a
queue of messages, each delivered whole and in order, text by lines.
`SerialLink` without losses implements it under a refinement mapping that takes
the messages none of whose bytes has left `buf` (`Unhandled`) as the queue.
`NoFalseStart` is what the scanner needs to find its way back after a loss and
the code never checks: frames that do not hold, behind their first byte, the
two start bytes in a row, and do not end with the first of them. `Resynchronises`
and `FramesAreGenuine` promise nothing from the first frame on that is not so
(`SentCleanly`), and `StaysInStep` is what remains then: a payload can mislead
the scanner only on its way back, never once it has taken a frame of the device.

**`PacketDispatch`** has the decoders as sets of results. Of a `FromRadio`
message it keeps the field number of its variant and the optional id, because
those decide what happens when the bytes are read as another type: a field of
another wire type is skipped, a field of the same number and type is taken
over. It also keeps whether the text inside is text: proto.Unmarshal refuses a
message with a string that is not valid UTF-8, and the decoder then tries its
other readings. So a packet (field 2) reads as a `NodeInfo` with an empty user and as
`Telemetry` with device metrics; an id (field 1) reads as the node number of a
`NodeInfo` or of a `MyNodeInfo`, as the port of a `Data`, as the id of a
`Waypoint`. What a packet says, its content or a waypoint's place, is told apart
from what a decoder makes of the bytes around it: no payload (`Nothing`), the
bytes of the whole packet (`Wrapped`), metrics that bytes of another message
spell (`Misread`). `DispatchFrame` and `DispatchLine` have the two orders in which
readLoop tries the decoders. **`PacketReading`** is a reader that meets any
message next; its state is the message and the callbacks it got.

**`WireSchema`** has the schema of each message type that a `FromRadio` or the
payload of a decoded packet is made of: one definition per generated type in
`proto/latest/meshtastic`, with its field numbers, wire types and nesting. The
definition stands for the struct, the wrappers of its oneof and the methods by
which proto.Unmarshal finds their tags, and of the ten types the programs read
fields of (`FromRadio`, `MeshPacket`, `Data`, `NodeInfo`, `MyNodeInfo`, `User`,
`Position`, `Telemetry`, `DeviceMetrics`, `Waypoint`) also for the getters, which
return 0 or nil for a field that is not set (`IsSet`). Of the types that are only
skipped or refused the getters are left out (where such a type has a oneof its
wrappers stand behind them, inside the lines of the definition), as are names,
comments, enums and Go types. **`PacketSchemas`** says, from
these schemas alone, what becomes of the bytes of one type read as another
(`Taken`, `Refused`) and when each decoder therefore returns something
(`Accepts...`): the reference definition the decoders of `PacketDispatch` are
checked against. A refusal is looked for one level down, which is enough because
the messages inside those that a decoder reads hold no further messages
(the assumption `MessagesAreFlat`, which TLC evaluates). That no misreading takes a name or a coordinate from elsewhere
is a constant fact, stated as the assumption `MisreadingsHoldNoText` that TLC
evaluates.

**`NodeRegistry`** has the node map (`names`), the tables (`rows`,
`positions`), `lastNode` and the publications. One step is one frame, one
framed line or one line that names a node, with all its callbacks, or a
restart. The initial state and a restart include the start-up of `main`
(192-221): the local node's info, from the cache or the radio, enters the map
without a number, hence as `0x0`, and the tables under its "!" id (`LocalKey`),
or under no id at all when its line was not understood (`EmptyKey`); the listed
nodes follow, whether heard before or not. The statements of `Upsert` may
fail one by one (`Faults`), those of the start-up too. Ids are numbers. A line of
log text may by chance be bytes that a decoder accepts; printable bytes cannot
spell a node's number, a user or a place, so that such a line leaves the
tables alone (`NamingLine` may do nothing). `told` is the history of where nodes
were said to be.

**`MeshSpy`** is the life of the program. `pc` is the line main is at, with one
phase per run of meshtastic-go; `manager` is `portMgr # nil`, `portOpen` the
manager's `port`, `lock` its mutex. The callback takes one command at a time
(paho calls it in order): it looks at `portMgr`, locks, looks at `port`,
writes, unlocks; each is a step. `portMgr` is written by main and read by the
callback without synchronisation, so until the callback has `seen` main's writes
it may still find nil, or a manager without its port. The reading goroutine
takes the port without the mutex when it starts; if `Close` was first it reads
from nil and the process panics. Main sleeps for a second before `Close`, which
makes this unlikely and not impossible. A device that is unplugged takes the manager's port with it
(`dead`): it may come back, but the port is never opened again. External: the
device (`Plug`, `Unplug`),
the publisher of commands (`Publish`); meshtastic-go may also be missing, be
skipped, or fail. **`Forwarder`** is the abstract specification: a gate that opens
once and closes once, and commands settled one at a time in the order in which
they were published, none of which fails behind a write unless the gate is
closed. The gate of `MeshSpy` is open while the manager's port is, unless the device
behind it was lost, and before that while main has no manager.

**`MqttSession`** is what `ConnectMQTT` (`client/client.go` 175-200) makes of the
client library: a session that is clean at every connection, reconnects by
itself and stores the requests, to subscribe or to unsubscribe, that were not
acknowledged (`pending`): after a loss it sends them again in no particular
order, and the reconnection completes the tokens that were waiting for them. Library (paho) and
broker are external and modelled from the calls the programs make: packets on
their way to (`out`) and from (`inbox`) the broker, one token per subscription,
`Lose` and `Reconnect`. That both programs of a container use one client id, so
that each throws the other out, is one of the reasons for `Lose`.
**`WebBridge`** is the websocket handler of webapp (`cmd/webapp/main.go`
74-147): for every page its handler (`phase`), its queue and the goroutine that
publishes it, all sharing one client and hence one callback (`route`). The
callback and the handler's echo write to the same websocket without a lock;
gorilla checks this with an unsynchronised flag and panics when it notices
(`MayPanic`), which ends the page's handler or, in the callback, the process
(`alive`). Steps no other process can tell apart are one: the upgrade and the
subscription (`OpenPage`; the library adds the callback before it sends the
request), reading what the page typed and queueing it (`Read`). The deferred calls
are two, because the library sends the request to unsubscribe (`Return`) before it
deletes the callback (`EndReturn`), and without a connection does neither. `queue` includes the message in the publisher's
hand, so that it holds one more than the channel. **`Relay`** is the abstract
specification of a path without acknowledgements; the path from the pages to
the callback of meshspy implements it, with what a page typed as what was said.

**`LocalInfo`** is how meshspy finds its own radio (`client/client.go` 66-172,
202-248, `cmd/meshspy/main.go` 192-200): `start` is where the start-up is,
`file` nodes.json, which is emptied (`Truncate`) before it is written
(`Encode`); each may fail, and a file that could not be created anew stays what
it was. The output of meshtastic-go is a sequence of lines of four kinds,
read up to the second header. **`MgmtServer`** has the uploads of
`mgmtapi.SendNode`, one at a time and given up after five seconds, and the
handlers of the server, one per request, each a row and a position.
**`ManagedNode`** composes both: the first upload is the info found, the others
follow, each holds up main or the reader, and a stop leaves the server with a
request nobody waits for. A port that cannot be opened ends the process (`no_port`, `log.Fatalf` in 235-237).
`since` and `source` are history. A text that the
code leaves empty is "none" here. Which radio is plugged in first is a
parameter (`FirstRadio`), because the radios are alike.

`MCSerialFraming`, `MCSerialLink`, `MCPacketReading`, `MCNodeRegistry`,
`MCWebBridge`, `MCManagedNode` hold the finite sets for TLC; `MeshSpy` needs none.
`MCWebBridge` states the two liveness properties of pages of the first one only
(`FirstQueueIsPublished`, `FirstPageIsReleased`): nothing tells the pages apart, so
that what holds of one holds of the other.

Definitions placed directly before the one they alter (`AllowsOneMore` before
`BadLength`, `EndCliEarly` before `EndCli`, ...) are faulty versions of it:
`PROJECT.json`, "mutants", pairs each property with one that violates it.

## 4. The runs

| run | asks | bounds, and why they are enough |
|---|---|---|
| `serial_framing` | what the scanner hands on, in what order, from what buffer (six invariants and the types); `ScanReturns` | inputs of 7 bytes over the start bytes, both line bytes, 0, 1, 2, with `MaxSize` 1. Lengths 0, 1, 2 and 256 upwards occur; 7 bytes hold a whole frame with text before and behind, a broken header overlapping a good one, and a frame with a header as payload |
| `serial_link` | `ImplementsChannel`, `FramesDelivered`, `LinesDelivered` | five messages; payloads that spell a header, a newline and a length. `MaxBytes` 40 is never met |
| `serial_link_loss` | `Resynchronises`, `FramesAreGenuine`, `StaysInStep` | six messages, one lost byte, `MaxSize` 1: text bytes that complete, behind the loss, a header with an acceptable length, whose frame ends inside the next real one, and another frame behind it to check. With one message fewer, or text without the bytes 0 and 1, the bound of `Resynchronises` could be one too small unnoticed. Payloads with and without a false start: a frame that the loss has cut open ends in the first start byte, text makes that a false header, the scanner follows it, and a real frame comes that it takes in step |
| `packet_reading` | `DecodersFollowSchemas`, `FramesReachCallbacks`, `IllFormedTextForgesNothing` | every variant the decoders tell apart, with and without text that is text; two contents; ids that are absent, a node's, or the number of a port. The state has no memory but the last message, so that nothing deeper exists |
| `registry` | `PositionsAreTold`, `NamesOnlyFromOwnInfo`, `PublishedIsResolved` | two nodes, two names shared between them, both firmwares, a node info that cannot be read, message ids that are a node's number, a local info with or without names, a list with a node that may not have been heard, faults, one restart, one publication (the properties relate one publication to the map) |
| `meshspy` | `ExclusivePort`, `NoWriteAfterClose`, `ImplementsForwarder`, `ShutsDownOncePlugged`, `CommandsSettled` | four commands: dropped, written, failed and one more; two unplugs: before the port is opened, and of the device behind it |
| `web_bridge` | `CommandsRelayed`, `ServedUntilSomeoneLeaves`, `MeshShown`, `FirstQueueIsPublished`, `FirstPageIsReleased` | two pages (one takes the callback of the other, one leaves under the other), a queue of one, two messages said (`MaxSaid`): both typed (order, a full queue), or one of them of the mesh (`MaxHeard` 1: an echo meets the callback); one connection lost at any moment |
| `managed_node` | `VersionFits`, `InfoIsOfTheRadio`, `AcceptedIsKept`, `ServerPositionsHaveRows`, `StartsAnyway` | two radios, two firmwares, one change and one stop at any moment, two uploads (an old one overtaking a new one) |
| `packet_kinds` | `PacketsReachTheirCallback`, violated | as `packet_reading` |
| `registry_rows` | `RowsHoldLastNodeInfo`, violated | no faults, no restart: the violation needs neither |
| `web_pages` | `OpenPagesSubscribed`, violated | two pages, nothing said, nothing lost |
| `mqtt_resume` | `SubscriptionsResumed`, violated | one loss |

Deadlock checking is off where the system may stop: the bound on bytes or
messages is reached (`serial_*`, `managed_node`), the process has ended
(`meshspy`), or nobody types any more (`web_*`, `mqtt_resume`).

What the violated runs show:

- `PacketsReachTheirCallback`: every packet is taken for telemetry, so waypoints
  are never stored and admin and alert messages never logged as such.
- `RowsHoldLastNodeInfo`: the local node's `MyNodeInfo` empties its row.
- `OpenPagesSubscribed`: `Unsubscribe` is for the topic, not for the page; when
  one page leaves, those that stay get nothing more, though their echo works.
- `SubscriptionsResumed`: `SetResumeSubs` repeats requests without an
  acknowledgement; the session is clean, so that the broker forgets those
  that had one. After the first lost connection no command reaches meshspy
  until it is started again. In webapp the next page subscribes again.

More that the models show without a run of their own:

- A newline is looked at only when one more byte is in the buffer (173), so
  the last line before a silence waits. `LinesDelivered` states what does hold.
- The frames of a 2.1 radio start with 0x44 0x03 and are text to the scanner:
  they are decoded only if a line happens to begin with one and a newline
  follows. In such a line every packet is taken for a node info
  (`DispatchLine`), so that its text never reaches the text callback.
- Any packet stores a row for the node `0x0`: read as a `NodeInfo` it has no
  number and an empty user, whatever README 123 says of discovered nodes.
- While main waits for the device it never looks at the signals it has taken
  over: SIGINT and SIGTERM do nothing until the device is there, which is why
  `ShutsDownOncePlugged` excludes that phase.
- `lastNode` holds the resolved name (`NamingLine`), so a node is not published
  directly behind another one of the same name. A command that arrives before
  `OpenManager` has the fate "dropped".
- A node info whose name is not valid UTF-8 changes nothing, not even the place
  it reports; a `MyNodeInfo` or any other message with an id creates a row
  under that id.
- A saved info is used until the file is gone: after a firmware update the
  protocol version is the old one (`since` in `VersionFits`).
- A device that was unplugged and is back is not used again: every later command
  fails (`dead` in `Gate`) until meshspy is started anew.
- An upload that was given up may be served after a later one and replaces it
  (the exception in `AcceptedIsKept`).

`PositionsAreTold` holds of waypoints that arrive as well as of those that do not
(`packet_kinds`): it says of every position whose it is, and that the row written
in front of it is there whichever statement failed.

### Fairness

- `SerialFraming!FairSpec`: the loop's goroutine keeps running. Nothing is
  assumed of the device.
- `SerialLink!LinkFairSpec`: bytes on the wire are read and scanned.
- `MeshSpy!FairSpec`: main, the callback and the reader run when they can; a
  meshtastic-go process and a write to the port end (the code has no timeout for
  either). No signal, command or device need come. `Close` waits for the mutex
  under weak fairness only, which suffices because the commands of a behaviour
  are bounded; with endless commands it rests on the starvation mode of Go's
  mutex.
- `WebBridge!FairSpec`: goroutines run, packets travel, connections come back,
  open pages read what is written to them. One condition on the union of these
  steps is enough, because each of them uses up something the bounds make
  finite. No page need come, type or leave.
- `ManagedNode!FairSpec`: main's own steps, and its five-second timer. The server
  owes nothing; neither does the radio, because meshtastic-go is given up
  after five attempts.

## 5. The proofs

**`SerialFramingProofs`**, from `ByteAssumption`, `MaxSizeAssumption` and
`MaxBytesAssumption` only: `TypeOK`, `BufferIsTail`, `BufferBounded`,
`FramesSound`, `EventsOrdered` for every byte set and every maximal size. Types
and the tail property are inductive together (`TypedTail`: the length read from
the buffer is a number only if its bytes are). Boundedness follows from
`BlockedIsShort`: a buffer nothing can be taken from is shorter than a maximal
frame, so that one more byte keeps the bound. For the events the strengthening
`Handled` says that every event lies in what has left the buffer: without it
a new event could not be placed behind the earlier ones, nor an old frame be
known to be unchanged.

That the scanner misses nothing (`FramesComplete`) and that lines hold the right
bytes (`LinesSound`) compare it with `FrameStarts`, which is recursive over the
whole input. `FrameStartsAre` replaces the recursion by what it means: the
positions that open a frame and lie in none that starts earlier. It rests on two
inductions, which are made over sets instead of operators: a set of numbers
that is not empty has a least element (`LeastNumber`, from the well-foundedness
of < on the naturals), so that a set of counterexamples must be empty.
`Decided` is the invariant behind `FramesComplete`: every byte that has left
`buf` is in a frame handed on or begins none, whatever follows. Alone, the
property is not inductive: it speaks of the moments when the loop waits.
`Gathered` is the one behind `LinesSound`: `logBuf` spells the text since the
last newline that left `buf`, and each line handed on spells the text up to its
own.

**`SerialLinkProofs`**, from the assumptions of `SerialFraming` and
`LinkAssumption`, for any payloads, texts, losses and messages. The link
implements the scanner (`LinkImplementsScanner`), so that everything above holds
at its end. `LaidOut` says where the messages lie in the stream, what was read
followed by what is on its way: in the order they were sent, the whole ones
with all their bytes and clear of the next. A lost byte damages one message and
moves the later ones.

- `ImplementsChannelCorrect`, when nothing is lost (`MaxLoss = 0`) and the
  device writes the start bytes the scanner looks for. `LossFree`: the messages
  follow one another without a gap, and the scanner always stands between two
  of them (`OnBoundary`). From there it cannot take a frame for text
  (`HeadFrame`) nor text for a frame (`TextStartsNothing`: the next message would
  have to begin with the second start byte, which a frame does not and a text
  byte may not), so that it takes exactly the next message: the step of the
  channel. Nothing is asked of the payloads.
- `ResynchronisesCorrect` and `FramesAreGenuineCorrect`, for any number of
  losses, the same start bytes and any payloads; both speak of the time until a
  frame with a false start is sent (`SentCleanly`), and what was clean stays so
  at every step back (`CleanBefore`). `NoGhosts`: behind the last loss every
  header in the stream is that of a whole frame. A frame handed on that begins there is therefore genuine. One that begins in front
  of the loss ends within one maximal frame, and a whole frame that begins
  behind that end cannot be inside another: it has been handed on when the
  scanner has passed it (`PassedIsHandedOn`, from `Decided`), and a scanner that
  has not would be waiting inside it or in front of a genuine one.
- `StaysInStepCorrect`, for any number of losses, the same start bytes and any
  payloads. `Behind`: from a whole message behind the last loss on, all
  messages are whole and follow one another without a gap (`GaplessBehind`),
  because a later loss damages what it meets, becomes the last one, and moves
  all that follows by the same place (`DamagedGapless`). `InStep`: behind a
  frame that was handed on from there, the scanner stands between two messages,
  has missed no frame, and has taken nothing else for one (`Followed`). Its next
  step takes the next message, by the lemma that serves the channel
  (`ScanDelivers`); after a loss nothing behind it has been taken yet.

The proof corrected the model: the bound of `Resynchronises` was one byte too
small, because the false header can begin at the last byte read *before* the
loss. TLC confirms it on the constants that `serial_link_loss` has now. Without
`SentCleanly` the bound does not exist: each payload can hold the header of the
next false frame, for as long as the device goes on. The code has no such
guarantee from protobuf payloads; what it has is that they are rarely like that,
and that one frame found is enough (`StaysInStep`).
`DevStart1 = Start1` and `DevStart2 = Start2` exclude the 2.1 firmware, whose
frames the scanner does not look for (see the hazards).

**`MeshSpyProofs`**, from `BoundsAssumption`: `TypeOK`, `ExclusivePort`,
`NoWriteAfterClose` for any number of commands and unplugs, and
`ForwardingIsOneInterval`, which says of the fates alone what `ImplementsForwarder`
says of the steps: nothing is dropped behind what was handed on, and nothing
is written behind a failure behind a write, even when the device is back. `Held` adds to the types where main must be while meshtastic-go runs or
the port is open, and where the callback must be while the mutex is taken.
`TypeOK` needs it: the phase behind the end of meshtastic-go is defined only
because main is still in the phase that started it. `OneInterval` adds that
commands are settled in order, that fates fit what the callback has seen, and
that a failure behind a write means that the port was closed, which main does
once, or its device lost, which it stays (`ClosedForGood`). From both follows that
the program implements `Forwarder` (`ImplementsForwarderCorrect`): only `OpenPort`,
`ClosePort` and `Unplug` move the gate, each in one state of it (`GateStep`), and every
step of the callback that settles a command settles the oldest that waits, which
it may drop or let fail because of what it has `seen` (`CallbackForwards`).

**`PacketDispatchProofs`** has lemmas about the decoders and the two orders in
which readLoop tries them: `FirstOf` calls what the first reading that succeeds
calls and nothing else, so that a reading tried later implies that the earlier
ones failed. **`PacketReadingProofs`**, from `NodeAssumption` only, shows for any nodes,
users, places and contents that `FramesReachCallbacks` holds and that text which is not
text calls nothing it should not (`IllFormedTextForgesNothing`). The invariant says
that the callbacks held are those of the last message; both theorems are then
facts about one dispatch. `DecodersFollow` proves `DecodersFollowSchemas`: for each type
a decoder reads, a lemma expands the field tables once and says which fields of a
`FromRadio` message the type takes; what each variant is read as follows from
those. **`NodeRegistryProofs`**, from `RegistryAssumption`, proves `TypeOK`, `PositionsAreTold`, `NamesOnlyFromOwnInfo` and
`PublishedIsResolved` for any nodes, names, ids and any number of restarts and
failed statements. Types and positions are inductive together (`RegistryInv`).
Each callback leads from a sound database to
sound ones (`UpsertSound`, `StoresSound`), and so does every start-up, whichever of
its statements fail (`ListedRowsSound`, `StartUpsSound`). That a waypoint adds no
position that is not its own follows, as things are, from `WaypointsHaveNoPlace`:
it is tried only on bytes that are not telemetry, and bytes with the place of a
waypoint always are.

**`ManagedNodeProofs`**, from `IdAssumption`, `LocalBounds` and `UploadsAssumption`: `TypeOK`, `VersionFits`, `InfoIsOfTheRadio`, `AcceptedIsKept`
and `ServerPositionsHaveRows` for any radios, changes, stops and uploads. The
first part is about the output of meshtastic-go: in whatever follows the first
block, only its own lines are found. `LocalInv` says that every info, in the
file or in use, fits the radio as long as the radio is the one it was read
from. `MgmtInv` says that only the last upload may be waited for, and that the row
a handler has written is its own, a later one or one that was given up: a
handler that overwrites the row of a later upload serves one that nobody waits
for any more.

**`WebBridgeProofs`**, from `PageAssumption`, `LossesAssumption`, `BridgeAssumption`
and `PageNames`: `TypeOK`, `ServedUntilSomeoneLeaves` and `CommandsRelayed`
for any pages (finitely many), queues and losses. `ServedInv` adds that nothing
on its way will end the subscription and that an acknowledgement, received or
on its way, is one of a subscription in force. What the library sends again after
a loss are requests of the program's own (`ResentOK`, over any order of a finite
set), and no messages, so that no number comes twice. For the refinement, `InOrder`
says that the numbers of a page fall along its way: queue, packets sent,
packets forwarded, commands; every step moves the head of one part behind the
next part or drops it, which keeps the order, and a number that arrives is
larger than those that have arrived because it was behind them. Every step of the bridge is
then one of `Relay` or changes neither end of it.

`SumFunction`, by which `WebBridge` bounds what is said, is a fold about
which the provers know nothing; the theorems do not use the bound.

Only model-checked: all liveness properties: `ScanReturns`,
`FramesDelivered`, `LinesDelivered`, `MeshShown`, `FirstQueueIsPublished`,
`FirstPageIsReleased`, `ShutsDownOncePlugged`, `CommandsSettled`, `StartsAnyway`. Of
`ScanReturns` the part that is not temporal is proved: the measure that falls
with every iteration (`ScanShortensBuffer`).

## 6. Not modelled

The bytes of text lines (colours, the pattern of a node's id), names as strings,
the contents of frames written by the manager (the length field of an
over-long text), the `telemetry` table (nothing outside the tests writes it),
times and the order of positions, `--sendtext`, `Manager.Send` (never called) and
logging.
`WebBridge` has one QoS, 0, as the code; a page that stops reading without
closing (nothing bounds `WriteMessage`, so that it would block every page) is
assumed away. The repeated takeover of the shared client id is bounded by
`MaxLosses`. Of the management server the command route is left out: nothing
calls the client's `SendCommand`, and the handler is one publication.

Components left out: the message board (one statement per request on one
table), the dump parser and the table of `GetMeshNodes` (pure parsers of text),
configuration, export, the one-shot writers and scripts (run once, hold no
state). Of the generated code, messages that are only sent to the radio or
never reach these programs, enums and descriptors are left out, and the getters of
the types nothing reads a field of.
