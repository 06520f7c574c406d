# A verification of the proxy

The program is a TCP proxy. A client connects, sends a first message of
12 bytes that carries an integer id, and the proxy connects to the server
the configuration file gives for this id; from then on bytes are forwarded in
both directions, the first message included. JSON messages from a RabbitMQ
queue close the clients of one id, or all clients. Everything runs in the
callbacks of one libevent loop, in one thread.

This directory holds TLA+ modules that model the proxy, TLC configurations
that check them on small instances, and TLAPS proofs of the main properties for
every instance. `PROJECT.json` maps each definition to the lines it models.

## Inventory

| component | state | operations | used by |
|---|---|---|---|
| `Server` (server.cpp) | listener, callbacks | accept callback, error callback, init | libevent, main |
| `ConnectionManager` | `_processors` (owning set), `_running` | addConnection, dropConnection, dropAll | ProxyManager |
| `ProxyManager` | `_idToConn`, a multimap from id to weak_ptr | addProxy, onIdRecv, dropConnection, dropById, dropAll | main, Proxy callbacks, Controller |
| `ConnectionProcessor` | `_bev`, `_connecting`, callbacks | readProxy, onEvent, connect, sendData, close, destructor | base of the next two |
| `Proxy` | `_state`, `_id`, `_fwd`, `_lastInput` | dataRecieved, onConnected, onFwdClose | libevent, Forwarder |
| `Forwarder` | `_destination` | dataRecieved | libevent, owned by its Proxy |
| `Controller` | none | onControlMessage | ControlChannel, main |
| `ControlChannel` | AMQP connection and channel | start, stop, onReceived, channel error | libevent |
| `JsonParser` | none | parse | ControlChannel |
| `Config` | `_hosts`, options | read, parseCmdLine, getHostById | main, Proxy |
| `main` | `base`, `run` | start-up, signals, loop, shutdown | |

The AMQP client library AMQP-CPP is in the repository as headers
(include/amqpcpp), with one change of its own, the heartbeat timer of
`LibEventHandler`. The `.cpp` files of the library are not here. What the headers
implement inline is modelled from them; what they only declare is modelled as
their comments and the inline code use it, and marked external.

| component | state | operations | used by |
|---|---|---|---|
| `LibEventHandler`, `LibEvHandler`, `LibUvHandler`, `LibBoostAsioHandler` | watchers by descriptor, heartbeat timers | monitor, onNegotiate, onLost, onDetached, callbacks of the loop | TcpConnection; the program uses the first |
| `TcpConnection` | descriptor, phase | process, onIdle, onConnected, onNegotiate, onLost | event loop handlers |
| `Connection`, `ConnectionImpl` | `_state`, `_closed`, `_maxFrame`, queue | setProtocolOk, setCapacity, setReady, close, fail, reportClosed | TcpConnection, Channel |
| `Channel`, `ChannelImpl` | `_state`, `_synchronous`, `_queue`, list of results | instructions, reportReady, reportSuccess, reportClosed, reportError, close | ControlChannel |
| `Deferred` and its classes | callbacks, `_failed` | onSuccess, onError, onFinalize, reportSuccess, reportError | Channel |
| `DeferredReceiver` and its classes, `Message` | message under way | initialize, process, complete, append | Channel |
| `Watchable`, `Monitor` | lists of each other | constructors, assignment, destructors, valid | whatever runs callbacks |
| fields, `Table`, `Array`, `MetaData` | values | set, get, fill, size, read | frames |
| `CopiedBuffer`, `ReceivedFrame`, `ByteBuffer` | blocks of octets | construct, move, send, parse | ConnectionImpl |
| `Address`, `Login` | parts | parse, print, compare | ControlChannel |

What is hard here is not concurrency of threads but of events. A session has
two sockets, each of which may deliver bytes, an end of file or an error at any
time, a connection attempt that ends asynchronously, and commands that cut it
off in any phase. Objects are destroyed from within their own callbacks, and
two tables (`_processors`, `_idToConn`) must agree with them afterwards. The
list of hazards, each at its line, is in `PROJECT.json`. The library has the same
difficulty from the other side: its callbacks belong to the program, which may
give new instructions, close or destroy the object that is calling.

What makes each component correct:

- ConnectionManager: an object is in the table exactly while it has its
  socket; dropAll is final.
- ProxyManager: every entry is live, every live client that announced an id
  is found under it, a command ends no other client.
- Proxy and Forwarder: the phase agrees with the Forwarder, no byte is lost,
  repeated or reordered while the session lasts, none is forgotten in a buffer,
  a session whose server cannot be reached ends.
- ControlChannel, JsonParser: each message has its effect once or is rejected.
- Config: a lookup yields what the last line of the id says.
- main: a signal ends the program; nothing is used after it is freed.
- Handlers of event loops: process() is called for the owner of a descriptor
  with what it asked for, and goes on being called; timers end with their
  connection; heartbeats are sent in time, silence is found out.
- Connection, Channel, Deferred: states only advance; each answer reaches the
  callbacks of its instruction; every instruction has one outcome; what a callback
  destroyed is not touched.
- Receivers: a message is delivered whole, however it was cut.
- Watchable: valid() is true exactly for what exists.
- Fields, metadata, frames, addresses: what is written is read back, and what is
  written fits what was allocated for it.

## Modules

| module | models |
|---|---|
| `ConnectionManager` | `processors`, `running` and the three operations on them |
| `ProxyManager` (extends it) | `idToConn` and its operations; `onIdRecv` is a function on the multimap since it runs inside handlers that change the map again |
| `Proxy` (extends it) | the members of Proxy and Forwarder, the buffers of both directions and the operations on them |
| `ProxyServer` (extends it) | one action per libevent callback and per command, the specification and its properties |
| `BytePipes` | the abstract specification: FIFO pipes that may break |
| `MCProxyServer` | the values of constants for TLC |
| `JsonParser` | parse as an operator from message bodies to outcomes, with jsoncpp's conversions |
| `ControlChannel` (extends it) | the consumer of the command queue, and the broker it talks to |
| `MCControlChannel` | the values of constants for TLC |
| `Main` | main's start-up, loop and shutdown, and the signals that interrupt it |
| `ProxyServer_proofs`, `ControlChannel_proofs`, `Main_proofs`, `Teardown_proofs`, `EventLoops_proofs`, `ChannelImpl_proofs`, `Library_proofs`, `Formats_proofs` | lemmas and theorems about the module of that name |
| `Teardown` | the end of a session with its call stack, statement by statement: the part that `Close` of ProxyServer does in one step |
| `Config` | the command line, the file and the look-up |
| `FdMonitor` | abstract specification: what TcpHandler::monitor promises |
| `TcpConnection` | the connection as the handlers of event loops see it |
| `LibEventHandler`, `LibEvHandler`, `LibUvHandler`, `LibBoostAsioHandler` (each extends it) | the four handlers |
| `EventLoops` (extends `TcpConnection`, instantiates the four) | a program with one of the handlers; each is shown to implement `FdMonitor` |
| `ConnectionImpl` | handshake, tuning and end of the AMQP connection |
| `Deferred`, `ChannelImpl` (extends it) | the classes of results, and the channel that keeps a list of them |
| `DeferredReceiver` | receiving messages |
| `Watchable` | objects and the monitors that watch them |
| `Wire`, `MetaData`, `FieldTable` (extend it) | octets of fields; properties of a message; tables and arrays |
| `Frames` | blocks for frames, and frames in a stream of octets |
| `Address` | parsing, printing and comparing AMQP addresses |
| `Library` | instances of ChannelImpl (`LongChannel`, with failures and a long history; `WideChannel`, with several classes of results and Channel objects), DeferredReceiver, Watchable and ConnectionImpl |
| `MCLibrary` | the values of its constants for TLC |
| `Formats` | instances of MetaData, FieldTable, Frames, Config and Address (two: long texts to read, short ones to compare) |
| `MCFormats` | the values of its constants for TLC |

EventLoops, Library and Formats put parts side by side that do not share state:
the initial state picks one of them, and only this one moves. One run then covers
all of them, each with its own instance.

The three specifications ProxyServer, ControlChannel and Main meet at two
points: a command ControlChannel runs is a step CtlClose or CtlCloseAll of
ProxyServer, which takes them at any moment; and all steps of ProxyServer but
libevent's happen within `Callbacks` (and CLOSE_ALL in `CloseAll`) of Main.
`Teardown` justifies that a callback is one action of ProxyServer: within it nothing
is used after its end and no mutex blocks. `LibEventHandler` and `ChannelImpl` are
what ControlChannel's steps rest on: a socket that is read again and again, answers
that find their callbacks. `Watchable` is the mechanism by which ChannelImpl and
ConnectionImpl know whether they still exist; there it is a Boolean.

### State

`Conn` is the set of connections the listener will ever accept; each stands
for one Proxy object. `bev[c]` says that the Proxy's `_bev` is not null, which
is also whether the client's socket is open. `fwd[c]` is `"none"` without a
Forwarder and otherwise tells how its connect() ended (`"connecting"`: _connecting
is true). `state`, `id`, `processors`, `running` and `idToConn` are the members
of these names. A Proxy is destroyed when it leaves `processors`, for this set
holds the only shared_ptr that outlives a callback; the model keeps `state` and
`id` of a dead Proxy, and the ends of its streams, as history.

A direction of a session is a record: `sent`, all that libevent has read from
the source; `in`, the input evbuffer it was read into; `out`, the output
evbuffer of the other bufferevent; `rcvd`, all that was written to the
destination. Bytes are numbered by position, so that loss, duplication and
reordering all show. libevent's own steps (a read of any size, a partial write,
bufferevent_free, which discards both buffers) are modelled from how the code
uses them and marked external.

In ControlChannel messages are numbered as they are published. The broker has
them in `ready`, `unacked` or `acked`; `wire` holds what it delivered and
onReceived has not been called with, `acks` the acknowledgements under way;
`handling` is the message between its acknowledgement and the end of onReceived.
`fate` and `ran` are history: what became of each delivery, and the commands
given to the Controller. A JSON value is a type and a number; of all strings
only the name of the job is told apart, and reals are integral or lie halfway
between two integers.

In Main `pc` is the place in main, with the loop of libevent split into its test
of the break flag, the moment before the poll, the poll and the callbacks, because
a signal has another effect in each. `came` is history: the places in which signals
arrived.

In Teardown a frame of `stack` has the function, the object it runs on and the
statements it has left, and a statement names what it touches or calls. `alive`
are the objects before their destructor ends.

In the handlers `owner` and `asked` are what a connection last asked for, `call` the
process() call under way: a connection may ask for something else within it.
LibEventHandler's `timers` keeps the entry of a freed timer, as the map does.
LibEvHandler counts half seconds; `refs` is the loop's reference count relative to
the start. LibBoostAsioHandler counts the waits under way by watcher, kind and
connection, since a completion keeps all three.

In ChannelImpl `ops` are the results given to the program, `next` the links of the
list and `oldest` and `newest` its ends; `queue` holds the frames that wait, `wire`
those the broker has not answered; `run` is the report whose callback is
running and `under` the one it interrupted; `connection` tells whether fail() was called,
is under way or has ended, and `struck` is the result whose callback called it. A callback is known by the number of its registration, and `told` of a
result is what the program was called with. In Watchable `monitors` counts how often
each monitor is in the list of an object, whose order nobody looks at. In DeferredReceiver byte i of message
n is <<n, i>>, and `got` is what the program has of the last one; `left` is the receiver's
counter of bytes to come, negative once the code's unsigned one has wrapped. Wire and the
modules that extend it keep real octets, with 4- and 8-byte integers cut down to 2
and 3. In Address a text is a sequence of tokens, one for each character the parser
looks for, and letters and numbers.

### Actions

A callback with everything it calls is one action, since nothing else runs
meanwhile.

| action | code |
|---|---|
| `Accept` | Server::onAcceptConnection, main's lambda, addProxy |
| `ReadForward`, `ReadKeep`, `ReadReject`, `ReadConnect`, `ReadConnectRefused` | readProxy on the client's side and the branches of Proxy::dataRecieved |
| `ClientGone`, `ServerGone` | onEvent with EOF or ERROR, close(), the close callbacks up to both managers |
| `ServerConnected`, `ServerUnreachable` | onEvent while `_connecting`, Proxy::onConnected |
| `ReadServer` | readProxy on the server's side, Forwarder::dataRecieved |
| `FlushToServer`, `FlushToClient` | libevent writes an output buffer |
| `CtlClose`, `CtlCloseAll` | Controller::onControlMessage |
| ControlChannel: `Start`, `QueueDeclared`, `OnError` | constructor and start(), the success of declareQueue, a channel error |
| `OnReceived`, then `CantParse`, `CtlMessage` or `ParseThrows` | the consumer's callback, split at the acknowledgement, which a crash may follow |
| `Stop`, `Crash` | the end of the process between and within callbacks |
| `Publish`, `Deliver`, `AckArrives`, `Requeue` | the broker (external) |
| Main: `NewBase` to `TestRun`, `CloseAll` to `Return` | the lines of main before and after the loop, each with its early return |
| `EnterLoop`, `CheckBreak`, `Poll`, `Event`, `Callbacks` | event_base_dispatch (external) |
| `AcceptError`, `SigHandler` | the listener's error callback, sig_handler |
| Teardown: `Gone`, `Close`, `CloseAll`, `Message`, `Accept`; `Step` | what libevent or a command starts; one statement of the function on top |
| Config: `parseCmdLine`, `Open`, `read`, `EndOfFile` | an option, and a line, with their early returns |
| Handlers: `Ask`, `callback` or `onActive` or `Handler`, `processed` or `Rearm`, `onNegotiate`/`start`, `onLost`, `onDetached` | monitor() in all its branches, the loop's callback up to process(), what follows it, and the phases |
| LibEvHandler: `SetupExpired`, `Silent`, `Beat`, `Tick` | the branches of the timer's callback, and time |
| ChannelImpl: `Instruct`, `Acknowledge`, `close`, `Move`, `DestroyChannel`, `DestroyMoved` | the program's calls, from a callback or outside |
| `fail`, `reportChannelError` | Connection::fail, from a callback or outside, and the broker's closing of the channel: the errors of all results, one callback at a time |
| the actions of `Replies`, then those of `Returns` | the reports up to the callback, and what they do after it, which is also the return to the report that a failure interrupted (`Back`) |
| DeferredReceiver: `Begin`, `Header`, `Body`, `Empty`, `Register`, `Install`, `Uninstall` | the frames of a message, which may bring more than its size, and the program's registrations at any time |
| ConnectionImpl: `setProtocolOk`, `propertiesReturns`, `Tune`, `setReady`, `Send`, `close`, `fail`, `reportClosed`, `reportError`, `Destroy` | the methods, the first one split at its callback |
| Watchable: `Create`, `Destroy`, `Construct`, `Copy`, `Assign`, `Destruct` | constructors, assignment and destructors |
| MetaData, FieldTable: `Set...`, `Forward` | setters; a message received is sent on |
| Frames: `Build`, `SendNow`, `Enqueue`, `Leave`, `Flush`; `Serve`, `Receive`, `Parse` | sending and receiving |
| Address: `Write`, `Keep` | a longer text; an address to compare with |

The content of the first message is a choice: it is rejected (malformed or an
id that is not configured), or it carries an id of `Hosts`. A close command
names any id that is not negative, as JsonParser turns negative ones into
CLOSE_ALL. libevent may report a failed connection from within connect(), before
`_state` is CONNECTING: `ReadConnect` has this outcome too (one that connect() then
returns as false is `ReadConnectRefused`, for onConnected(false) only logs). A success
comes from the loop. `SendMayFail` chooses whether evbuffer_add_buffer may fail; the code
ignores the result, and so does the model.

## Runs

| run | question | instance |
|---|---|---|
| `registry` | do the objects, the two tables and the phases always agree? | 3 interchangeable connections, ids -2, 0, 1 and 7 (not configured), one-byte streams |
| `streams` | is each direction of each session a byte pipe? | 2 connections, first message of 2 bytes, 3 bytes each way, sends that may fail |
| `delivery` | does what a client sent arrive? | 1 connection, first message of 2 bytes, 4 bytes, fairness |
| `channel` | what can happen to a message, over crashes and restarts? | 3 messages, 4 bodies, 2 ends of a channel or process, fairness |
| `commands` | is exactly what asks for a command executed? | 1 message of every body; int is -2..2, numbers -3..3 |
| `signals` | does a signal end the program? | 3 signals, fairness of all steps but the arrival of events |
| `teardown` | is anything used after its end while a session is torn down? | 2 sessions, each ended by every cause, one within the other |
| `event_loops` | does each handler do what the library relies on? | 2 connections and 1 descriptor that passes between them; libev: 1 connection, 10 half seconds, a loop late by at most one, timeouts of 0 to 2; fairness |
| `library` | do answers, failures and messages reach their callbacks, whatever these do? | channel: 4 instructions with failures, or 2 of three classes on a channel that is moved, fairness; 2 messages of sizes 0 and 3 with up to a byte too many; 2 objects, 3 monitors; frame sizes 0, 2, 12 |
| `formats` | is what is written what was allocated, and what is read? | 3 calls of setters; 3 frames each way; texts of 5 tokens, or 2 of 3 tokens; 2 options, 2 lines |
| `close_misses_client` | does a close command reach every client of the id? No. | 2 connections of one id |
| `unreachable_hangs` | is a client closed whose server is unreachable? No. | 1 connection, fairness |

Three connections are enough for two clients of an id and a bystander, and for
a client that arrives after another one of its id has gone. A first message of
2 bytes can be incomplete; 3 or 4 bytes leave room for bytes that arrive with
it, while connecting and after. Three messages let one be acknowledged, one be
in the callback and one in the socket when a crash comes, and two ends a crash
during recovery from another. The numbers -3..3 lie on both sides of both ends
of the small int, and a half lies beyond each. Three signals fall before, in
and after the gap that matters. Two sessions let one end while the other one's
callback is running. One descriptor and two connections are what it takes to pass a
descriptor on with callbacks still queued for its old owner; a timeout of 2 half
seconds is the first one in which heartbeats and silence can be told apart, and 10
half seconds hold set-up and several periods. Four instructions give a list with a
head, a middle and an end while one is added in a callback. Messages of sizes 0 and 3
have no body frame, one, or several; a byte too many may come in the only frame or in
the last of several, and the second message begins after that; three monitors make a list from which the first, the
last or the middle one goes. Three setters reach every pair of properties
with a third one between or after them in the octets; the strings include the empty
one and one longer than its size octet can tell. A text of 5 tokens has every order
of the delimiters that the parser looks for. The theorems below have none of these bounds.

`registry` checks `TypeOK`; `Ownership` (bufferevent and table agree);
`ForwarderLife` (phase and Forwarder agree, so `*_fwd` is never null in state
FWD); `EntriesLive` (no stale entry under an id that a command can name);
`OrphansExplained` (a live client can only be missing after another one of its
id closed); `ClosedForGood` (dropAll is final); and the action property
`DropsShareOneId` (one event, CLOSE_ALL apart, ends sessions of one id only).
`streams` checks `BytesInOrder` and the refinement `SessionsArePipes`.
`delivery` checks `NothingStranded` and the leads-to property
`ClientBytesArrive`.

`channel` checks `TypeOK`, `AckedWasTaken` (the broker forgets only what onReceived
had taken) and `EveryMessageTaken` (a published message is handled unless channel
or process ends). `commands` checks `OnlyCommandsRun` (what is executed was asked
for, with that id) and `CommandsAccepted` (a well-formed command is not turned
away, id 0 included). `signals` checks `TypeOK` (with the event base present where
main uses it), `LostOnlyInGap` (only a signal between the test of `run` and the loop can
be lost) and `SignalEnds` (any other ends the program, or just before a poll with the next
event).

The last four passing runs check the types of the state as a conjunct of one of
their properties.

`teardown` checks `NothingAfterTheEnd` (no statement touches an object whose
destructor has ended), `NoSelfDeadlock` (no mutex is taken by the thread that has it)
and `NoneLeaks` (when the stack is empty, what is not registered is gone).

`event_loops` checks the refinement `MonitorsWhatIsAsked`, which says that every
handler implements `FdMonitor`; `ReadsGoOn` (a descriptor that somebody keeps asking
to read is read for ever); `CallbacksOwned` (what the loop may call back has its
owner: a timer of libevent its connection, a handle of libuv its watcher, a libev
timer is left only by a connection without a timeout; and with asio what is asked for
has a wait under way, so that no wake-up is lost); `FreedAgainExplained` (a libevent
timer is freed twice only for a connection at a reused address that was lost before it
negotiated); and `HeartbeatsKept` (libev: heartbeats in time up to the lateness of the
loop, a silent server found out, a live one kept).

`library` checks for the channel `AnswersMeetCallbacks` (the n-th answer finds the n-th
result), `OutcomesTold` (at most one success, and no error after it but for the result
whose own callback fails the connection; everyone told when the channel is closed or
the instruction cannot be sent, but for get()) and the leads-to property
`EveryAnswerComes`; for receivers `MessagesIntact` (who had asked for messages when one
began has it whole, and no body outgrows its message); for monitors `MonitorsExact`; for
the connection `OnlyForward`, with the payload that fits its frame; and for channel and
connection `DeadIsUntouched`.

`formats` checks `FillsExactly` (size() is what fill() writes); `RoundTrip` (the
properties of a message, tables and arrays are read back as written: numbers, strings and
arrays through the conversions of the proxy, booleans and decimals, to which it does not
convert, from the field itself); `BlocksOwned`
and `FramesWhole` for frames; `AddressesKept` (an address survives printing, and the
order is total); and `LastWordCounts` for Config. The parts of these properties, types apart,
each have a mutant of their own.

Deadlock checking is off where the system may rest: the control channel when no
message or restart comes, the program after its end, and the parts of the library
and of the configuration when the program makes no more calls.

Fairness (`FairSpec` of ProxyServer): every connect attempt ends one way or the other, which
libevent and the kernel's connect timeout ensure, and a non-empty output buffer
of a connected socket is written further, which libevent does whenever the
socket is writable; that the peers keep reading is an assumption about them.
Nothing is assumed about clients sending or sessions ending. For ControlChannel
the broker answers and delivers while the channel is open, and the loop serves
the socket; no restart is assumed. For Main the program goes on, but nothing is
assumed of the step `Event`: a poll that nothing interrupts may last for ever, since the
only timer, that of the heartbeats, ends with the AMQP connection
(controlchannel.cpp:54-57 closes it) and is not there before it. `SignalEnds` therefore
tells apart a signal between the test of the break flag and the poll, which takes effect
at the next event and without one never, from all those that end the program unaided.

For EventLoops process() returns, and the loop serves a readable descriptor again
and again, which is what each of the libraries does for a descriptor it is told to
watch. For the channel of `library` callbacks return and the broker answers; nothing
is assumed of the program's own calls.

Each property has a mutant, a definition changed the way a bug in that code
would change it, which breaks the property under the same configuration.

### Findings

- `CloseReachesAll`: ProxyManager::dropConnection calls `_idToConn.erase(id)`,
  which removes all entries of the id. Two clients announce id 1, the first
  one leaves, and the second is in no entry any more: a close command for id 1
  finds nobody. The test `test_4rmq_close_clients` expects all clients of the id
  to be closed, but none of its clients leaves before.
- `UnreachableCloses`: when connect() fails asynchronously, Proxy::onConnected
  logs and returns. The client stays connected, the Proxy keeps reading its bytes
  into a buffer nobody empties. The synchronous failure closes the client.

The model also shows without a run that contradicts a text: entries under a
negative configured id are never removed but by dropAll (which is why
`EntriesLive` speaks of ids from 0 on), and after one CLOSE_ALL message every
client is dropped as soon as it is accepted (`ClosedForGood`). A signal between
`if (run)` and the loop is lost (`LostOnlyInGap` allows just this one). A message
that is no object ends the process, and with it every session (`ParseThrows`).

### Observations

While modelling the library and the configuration these deviations between a text and
the code were met. The models have the code's behaviour, and the properties are
stated so that they allow just this.

- config.cpp:49: a line that ends before its port, or with a number too large for
  it, sets the end-of-file flag together with the failure, so the test lets it pass:
  the host is stored with an indeterminate or clamped port, though line 50 has
  "can't read port" (`readPort`; `LastWordCounts` speaks of ports that are numbers).
- main.cpp:51: a negative verbosity passes the test of the upper bound and indexes
  the table of priorities before its start.
- libevent.h:191: onLost frees the timer and leaves its entry in the map
  (`FreedAgainExplained`).
- libevent.h:198: an interval of 0, which tcphandler.h:106-107 describes as the way
  to disable heartbeats, gives a heartbeat every half second.
- libboostasio.h:195: after process() a wait is started without a look at the flag
  for a pending one, which events() may have set within process(): two waits.
- libev.h:258: if the loop is late by half the timeout the repeat value is 0, and
  ev_timer_again stops the timer for good (`HeartbeatsKept` with `MaxLate` bounded).
- libev.h:327: the destructor takes a timeout of 0 for a stopped timer, but the
  timer for the set-up runs with this value (`CallbacksOwned`); after that timer has
  expired the reference taken from the loop is not given back.
- channelimpl.h:600: reportReady leaves synchronous mode even if the ready callback
  has just given an instruction that waits for its answer; answers still find their
  callbacks.
- deferredqueue.h:41: the two overloads of onSuccess set two members, and the one
  with parameters wins whichever came last.
- deferredget.h:111: DeferredGet::onError does not call the callback of an
  instruction that has failed already, as Deferred::onError does (`OutcomesTold`).
- channel.h:61: the destructor of a channel that was moved from dereferences its null
  pointer (`DestroyMoved`).
- channelimpl.h:656: a result is taken off the list only after its success callback has
  returned. If this callback fails the connection, connection.h:159 has "for all pending
  operations the error and finalize callbacks will be called", and the result whose
  success is being reported is one of them: it is told an error as well (`OutcomesTold`
  allows it for `struck`). When this inner report has ended the outer one goes on from
  its own pointer to the next result: results that were told are put back into the list,
  and if the outer report is one of errors they are told an error a second time.
- message.h:101: the bytes that a frame brings beyond the size of its message are dropped,
  but the receiver's own counter of what is to come wraps below zero if more than one frame
  makes a message: such a message is never completed, and the next begin frame discards it.
- message.h:129: if one frame has the whole body append() returns false, though line
  93 has "true if the message is now complete".
- array.h:96: set() returns a copy, so that a chained call is lost, though line 113
  has "allow chaining".
- fieldproxy.h:255: `operator TARGET` is documented as "Get a boolean". It converts a
  `const Field&`, which has no operator bool and none to DecimalField (field.h:89-102), so
  that `bool b = table[name]` is ambiguous and does not compile; BooleanSet overrides none
  of the conversions of Field, so that what does compile gives 0 for TRUE as for FALSE
  (`Converted`). A program has to take the field for a BooleanSet and call get(0), or for
  a DecimalField and call value(), which is how `RoundTrip` reads them (`ReadAs`).
- address.h:230: the string of an address leaves out port 5672 also for amqps, whose
  default is 5671 (`AddressesKept`).

## Proofs

`ProxyServer_proofs` proves for every `Conn`, `Id`, `Hosts`, `MsgSize` and `MaxSent`
(assumptions: ids are integers, configured ids are ids, `MsgSize` is positive):

- `TypeCorrect`: Spec => []TypeOK, one step per action, from lemmas on what
  reading, sending, writing and freeing do to a stream.
- `Invariance`: Spec => []IInv with IInv == TypeOK /\ SessionInv /\ RegistryInv.
  The checked properties are not inductive alone. `Ownership` and `ForwarderLife`
  say nothing of a connection still to be accepted, so `Untouched` is added: it
  is in the state the constructor leaves. `EntriesLive` needs `Anonymous`: a live
  client without a Forwarder has no id, else closing it would erase a key and
  leave its own entry. `EntriesLive` and `OrphansExplained` need `Ownership`
  and `ClosedForGood`, for close() removes the Proxy only while `running`.
  The proof reduces each step to six kinds (`StepCases`), with the effect of
  close() and of the commands stated once (`CloseEffect`, `DropEffect`).
- From it `OwnershipHolds`, `ForwarderLifeHolds`, `ClosedForGoodHolds`,
  `EntriesLiveHolds`, `OrphansExplainedHolds`, and `DropsShareOneIdHolds` for the
  action property: by `EntriesLive` all that dropById finds carry its id.
- `BytesInOrderHolds`: every step is one of four fates for each connection
  (`Fates`: still, started, moving, ended), and each operation on a stream keeps
  `sent = rcvd \o out \o in`.
- `Refinement`: Spec => SessionsArePipes. Each fate is a step of the two pipes of
  the connection; a delivery is a step of the pipe because of `BytesInOrder`.
- `NothingStrandedHolds`, through `DrainedInv`, which adds that the server's bytes
  never wait in the input buffer.

`ControlChannel_proofs` proves for every set of bodies, range of int and bound
(assumptions: the bounds are naturals, int contains 0 and 1):

- `TypeCorrect`, one step per action.
- `AckedWasTakenHolds`. AckedWasTaken is about what the broker has deleted, so the
  inductive invariant `AckInv` says the same of acknowledgements still under way.
- `OnlyCommandsRunHolds`, from a lemma on what Parse accepts; bodies never change
  once published.

- `CommandsAcceptedHolds`: a command that was taken is not turned away; the invariant
  adds that what is not yet published has no fate.

`Main_proofs` proves `TypeCorrect` and `LostOnlyInGapHolds` for any number of signals.
The invariant adds to TypeOK, which ties `base` to the place in main, that main stands
before event_base_dispatch with `run` false only if a signal came in the gap.

`Teardown_proofs` proves `NothingAfterTheEndHolds`, `NoSelfDeadlockHolds` and
`NoneLeaksHolds` for any number of sessions. None of the three is inductive, since a
statement is safe because of what the frames below it have left to do. The invariant
`Phase` lists the shapes the call stack can have: on its way to the mutex, holding it in
dropConnection, destroying the Proxy, destroying its Forwarder within this, and done; in
each it says which objects exist and that the frames below have no statement left that
matters. That the stack is never deeper than the shapes say is what excludes the second
lock: the destructors that run under the mutex call no close().

`EventLoops_proofs` has an invariant for each handler, for every set of connections and
descriptors (at least one, and never the value that stands for none) and every bound:

- `CallbacksOwnedHolds`. The watchers of a handler agree with what was asked for
  (`EventWatched`, `UvWatched`, `AsioWatched`, `EvWatched`). With asio a kind that is
  wanted is marked as pending or its handler is running, and a marked kind has a wait
  (`AsioArmed`, `AsioRunning`): this is why no wake-up is lost while process() changes
  flags. With libev a connection is without a wrapper, in set-up or timed (`EvStage`), and
  the reference count of the loop is minus the number of timers stopped and of set-ups
  expired (`EvRefs`).
- `MonitorRefinement`: Spec => MonitorsWhatIsAsked, one step simulation for each action of
  each handler; the mapping is the identity on `owner`, `asked` and `call`.
- `FreedAgainHolds`, an action property, from `EventTimers`.
- `HeartbeatsKeptHolds`, with the hypothesis `Prompt`: the loop serves a timer late by
  less than half of the smallest timeout. Without it the property is false (see
  libev.h:258 under Observations), and the instance TLC checks satisfies it. The invariant `EvOnTime`
  says that the timer is set for what comes first, the next heartbeat or the expiry.

`ChannelImpl_proofs` has the invariant of a channel for every number of instructions,
every set of chains of registrations and every set of Channel objects:

- `ListInv`: the list leads from `oldest` to `newest` through all results made in between,
  in order, and the one being reported is its head.
- `QueueInv`: the frames that will be answered have rising numbers, belong to results in
  the list that have told nothing, and no result in front of such a one is without its
  frame; while the channel is usable there are no others; the closing frame is the last.
- `FailInv`: a failure interrupts at most one report, whose result is the one struck; the
  channel is closed from then on, no result after the one struck has succeeded, and a report
  that still runs when all errors were told is at the one struck or behind it. Without
  this the report that goes on might give a second outcome to a result it finds again.
- `Sound`, `OutcomeInv`: one outcome each, but for the result struck; who listens and was not told is still in the
  list; nobody is once the errors of a closed channel have been reported.

AnswersMeetCallbacks alone is not inductive, because it speaks of neighbours in the list
and of the frames only: that an answer may take the head out needs to know what is in
between, and that the callback may push at the end while the head is being reported.
Frames are the concatenation of wire and queue, which send() and onSynchronized() keep
(`SendFrames`, `SyncFrames`). What a chain of registrations leaves is proved for chains of
any length (`ChainedFresh`): the function that runs the chain exists for every length, and
the result is right after every prefix, both by the least number for which it would fail
(`NatMin`, from the well-foundedness of < on naturals).

`Library_proofs` proves of the parts of AMQP-CPP, from the assumptions of `Library`:

- `AnswersMeetCallbacksHolds` and `OutcomesToldHolds`: the lemmas of ChannelImpl_proofs,
  for both instances (`LongSame`, `WideSame`).
- `DeadIsUntouchedHolds`: after its end no step of a channel changes what was its state;
  for the connection because the monitor is valid only while the object exists.
- `MessagesIntactHolds`, for messages of any size, cut in any way, that bring any number of
  bytes too many. `ReceiverInv` says exactly what the message object of each receiver is:
  what has come so far, up to the size, for the one that receives (`Held`), no message or
  one that was left behind by an overlong predecessor for the others (`Leftover`); the
  lemmas on append() tell apart a buffer of its own, the first of several frames and the
  only frame.
- `MonitorsExactHolds`, with the invariant that is checked, and the types.
- `OnlyForwardHolds`, from the types and the arithmetic of maxPayload().

`Formats_proofs` proves all six properties of `formats` without the bounds of the run: for
every set of strings, numbers, names, C++ values, payloads, texts, options and lines, any
number of calls, and integers of the widths that C++ has (the run has them cut down).
The assumptions, in `Formats`, say what the constants stand for: widths of 1 to 4
and 1 to 8 octets (`WireAssumption`); strings are octets, no more than the prefix
of a table of headers can tell (`MetaAssumption`); the keys of a map are distinct, and a value is
one of its C++ type (`FieldsAssumption`); the size of a frame is a uint32_t
(`FrameAssumption`); different characters compare as different (`AddressAssumption`); a
line has one of the shapes that Config::read tells apart (`ConfigAssumption`).

The inductive invariant `Parted` says of the part that moves:

- `Setting`, for `FillIsExact` and `TripIsRound` of messages: every property has a value of its
  class, and one that is not the default is announced by its bit. It holds after
  `Forward` too, because whatever could be read is in the range of its class (`StageStep`).
- `Storing`, for the same theorems of tables: a field is plain or an array of plain ones,
  each read as the C++ type it was written as (`ReadAs`: through the proxy's conversion where
  there is one) gives what was written last, and the array is
  what the calls say.
- `Sending` for `BlocksAreOwned`: the blocks in the queue rise, each is below the one that is
  being built, and those allocated are the ones that somebody holds. OneOwner alone is not
  inductive: that the new block differs from all others needs the order.
- `Coming` for `FramesAreWhole`: what was parsed and what is in the buffer or still on its way are
  together the frames that the server sent. A frame that is cut out is the next one since
  its first octets tell its length (`CutLonger`).
- `Typing` and `Comparing` for `AddressesAreKept`: the proof is about parse() and the two ways to
  print. A parsed address has no separator where it would be read as one (`ParseGives`), and what
  has none is read as it was printed (`PrintedReads`). The order is total as strings are.
- `Chosen` and `Found` for `LastWordsCount`: the configuration is a function of the options, the hosts
  one of the lines read so far, and both functions follow an option or a line at the end.

The loops of fill(), size() and the reading constructors are recursive functions in the model, and
the library's induction theorems cannot be used with this prover. Each function is
therefore shown to exist for every length and replaced by its steps (`AllPick`,
`TotalPick`, `UintPick`, `ReadPick`, `ElementsPick`, `TablePick`); a loop invariant is then carried
along the steps by `Upward`, which rests on the least number for which it would fail. The
invariants of the reading loops are `Done` (the properties read so far have their values, and
the octets left are those of the others), `Heard` (the same of an array) and `Reached` (of a
table, whose loop has as many rounds as octets and is idle once they are used up).
`FillIsExact` has no restriction on lengths. `TripIsRound` has the one that its
property states: a short string of at most 255 octets, and a table that its prefix can announce
(`Short`, `Fits`); beyond it the code writes a size modulo 2^8 or 2^32.

Only model-checked: the temporal properties `ClientBytesArrive`, `EveryMessageTaken`,
`SignalEnds`, `ReadsGoOn` and `EveryAnswerComes`, since liveness under fairness is out
of the prover's reach. Every invariant, action property and refinement that a passing
run checks is stated by a theorem.

## Not modelled

- Content and layout of messages, logging, name resolution, peer addresses.
- Memory: output buffers are unbounded in the code; `MaxSent` bounds the runs.
- The bodies of AMQP-CPP's `.cpp` files, which are not in the repository: the state
  classes of TcpConnection, the frames of each instruction, parse() and the table of
  channels of ConnectionImpl. Where inline code calls them they are external actions.
- Callbacks of a channel that feed octets back into the connection: an answer begins no
  report within a report; only a failure does. The program's handlers read their socket
  from the event loop.
- Results that the program itself keeps a pointer to: a result ends when the list and the
  reports under way have let go of it.
- In `ChannelImpl`, the frames of a message that follow the answer to get(): they are part
  of the step in which the callback of DeferredGet::onSuccess runs (deferredget.h:93-105);
  `DeferredReceiver` has them one by one.
- Floating point fields, and the printing of fields.
- The class Timer of libboostasio.h, which nothing creates; addresses.h, which
  nothing includes and which does not compile; entityimpl.h, which nothing includes.
- Declarations without operations: flags, exchange types, exceptions, openssl.h.
- What a freed event base does to those who still use it: a signal then may end
  the process (`SigHandler`); the destructors are the step `Return`.
- `ConnectionManager::run/stop`, `Server::run/stop`, and the constructors with an
  event base of their own: nothing calls them.

## Plan

1. Done: the core, from accept to close, with both managers and both commands
   (`ConnectionManager`, `ProxyManager`, `Proxy`, `ProxyServer`), its abstract
   specification `BytePipes`, the runs above and the proofs.
2. Done: `JsonParser`, `ControlChannel` with the broker's queue, and `Main`, with
   their runs and the proofs of their invariants.
3. Done: `Config`; `Teardown`; the four handlers with their abstract specification
   `FdMonitor`; the inline code of AMQP-CPP.
4. Done: the proofs of every safety property that a run checks, with the refinements of
   `BytePipes` and `FdMonitor`.
5. Open: an abstract specification of the control channel (each command runs at most
   once per delivery, in order) and the proof that ControlChannel implements it.
6. Open: the composition of ControlChannel, Main and ProxyServer, which implements
   `ProxyServer`; and that `Teardown` implements the atomic `Close`.
