# Verification of Coinscope

TLA+ specifications, TLC runs and TLAPS proofs for Coinscope, a system that keeps
connections to many bitcoin nodes open, lets clients inject messages into them, and logs
everything that happens. All definitions follow the code in `src/`; `PROJECT.json` maps
each of them to the lines it models, lists the runs, the mutants, the hazards and the
findings.

Run a model with `tlc -config X.cfg MCModule`, check proofs with `tlapm Module.tla`.

## The system

| part | source | role |
|---|---|---|
| connector | `connector/` | one process, one libev loop: connections to bitcoin nodes (`bitcoin_handler.cpp`), clients on a control socket (`command_handler.cpp`), start-up, log reconnection and blacklist (`main.cpp`) |
| log server | `logserver/` | one process, one loop: takes records from sources, queues them for the consumers that are interested in their type |
| logging library | `shared/src/logger.cpp`, `shared/includes/logger.hpp` | how the connector writes records to the log server |
| buffers | `shared/` | read and write queues, shared copy-on-write buffers |
| clients | `clients/` | programs that connect to the control socket and to the log server: `getaddr` keeps a census of nodes, `bcwatch`, `connect`, `cycle`, `kill_dupes`, `get_nodes` |
| log clients | `logclient/` | `verbatim` stores the stream and takes part in log rotation, `console` prints it |
| tools | `tools/`, `libraries/python/`, `*.py` | importers, checkers, plots, Python bindings |

How they interact: a client registers a message on the control socket and asks the
connector to send it to some connections, to close them, or to connect to an address. The
connector sends, receives and logs every message and every connection event to the log
server over a unix socket. The log server hands each record to the consumers (`all/`,
`bitcoin/`, ... sockets): `verbatim`, `console` and the clients, which learn from it which
connections exist.

### Inventory

| component | state | operations | what is hard |
|---|---|---|---|
| bitcoin connections | maps of active and suspended handlers; per handler the receive and send state, the interest mask, both timers, the queue; `g_last_block` | accept, set-up, `io_cb` (`do_read`, `do_write`), ping timers, send, disconnect, `suicide`, destruction | a callback closes the handler it runs in; handshake states mixed with messages from clients; deletion of handlers that timers still know |
| connection set-up and Tor | pending attempts, two sets of handlers to delete, descriptors, blacklist | constructors, `io_cb`, the SOCKS states, `advance`, destructors, reload of the blacklist | ownership of a descriptor moves between objects while numbers are used again; every error path reports and cleans up on its own |
| control socket | clients with their read state and queue, registered messages by client and id, the id counter, random registration ids | accept, `io_cb`, REGISTER, MESSAGE, COMMAND, CONNECT, `suicide`, destruction | ids wrap; messages of clients that left; two maps with different keys; iteration over a map that the body changes |
| logging library | write queue, store for events, interest | `append`, `io_cb`, buffered and direct logging, reconnection | two ways into one stream; a log server that restarts within a record |
| log server | sources, consumers with queues and byte counts, the collector | accept, read, append, write, errors, death out of band | bounded queues with a slow consumer; consumers that vanish while a record is handed out |
| verbatim | two flags, read state, open file | main loop, signal handler, `open_log` | signals at any point, logrotate does not wait |
| getaddr, bcwatch, cycle | tables of nodes and handles, timers | event callbacks, clock | two streams without a common order; handle id 0 for failures |
| buffers | shared memory with reference counts | read, write, grow, copy | aliasing, partial transfers |
| wire formats, Python library | none | encode, decode | byte order, boundaries |
| tools | a file | cut, repair, import | files cut within a record |

## Modules

Each module says in its header what it abstracts. One libev callback is one action, except
the `io_cb` of connections and control clients, which loop over reads and writes and are
sequences of actions under a program counter `cb`; nothing else of the process runs
meanwhile. The definitions that start with *Mutant* are plausible mistakes, one for each
property; no specification uses them.

| module | models | correspondence |
|---|---|---|
| `BitcoinHandler` | `bitcoin::handler` | `hs[h]` holds the fields of handler `h`: `recv`/`send` the two halves of `state`, `io` the interest mask, `open` descriptor and watcher, `wq` the queued messages, `timer`/`aping` the timers; `active`, `inactive` the global containers; `gone` the disconnect events logged. Actions: `Accept`, `SetupHandler`, `IoCb` and the steps of `do_read` and `do_write`, `PingerCb`, `ActivePingerCb`, `CommandSendMsg`, `CommandDisconnect` |
| `ConnLifecycle` | what the connections promise clients: an id is new, live, then closed for ever | refined by `BitcoinHandler` |
| `ConnectHandler` | `connect_handler`, `tor_connect_handler`, `accept_handler`, the blacklist | `at[a]` one attempt; `open` the process's descriptors; `conns` the handlers made; actions `NewDirect`, `DirectConnected`, `DirectFails`, `NewTor`, `TorStep`, `TorFails`, `TorConnected`, `Accept`, `ConnCloses`, `LoadBlacklist` |
| `CtrlHandler` | `ctrl::handler` and the registered messages | `hs`, `active`, `inactive` as above, `messages` is `g_messages`, `descriptors` is `g_active_descriptors`; actions for every message type of the control protocol |
| `MessageRegistry` | what the control socket promises: a name given to a client stands for the message it registered until the client is gone or all its names are forgotten, and never for another | refined by `CtrlHandler` |
| `Logger` | `log_buffer`, `g_log` | `queue` the write queue, `store` the buffered BITCOIN events with `cursor`/`allocated`, `got` what the log server received |
| `LogServer` | `input_cxn`, `output_cxn`, `collector`, accepting | `out[c]`, `queues[c]` one consumer, `log` all records in order of arrival |
| `LogBroadcast` | what the log server promises: each consumer is sent the records of its interest, in order, from the time it connected | refined by `LogServer` |
| `Verbatim` | the verbatim client with logrotate | `pc` the place in the main loop, the flags, `logout` and `path` the file that is open and the one called `verbatim.log` |
| `Getaddr` | the getaddr client: `cxn_handler`, `hid_handler`, `getaddr_pusher`, `bc_msg_handler`, the event loop of `bcwatch`, `clock_cb`, `main` | `known`, `cxn`, `hids`, `queued` are `g_known_addrs`, `g_cxns`, `g_known_hids`, `g_pending_getaddrs`; `ctl` and `ev` the commands and events on their way; `live`, `attempts`, `nextHid` the connector. Actions: one per timer (`CxnTimer`, `HidTimer`, `PusherTimer`, `Clock`), `HandleEvent`, `AddrMessage`, `StreamLost`, and the connector's `TakeCommand`, `AttemptSucceeds`, `AttemptFails`, `Accept`, `PeerCloses` |
| `Buffers` | `wrapped_buffer`, `alloc_buffer`, `mmap_buffer`, `read_buffer`, `write_buffer` | `obj[o]` the kind and block of an object, `heap[b]` a block with its count and contents; `cursor`, `toRead`, `staged` the read buffer, `wq`, `toWrite` the write buffer; one action per operation: `New`, `Copy`, `Move`, `Drop`, `Store` (with its resizing), `DoRead`, `Extract`, `More`, `Append_`, `DoWrite` |
| `ValueBuffers` | what a buffer promises: it is a value, an operation on one changes no other | refined by `Buffers` |
| `WireFormats` | `get_varint`, `to_varint`; `command_msg`, `message` and their setters; `logtruncate` | pure operators over digits; `cmd` a command that a client changes with `SetTargets`, `SetCommand`, `SetMessageId`; `file` a log with `Log`, `Crash`, `Repair` |
| `BitcoinHandlerProofs`, `LogServerProofs`, `GetaddrSteps`, `GetaddrProofs` | theorems | see below |
| `MC*` | constants for TLC | |

## Runs

### Connections to bitcoin nodes

* `connections_safety`, established connections: two connections, queues of up to three
  messages, clients that send at any time, peers that start with any message and leave at any
  time. `WriteInterestExact` (a connection asks for
  WRITE exactly while something is queued), `WatchersAlive` (no timer, watcher or callback of
  a deleted handler), `LogTellsActive` (the active map and the logged disconnects agree),
  `ImplementsLifecycle`. `OneSuspended` and `AssertsHold` (the assertions of the source) are
  stated in the module and proved, see below.
* `connections_polite`: `ListensWhenIdle` (a connection never goes deaf) and `EofNoticed` (a
  peer that closes is noticed), for one connection, while clients do not send before the
  handshake is over (`EarlySend`) and peers do not start with an empty message (`EmptyHello`).
* `connections_earlysend`: `ListensWhenIdle` without the first restriction, and
  `connections_emptyhello`: `ReadEventsAreRead` (a READ event is always consumed) without the
  second, see the findings.

Two connections are enough for the interplay of containers: at most one handler is
suspended, and a second one evicts it. `MaxQueue` = 3 allows version, verack and one message.

* `connections_safety`, attempts: three attempts of either kind and three descriptors:
  `FdsOwned` (each open descriptor has exactly one owner, and a started watcher belongs to a
  pending attempt and watches a descriptor it owns), `ReportedOnce`. Three attempts let a
  handler that is done see its number used again by the next one and be deleted by a third.
  Attempts and established connections share no state in the models and are explored one at a
  time (`turn` in `MCConnections`). The environment's variable `eof` stays empty in this run:
  it only keeps data from being read.

### Control socket

* `control_safety`: two clients, two messages (symmetric), one connection, an id counter that
  wraps after two messages, and two registration ids, one of which equals the id of the first
  client, so that the `erase` of REGISTER takes effect or not: `InterestExact`, `OpenIsActive`
  (a client with an open descriptor is in the active map, and messages belong to clients that
  still exist), `NamesKept` (a name stands for what its owner registered, until the owner
  leaves or a REGISTER erases all the names of that one client), `ImplementsRegistry`. Here
  connections do not go and `eof` stays empty (`MCSafety`): both only take steps away.
* `control_answers`: one client: `Answered`, `EofNoticed`.

### Logging

* `logger`: five records of one to four bytes through a store of three (so that records are
  smaller, as large and larger): `InOrder`, `NothingLost` (while a connection lasts, and the
  cursor of the store never passes its end), `StartsWhole` (a new connection starts with a
  whole record), `Delivered`.
* `logserver_queue`: `TotalExact`, `NoLostWakeup`, `ExactStream`, `Delivery`,
  `DeadPeerRemoved` for one consumer, two records of up to two bytes and a limit of three
  (both queued may be just within the limit or over it; a record that announces no payload
  stops its source), and `FreshSource` for a source that
  connects again, with a clock that runs and is set back. Several sources at a time are
  covered by the proof of `FreshSource`.
* `logserver_broadcast`: `ImplementsBroadcast` with two consumers of different interest; the
  abstract server drops a reader only if it is behind by more than the limit.
* `verbatim`: rotations as soon after one another as logrotate can run: `WholeRecords`,
  `WaitsForPostrotate`, `RotationEnds`, and `OnCurrentLog` unless a SIGUSR1 came in the window
  between `open_log` and the clearing of the flags (the variable `missed`).

### The getaddr client

* `getaddr`: one address the client connects to and one that connects by itself, two
  connection ids, two rounds, two events and one command on their way. `RetryArmed` (no
  address is forgotten), `ViewConverges` (its tables are the connector's, up to the events
  that are on their way), `QueuedOnce` (no connection is asked twice in one push),
  `NeverGivesUp`.

An address may be reached from both sides, an attempt the client gave up on may still
succeed, a handler may ask, be dropped and come back within one push, the event stream may
break at any time and the command socket may be full: two addresses and ids are enough for
each of these. Waits are counted in periods of the pusher (two seconds), so that the wait of
ten seconds can end in any period; the timers of the addresses are random in the code and
fire at any time here. `Wait` is 1 in the run, the shortest the proof allows.

### The library

* `library`: four buffers (one belongs to a read buffer, the others are symmetric) of at
  most three bytes, with the limit between heap and mapped memory at one byte and pages of
  two, so that resizing passes it both ways. They are explored three times: a reader with two
  other buffers; a write queue of up to two elements with the buffer they were appended from,
  which is changed, resized or dropped meanwhile; and a reader whose records are queued while
  the next one is read. Two elements are what it takes for their order, for a write that ends
  where the next element begins and for `to_write_` to be more than the first element. `CountsExact` (a block's count is the number
  of its users), `ReadsStream`, `WritesWhatWasQueued`, `ImplementsValues` (sharing is not
  observable). `EncodingsAgree`: variable-length integers around each limit, with 8 in place of
  256 for a byte, are read back; a command of up to two targets whose fields are set again in
  any order is received as it was set last. `RepairKeepsWholeRecords`: a log of up to two
  records that is written, cut off at any byte and repaired, again and again, consists of
  exactly the records that were whole; lengths have two bytes in place of four, and record
  sizes are around the limits of one. The buffers, the command and the log share no state and
  are explored one at a time (`turn` in `MCBuffers`). On the heap only one size is below the
  limit in this instance.

### Properties that are not in a run

The `TypeOK` of `ConnectHandler`, `Logger`, `Getaddr` and `Verbatim` documents their state and is not
listed among the properties of their runs.

### Fairness

Liveness is checked under the fairness the loop gives: libev polls every descriptor in each
round, so a descriptor that stays ready gets its callback (weak fairness) and one that is
ready again and again gets it too (strong fairness, where other callbacks may disable it for
a while); a started callback runs to its end. Beyond that the environment is assumed to do
what the property is about: a log server or consumer that stays connected reads, a client
reads its answers, logrotate ends a rotation. `verbatim` is not
assumed to receive data. For `getaddr`: the timer of an address, once due, is served (strong
fairness, because its callback may block on a full command socket for a while), events are
handled, and the connector reads commands; attempts need not end and events may be lost.

### Deadlock

Deadlock checking is off where the bounds (ids, records, attempts) stop the model.

## Findings

Two runs state what the repository says of the program and are refuted; the counterexamples
are what the code does.

| run | what the code does | what the repository says |
|---|---|---|
| `connections_earlysend` | a message sent to an outgoing connection before our version has left makes `do_write` skip the handshake; the connection asks for no events | `bitcoin_handler.cpp:577` "Beyond SEND_VERSION_INIT, we don't care why we are sending" |
| `connections_emptyhello` | a first message without payload makes `to_read(0)` and enters the payload state (`bitcoin_handler.cpp:515`, `:526`): the watcher asks for READ, and `do_read` never reads again | `bitcoin_handler.cpp:457` "do all reads we can in this event handler" |

Other behaviour of the code that the models contain and the properties are stated around:

* `suicide` leaves the active ping timer running (`WatchersAlive` allows it while the handler
  is suspended).
* `io_cb` goes on to `do_write` after `do_read` has closed the handler: a second disconnect
  event may be logged (`LogTellsActive` speaks of the first), and the control socket counts
  a descriptor down twice (`descriptors`).
* A disconnect of all connections erases elements of the map under the iterator that walks
  it: behaviour is undefined from there (`undefined` in `CtrlHandler`).
* A Tor attempt that fails after the proxy socket was made leaves no CONNECT_FAILURE event
  (`ReportedOnce`).
* The blacklist is not looked at again when an attempt succeeds, nor for Tor.
* A SIGUSR1 between `open_log` and the clearing of the flags is lost (`missed`); the window is
  short.
* REGISTER erases `g_messages`, which is keyed by handler id ("handle_id, register_id, mesg",
  `command_handler.cpp:82`), by registration id (`:182`): with a registration id that equals a
  client's id all messages of that client go (`Forget` in `MessageRegistry`, and the exception
  in `NamesKept`).
* A record of length 0 makes the log server wait for a payload of no bytes: that source is not
  read any more (`Hungry`).
* The CONNECT_FAILURE event has handle id 0, and `getaddr` erases id 0 from its table of
  connections, which may be a live one (`ViewConverges` excepts it).
* When the event stream ends, `getaddr` goes on without it: the callback is empty.
* A peer or client that sends without a pause keeps `do_read`, and with it the loop, busy: the
  fairness conditions exclude it.

Noticed in code that is abstracted or not modelled, and not checked by a run:

* `send_greeting` and `send_connect` of the SOCKS exchange start again from the first byte
  after EAGAIN (`bitcoin_handler.cpp:725`), and `send_connect` sends one byte more than the
  request has (`:769`). A Tor attempt has no timeout (`:842`).
* The write queue of a connection has no limit (`:429`). An error of `accept` closes the
  listening socket of the log server for good (`input_cxn.cpp:28`).
* `logger.hpp:70` describes the address of a BITCOIN record as a `sockaddr_in`, and
  `bcwatch.cpp:24` asserts the length that follows from it; `logger.cpp:72` writes a
  `sockaddr_storage`. The clients also use `sockaddr_in` where the headers of the control
  socket have `wire_addr`, and `connect_msg` of the client library sends a shorter message than
  `connect_payload` is. `Getaddr` is about decoded values, in records whose layout both ends share.
* `addr_cmp` of `cycle.cpp:88` and `kill_dupes.cpp:65`, and `sockaddr_cmp` of `lib.hpp`, take a
  difference as an `int`, which wraps: it is not an order.
* `command_msg.repack` of the Python library converts with `htonl` and packs big-endian
  (`connector.py:130`).

## Proofs

Proved with TLAPS for every value of the constants that satisfies the named assumptions
(bounds are natural numbers, the write queue's is not 0, configuration values have their
types; for `getaddr`, that a handler waits at least one period of the pusher, as the code's
ten and two seconds do).

`BitcoinHandlerProofs`. The inductive invariant is `TypeOK /\ Lifetime /\ Output`.
`Lifetime` adds to the checked properties that a suspended handler was created, that ids not
handed out have no events, that an active handler has its descriptor, and that `io_cb` reads
only for an active handler: without them a step could log an event for an id about to be
handed out, or read for a handler that was evicted. `Output` says that the state flags of a
handler fit together, that a send flag implies a queued message except in the middle of
`do_write`, and that outside its callback the mask is the one computed from the flags.
Theorems: `TypeCorrect`, `NoUseAfterFree`, `LogIsTruthful`, `BoundedGarbage`,
`OutputNeverStuck`, `AssertionsNeverFail`, and `Refinement` (every step is a step of
`ConnLifecycle` or a stutter).

`LogServerProofs`. The inductive invariant is `TypeOK` and, for each consumer, `Served(c)`:
the record being written, the queue and what was received fit together (`ConsumerOK`), and
their concatenation is exactly the records due since the consumer connected (`Exact`). The
lemmas `ExactWanted`, `ExactUnwanted` and `ExactEmpty` carry the argument over one new
record. Theorems: `TypeCorrect`, `StreamsAreExact`, `WakeupsAreKept`, `BuffersAreBounded`.
`SourcesAreFresh` is an action property and has an invariant of its own, `Marked`: every id in
use, by a connection or in a record, is in `taken_ids`.

`GetaddrSteps` has the inductive invariant of the getaddr client, `TypeOK /\ Retry /\ NotDue
/\ QueuedOnce`, and one lemma for each action. `Retry` is `RetryArmed` with the fact that only
an address without a handler is in state NONE. `NotDue` says that a handler on the list of
the next push is not due: it may be told to ask again before the push, and must then wait
until after it. `GetaddrProofs` draws the conclusions `NoAddressForgotten` and `AskedOnce`, for
any number of addresses and connections.

Only model-checked: all liveness (outside the prover's reach); `TotalExact` and the properties
of `WireFormats` (recursion over sequences, need induction over data); `ViewConverges`, for
which no inductive invariant is worked out; the refinements of `LogBroadcast`, `MessageRegistry` and `ValueBuffers`; and everything about
`ConnectHandler`, `CtrlHandler`, `Logger`, `Verbatim` and `Buffers`.

## Not modelled

* The bytes of the SOCKS exchange: each step of it is an outcome in `ConnectHandler`.
* The parts of the connector composed in one process. They share the loop, and one callback
  runs at a time; each part has the others as its environment. The runs of single parts have
  more than a million states, and the product of two would be too large for TLC.
* `cycle` and `kill_dupes`: their containers use the comparison above and have no defined
  behaviour to model. `connect` and `get_nodes` send one request and print.
* Layouts that are filled in field by field: version, inventory and address messages, log
  records, `connect_msg`. Hashing is a library call.
* `iobuf` and `cvector`, which no program uses.
* `logfixer`, which guesses where records start from plausible values, and `logchecker`,
  which reports.
* Console output, database importers, plots, the Python library, configuration and start-up:
  sequential code around formats and library calls.
* Failing allocations and buffers of size 0.
* Time, but for the waits of `getaddr` and the clock of the log server: timers may fire
  whenever they are armed.
