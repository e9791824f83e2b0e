--------------------------- MODULE BitcoinHandler ---------------------------
(***************************************************************************)
(* The connections of the connector to bitcoin nodes: class                *)
(* bitcoin::handler (connector/src/bitcoin_handler.cpp).                   *)
(*                                                                         *)
(* The connector is one thread around a libev loop.  The loop calls one    *)
(* callback at a time: an io callback of a connection (io_cb), one of its  *)
(* two timers, the accept callback, a finished outgoing connect, or a      *)
(* command that a client sent on the control socket.  Timers, accepts,     *)
(* connects and commands are one action each.  io_cb reads and writes      *)
(* until the socket is exhausted, so it is a sequence of actions under the *)
(* program counter cb; while cb.pc is not "idle" nothing else runs.        *)
(*                                                                         *)
(* Abstractions.  A queued message is one unit of the counter wq: only     *)
(* whether the queue is empty matters to the handler, and a partly written *)
(* message is still queued.  A chunk is what read_queue.to_read() asks     *)
(* for: a header or a payload; a partly received chunk is a recv that      *)
(* blocked.  fd >= 0 and "the io watcher is started" change together in    *)
(* the code and are the one flag open.  Times are not modelled: a timer    *)
(* may fire whenever it is armed.                                          *)
(***************************************************************************)
EXTENDS Integers, FiniteSets

CONSTANTS
    MaxId,        \* bound: connections created (id_pool never passes it)
    MaxQueue,     \* bound: messages in one write queue
    Pinging,      \* connector.bitcoin.ping_frequency > 0
    ActivePinging,\* connector.bitcoin.active_ping.mean > 0
    Heights,      \* start heights that peers put in version messages
    StartHeight,  \* initial g_last_block (connector.bitcoin.start_height)
    EarlySend,    \* clients may send to a connection that is still in handshake
    EmptyHello    \* peers may start with a message without payload

ASSUME BoundsAssumption ==
    /\ MaxId \in Nat
    /\ MaxQueue \in Nat \ {0}

ASSUME ConfigAssumption ==
    /\ Pinging \in BOOLEAN
    /\ ActivePinging \in BOOLEAN
    /\ Heights \subseteq Int
    /\ StartHeight \in Int

ASSUME EnvironmentAssumption ==
    /\ EarlySend \in BOOLEAN
    /\ EmptyHello \in BOOLEAN

VARIABLES
    idPool,       \* handler::id_pool
    active,       \* keys of g_active_handlers
    inactive,     \* ids of the handlers in g_inactive_handlers
    hs,           \* the fields of each handler, by id
    gone,         \* disconnect events logged for each id
    lastBlock,    \* g_last_block
    eof,          \* environment: the peer closed and all its data was read
    cb            \* the io callback the loop is running

vars == <<idPool, active, inactive, hs, gone, lastBlock, eof, cb>>

Ids == 0 .. MaxId - 1

(***************************************************************************)
(* The state word is kept as its two masks: recv is the one RECV_ flag     *)
(* that is set (or NONE), send the set of SEND_ flags.                     *)
(***************************************************************************)
RecvHdr  == {"HEADER", "VERSION_INIT_HDR", "VERSION_REPLY_HDR"}
RecvBody == {"PAYLOAD", "VERSION_INIT", "VERSION_REPLY"}
RecvFlags == RecvHdr \cup RecvBody \cup {"NONE"}
SendFlags == {"MESSAGE", "VERSION_INIT", "VERSION_REPLY"}
EvFlags == {"READ", "WRITE"}

HandlerState ==
    [recv: RecvFlags, send: SUBSET SendFlags, hungry: BOOLEAN, wq: 0 .. MaxQueue,
     io: SUBSET EvFlags, open: BOOLEAN, timer: BOOLEAN, aping: BOOLEAN]

Pcs == {"idle", "read", "write", "finish"}
Idle == [pc |-> "idle", h |-> 0, wr |-> FALSE]

\* What a received message does depends on its command only.
Commands == {"ping", "getblocks", "verack", "other"}
Messages == [command: Commands, height: {StartHeight}]
                \cup [command: {"version"}, height: Heights]

-----------------------------------------------------------------------------
(* The fields of a handler that does not exist (yet, or any more). *)
NoHandler ==
    [recv |-> "NONE", send |-> {}, hungry |-> FALSE, wq |-> 0,
     io |-> {}, open |-> FALSE, timer |-> FALSE, aping |-> FALSE]

(* handler::handler with SEND_VERSION_INIT: our version is queued at once. *)
Outgoing ==
    [recv |-> "NONE", send |-> {"VERSION_INIT"}, hungry |-> FALSE, wq |-> 1,
     io |-> {"WRITE"}, open |-> TRUE, timer |-> FALSE, aping |-> FALSE]

(* handler::handler with RECV_VERSION_REPLY_HDR. *)
Incoming ==
    [recv |-> "VERSION_REPLY_HDR", send |-> {}, hungry |-> TRUE, wq |-> 0,
     io |-> {"READ"}, open |-> TRUE, timer |-> FALSE, aping |-> FALSE]

(* The watcher mask that io_cb computes from the state word. *)
Events(s) ==
    (IF s.send # {} THEN {"WRITE"} ELSE {}) \cup
    (IF s.recv # "NONE" THEN {"READ"} ELSE {})

(* Mutant: the watcher is not told. *)
AppendedSilently(s) == [s EXCEPT !.wq = @ + 1, !.send = @ \cup {"MESSAGE"}]

(* append_for_write *)
Appended(s) ==
    [s EXCEPT !.wq = @ + 1,
              !.io = IF s.send = {}
                     THEN {"WRITE"} \cup (IF s.recv # "NONE" THEN {"READ"} ELSE {})
                     ELSE @,
              !.send = @ \cup {"MESSAGE"}]

(* start_pingers *)
WithPingers(s) ==
    [s EXCEPT !.timer = @ \/ Pinging, !.aping = @ \/ ActivePinging]

(* handle_message_recv: its effect on the handler *)
Handled(s, m) ==
    CASE m.command \in {"ping", "getblocks"} -> Appended(s)
      [] m.command = "verack" -> WithPingers(s)
      [] OTHER -> s

(* handle_message_recv: its effect on g_last_block *)
BlockAfter(m) ==
    IF m.command = "version" /\ m.height > lastBlock /\ m.height - lastBlock <= 10
    THEN m.height
    ELSE lastBlock

(* Mutant: the ping timer keeps running. *)
SuspendedTicking(s) == [s EXCEPT !.open = FALSE]

(* suicide: what it does to the handler itself *)
Suspended(s) == [s EXCEPT !.open = FALSE, !.timer = FALSE]

(* Destruction stops whatever watcher is still started (ev++ destructors). *)
Destroyed(s) == [s EXCEPT !.open = FALSE, !.timer = FALSE, !.aping = FALSE]

AfterRead == IF cb.wr THEN "write" ELSE "finish"

-----------------------------------------------------------------------------
Init ==
    /\ idPool = 0
    /\ active = {}
    /\ inactive = {}
    /\ hs = [i \in Ids |-> NoHandler]
    /\ gone = [i \in Ids |-> 0]
    /\ lastBlock = StartHeight
    /\ eof = {}
    /\ cb = Idle

(* accept_handler::io_cb for a peer that is not blacklisted.  The new      *)
(* handler is inserted before the suspended ones are deleted.              *)
Accept ==
    /\ cb.pc = "idle"
    /\ idPool < MaxId
    /\ idPool' = idPool + 1
    /\ active' = active \cup {idPool}
    /\ inactive' = {}
    /\ hs' = [i \in Ids |-> IF i = idPool THEN Incoming
                            ELSE IF i \in inactive THEN Destroyed(hs[i])
                            ELSE hs[i]]
    /\ UNCHANGED <<gone, lastBlock, eof, cb>>

(* Mutant: the id is not taken from the pool. *)
SetupHandlerSameId ==
    /\ cb.pc = "idle"
    /\ idPool < MaxId
    /\ active' = active \cup {idPool}
    /\ hs' = [hs EXCEPT ![idPool] = Outgoing]
    /\ UNCHANGED <<idPool, inactive, gone, lastBlock, eof, cb>>

(* connect_handler::setup_handler, and the end of the Tor handshake. *)
SetupHandler ==
    /\ cb.pc = "idle"
    /\ idPool < MaxId
    /\ idPool' = idPool + 1
    /\ active' = active \cup {idPool}
    /\ hs' = [hs EXCEPT ![idPool] = Outgoing]
    /\ UNCHANGED <<inactive, gone, lastBlock, eof, cb>>

(* Mutant: the entry stays in the active map. *)
LogAndSuicideNoErase(h) ==
    /\ gone' = [gone EXCEPT ![h] = @ + 1]
    /\ inactive' = IF h \in active THEN {h} ELSE inactive
    /\ hs' = [hs EXCEPT ![h] = Suspended(@)]
    /\ UNCHANGED active

(* Log a disconnect event for h and call suicide.  Only a handler that is  *)
(* still in the active map moves, and deletes those suspended before it.   *)
LogAndSuicide(h) ==
    /\ gone' = [gone EXCEPT ![h] = @ + 1]
    /\ active' = active \ {h}
    /\ inactive' = IF h \in active THEN {h} ELSE inactive
    /\ hs' = [i \in Ids |-> IF i = h THEN Suspended(hs[i])
                            ELSE IF h \in active /\ i \in inactive THEN Destroyed(hs[i])
                            ELSE hs[i]]

-----------------------------------------------------------------------------
(* io_cb starts: the loop found events that the watcher asks for. *)
IoCb(h, revents) ==
    /\ cb.pc = "idle"
    /\ hs[h].open
    /\ revents # {}
    /\ revents \subseteq hs[h].io
    /\ cb' = [h |-> h, wr |-> "WRITE" \in revents,
              pc |-> IF "READ" \in revents /\ hs[h].recv # "NONE" /\ hs[h].hungry
                     THEN "read"
                     ELSE IF "WRITE" \in revents THEN "write" ELSE "finish"]
    /\ UNCHANGED <<idPool, active, inactive, hs, gone, lastBlock, eof>>

(* do_read: recv would block in the middle of a chunk. *)
ReadBlocks(h) ==
    /\ cb.pc = "read" /\ cb.h = h
    /\ h \notin eof
    /\ cb' = [cb EXCEPT !.pc = AfterRead]
    /\ UNCHANGED <<idPool, active, inactive, hs, gone, lastBlock, eof>>

(* Mutant: a read of zero bytes is taken for one that would block. *)
ReadEndsUnnoticed(h) ==
    /\ cb.pc = "read" /\ cb.h = h
    /\ cb' = [cb EXCEPT !.pc = AfterRead]
    /\ UNCHANGED <<idPool, active, inactive, hs, gone, lastBlock, eof>>

(* do_read: recv returns zero, or fails.  io_cb goes on after do_read.     *)
ReadEnds(h) ==
    /\ cb.pc = "read" /\ cb.h = h
    /\ LogAndSuicide(h)
    /\ cb' = [cb EXCEPT !.pc = AfterRead]
    /\ UNCHANGED <<idPool, lastBlock, eof>>

(* do_read completes a header; empty says that it announces no payload.    *)
(* Only RECV_HEADER handles a message without payload at once.             *)
HeaderRead(s, empty, m) ==
    CASE s.recv = "HEADER" ->
            IF empty THEN Handled(s, m) ELSE [s EXCEPT !.recv = "PAYLOAD"]
      [] s.recv = "VERSION_INIT_HDR" ->
            [s EXCEPT !.recv = "VERSION_INIT", !.hungry = ~empty]
      [] OTHER ->
            [s EXCEPT !.recv = "VERSION_REPLY", !.hungry = ~empty]

(* do_read completes a payload: the message is handled and the next header *)
(* is awaited.  The peer's first message is answered with version and      *)
(* verack.                                                                 *)
BodyRead(s, m) ==
    IF s.recv = "VERSION_REPLY"
    THEN [WithPingers(Appended(Appended(Handled(s, m))))
             EXCEPT !.recv = "HEADER", !.send = {"VERSION_REPLY"}]
    ELSE [Handled(s, m) EXCEPT !.recv = "HEADER"]

(* do_read: one chunk arrives in full.  The loop goes on while the queue   *)
(* wants more.                                                             *)
ReadHeader(h, empty, m) ==
    /\ cb.pc = "read" /\ cb.h = h
    /\ h \notin eof
    /\ hs[h].recv \in RecvHdr
    /\ empty /\ hs[h].recv # "HEADER" => EmptyHello
    /\ LET s == HeaderRead(hs[h], empty, m) IN
          /\ s.wq <= MaxQueue
          /\ hs' = [hs EXCEPT ![h] = s]
          /\ cb' = [cb EXCEPT !.pc = IF s.hungry THEN "read" ELSE AfterRead]
    /\ lastBlock' = IF hs[h].recv = "HEADER" /\ empty THEN BlockAfter(m) ELSE lastBlock
    /\ UNCHANGED <<idPool, active, inactive, gone, eof>>

ReadBody(h, m) ==
    /\ cb.pc = "read" /\ cb.h = h
    /\ h \notin eof
    /\ hs[h].recv \in RecvBody
    /\ BodyRead(hs[h], m).wq <= MaxQueue
    /\ hs' = [hs EXCEPT ![h] = BodyRead(@, m)]
    /\ lastBlock' = BlockAfter(m)
    /\ UNCHANGED <<idPool, active, inactive, gone, eof, cb>>

(* do_write: a queued message leaves in full. *)
WriteMessage(h) ==
    /\ cb.pc = "write" /\ cb.h = h
    /\ hs[h].open
    /\ hs[h].wq > 0
    /\ hs' = [hs EXCEPT ![h].wq = @ - 1]
    /\ UNCHANGED <<idPool, active, inactive, gone, lastBlock, eof, cb>>

(* do_write: the socket takes no more, nothing changes. *)
WriteBlocks(h) ==
    /\ cb.pc = "write" /\ cb.h = h
    /\ hs[h].open
    /\ hs[h].wq > 0
    /\ cb' = [cb EXCEPT !.pc = "finish"]
    /\ UNCHANGED <<idPool, active, inactive, hs, gone, lastBlock, eof>>

(* do_write: write fails; on the closed descriptor of a handler that       *)
(* do_read has just suspended it always does.                              *)
WriteFails(h) ==
    /\ cb.pc = "write" /\ cb.h = h
    /\ hs[h].wq > 0
    /\ LogAndSuicide(h)
    /\ cb' = [cb EXCEPT !.pc = "finish"]
    /\ UNCHANGED <<idPool, lastBlock, eof>>

(* Mutant: the reply to our version is not awaited. *)
DrainedDeaf(s) == [s EXCEPT !.send = {}]

(* do_write with everything written: the send flags are cleared.  Only     *)
(* SEND_VERSION_INIT on its own turns to reading the peer's version.       *)
Drained(s) ==
    IF s.send = {"VERSION_INIT"}
    THEN [s EXCEPT !.recv = "VERSION_INIT_HDR", !.hungry = TRUE, !.send = {}]
    ELSE [s EXCEPT !.send = {}]

WriteDrained(h) ==
    /\ cb.pc = "write" /\ cb.h = h
    /\ hs[h].wq = 0
    /\ hs' = [hs EXCEPT ![h] = Drained(@)]
    /\ cb' = [cb EXCEPT !.pc = "finish"]
    /\ UNCHANGED <<idPool, active, inactive, gone, lastBlock, eof>>

(* io_cb ends: the watcher mask follows the state word. *)
IoCbEnds(h) ==
    /\ cb.pc = "finish" /\ cb.h = h
    /\ hs' = [hs EXCEPT ![h].io = Events(hs[h])]
    /\ cb' = Idle
    /\ UNCHANGED <<idPool, active, inactive, gone, lastBlock, eof>>

-----------------------------------------------------------------------------
(* pinger_cb when the connection was silent for ping_frequency; otherwise  *)
(* it only rearms the timer, which stays armed.                            *)
PingerCb(h) ==
    /\ cb.pc = "idle"
    /\ hs[h].timer
    /\ hs[h].wq < MaxQueue
    /\ hs' = [hs EXCEPT ![h] = Appended(@)]
    /\ UNCHANGED <<idPool, active, inactive, gone, lastBlock, eof, cb>>

(* active_pinger_cb *)
ActivePingerCb(h) ==
    /\ cb.pc = "idle"
    /\ hs[h].aping
    /\ hs[h].wq < MaxQueue
    /\ hs' = [hs EXCEPT ![h] = Appended(@)]
    /\ UNCHANGED <<idPool, active, inactive, gone, lastBlock, eof, cb>>

(* COMMAND_SEND_MSG to the connections T; a target that is not in the      *)
(* active map is skipped.                                                  *)
InHandshake(s) == s.recv \notin {"HEADER", "PAYLOAD"}

CommandSendMsg(T) ==
    /\ cb.pc = "idle"
    /\ T # {}
    /\ T \subseteq active
    /\ \A h \in T : hs[h].wq < MaxQueue /\ (InHandshake(hs[h]) => EarlySend)
    /\ hs' = [i \in Ids |-> IF i \in T THEN Appended(hs[i]) ELSE hs[i]]
    /\ UNCHANGED <<idPool, active, inactive, gone, lastBlock, eof, cb>>

(* COMMAND_DISCONNECT with a list of targets, last being the one handled   *)
(* last: each disconnect deletes the handler suspended just before it.     *)
CommandDisconnect(T, last) ==
    /\ cb.pc = "idle"
    /\ T \subseteq active
    /\ last \in T
    /\ gone' = [i \in Ids |-> IF i \in T THEN gone[i] + 1 ELSE gone[i]]
    /\ active' = active \ T
    /\ inactive' = {last}
    /\ hs' = [i \in Ids |-> IF i = last THEN Suspended(hs[i])
                            ELSE IF i \in T \cup inactive THEN Destroyed(hs[i])
                            ELSE hs[i]]
    /\ UNCHANGED <<idPool, lastBlock, eof, cb>>

(* The peer closes its end and everything it sent before was read. *)
PeerCloses(h) ==
    /\ h \in active
    /\ h \notin eof
    /\ eof' = eof \cup {h}
    /\ UNCHANGED <<idPool, active, inactive, hs, gone, lastBlock, cb>>

Callback(h) ==
    \/ ReadBlocks(h)
    \/ ReadEnds(h)
    \/ \E empty \in BOOLEAN, m \in Messages : ReadHeader(h, empty, m)
    \/ \E m \in Messages : ReadBody(h, m)
    \/ WriteMessage(h)
    \/ WriteBlocks(h)
    \/ WriteFails(h)
    \/ WriteDrained(h)
    \/ IoCbEnds(h)

Next ==
    \/ Accept
    \/ SetupHandler
    \/ \E h \in Ids, revents \in SUBSET EvFlags : IoCb(h, revents)
    \/ \E h \in Ids : Callback(h)
    \/ \E h \in Ids : PingerCb(h) \/ ActivePingerCb(h) \/ PeerCloses(h)
    \/ \E T \in SUBSET Ids : CommandSendMsg(T)
    \/ \E T \in SUBSET Ids, last \in Ids : CommandDisconnect(T, last)

Spec == Init /\ [][Next]_vars

(* The loop polls every descriptor in each round, so a connection that     *)
(* stays ready gets its callback again and again, and a started callback   *)
(* runs to its end: no peer sends without a pause, which would keep        *)
(* do_read, and with it the loop, busy for ever.  A write does not block   *)
(* forever on a connection that its peer has closed.                       *)
Fairness ==
    \A h \in Ids :
        /\ SF_vars(\E revents \in SUBSET EvFlags :
                      "READ" \in revents /\ h \in eof /\ IoCb(h, revents))
        /\ SF_vars(\E revents \in SUBSET EvFlags : 
                      "WRITE" \in revents /\ h \in eof /\ IoCb(h, revents))
        /\ SF_vars(h \in eof /\ (WriteMessage(h) \/ WriteFails(h)))
        /\ SF_vars(ReadBlocks(h) \/ ReadEnds(h))
        /\ WF_vars(Callback(h))

FairSpec == Spec /\ Fairness

-----------------------------------------------------------------------------
TypeOK ==
    /\ idPool \in 0 .. MaxId
    /\ active \subseteq Ids
    /\ inactive \subseteq Ids
    /\ hs \in [Ids -> HandlerState]
    /\ gone \in [Ids -> Nat]
    /\ lastBlock \in Int
    /\ eof \subseteq Ids
    /\ cb \in [pc: Pcs, h: Nat, wr: BOOLEAN]

(* h is not in the middle of its io callback. *)
Quiet(h) == cb.pc = "idle" \/ cb.h # h

(* Outside its own callback a connection asks for WRITE events exactly     *)
(* while it has something to write (append_for_write, do_write, io_cb): a  *)
(* queued message never waits for an event nobody asked for, and an empty  *)
(* queue never makes the loop spin.                                        *)
WriteInterestExact ==
    \A h \in active : Quiet(h) => ("WRITE" \in hs[h].io <=> hs[h].wq > 0)

(* No callback ever runs on freed memory (suicide, g_inactive_handlers):   *)
(* every started watcher and the running callback belong to a handler that *)
(* is still in one of the two containers, and only an active one has a     *)
(* descriptor or a ping timer.                                             *)
WatchersAlive ==
    /\ \A h \in Ids : /\ hs[h].open => h \in active
                      /\ hs[h].timer => h \in active
                      /\ hs[h].aping => h \in active \cup inactive
    /\ cb.pc # "idle" => cb.h \in active \cup inactive

(* The event log and the active map agree at every moment: a connection    *)
(* that was announced is in g_active_handlers exactly until its first      *)
(* disconnect event is logged, so a client that follows the log knows the  *)
(* connections (all the paths to suicide).                                 *)
LogTellsActive ==
    \A h \in Ids : h \in active <=> (h < idPool /\ gone[h] = 0)

(* Deferred deletion keeps at most one dead handler in memory: every       *)
(* suicide deletes the handler that was suspended before it.               *)
OneSuspended ==
    /\ inactive \cap active = {}
    /\ \A i, j \in inactive : i = j

(* The assertions of do_read (the descriptor is open) and of do_write (no  *)
(* read is outstanding when our version has been sent) hold.               *)
AssertsHold ==
    /\ cb.pc = "read" => hs[cb.h].open
    /\ cb.pc = "write" /\ hs[cb.h].wq = 0 /\ hs[cb.h].send = {"VERSION_INIT"}
            => ~hs[cb.h].hungry

(* A connection with nothing left to write listens to its peer: whatever   *)
(* was queued together with our version, the handshake goes on ("Beyond    *)
(* SEND_VERSION_INIT, we don't care why we are sending", do_write).        *)
ListensWhenIdle ==
    \A h \in active : Quiet(h) /\ hs[h].wq = 0 => "READ" \in hs[h].io

(* A callback for a READ event reads ("do all reads we can in this event   *)
(* handler", do_read): the read queue wants data whenever the watcher asks *)
(* for it.  Otherwise the level-triggered loop spins on unread data, and   *)
(* the peer is never heard again.                                          *)
ReadEventsAreRead ==
    \A h \in active : Quiet(h) /\ "READ" \in hs[h].io => hs[h].hungry

(* What a client sees of the connections is ConnLifecycle: ids are handed  *)
(* out in order and once, and a connection that ended never comes back     *)
(* (id_pool, suicide, ~handler, disconnect).                               *)
Lifecycle == INSTANCE ConnLifecycle WITH
    next <- idPool, live <- active, ended <- {h \in Ids : gone[h] > 0}

ImplementsLifecycle == Lifecycle!Spec

(* A peer that closes its end is noticed: its connection leaves the active *)
(* map, whatever was queued or half read (io_cb, do_read, do_write).       *)
EofNoticed == \A h \in Ids : h \in eof ~> h \notin active
=============================================================================
