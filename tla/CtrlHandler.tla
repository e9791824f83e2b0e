----------------------------- MODULE CtrlHandler -----------------------------
(***************************************************************************)
(* The control socket of the connector: class ctrl::handler and the        *)
(* accept_handler beside it (connector/src/command_handler.cpp).           *)
(*                                                                         *)
(* Clients register bitcoin messages, send them to connections, list and   *)
(* close connections and ask for new ones.  The registered messages of     *)
(* all clients are in one map, g_messages, keyed by handler id.            *)
(*                                                                         *)
(* One thread, one libev loop: Accept and the changes on the bitcoin side  *)
(* are one action each; io_cb reads and writes until the socket is         *)
(* exhausted and is a sequence of actions under the program counter cb.    *)
(*                                                                         *)
(* Abstractions.  wq counts the queued replies: a partly written reply is  *)
(* still queued.  A header or a payload that is partly received is a recv  *)
(* that blocked.  fd >= 0 and "the watcher is started" change together in  *)
(* the code and are the one flag open.  The bitcoin connections are the    *)
(* set conns: BitcoinHandler models them.  The type and the content of a   *)
(* message are chosen when its payload is handled, the one place where     *)
(* they matter.  Payloads have the size their type needs.                  *)
(***************************************************************************)
EXTENDS Integers, FiniteSets

CONSTANTS
    MaxId,        \* bound: control connections accepted
    IdSpace,      \* number of values of g_message_ids, 2^32 in the code
    Nonces,       \* what nonce_gen32 may return
    Payloads,     \* bitcoin messages that clients register
    MaxConns,     \* bound: bitcoin connections created
    MaxAttempts,  \* bound: connect attempts under way
    MaxQueue,     \* bound: replies in one write queue
    BroadcastDisconnect \* clients may disconnect BROADCAST_TARGET

ASSUME BoundsAssumption ==
    /\ MaxId \in Nat
    /\ IdSpace \in Nat \ {0, 1}
    /\ MaxConns \in Nat
    /\ MaxAttempts \in Nat
    /\ MaxQueue \in Nat \ {0}

ASSUME NoncesAssumption == Nonces \subseteq Nat /\ Nonces # {}

ASSUME EnvironmentAssumption == BroadcastDisconnect \in BOOLEAN

VARIABLES
    idPool,       \* handler::id_pool
    active,       \* g_active_handlers
    inactive,     \* g_inactive_handlers
    hs,           \* the fields of each handler, by id
    messages,     \* g_messages
    nextId,       \* g_message_ids
    descriptors,  \* g_active_descriptors
    cb,           \* the io callback the loop is running
    conns,        \* keys of bitcoin::g_active_handlers
    connPool,     \* bitcoin::handler::id_pool
    attempts,     \* connect handlers that wait for their socket
    undefined,    \* an iterator was used after its element was erased
    eof,          \* environment: live clients that closed and whose data was read
    told, sent    \* history: names given to each live client since its messages
                  \* were last erased; what was sent last

hvars == <<idPool, active, inactive>>
mvars == <<messages, nextId, told>>
bvars == <<conns, connPool, attempts, undefined, sent>>
vars == <<hvars, hs, mvars, descriptors, cb, bvars, eof>>

Ids == 0 .. MaxId - 1
MessageIds == 0 .. IdSpace - 1
ConnIds == 0 .. MaxConns - 1

EvFlags == {"READ", "WRITE"}

HandlerState ==
    [recv: {"NONE", "HEADER", "PAYLOAD"}, send: BOOLEAN, wq: 0 .. MaxQueue,
     regid: Nonces, io: SUBSET EvFlags, open: BOOLEAN]

(* handler::handler *)
NewHandler(nonce) ==
    [recv |-> "HEADER", send |-> FALSE, wq |-> 0,
     regid |-> nonce, io |-> {"READ"}, open |-> TRUE]

Idle == [pc |-> "idle", h |-> 0, wr |-> FALSE, recv |-> "NONE", send |-> FALSE]

(* The fields of a handler that does not exist (yet, or any more). *)
NoHandler == [NewHandler(CHOOSE n \in Nonces : TRUE) EXCEPT !.open = FALSE, !.io = {}]

Init ==
    /\ idPool = 0
    /\ active = {}
    /\ inactive = {}
    /\ hs = [h \in Ids |-> NoHandler]
    /\ messages = {}
    /\ nextId = 1
    /\ descriptors = 0
    /\ cb = Idle
    /\ conns = {}
    /\ connPool = 0
    /\ attempts = 0
    /\ undefined = FALSE
    /\ eof = {}
    /\ told = [h \in Ids |-> {}]
    /\ sent = <<>>

-----------------------------------------------------------------------------
(* accept_handler::io_cb: a handler for the client, then the suspended     *)
(* handlers are deleted and their messages with them (handler::~handler).  *)
(* Their descriptor is -1, so it is not closed again.                      *)
Accept(nonce) ==
    /\ cb.pc = "idle"
    /\ idPool < MaxId
    /\ idPool' = idPool + 1
    /\ active' = active \cup {idPool}
    /\ inactive' = {}
    /\ hs' = [hs EXCEPT ![idPool] = NewHandler(nonce)]
    /\ messages' = {e \in messages : e[1] \notin inactive}
    /\ descriptors' = descriptors + 1
    /\ UNCHANGED <<nextId, told, cb, bvars, eof>>

(* Mutant: the closed handler stays in g_active_handlers. *)
SuicideStays(h) ==
    /\ descriptors' = descriptors - 1
    /\ hs' = [hs EXCEPT ![h].open = FALSE]
    /\ told' = [told EXCEPT ![h] = {}]
    /\ eof' = eof \ {h}
    /\ UNCHANGED <<hvars, messages, nextId>>

(* handler::suicide *)
Suicide(h) ==
    /\ descriptors' = descriptors - 1
    /\ hs' = [hs EXCEPT ![h].open = FALSE]
    /\ active' = active \ {h}
    /\ inactive' = IF h \in active THEN inactive \cup {h} ELSE inactive
    /\ told' = [told EXCEPT ![h] = {}]
    /\ eof' = eof \ {h}
    /\ UNCHANGED <<idPool, messages, nextId>>

AfterRead == IF cb.wr THEN "write" ELSE "finish"

(* io_cb starts: the loop found events that the watcher asks for. *)
IoCb(h, revents) ==
    /\ cb.pc = "idle"
    /\ hs[h].open
    /\ revents # {}
    /\ revents \subseteq hs[h].io
    /\ cb' = [pc |-> IF "READ" \in revents /\ hs[h].recv # "NONE" THEN "read"
                     ELSE IF "WRITE" \in revents THEN "write" ELSE "finish",
              h |-> h, wr |-> "WRITE" \in revents,
              recv |-> hs[h].recv, send |-> hs[h].send]
    /\ UNCHANGED <<hvars, hs, mvars, descriptors, bvars, eof>>

Reading(h) == cb.pc = "read" /\ cb.h = h

(* do_read: recv would block. *)
ReadBlocks(h) ==
    /\ Reading(h)
    /\ h \notin eof
    /\ cb' = [cb EXCEPT !.pc = AfterRead]
    /\ UNCHANGED <<hvars, hs, mvars, descriptors, bvars, eof>>

(* Mutant: a read of zero bytes is taken for one that would block. *)
ReadEndsUnnoticed(h) ==
    /\ Reading(h)
    /\ cb' = [cb EXCEPT !.pc = AfterRead]
    /\ UNCHANGED <<hvars, hs, mvars, descriptors, bvars, eof>>

(* do_read: recv returns zero, or fails.  io_cb goes on after do_read. *)
ReadEnds(h) ==
    /\ Reading(h)
    /\ Suicide(h)
    /\ cb' = [cb EXCEPT !.pc = AfterRead]
    /\ UNCHANGED bvars

-----------------------------------------------------------------------------
(* The next header is awaited, in the second case with a reply queued; the *)
(* watcher is told at the end of io_cb.                                    *)
Done(s) == [s EXCEPT !.recv = "HEADER"]
Replied(s) == [Done(s) EXCEPT !.wq = @ + 1, !.send = TRUE]

(* receive_header: the client is about to send a payload. *)
ReceiveHeader(h) ==
    /\ Reading(h) /\ h \notin eof
    /\ hs[h].recv = "HEADER"
    /\ hs' = [hs EXCEPT ![h].recv = "PAYLOAD"]
    /\ UNCHANGED <<hvars, mvars, descriptors, cb, bvars, eof>>

(* The names of client c, if there is one, are void. *)
Forgotten(c) == [h \in Ids |-> IF h = c THEN {} ELSE told[h]]

(* Mutant: the id that is erased is read after the new one was drawn. *)
ReceiveRegisterNew(h, nonce) ==
    /\ Reading(h) /\ h \notin eof
    /\ hs[h].recv = "HEADER"
    /\ hs[h].wq < MaxQueue
    /\ hs' = [hs EXCEPT ![h] = [Replied(@) EXCEPT !.regid = nonce]]
    /\ messages' = {e \in messages : e[1] # nonce}
    /\ told' = Forgotten(hs[h].regid)
    /\ UNCHANGED <<hvars, nextId, descriptors, cb, bvars, eof>>

(* receive_header, REGISTER: a new regid.  The entry of g_messages that    *)
(* goes is the one whose handler id equals the old regid.                  *)
ReceiveRegister(h, nonce) ==
    /\ Reading(h) /\ h \notin eof
    /\ hs[h].recv = "HEADER"
    /\ hs[h].wq < MaxQueue
    /\ hs' = [hs EXCEPT ![h] = [Replied(@) EXCEPT !.regid = nonce]]
    /\ messages' = {e \in messages : e[1] # hs[h].regid}
    /\ told' = Forgotten(hs[h].regid)
    /\ UNCHANGED <<hvars, nextId, descriptors, cb, bvars, eof>>

(* A message of no payload that is not REGISTER, an unknown command, an    *)
(* unknown payload type, a CONNECT without a socket: logged only.          *)
ReceiveIgnored(h) ==
    /\ Reading(h) /\ h \notin eof
    /\ hs' = [hs EXCEPT ![h] = Done(@)]
    /\ UNCHANGED <<hvars, mvars, descriptors, cb, bvars, eof>>

ReceivePayload(h) ==
    /\ Reading(h) /\ h \notin eof
    /\ hs[h].recv = "PAYLOAD"

(* BITCOIN_PACKED_MESSAGE, well formed: the next id is used up; insert     *)
(* fails if the client has a message of that id, and the reply is then 0.  *)
RegisterMessage(h, m) ==
    /\ ReceivePayload(h)
    /\ hs[h].wq < MaxQueue
    /\ nextId' = (nextId + 1) % IdSpace
    /\ LET taken == \E e \in messages : e[1] = h /\ e[2] = nextId IN
          /\ messages' = IF taken THEN messages ELSE messages \cup {<<h, nextId, m>>}
          /\ told' = IF taken \/ nextId = 0 THEN told
                     ELSE [told EXCEPT ![h] = @ \cup {<<nextId, m>>}]
    /\ hs' = [hs EXCEPT ![h] = Replied(@)]
    /\ UNCHANGED <<hvars, descriptors, cb, bvars, eof>>

(* BITCOIN_PACKED_MESSAGE of inconsistent length: the reply is 0.          *)
(* COMMAND_GET_CXN: the reply is the list of connections.                  *)
ReceiveAnswered(h) ==
    /\ ReceivePayload(h)
    /\ hs[h].wq < MaxQueue
    /\ hs' = [hs EXCEPT ![h] = Replied(@)]
    /\ UNCHANGED <<hvars, mvars, descriptors, cb, bvars, eof>>

(* Mutant: the message is looked up among those of all clients. *)
SendMsgAny(h, id, m, T) ==
    /\ ReceivePayload(h)
    /\ \E c \in Ids : <<c, id, m>> \in messages
    /\ sent' = IF T \cap conns = {} THEN sent ELSE <<h, id, m>>
    /\ hs' = [hs EXCEPT ![h] = Done(@)]
    /\ UNCHANGED <<hvars, mvars, descriptors, cb, conns, connPool, attempts, undefined, eof>>

(* COMMAND_SEND_MSG of id to the targets T: the message m that the client  *)
(* registered is queued on those that exist.  BROADCAST_TARGET is T =      *)
(* conns.  An unknown id is logged only (ReceiveIgnored).                  *)
SendMsg(h, id, m, T) ==
    /\ ReceivePayload(h)
    /\ <<h, id, m>> \in messages
    /\ sent' = IF T \cap conns = {} THEN sent ELSE <<h, id, m>>
    /\ hs' = [hs EXCEPT ![h] = Done(@)]
    /\ UNCHANGED <<hvars, mvars, descriptors, cb, conns, connPool, attempts, undefined, eof>>

(* COMMAND_DISCONNECT with a list of targets: find is called for each.     *)
DisconnectTargets(h, T) ==
    /\ ReceivePayload(h)
    /\ conns' = conns \ T
    /\ hs' = [hs EXCEPT ![h] = Done(@)]
    /\ UNCHANGED <<hvars, mvars, descriptors, cb, connPool, attempts, undefined, sent, eof>>

(* COMMAND_DISCONNECT of BROADCAST_TARGET: for_each runs over the map while *)
(* disconnect erases the element it is at, and then increments an iterator  *)
(* of an erased element.  From there on nothing is known.                   *)
DisconnectAll(h) ==
    /\ BroadcastDisconnect
    /\ ReceivePayload(h)
    /\ undefined' = (conns # {})
    /\ conns' \in SUBSET conns
    /\ conns # {} => conns' # conns
    /\ hs' = [hs EXCEPT ![h] = Done(@)]
    /\ UNCHANGED <<hvars, mvars, descriptors, cb, connPool, attempts, sent, eof>>

(* CONNECT: a connect_handler or a tor_connect_handler is created. *)
ReceiveConnect(h) ==
    /\ ReceivePayload(h)
    /\ attempts < MaxAttempts
    /\ attempts' = attempts + 1
    /\ hs' = [hs EXCEPT ![h] = Done(@)]
    /\ UNCHANGED <<hvars, mvars, descriptors, cb, conns, connPool, undefined, sent, eof>>

-----------------------------------------------------------------------------
(* do_write: a queued reply leaves in full. *)
WriteReply(h) ==
    /\ cb.pc = "write" /\ cb.h = h
    /\ hs[h].open
    /\ hs[h].wq > 0
    /\ hs' = [hs EXCEPT ![h].wq = @ - 1]
    /\ UNCHANGED <<hvars, mvars, descriptors, cb, bvars, eof>>

(* do_write: the socket takes no more. *)
WriteBlocks(h) ==
    /\ cb.pc = "write" /\ cb.h = h
    /\ hs[h].open
    /\ hs[h].wq > 0
    /\ cb' = [cb EXCEPT !.pc = "finish"]
    /\ UNCHANGED <<hvars, hs, mvars, descriptors, bvars, eof>>

(* do_write: write fails; on the descriptor that do_read has just closed   *)
(* it always does.                                                         *)
WriteFails(h) ==
    /\ cb.pc = "write" /\ cb.h = h
    /\ hs[h].wq > 0
    /\ Suicide(h)
    /\ cb' = [cb EXCEPT !.pc = "finish"]
    /\ UNCHANGED bvars

(* Mutant: the send flag stays set. *)
WriteDrainedBusy(h) ==
    /\ cb.pc = "write" /\ cb.h = h
    /\ hs[h].wq = 0
    /\ cb' = [cb EXCEPT !.pc = "finish"]
    /\ UNCHANGED <<hvars, hs, mvars, descriptors, bvars, eof>>

(* do_write with everything written: the send flag is cleared. *)
WriteDrained(h) ==
    /\ cb.pc = "write" /\ cb.h = h
    /\ hs[h].wq = 0
    /\ hs' = [hs EXCEPT ![h].send = FALSE]
    /\ cb' = [cb EXCEPT !.pc = "finish"]
    /\ UNCHANGED <<hvars, mvars, descriptors, bvars, eof>>

(* Mutant: only the receive state counts. *)
EventsReadOnly(s) == IF s.recv # "NONE" THEN {"READ"} ELSE {}

(* The watcher mask that io_cb computes from the state word. *)
Events(s) ==
    (IF s.send THEN {"WRITE"} ELSE {}) \cup (IF s.recv # "NONE" THEN {"READ"} ELSE {})

(* io_cb ends: the watcher is changed if the state word has changed.  The  *)
(* fields of a handler that was suspended are never read again.            *)
Refreshed(s) ==
    IF ~ s.open THEN NoHandler
    ELSE IF s.recv = cb.recv /\ s.send = cb.send THEN s
    ELSE [s EXCEPT !.io = Events(s)]

IoCbEnds(h) ==
    /\ cb.pc = "finish" /\ cb.h = h
    /\ hs' = [hs EXCEPT ![h] = Refreshed(@)]
    /\ cb' = Idle
    /\ UNCHANGED <<hvars, mvars, descriptors, bvars, eof>>

-----------------------------------------------------------------------------
(* A bitcoin connection comes up: accepted, or an attempt that succeeds. *)
ConnOpens(a) ==
    /\ cb.pc = "idle"
    /\ connPool < MaxConns
    /\ a \in {0, 1} /\ a <= attempts
    /\ attempts' = attempts - a
    /\ conns' = conns \cup {connPool}
    /\ connPool' = connPool + 1
    /\ UNCHANGED <<hvars, hs, mvars, descriptors, cb, undefined, sent, eof>>

(* A connect attempt fails. *)
ConnectFails ==
    /\ cb.pc = "idle"
    /\ attempts > 0
    /\ attempts' = attempts - 1
    /\ UNCHANGED <<hvars, hs, mvars, descriptors, cb, conns, connPool, undefined, sent, eof>>

(* A bitcoin connection goes: its peer leaves, or an error. *)
ConnCloses(c) ==
    /\ cb.pc = "idle"
    /\ c \in conns
    /\ conns' = conns \ {c}
    /\ UNCHANGED <<hvars, hs, mvars, descriptors, cb, connPool, attempts, undefined, sent, eof>>

(* The client closes its end and everything it sent before was read. *)
ClientCloses(h) ==
    /\ h \in active
    /\ h \notin eof
    /\ eof' = eof \cup {h}
    /\ UNCHANGED <<hvars, hs, mvars, descriptors, cb, bvars>>

Receive(h) ==
    \/ ReceiveHeader(h)
    \/ \E nonce \in Nonces : ReceiveRegister(h, nonce)
    \/ ReceiveIgnored(h)
    \/ \E m \in Payloads : RegisterMessage(h, m)
    \/ ReceiveAnswered(h)
    \/ \E id \in MessageIds, m \in Payloads, T \in SUBSET ConnIds : SendMsg(h, id, m, T)
    \/ \E T \in SUBSET ConnIds : DisconnectTargets(h, T)
    \/ DisconnectAll(h)
    \/ ReceiveConnect(h)

Callback(h) ==
    \/ ReadBlocks(h)
    \/ ReadEnds(h)
    \/ Receive(h)
    \/ WriteReply(h)
    \/ WriteBlocks(h)
    \/ WriteFails(h)
    \/ WriteDrained(h)
    \/ IoCbEnds(h)

Next ==
    /\ ~ undefined
    /\ \/ \E nonce \in Nonces : Accept(nonce)
       \/ \E h \in Ids, revents \in SUBSET EvFlags : IoCb(h, revents)
       \/ \E h \in Ids : Callback(h) \/ ClientCloses(h)
       \/ \E a \in {0, 1} : ConnOpens(a)
       \/ ConnectFails
       \/ \E c \in ConnIds : ConnCloses(c)

Spec == Init /\ [][Next]_vars

(* The loop polls every descriptor in each round, and a started callback   *)
(* runs to its end: no client sends without a pause.  A client reads what  *)
(* it is sent.                                                             *)
Fairness ==
    \A h \in Ids :
        /\ SF_vars(\E revents \in SUBSET EvFlags :
                      "READ" \in revents /\ h \in eof /\ IoCb(h, revents))
        /\ SF_vars(\E revents \in SUBSET EvFlags :
                      "WRITE" \in revents /\ IoCb(h, revents))
        /\ SF_vars(WriteReply(h) \/ WriteFails(h))
        /\ SF_vars(ReadBlocks(h) \/ ReadEnds(h))
        /\ WF_vars(~ undefined /\ Callback(h))

FairSpec == Spec /\ Fairness

-----------------------------------------------------------------------------
(* Outside its callback a control connection listens, and asks for WRITE   *)
(* events exactly while a reply is queued (receive_header,                 *)
(* receive_payload, do_write, io_cb): no reply waits for an event nobody   *)
(* asked for, no empty queue makes the loop spin, no client goes unheard.  *)
InterestExact ==
    \A h \in active : (cb.pc = "idle" \/ cb.h # h) =>
        hs[h].io = {"READ"} \cup (IF hs[h].wq > 0 THEN {"WRITE"} ELSE {})

(* No callback ever runs on freed memory, and no descriptor leaks          *)
(* (suicide, ~handler, accept_handler::io_cb): a handler has its           *)
(* descriptor exactly while it is in g_active_handlers, and the one whose  *)
(* callback runs is in one of the two containers.  Nothing of a client     *)
(* outlives its handler object: the entries of g_messages belong to        *)
(* handlers that still exist.                                              *)
OpenIsActive ==
    /\ \A h \in Ids : hs[h].open <=> h \in active
    /\ inactive \cap active = {}
    /\ cb.pc # "idle" => cb.h \in active \cup inactive
    /\ \A e \in messages : e[1] \in active \cup inactive

(* Every id that a client was given names the message it registered as     *)
(* long as the client stays, whatever other clients register, whoever      *)
(* leaves and is deleted, and when the id counter wraps.  The one loss is  *)
(* by a REGISTER (erase(oldid), receive_header): it voids all the names of *)
(* the client whose handler id happens to equal the regid that is given    *)
(* up, and no name of any other client.                                    *)
NamesKept ==
    \A h \in active : \A e \in told[h] :
        {d \in messages : d[1] = h /\ d[2] = e[1]} = {<<h, e[1], e[2]>>}

(* What clients see of the registered messages is MessageRegistry: a name  *)
(* stands for the message that the client registered under it, or for      *)
(* nothing any more (REGISTER, MESSAGE, COMMAND_SEND_MSG, ~handler).       *)
Registry == INSTANCE MessageRegistry WITH
    Clients <- Ids, Names <- MessageIds, joined <- active, table <- told

ImplementsRegistry == Registry!Spec

(* A client that asks and then waits is answered (do_read, do_write,       *)
(* io_cb), unless its connection ends.                                     *)
Answered == \A h \in Ids : h \in active /\ hs[h].wq > 0 ~> (h \notin active \/ hs[h].wq = 0)

(* A client that closes its end is noticed, whatever was queued or half    *)
(* read.                                                                   *)
EofNoticed == \A h \in Ids : h \in eof ~> h \notin active

=============================================================================
