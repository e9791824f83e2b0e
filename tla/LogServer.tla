------------------------------ MODULE LogServer ------------------------------
(***************************************************************************)
(* The log server: input_cxn::handler, collector and output_cxn::handler.  *)
(*                                                                         *)
(* Sources (the connector, for one) connect to the input socket and send   *)
(* records, each a length and a payload whose first byte is its type.  The *)
(* collector queues a record for every consumer that is interested in its  *)
(* type.  A consumer is written a record as three chunks: length, source   *)
(* id, payload.                                                            *)
(*                                                                         *)
(* One thread, one libev loop: a callback is one action.  An input         *)
(* callback that reads several chunks is several actions in a row; the     *)
(* same steps happen when the chunks arrive apart.  A chunk that is partly *)
(* read or written is one that has not been read or written yet.           *)
(*                                                                         *)
(* log, since and got are history: every record that was queued, the       *)
(* length of log when a live consumer came, and the records its peer has   *)
(* received in full.                                                       *)
(***************************************************************************)
EXTENDS Integers, Sequences, FiniteSets

CONSTANTS
    Inputs,       \* connections of sources
    Consumers,    \* addresses of output handlers; a freed one can be used again
    Types,        \* record types
    Interests,    \* the interests of the output sockets, sets of types
    Lens,         \* payload lengths that sources announce
    MaxSize,      \* logger.max_buffer
    MaxRecords,   \* bound: records queued in a behaviour
    MaxTime       \* bound: the clock, in seconds

ASSUME SetsAssumption ==
    /\ Interests \subseteq SUBSET Types
    /\ Lens \subseteq Nat

ASSUME SizesAssumption ==
    /\ MaxSize \in Nat
    /\ MaxRecords \in Nat
    /\ MaxTime \in Nat

VARIABLES
    clock,        \* time(NULL)
    taken,        \* input_cxn::taken_ids
    listening,    \* the sockets that still accept: "input" or an interest
    in,           \* input handlers
    out,          \* output handlers
    queues,       \* collector::queues
    peerGone,     \* environment: consumers that closed their end
    log, since, got

vars == <<clock, taken, listening, in, out, queues, peerGone, log, since, got>>

Times == 0 .. MaxTime
Sockets == {<<"input">>} \cup {<<"output", I>> : I \in Interests}

Records == [n: Nat, type: Types, len: Nat, src: Times]

ClosedIn == [state |-> "closed", id |-> 0, len |-> 0]

\* chunks: the record in write_queue, as the chunks of it still to be written
Chunks == 3

-----------------------------------------------------------------------------
NoQueue == [q |-> <<>>, total |-> 0]

(* The fields of a deleted output handler. *)
Deleted == [live |-> FALSE, interests |-> {}, write |-> FALSE, started |-> FALSE,
            cur |-> <<>>, left |-> 0]

(* output_cxn::handler::handler: the watcher is started without events. *)
NewConsumer(I) ==
    [live |-> TRUE, interests |-> I, write |-> FALSE, started |-> TRUE,
     cur |-> <<>>, left |-> 0]

(* output_cxn::handler::set_events with WRITE added *)
WithWrite(o) == IF o.write THEN o ELSE [o EXCEPT !.write = TRUE, !.started = TRUE]

Init ==
    /\ clock \in Times
    /\ taken = {}
    /\ listening = Sockets
    /\ in = [i \in Inputs |-> ClosedIn]
    /\ out = [c \in Consumers |-> Deleted]
    /\ queues = [c \in Consumers |-> NoQueue]
    /\ peerGone = {}
    /\ log = <<>>
    /\ since = [c \in Consumers |-> 0]
    /\ got = [c \in Consumers |-> <<>>]

(* The wall clock runs, and may be set. *)
Tick ==
    /\ clock' \in Times \ {clock}
    /\ UNCHANGED <<taken, listening, in, out, queues, peerGone, log, since, got>>

-----------------------------------------------------------------------------
(* Mutant: the id is the time, taken or not. *)
AcceptInputNow(i, id) ==
    /\ <<"input">> \in listening
    /\ in[i].state = "closed"
    /\ id = clock
    /\ taken' = taken \cup {id}
    /\ in' = [in EXCEPT ![i] = [state |-> "header", id |-> id, len |-> 0]]
    /\ UNCHANGED <<clock, listening, out, queues, peerGone, log, since, got>>

(* input_cxn::handler::handler: the id is the first second, from now on,   *)
(* that no input connection had; the constructor sleeps until it comes.    *)
AcceptInput(i, id) ==
    /\ <<"input">> \in listening
    /\ in[i].state = "closed"
    /\ id \in Times \ taken
    /\ id >= clock
    /\ \A t \in clock .. id - 1 : t \in taken
    /\ clock' = id
    /\ taken' = taken \cup {id}
    /\ in' = [in EXCEPT ![i] = [state |-> "header", id |-> id, len |-> 0]]
    /\ UNCHANGED <<listening, out, queues, peerGone, log, since, got>>

(* The read queue wants data. *)
Hungry(i) == in[i].state = "header" \/ (in[i].state = "log" /\ in[i].len > 0)

(* input_cxn::handler::io_cb: the length of a record *)
InputHeader(i, len) ==
    /\ in[i].state = "header"
    /\ in' = [in EXCEPT ![i].state = "log", ![i].len = len]
    /\ UNCHANGED <<clock, taken, listening, out, queues, peerGone, log, since, got>>

Interested(r) == {c \in Consumers : out[c].live /\ r.type \in out[c].interests}

Morose(r) == {c \in Interested(r) : queues[c].total + r.len > MaxSize}

(* collector::append.  The consumers whose queue is now too large are      *)
(* deleted, which also retires their queues.                               *)
CollectorAppend(r) ==
    /\ log' = Append(log, r)
    /\ queues' = [c \in Consumers |->
            IF c \in Morose(r) THEN NoQueue
            ELSE IF c \in Interested(r)
            THEN [q |-> Append(queues[c].q, r), total |-> queues[c].total + r.len]
            ELSE queues[c]]
    /\ out' = [c \in Consumers |->
            IF c \in Morose(r) THEN Deleted
            ELSE IF c \in Interested(r) THEN WithWrite(out[c])
            ELSE out[c]]
    /\ peerGone' = peerGone \ Morose(r)
    /\ since' = [c \in Consumers |-> IF c \in Morose(r) THEN 0 ELSE since[c]]
    /\ got' = [c \in Consumers |-> IF c \in Morose(r) THEN <<>> ELSE got[c]]

(* input_cxn::handler::io_cb: the payload of a record *)
InputRecord(i, type) ==
    /\ in[i].state = "log"
    /\ Hungry(i)
    /\ Len(log) < MaxRecords
    /\ CollectorAppend([n |-> Len(log) + 1, type |-> type, len |-> in[i].len,
                        src |-> in[i].id])
    /\ in' = [in EXCEPT ![i].state = "header", ![i].len = 0]
    /\ UNCHANGED <<clock, taken, listening>>

(* input_cxn::handler::io_cb reads zero bytes or fails: suicide *)
InputEnds(i) ==
    /\ Hungry(i)
    /\ in' = [in EXCEPT ![i] = ClosedIn]
    /\ UNCHANGED <<clock, taken, listening, out, queues, peerGone, log, since, got>>

-----------------------------------------------------------------------------
(* output_cxn::handler::handle_accept on the socket with interests I *)
AcceptOutput(c, I) ==
    /\ <<"output", I>> \in listening
    /\ ~out[c].live
    /\ out' = [out EXCEPT ![c] = NewConsumer(I)]
    /\ queues' = [queues EXCEPT ![c] = NoQueue]
    /\ since' = [since EXCEPT ![c] = Len(log)]
    /\ UNCHANGED <<clock, taken, listening, in, peerGone, log, got>>

(* handle_accept_error: the socket is closed for good. *)
AcceptFails(s) ==
    /\ s \in listening
    /\ listening' = listening \ {s}
    /\ UNCHANGED <<clock, taken, in, out, queues, peerGone, log, since, got>>

Writable(c) == out[c].live /\ out[c].started /\ out[c].write

(* Mutant: events is not reset when the watcher is stopped. *)
PoppedKeepsEvents(o, q) ==
    IF q.q # <<>> /\ Head(q.q).len > 0
    THEN [o EXCEPT !.cur = <<Head(q.q)>>, !.left = Chunks]
    ELSE [o EXCEPT !.cur = <<>>, !.left = 0, !.started = FALSE]

(* Mutant: the end that was pushed last is popped. *)
PoppedNewest(o, q) ==
    IF q.q # <<>> /\ Head(q.q).len > 0
    THEN [o EXCEPT !.cur = <<q.q[Len(q.q)]>>, !.left = Chunks]
    ELSE [o EXCEPT !.cur = <<>>, !.left = 0, !.write = FALSE, !.started = FALSE]

(* Mutant: the watcher stays started and asks for WRITE when all is sent,  *)
(* and is stopped when a record was popped.                                *)
PoppedStops(o, q) ==
    IF q.q # <<>> /\ Head(q.q).len > 0
    THEN [o EXCEPT !.cur = <<Head(q.q)>>, !.left = Chunks,
                   !.write = FALSE, !.started = FALSE]
    ELSE [o EXCEPT !.cur = <<>>, !.left = 0]

(* io_cb once write_queue is empty: collector::pop, which yields length 0  *)
(* when nothing is queued.                                                 *)
Popped(o, q) ==
    IF q.q # <<>> /\ Head(q.q).len > 0
    THEN [o EXCEPT !.cur = <<Head(q.q)>>, !.left = Chunks]
    ELSE [o EXCEPT !.cur = <<>>, !.left = 0, !.write = FALSE, !.started = FALSE]

(* Mutant: total_size is not reduced. *)
PoppedQueueTotal(q) ==
    IF q.q # <<>> THEN [q |-> Tail(q.q), total |-> q.total] ELSE q

PoppedQueue(q) ==
    IF q.q # <<>> THEN [q |-> Tail(q.q), total |-> q.total - Head(q.q).len] ELSE q

(* Mutant: the next record is taken before the last one is written. *)
OutputCbEager(c, k) ==
    /\ Writable(c)
    /\ k <= out[c].left
    /\ k > 0 => c \notin peerGone
    /\ out' = [out EXCEPT ![c] = Popped(@, queues[c])]
    /\ queues' = [queues EXCEPT ![c] = PoppedQueue(@)]
    /\ got' = IF k < out[c].left THEN got ELSE [got EXCEPT ![c] = @ \o out[c].cur]
    /\ UNCHANGED <<clock, taken, listening, in, peerGone, log, since>>

(* output_cxn::handler::io_cb writes k chunks before the socket is full.   *)
(* Only when all are written it takes the next record.                     *)
OutputCb(c, k) ==
    /\ Writable(c)
    /\ k <= out[c].left
    /\ k > 0 => c \notin peerGone
    /\ IF k < out[c].left
       THEN /\ out' = [out EXCEPT ![c].left = @ - k]
            /\ UNCHANGED <<queues, got>>
       ELSE /\ out' = [out EXCEPT ![c] = Popped(@, queues[c])]
            /\ queues' = [queues EXCEPT ![c] = PoppedQueue(@)]
            /\ got' = [got EXCEPT ![c] = @ \o out[c].cur]
    /\ UNCHANGED <<clock, taken, listening, in, peerGone, log, since>>

(* Mutant: a failed write is taken for one that would block. *)
OutputFailsUnnoticed(c) ==
    /\ Writable(c)
    /\ out[c].left > 0
    /\ UNCHANGED vars

(* output_cxn::handler::io_cb: a write fails, suicide deletes the handler, *)
(* and the destructor retires its queue.                                   *)
OutputFails(c) ==
    /\ Writable(c)
    /\ out[c].left > 0
    /\ out' = [out EXCEPT ![c] = Deleted]
    /\ queues' = [queues EXCEPT ![c] = NoQueue]
    /\ peerGone' = peerGone \ {c}
    /\ since' = [since EXCEPT ![c] = 0]
    /\ got' = [got EXCEPT ![c] = <<>>]
    /\ UNCHANGED <<clock, taken, listening, in, log>>

(* The peer of a consumer closes its end. *)
PeerCloses(c) ==
    /\ out[c].live
    /\ c \notin peerGone
    /\ peerGone' = peerGone \cup {c}
    /\ UNCHANGED <<clock, taken, listening, in, out, queues, log, since, got>>

Next ==
    \/ Tick
    \/ \E i \in Inputs, id \in Times : AcceptInput(i, id)
    \/ \E i \in Inputs, len \in Lens : InputHeader(i, len)
    \/ \E i \in Inputs, type \in Types : InputRecord(i, type)
    \/ \E i \in Inputs : InputEnds(i)
    \/ \E c \in Consumers, I \in Interests : AcceptOutput(c, I)
    \/ \E s \in Sockets : AcceptFails(s)
    \/ \E c \in Consumers, k \in 0 .. Chunks : OutputCb(c, k)
    \/ \E c \in Consumers : OutputFails(c) \/ PeerCloses(c)

Spec == Init /\ [][Next]_vars

(* A ready descriptor gets its callback.  The peers that stay read what    *)
(* they are sent, so every now and then a chunk can be written; a write to *)
(* a peer that left fails.                                                 *)
Fairness ==
    \A c \in Consumers :
        /\ WF_vars(\E k \in 0 .. Chunks : (k = 0 => out[c].left = 0) /\ OutputCb(c, k))
        /\ WF_vars(c \in peerGone /\ OutputFails(c))

FairSpec == Spec /\ Fairness

-----------------------------------------------------------------------------
TypeOK ==
    /\ clock \in Times
    /\ taken \subseteq Times
    /\ listening \subseteq Sockets
    /\ in \in [Inputs -> [state: {"closed", "header", "log"}, id: Times, len: Nat]]
    /\ out \in [Consumers ->
            [live: BOOLEAN, interests: SUBSET Types, write: BOOLEAN, started: BOOLEAN,
             cur: Seq(Records), left: 0 .. Chunks]]
    /\ queues \in [Consumers -> [q: Seq(Records), total: Int]]
    /\ peerGone \subseteq Consumers
    /\ log \in Seq(Records)
    /\ since \in [Consumers -> Nat]
    /\ got \in [Consumers -> Seq(Records)]

SumLens(q) ==
    LET sum[k \in 0 .. Len(q)] == IF k = 0 THEN 0 ELSE sum[k - 1] + q[k].len
    IN  sum[Len(q)]

(* total_size is the size of what is queued (append, pop), whatever the    *)
(* order of appends and pops, so that the limit means what it says and the *)
(* unsigned subtraction in pop never wraps.                                *)
TotalExact == \A c \in Consumers : queues[c].total = SumLens(queues[c].q)

(* After every append a consumer that is still there has at most           *)
(* max_buffer bytes queued (collector::append).                            *)
BufferBounded == \A c \in Consumers : queues[c].total <= MaxSize

(* A consumer for whom there is something to write is waiting for WRITE    *)
(* events with a started watcher: append and the end of io_cb, which stops *)
(* the watcher, never leave a record behind that nothing will send.        *)
NoLostWakeup ==
    \A c \in Consumers :
        out[c].live /\ (out[c].left > 0 \/ queues[c].q # <<>>) => Writable(c)

(* What c has received, is being written, and has queued, in this order. *)
Stream(c) == got[c] \o out[c].cur \o queues[c].q

(* The records of l after the first from that have a type in I, by number. *)
Due(from, l, I) == {n \in from + 1 .. Len(l) : l[n].type \in I}

(* s is exactly these records, each once and in order. *)
Exact(s, from, l, I) ==
    /\ \A j, k \in DOMAIN s : j < k => s[j].n < s[k].n
    /\ \A k \in DOMAIN s : s[k].n \in Due(from, l, I) /\ s[k] = l[s[k].n]
    /\ \A n \in Due(from, l, I) : \E k \in DOMAIN s : s[k].n = n

(* A consumer gets every record of its interest that was logged after it   *)
(* connected, in order, none twice and none changed, however appends and   *)
(* its own reads interleave (append, pop, io_cb).                          *)
ExactStream ==
    \A c \in Consumers :
        out[c].live => Exact(Stream(c), since[c], log, out[c].interests)

(* The server implements LogBroadcast: writing chunks and blocking in the  *)
(* middle of a record are invisible but for records that arrive whole, in  *)
(* order and without gaps, and a record costs no consumer its connection   *)
(* but one that is too far behind to take it (append, pop, io_cb).         *)
Broadcast == INSTANCE LogBroadcast WITH
    Readers <- Consumers,
    Limit <- MaxSize,
    on <- {c \in Consumers : out[c].live},
    interests <- [c \in Consumers |-> out[c].interests]

ImplementsBroadcast == Broadcast!Spec

FreshIds ==
    \A i \in Inputs :
        in[i].state = "closed" /\ in'[i].state # "closed" =>
            /\ \A n \in DOMAIN log : log[n].src # in'[i].id
            /\ \A j \in Inputs : in[j].state # "closed" => in[j].id # in'[i].id

(* A new input connection gets an id that no record and no other input     *)
(* connection has (taken_ids), also when the clock was set back.           *)
FreshSource == [][FreshIds]_vars

(* What is queued for a consumer reaches its peer, unless the consumer is  *)
(* disconnected.                                                           *)
Delivery ==
    \A c \in Consumers, n \in 1 .. MaxRecords :
        out[c].live /\ Len(Stream(c)) >= n ~> ~out[c].live \/ Len(got[c]) >= n

(* A consumer whose peer left is removed once there is something to send.  *)
DeadPeerRemoved ==
    \A c \in Consumers :
        out[c].live /\ c \in peerGone /\ (out[c].left > 0 \/ queues[c].q # <<>>)
            ~> ~out[c].live
=============================================================================
