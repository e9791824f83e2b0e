------------------------------ MODULE Getaddr ------------------------------
(***************************************************************************)
(* The getaddr client (clients/getaddr.cpp): it keeps a connection to      *)
(* every address it hears of, asks each connection for more addresses, and *)
(* starts a new round of questions on a schedule.  What it knows of the    *)
(* connector comes late, as a stream of events from the log server; what   *)
(* it wants goes out on the control socket.                                *)
(*                                                                         *)
(* The connector and the log server are the environment here: commands are *)
(* taken in order, attempts end in any order, events are queued in order   *)
(* and the stream of events may break.  Time passes in steps of the        *)
(* pusher's period of two seconds; the waits of the connection handlers    *)
(* are random in the code and of any length here.  Messages are as the two *)
(* ends mean them: addresses and ids, in records whose layout both share.  *)
(***************************************************************************)
EXTENDS Integers, FiniteSets, Sequences, SequencesExt

CONSTANTS
    Addrs,        \* addresses of peers
    Inbound,      \* those that peers connect from
    MaxHid,       \* handle ids are 0 .. MaxHid
    MaxFails,     \* 14 in the code
    Wait,         \* ten seconds, in periods of the pusher
    Limit,        \* GETADDR_LIMIT
    MaxRounds,    \* bound on the rounds
    MaxEvents,    \* bound on the events on their way
    MaxCommands   \* room of the control socket: a full one blocks do_write

ASSUME GetaddrAssumption ==
    /\ Inbound \subseteq Addrs
    /\ MaxHid \in Nat /\ MaxFails \in Nat
    /\ Wait \in Nat \ {0}     \* ten seconds are longer than two

VARIABLES
    known,     \* g_known_addrs: address -> hid, NoHid or Unknown
    cxn,       \* g_cxns: address -> cxn_handler
    hids,      \* g_known_hids: hid -> hid_handler
    queued,    \* g_pending_getaddrs
    round,     \* g_current_getaddr
    recent,    \* less than 600 s since g_getaddr_start
    ctl,       \* commands on their way to the connector
    ev,        \* events on their way to the client
    evOpen,    \* the stream of events is connected
    live,      \* the connector's connections: hid -> address
    attempts,  \* addresses the connector is connecting to, once or more
    nextHid    \* handler::id_pool

client == <<known, cxn, hids, queued, round, recent>>
connector == <<live, attempts, nextHid>>
vars == <<client, connector, ctl, ev, evOpen>>

Hids == 0 .. MaxHid
NoHid == -1
Unknown == -2
Off == -1
NoCxn == [st |-> "NONE", pending |-> FALSE, fails |-> 0, timer |-> FALSE]

ConnectTo(a) == [cmd |-> "CONNECT", to |-> a]
Disconnect(S) == [cmd |-> "DISCONNECT", to |-> S]
SendMsg == [cmd |-> "SEND_MSG"]

\* BITCOIN events: CONNECT_SUCCESS or ACCEPT_SUCCESS, and all the others
\* (accepted tells whether the local address is one the connector listens on)
Up(a, h, accepted) == [up |-> TRUE, a |-> a, h |-> h, bound |-> accepted]
Down(a, h) == [up |-> FALSE, a |-> a, h |-> h]

Write(cmds) ==
    /\ Len(ctl) + Len(cmds) <= MaxCommands
    /\ ctl' = ctl \o cmds

-----------------------------------------------------------------------------
(* cxn_handler: one per address.  pending stands for pending_time > 0.      *)

\* Mutant: a pending attempt never expires.
ExpireNever(c, late) == IF ~c.pending THEN [c EXCEPT !.timer = FALSE] ELSE c

\* pending_time is more than 15 minutes old, or the timer is set again
Expire(c, late) ==
    IF ~c.pending THEN [c EXCEPT !.timer = FALSE]
    ELSE IF late THEN [c EXCEPT !.timer = FALSE, !.pending = FALSE,
                                !.st = IF @ = "CONNECTING" THEN "DISCONNECTED" ELSE @]
    ELSE c

Attempts(c) == ~c.pending /\ c.st = "DISCONNECTED"

SetReconnectTimer(c) == [c EXCEPT !.timer = TRUE]

\* the second half of timer_cb
Proceed(c) ==
    IF Attempts(c) THEN SetReconnectTimer([c EXCEPT !.st = "CONNECTING", !.pending = TRUE,
                                              !.fails = IF @ < MaxFails THEN @ + 1 ELSE @])
    ELSE IF ~c.pending /\ c.st = "CONNECTED" /\ c.fails > 0
         THEN [c EXCEPT !.fails = @ - 1, !.timer = TRUE]
    ELSE c

NewCxn(st) == Proceed([NoCxn EXCEPT !.st = st])

\* Mutant: the timer is not set on a disconnect.
SetStateOnly(c, st) == [c EXCEPT !.st = st, !.pending = FALSE]

\* cxn_handler::state(s)
SetState(c, st) ==
    LET d == [c EXCEPT !.st = st, !.pending = FALSE]
    IN  IF st = "DISCONNECTED" /\ ~c.timer THEN SetReconnectTimer(d) ELSE d

CxnTimer(a, late) ==
    LET c == Expire(cxn[a], late)
    IN  /\ cxn[a].timer
        /\ cxn' = [cxn EXCEPT ![a] = Proceed(c)]
        /\ Write(IF Attempts(c) THEN <<ConnectTo(a)>> ELSE <<>>)
        /\ UNCHANGED <<known, hids, queued, round, recent, ev, evOpen, connector>>

-----------------------------------------------------------------------------
(* hid_handler: one per connection.  wait is the time until ten seconds     *)
(* after last_enqueue, timer the time until the timer fires.                *)

Enqueue(h) == [h EXCEPT !.wait = Wait, !.timer = IF @ = Off THEN Wait ELSE @]

NewHid(bound) ==
    LET h == [bound |-> bound, wait |-> 0, timer |-> Off, seq |-> round, cnt |-> 0]
    IN  IF recent THEN Enqueue(h) ELSE h

SetSequence(h, s) ==
    IF s # h.seq THEN [h EXCEPT !.seq = s, !.cnt = 0] ELSE h

HidTimer(h) ==
    LET c == hids[h]
        asks == c.wait = 0 /\ c.seq = round /\ c.cnt < Limit
    IN  /\ c.timer = 0
        /\ hids' = [hids EXCEPT ![h] =
              IF c.wait > 0 THEN [c EXCEPT !.timer = c.wait]
              ELSE [c EXCEPT !.timer = Off, !.cnt = IF asks THEN @ + 1 ELSE @]]
        /\ queued' = IF asks THEN Append(queued, h) ELSE queued
        /\ UNCHANGED <<known, cxn, round, recent, ctl, ev, evOpen, connector>>

Left(t) == IF t > 0 THEN t - 1 ELSE t

\* Mutant: the pending list is not cleared.
PusherTimerKeeps ==
    /\ \A h \in DOMAIN hids : hids[h].timer # 0
    /\ Write(IF queued = <<>> THEN <<>> ELSE <<SendMsg>>)
    /\ hids' = [h \in DOMAIN hids |->
                  [hids[h] EXCEPT !.wait = Left(@), !.timer = Left(@)]]
    /\ UNCHANGED <<known, cxn, queued, round, recent, ev, evOpen, connector>>

\* Two seconds pass and the pusher's timer fires; no timer is overdue by then.
PusherTimer ==
    /\ \A h \in DOMAIN hids : hids[h].timer # 0
    /\ Write(IF queued = <<>> THEN <<>> ELSE <<SendMsg>>)
    /\ queued' = <<>>
    /\ hids' = [h \in DOMAIN hids |->
                  [hids[h] EXCEPT !.wait = Left(@), !.timer = Left(@)]]
    /\ UNCHANGED <<known, cxn, round, recent, ev, evOpen, connector>>

-----------------------------------------------------------------------------
(* Events, messages and the clock                                           *)

With(f, x, v) == [y \in DOMAIN f \cup {x} |-> IF y = x THEN v ELSE f[y]]
Without(f, x) == [y \in DOMAIN f \ {x} |-> f[y]]

OnConnect(a, h, bound) ==
    /\ known' = [known EXCEPT ![a] = h]
    /\ cxn' = [cxn EXCEPT ![a] = IF @ = NoCxn THEN NewCxn("CONNECTED")
                                 ELSE SetState(@, "CONNECTED")]
    /\ hids' = With(hids, h, NewHid(bound))
    /\ UNCHANGED ctl

\* Mutant: the handler is kept.
OnDisconnectKeepsHid(a, h) ==
    /\ known' = [known EXCEPT ![a] = NoHid]
    /\ cxn' = [cxn EXCEPT ![a] = IF @ = NoCxn THEN NewCxn("DISCONNECTED")
                                 ELSE SetState(@, "DISCONNECTED")]
    /\ Write(IF cxn[a] = NoCxn THEN <<ConnectTo(a)>> ELSE <<>>)
    /\ UNCHANGED hids

OnDisconnect(a, h) ==
    /\ known' = [known EXCEPT ![a] = NoHid]
    /\ cxn' = [cxn EXCEPT ![a] = IF @ = NoCxn THEN NewCxn("DISCONNECTED")
                                 ELSE SetState(@, "DISCONNECTED")]
    /\ Write(IF cxn[a] = NoCxn THEN <<ConnectTo(a)>> ELSE <<>>)
    /\ hids' = Without(hids, h)

\* bcwatchers::ev_handler::io_cb with the callbacks of main
HandleEvent ==
    /\ ev # <<>>
    /\ LET e == Head(ev) IN IF e.up THEN OnConnect(e.a, e.h, e.bound) ELSE OnDisconnect(e.a, e.h)
    /\ ev' = Tail(ev)
    /\ UNCHANGED <<queued, round, recent, evOpen, connector>>

\* the stream ends: ev_handler::suicide and an empty fd_loss_cb
StreamLost ==
    /\ evOpen
    /\ evOpen' = FALSE
    /\ ev' = <<>>
    /\ UNCHANGED <<client, connector, ctl>>

\* An addr message that connection h received, with one address that is
\* sampled and not private.  Its stream is not ordered with the events: h may
\* not be known yet, or any more.
AddrMessage(h, a) ==
    /\ h < nextHid
    /\ hids' = IF h \in DOMAIN hids THEN [hids EXCEPT ![h] = Enqueue(@)] ELSE hids
    /\ known' = [known EXCEPT ![a] = IF @ = Unknown THEN NoHid ELSE @]
    /\ cxn' = [cxn EXCEPT ![a] = IF known[a] = Unknown THEN NewCxn("DISCONNECTED") ELSE @]
    /\ Write(IF known[a] = Unknown THEN <<ConnectTo(a)>> ELSE <<>>)
    /\ UNCHANGED <<queued, round, recent, ev, evOpen, connector>>

\* clock_cb: a new round; connections that are not on a bound address are dropped
Clock ==
    LET outbound == {h \in DOMAIN hids : ~hids[h].bound}
    IN  /\ round < MaxRounds
        /\ round' = round + 1
        /\ recent' = TRUE
        /\ hids' = [h \in DOMAIN hids |-> SetSequence(hids[h], round')]
        /\ Write(IF outbound = {} THEN <<>> ELSE <<Disconnect(outbound)>>)
        /\ UNCHANGED <<known, cxn, queued, ev, evOpen, connector>>

WindowCloses ==
    /\ recent
    /\ recent' = FALSE
    /\ UNCHANGED <<known, cxn, hids, queued, round, ctl, ev, evOpen, connector>>

-----------------------------------------------------------------------------
(* The connector, and the log server between it and the client              *)

Emit(es) ==
    /\ Len(ev) + Len(es) <= MaxEvents
    /\ ev' = IF evOpen THEN ev \o es ELSE ev
    /\ UNCHANGED evOpen

TakeCommand ==
    /\ ctl # <<>>
    /\ ctl' = Tail(ctl)
    /\ LET c == Head(ctl)
           gone == IF c.cmd = "DISCONNECT" THEN c.to \cap DOMAIN live ELSE {}
       IN  /\ attempts' = IF c.cmd = "CONNECT" THEN attempts \cup {c.to} ELSE attempts
           /\ live' = [h \in DOMAIN live \ gone |-> live[h]]
           /\ \E order \in [1 .. Cardinality(gone) -> gone] :
                /\ IsInjective(order)
                /\ Emit([i \in 1 .. Cardinality(gone) |-> Down(live[order[i]], order[i])])
    /\ UNCHANGED <<client, nextHid>>

Open(a, accepted) ==
    /\ nextHid <= MaxHid
    /\ live' = With(live, nextHid, a)
    /\ nextHid' = nextHid + 1
    /\ Emit(<<Up(a, nextHid, accepted)>>)
    /\ UNCHANGED <<client, ctl>>

\* One attempt ends.  Two to the same address, the second begun when the
\* client gave up on the first, are not told apart.
AttemptSucceeds(a) == a \in attempts /\ attempts' = attempts \ {a} /\ Open(a, FALSE)

\* CONNECT_FAILURE is logged with handle id 0
AttemptFails(a) ==
    /\ a \in attempts
    /\ attempts' = attempts \ {a}
    /\ Emit(<<Down(a, 0)>>)
    /\ UNCHANGED <<client, ctl, live, nextHid>>

Accept(a) ==
    /\ \A h \in DOMAIN live : live[h] # a
    /\ Open(a, TRUE)
    /\ UNCHANGED attempts

PeerCloses(h) ==
    /\ live' = Without(live, h)
    /\ Emit(<<Down(live[h], h)>>)
    /\ UNCHANGED <<client, ctl, attempts, nextHid>>

-----------------------------------------------------------------------------

\* main: the client subscribes to the events first and then asks for the
\* connections.  So the event of a connection that it was told of may still
\* come, and that of one that was closed in between.
Init ==
    /\ live \in {<<>>} \cup [{0} -> Addrs]
    /\ nextHid \in (IF live = <<>> THEN {0, 1} ELSE {1})
    /\ ev \in IF live # <<>> THEN {<<>>, <<Up(live[0], 0, live[0] \in Inbound)>>}
             ELSE {<<>>} \cup (IF nextHid = 0 THEN {}
                              ELSE UNION {{<<Down(a, 0)>>, <<Up(a, 0, a \in Inbound), Down(a, 0)>>} : a \in Addrs})
    /\ evOpen = TRUE
    /\ attempts = {}
    /\ round = 1
    /\ recent = FALSE
    /\ queued = <<>>
    /\ ctl = <<>>
    /\ known = [a \in Addrs |-> IF \E h \in DOMAIN live : live[h] = a THEN 0 ELSE Unknown]
    /\ cxn = [a \in Addrs |-> IF \E h \in DOMAIN live : live[h] = a
                              THEN NewCxn("CONNECTED") ELSE NoCxn]
    /\ hids = [h \in DOMAIN live |-> NewHid(live[h] \in Inbound)]

Next ==
    \/ \E a \in Addrs, late \in BOOLEAN : CxnTimer(a, late)
    \/ \E h \in DOMAIN hids : HidTimer(h)
    \/ PusherTimer
    \/ HandleEvent
    \/ StreamLost
    \/ \E h \in Hids, a \in Addrs \ Inbound : AddrMessage(h, a)
    \/ Clock
    \/ WindowCloses
    \/ TakeCommand
    \/ \E a \in Addrs : AttemptSucceeds(a) \/ AttemptFails(a)
    \/ \E a \in Inbound : Accept(a)
    \/ \E h \in DOMAIN live : PeerCloses(h)

Spec == Init /\ [][Next]_vars

\* The client's loop serves the events and the timers of the addresses, and the
\* connector reads its control socket.  A callback that blocks in do_write goes
\* on when the connector reads: the others cannot take its turn, which is
\* strong fairness here.  Attempts need not end.
Fairness ==
    /\ \A a \in Addrs \ Inbound : SF_vars(CxnTimer(a, TRUE))
    /\ WF_vars(HandleEvent) /\ WF_vars(TakeCommand)

FairSpec == Spec /\ Fairness

-----------------------------------------------------------------------------

CxnState == [st: {"NONE", "DISCONNECTED", "CONNECTING", "CONNECTED"},
             pending: BOOLEAN, fails: Nat, timer: BOOLEAN]
HidState == [bound: BOOLEAN, wait: Nat, timer: Nat \cup {Off}, seq: Nat, cnt: Nat]
Event == [up: {TRUE}, a: Addrs, h: Hids, bound: BOOLEAN]
            \cup [up: {FALSE}, a: Addrs, h: Hids]

\* Types of the client's tables and of the events on their way.
TypeOK ==
    /\ known \in [Addrs -> Hids \cup {NoHid, Unknown}]
    /\ cxn \in [Addrs -> CxnState]
    /\ DOMAIN hids \subseteq Hids /\ hids \in [DOMAIN hids -> HidState]
    /\ queued \in Seq(Hids)
    /\ round \in Nat
    /\ recent \in BOOLEAN
    /\ ev \in Seq(Event)
    /\ DOMAIN live \subseteq Hids /\ live \in [DOMAIN live -> Addrs]
    /\ nextHid \in 0 .. MaxHid + 1

\* An address that is not connected always has its timer running, so that no
\* address is forgotten, and an attempt is pending exactly while the state is
\* CONNECTING (the assertion in cxn_handler::timer_cb is never reached).
RetryArmed ==
    \A a \in Addrs :
        /\ cxn[a].st \in {"DISCONNECTED", "CONNECTING"} => cxn[a].timer
        /\ cxn[a].pending <=> cxn[a].st = "CONNECTING"
        /\ known[a] = Unknown <=> cxn[a] = NoCxn

\* the tables once the events on their way are handled: the last one counts
HidsThen ==
    LET last(h) == {i \in DOMAIN ev : ev[i].h = h /\ \A j \in i + 1 .. Len(ev) : ev[j].h # h}
    IN  {h \in Hids : IF last(h) = {} THEN h \in DOMAIN hids ELSE \E i \in last(h) : ev[i].up}
KnownThen ==
    LET last(a) == {i \in DOMAIN ev : ev[i].a = a /\ \A j \in i + 1 .. Len(ev) : ev[j].a # a}
        hid(e) == IF e.up THEN e.h ELSE NoHid
    IN  [a \in Addrs |-> IF last(a) = {} THEN known[a] ELSE hid(ev[CHOOSE i \in last(a) : TRUE])]

\* The table of connections lags behind the connector by exactly the events
\* on their way: it never holds a connection that is gone, and misses none but
\* the one with id 0, which the report of a failed attempt erases.  So does the
\* table of addresses: "The handle_id will be set to ~0 if we do not have an
\* active connection for a given address" (g_known_addrs), any other id is that
\* of a connection to this address.
ViewConverges ==
    evOpen => /\ HidsThen \subseteq DOMAIN live
              /\ DOMAIN live \ {0} \subseteq HidsThen
              /\ \A a \in Addrs : KnownThen[a] \in Hids =>
                    KnownThen[a] \in DOMAIN live /\ live[KnownThen[a]] = a

\* "it can only have one queued at a time" (hid_handler): no connection is
\* asked twice in one push, though handlers of the same id come and go.
QueuedOnce == IsInjective(queued)

\* An address the client heard of and is not connected to is tried again, also
\* when the connector never answers and when the stream of events is lost
\* (cxn_handler::timer_cb; "it's been 15 minutes. Just clear it").
NeverGivesUp ==
    \A a \in Addrs \ Inbound :
        cxn[a].st \in {"DISCONNECTED", "CONNECTING"}
            ~> (cxn[a].st = "CONNECTED" \/ \E i \in DOMAIN ctl : ctl[i] = ConnectTo(a))

=============================================================================
