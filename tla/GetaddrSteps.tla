---------------------------- MODULE GetaddrSteps -----------------------------
(***************************************************************************)
(* The inductive invariant of the getaddr client, and one lemma for each   *)
(* action: the action preserves it.  GetaddrProofs draws the conclusions.  *)
(***************************************************************************)
EXTENDS Getaddr, FiniteSetTheorems, TLAPS

Armed(c) ==
    /\ c.st \in {"DISCONNECTED", "CONNECTING"} => c.timer
    /\ c.pending <=> c.st = "CONNECTING"
    /\ c.st = "NONE" => c = NoCxn

Retry ==
    \A a \in Addrs : /\ Armed(cxn[a])
                     /\ known[a] = Unknown <=> cxn[a] = NoCxn

NotDue ==
    \A i \in DOMAIN queued : queued[i] \in DOMAIN hids => hids[queued[i]].timer # 0

IndInv == TypeOK /\ Retry /\ NotDue /\ QueuedOnce

\* The same in three parts, by the variables they are about.
AddrInv ==
    /\ known \in [Addrs -> Hids \cup {NoHid, Unknown}]
    /\ cxn \in [Addrs -> CxnState]
    /\ Retry

HidInv ==
    /\ DOMAIN hids \subseteq Hids /\ hids \in [DOMAIN hids -> HidState]
    /\ queued \in Seq(Hids)
    /\ round \in Nat
    /\ recent \in BOOLEAN
    /\ NotDue /\ QueuedOnce

EnvInv ==
    /\ ev \in Seq(Event)
    /\ DOMAIN live \subseteq Hids /\ live \in [DOMAIN live -> Addrs]
    /\ nextHid \in 0 .. MaxHid + 1

LEMMA Parts == IndInv <=> AddrInv /\ HidInv /\ EnvInv
BY DEF IndInv, TypeOK, AddrInv, HidInv, EnvInv

LEMMA PartsNext == AddrInv' /\ HidInv' /\ EnvInv' => IndInv'
BY DEF IndInv, TypeOK, AddrInv, HidInv, EnvInv

LEMMA AddrFrame == AddrInv /\ UNCHANGED <<known, cxn>> => AddrInv'
BY DEF AddrInv, Retry, Armed

LEMMA HidFrame == HidInv /\ UNCHANGED <<hids, queued, round, recent>> => HidInv'
BY DEF HidInv, NotDue, QueuedOnce, IsInjective

LEMMA EnvFrame == EnvInv /\ UNCHANGED <<ev, live, nextHid>> => EnvInv'
BY DEF EnvInv

-----------------------------------------------------------------------------
(* The handlers of addresses *)

\* The second half of timer_cb leaves a handler with its timer or connected.
LEMMA ProceedArmed ==
    ASSUME NEW e \in CxnState, e.st # "NONE", e.pending <=> e.st = "CONNECTING",
           e.st = "CONNECTING" => e.timer
    PROVE  Proceed(e) \in CxnState /\ Armed(Proceed(e)) /\ Proceed(e) # NoCxn
<1>1. CASE Attempts(e)
  <2>1. Proceed(e) = [st |-> "CONNECTING", pending |-> TRUE,
             fails |-> IF e.fails < MaxFails THEN e.fails + 1 ELSE e.fails, timer |-> TRUE]
    BY <1>1, Zenon DEF Proceed, SetReconnectTimer, CxnState
  <2>2. (IF e.fails < MaxFails THEN e.fails + 1 ELSE e.fails) \in Nat
    BY GetaddrAssumption DEF CxnState
  <2> QED BY <2>1, <2>2 DEF CxnState, Armed, NoCxn
<1>2. CASE ~Attempts(e) /\ ~e.pending /\ e.st = "CONNECTED" /\ e.fails > 0
  <2>1. Proceed(e) = [st |-> "CONNECTED", pending |-> FALSE, fails |-> e.fails - 1, timer |-> TRUE]
    BY <1>2, Zenon DEF Proceed, CxnState
  <2>2. e.fails - 1 \in Nat
    BY <1>2 DEF CxnState
  <2> QED BY <2>1, <2>2 DEF CxnState, Armed, NoCxn
<1>3. CASE ~Attempts(e) /\ ~(~e.pending /\ e.st = "CONNECTED" /\ e.fails > 0)
  <2>1. Proceed(e) = e
    BY <1>3 DEF Proceed
  <2> QED BY <1>3, <2>1 DEF Attempts, CxnState, Armed, NoCxn
<1> QED BY <1>1, <1>2, <1>3

\* A handler that is made for an address starts with its timer or connected
\* (the constructor calls timer_cb).
LEMMA NewCxnArmed ==
    ASSUME NEW st \in {"DISCONNECTED", "CONNECTED"}
    PROVE  NewCxn(st) \in CxnState /\ Armed(NewCxn(st)) /\ NewCxn(st) # NoCxn
<1>1. NoCxn \in CxnState /\ ~NoCxn.pending
  BY DEF NoCxn, CxnState
<1> DEFINE e == [NoCxn EXCEPT !.st = st]
<1>2. e \in CxnState /\ e.st # "NONE" /\ e.st # "CONNECTING" /\ ~e.pending
  BY <1>1 DEF CxnState
<1>3. NewCxn(st) = Proceed(e)
  BY DEF NewCxn
<1> HIDE DEF e
<1> QED BY <1>2, <1>3, ProceedArmed

\* An event leaves the handler with its timer or connected (state()).
LEMMA SetStateArmed ==
    ASSUME NEW c \in CxnState, NEW st \in {"DISCONNECTED", "CONNECTED"}
    PROVE  SetState(c, st) \in CxnState /\ Armed(SetState(c, st)) /\ SetState(c, st) # NoCxn
BY Zenon DEF SetState, SetReconnectTimer, NoCxn, CxnState, Armed

\* The timer leaves the handler with its timer or connected (timer_cb).
LEMMA TimerArmed ==
    ASSUME NEW c \in CxnState, Armed(c), c.timer, NEW late \in BOOLEAN
    PROVE  LET d == Proceed(Expire(c, late))
           IN  d \in CxnState /\ Armed(d) /\ d # NoCxn
<1>1. c # NoCxn /\ c.st # "NONE"
  BY DEF Armed, NoCxn
<1> DEFINE e == Expire(c, late)
<1>2. e \in CxnState /\ e.st # "NONE"
  BY <1>1, Zenon DEF Expire, CxnState
<1>3. (e.pending <=> e.st = "CONNECTING") /\ (e.st = "CONNECTING" => e.timer)
  BY DEF Expire, CxnState, Armed
<1> HIDE DEF e
<1>4. Proceed(e) \in CxnState /\ Armed(Proceed(e)) /\ Proceed(e) # NoCxn
  BY <1>2, <1>3, ProceedArmed
<1> QED BY <1>4 DEF e

-----------------------------------------------------------------------------
(* The handlers of connections *)

\* A handler that is told to ask again is not due before its wait is over.
LEMMA EnqueueNotDue ==
    ASSUME NEW c \in HidState
    PROVE  Enqueue(c) \in HidState /\ (c.timer # 0 => Enqueue(c).timer # 0)
BY GetaddrAssumption, Zenon DEF Enqueue, HidState, Off

\* Neither is a new handler (the constructor of hid_handler).
LEMMA NewHidNotDue ==
    ASSUME round \in Nat, NEW bound \in BOOLEAN
    PROVE  NewHid(bound) \in HidState /\ NewHid(bound).timer # 0
<1> DEFINE c == [bound |-> bound, wait |-> 0, timer |-> Off, seq |-> round, cnt |-> 0]
<1>1. c \in HidState /\ c.timer # 0
  BY DEF HidState, Off
<1>2. NewHid(bound) = IF recent THEN Enqueue(c) ELSE c
  BY DEF NewHid
<1> HIDE DEF c
<1> QED BY <1>1, <1>2, EnqueueNotDue

-----------------------------------------------------------------------------
(* One lemma per action that changes more than it leaves alone *)

\* An address whose handler is replaced by one that is armed.
LEMMA AddrStep ==
    ASSUME AddrInv, NEW a \in Addrs, NEW k \in Hids \cup {NoHid},
           NEW c \in CxnState, Armed(c), c # NoCxn,
           known' = [known EXCEPT ![a] = k], cxn' = [cxn EXCEPT ![a] = c]
    PROVE  AddrInv'
<1>1. k # Unknown
  BY GetaddrAssumption DEF Hids, NoHid, Unknown
<1>2. /\ known' \in [Addrs -> Hids \cup {NoHid, Unknown}]
      /\ cxn' \in [Addrs -> CxnState]
  BY DEF AddrInv
<1>3. ASSUME NEW b \in Addrs
      PROVE  Armed(cxn'[b]) /\ (known'[b] = Unknown <=> cxn'[b] = NoCxn)
  <2>1. CASE b = a
    BY <1>1, <2>1 DEF AddrInv
  <2>2. CASE b # a
    <3>1. known'[b] = known[b] /\ cxn'[b] = cxn[b]
      BY <2>2 DEF AddrInv
    <3> QED BY <3>1 DEF AddrInv, Retry
  <2> QED BY <2>1, <2>2
<1> QED BY <1>2, <1>3 DEF AddrInv, Retry, Armed

\* A handler of a connection is replaced by one that is not due.
LEMMA HidStep ==
    ASSUME HidInv, NEW h \in Hids, NEW c \in HidState,
           h \in {queued[i] : i \in DOMAIN queued} => c.timer # 0,
           hids' = With(hids, h, c), UNCHANGED <<queued, round, recent>>
    PROVE  HidInv'
<1>1. /\ DOMAIN hids' \subseteq Hids /\ hids' \in [DOMAIN hids' -> HidState]
      /\ \A y \in DOMAIN hids' : hids'[y] = IF y = h THEN c ELSE hids[y]
      /\ \A y \in DOMAIN hids' : y = h \/ y \in DOMAIN hids
  <2>1. hids' = [y \in DOMAIN hids \cup {h} |-> IF y = h THEN c ELSE hids[y]]
    BY DEF With
  <2> QED BY <2>1 DEF HidInv
<1>2. NotDue'
  BY <1>1 DEF HidInv, NotDue
<1> QED BY <1>1, <1>2 DEF HidInv, QueuedOnce, IsInjective

\* An event, or several, on their way.
LEMMA EmitStep ==
    ASSUME EnvInv, NEW es \in Seq(Event), Emit(es)
    PROVE  ev' \in Seq(Event)
BY DEF EnvInv, Emit

LEMMA UpType ==
    ASSUME NEW a \in Addrs, NEW h \in Hids, NEW b \in BOOLEAN
    PROVE  Up(a, h, b) \in Event
BY Zenon DEF Up, Event

LEMMA DownType ==
    ASSUME NEW a \in Addrs, NEW h \in Hids
    PROVE  Down(a, h) \in Event
BY Zenon DEF Down, Event

LEMMA CxnTimerStep ==
    ASSUME IndInv, NEW a \in Addrs, NEW late \in BOOLEAN, CxnTimer(a, late)
    PROVE  IndInv'
<1> DEFINE d == Proceed(Expire(cxn[a], late))
<1>1. cxn[a] \in CxnState /\ Armed(cxn[a]) /\ cxn[a].timer
  BY DEF IndInv, TypeOK, Retry, CxnTimer
<1>2. d \in CxnState /\ Armed(d) /\ d # NoCxn
  BY <1>1, TimerArmed
<1>3. cxn' = [cxn EXCEPT ![a] = d] /\ UNCHANGED <<known, hids, queued, round, recent, ev, live, nextHid>>
  BY DEF CxnTimer, connector
<1>4. cxn[a] # NoCxn
  BY <1>1 DEF NoCxn
<1>5. known[a] \in Hids \cup {NoHid} /\ known' = [known EXCEPT ![a] = known[a]]
  BY <1>3, <1>4 DEF IndInv, TypeOK, Retry
<1> HIDE DEF d
<1>6. AddrInv'
  BY <1>2, <1>3, <1>5, AddrStep, Parts, Zenon
<1> QED BY <1>3, <1>6, Parts, PartsNext, HidFrame, EnvFrame

LEMMA HidTimerStep ==
    ASSUME IndInv, NEW h \in DOMAIN hids, HidTimer(h)
    PROVE  IndInv'
<1> DEFINE c == hids[h]
           asks == c.wait = 0 /\ c.seq = round /\ c.cnt < Limit
           d == IF c.wait > 0 THEN [c EXCEPT !.timer = c.wait]
                ELSE [c EXCEPT !.timer = Off, !.cnt = IF asks THEN @ + 1 ELSE @]
<1>1. c \in HidState /\ c.timer = 0 /\ h \in Hids
  BY DEF IndInv, TypeOK, HidTimer
<1>2. d \in HidState /\ d.timer # 0
  <2>1. CASE c.wait > 0
    BY <1>1, <2>1 DEF HidState
  <2>2. CASE ~(c.wait > 0)
    <3>1. (IF asks THEN c.cnt + 1 ELSE c.cnt) \in Nat
      BY <1>1 DEF HidState
    <3>2. d = [bound |-> c.bound, wait |-> c.wait, timer |-> Off, seq |-> c.seq,
               cnt |-> IF asks THEN c.cnt + 1 ELSE c.cnt]
      BY <1>1, <2>2, Zenon DEF HidState
    <3> QED BY <1>1, <3>1, <3>2 DEF HidState, Off
  <2> QED BY <2>1, <2>2
<1>3. /\ hids' = [hids EXCEPT ![h] = d]
      /\ queued' = IF asks THEN Append(queued, h) ELSE queued
      /\ UNCHANGED <<known, cxn, round, recent, ev, live, nextHid>>
  BY DEF HidTimer, connector
<1>4. \A i \in DOMAIN queued : queued[i] # h
  BY <1>1 DEF IndInv, NotDue
<1> HIDE DEF asks, d
<1>5. /\ queued' \in Seq(Hids)
      /\ DOMAIN hids' \subseteq Hids /\ hids' \in [DOMAIN hids' -> HidState]
  BY <1>1, <1>2, <1>3 DEF IndInv, TypeOK
<1>6. \A y \in DOMAIN hids' : y \in DOMAIN hids /\ hids'[y] = IF y = h THEN d ELSE hids[y]
  BY <1>3 DEF IndInv, TypeOK
<1>7. CASE ~asks
  <2>1. queued' = queued
    BY <1>3, <1>7
  <2>2. NotDue'
    BY <1>2, <1>6, <2>1 DEF NotDue, IndInv
  <2>3. QueuedOnce'
    BY <2>1 DEF IndInv, QueuedOnce, IsInjective
  <2>4. HidInv'
    BY <1>3, <1>5, <2>2, <2>3 DEF HidInv, IndInv, TypeOK
  <2> QED BY <1>3, <2>4, Parts, PartsNext, AddrFrame, EnvFrame
<1>8. CASE asks
  <2>1. queued' = Append(queued, h) /\ queued \in Seq(Hids)
    BY <1>3, <1>8 DEF IndInv, TypeOK
  <2>2. \A i \in DOMAIN queued' : \/ i \in DOMAIN queued /\ queued'[i] = queued[i]
                                  \/ i = Len(queued) + 1 /\ queued'[i] = h
    BY <1>1, <2>1
  <2>3. NotDue'
    BY <1>2, <1>6, <2>2 DEF NotDue, IndInv
  <2>4. QueuedOnce'
    BY <1>4, <2>2 DEF IndInv, QueuedOnce, IsInjective
  <2>5. HidInv'
    BY <1>3, <1>5, <2>3, <2>4 DEF HidInv, IndInv, TypeOK
  <2> QED BY <1>3, <2>5, Parts, PartsNext, AddrFrame, EnvFrame
<1> QED BY <1>7, <1>8

LEMMA PusherTimerStep ==
    ASSUME IndInv, PusherTimer
    PROVE  IndInv'
<1> DEFINE f == [h \in DOMAIN hids |-> [hids[h] EXCEPT !.wait = Left(@), !.timer = Left(@)]]
<1>1. /\ queued' = <<>> /\ hids' = f
      /\ UNCHANGED <<known, cxn, round, recent, ev, live, nextHid>>
  BY Zenon DEF PusherTimer, connector
<1>2. ASSUME NEW h \in DOMAIN hids
      PROVE  [hids[h] EXCEPT !.wait = Left(@), !.timer = Left(@)] \in HidState
  <2>1. hids[h] \in HidState
    BY DEF IndInv, TypeOK
  <2>2. Left(hids[h].wait) \in Nat /\ Left(hids[h].timer) \in Nat \cup {Off}
    BY <2>1 DEF HidState, Left, Off
  <2> QED BY <2>1, <2>2, Zenon DEF HidState
<1>3. DOMAIN f \subseteq Hids /\ f \in [DOMAIN f -> HidState]
  BY <1>2, Zenon DEF IndInv, TypeOK
<1> HIDE DEF f
<1>4. queued' \in Seq(Hids) /\ NotDue' /\ QueuedOnce'
  <2>1. queued' \in Seq(Hids) /\ DOMAIN queued' = {}
    <3>1. <<>> \in Seq(Hids) /\ DOMAIN <<>> = {}
      OBVIOUS
    <3>2. queued' = <<>>
      BY <1>1
    <3> QED BY <3>1, <3>2, Zenon
  <2>2. NotDue'
    BY <2>1, Zenon DEF NotDue
  <2>3. QueuedOnce'
    BY <2>1, Zenon DEF QueuedOnce, IsInjective
  <2> QED BY <2>1, <2>2, <2>3
<1>5. HidInv'
  BY <1>1, <1>3, <1>4 DEF HidInv, IndInv, TypeOK
<1> QED BY <1>1, <1>5, Parts, PartsNext, AddrFrame, EnvFrame

LEMMA OnConnectStep ==
    ASSUME IndInv, NEW a \in Addrs, NEW h \in Hids, NEW bound \in BOOLEAN,
           OnConnect(a, h, bound), UNCHANGED <<queued, round, recent>>
    PROVE  AddrInv' /\ HidInv'
<1> DEFINE d == IF cxn[a] = NoCxn THEN NewCxn("CONNECTED") ELSE SetState(cxn[a], "CONNECTED")
<1>1. cxn[a] \in CxnState
  BY DEF IndInv, TypeOK
<1>2. d \in CxnState /\ Armed(d) /\ d # NoCxn
  BY <1>1, NewCxnArmed, SetStateArmed
<1>3. known' = [known EXCEPT ![a] = h] /\ cxn' = [cxn EXCEPT ![a] = d]
  BY DEF OnConnect
<1> HIDE DEF d
<1>4. AddrInv'
  BY <1>2, <1>3, AddrStep, Parts, Zenon
<1> DEFINE n == NewHid(bound)
<1>5. n \in HidState /\ n.timer # 0
  BY NewHidNotDue DEF IndInv, TypeOK
<1>6. hids' = With(hids, h, n)
  BY DEF OnConnect
<1> HIDE DEF n
<1>7. HidInv'
  BY <1>5, <1>6, HidStep, Parts
<1> QED BY <1>4, <1>7

LEMMA OnDisconnectStep ==
    ASSUME IndInv, NEW a \in Addrs, NEW h \in Hids,
           OnDisconnect(a, h), UNCHANGED <<queued, round, recent>>
    PROVE  AddrInv' /\ HidInv'
<1> DEFINE d == IF cxn[a] = NoCxn THEN NewCxn("DISCONNECTED") ELSE SetState(cxn[a], "DISCONNECTED")
<1>1. cxn[a] \in CxnState
  BY DEF IndInv, TypeOK
<1>2. d \in CxnState /\ Armed(d) /\ d # NoCxn
  BY <1>1, NewCxnArmed, SetStateArmed
<1>3. known' = [known EXCEPT ![a] = NoHid] /\ cxn' = [cxn EXCEPT ![a] = d]
  BY DEF OnDisconnect
<1> HIDE DEF d
<1>4. AddrInv'
  BY <1>2, <1>3, AddrStep, Parts, Zenon
<1>5. hids' = [y \in DOMAIN hids \ {h} |-> hids[y]]
  BY DEF OnDisconnect, Without
<1>6. DOMAIN hids' \subseteq Hids /\ hids' \in [DOMAIN hids' -> HidState]
  BY <1>5 DEF IndInv, TypeOK
<1>7. NotDue' /\ QueuedOnce'
  BY <1>5 DEF IndInv, NotDue, QueuedOnce, IsInjective
<1>8. HidInv'
  BY <1>6, <1>7 DEF HidInv, IndInv, TypeOK
<1> QED BY <1>4, <1>8

LEMMA HandleEventStep ==
    ASSUME IndInv, HandleEvent
    PROVE  IndInv'
<1> DEFINE e == Head(ev)
<1>1. ev \in Seq(Event) /\ ev # <<>> /\ ev' = Tail(ev) /\ UNCHANGED <<queued, round, recent, live, nextHid>>
  BY DEF IndInv, TypeOK, HandleEvent, connector
<1>2. e \in Event /\ ev' \in Seq(Event)
  BY <1>1
<1>3. EnvInv'
  BY <1>1, <1>2 DEF EnvInv, IndInv, TypeOK
<1>4. IF e.up THEN OnConnect(e.a, e.h, e.bound) ELSE OnDisconnect(e.a, e.h)
  BY DEF HandleEvent
<1>5. e.a \in Addrs /\ e.h \in Hids /\ (e.up => e.bound \in BOOLEAN)
  BY <1>2, Zenon DEF Event
<1> HIDE DEF e
<1>6. AddrInv' /\ HidInv'
  <2>1. CASE e.up
    BY <1>1, <1>4, <1>5, <2>1, OnConnectStep
  <2>2. CASE ~e.up
    BY <1>1, <1>4, <1>5, <2>2, OnDisconnectStep
  <2> QED BY <2>1, <2>2
<1> QED BY <1>3, <1>6, PartsNext

LEMMA StreamLostStep ==
    ASSUME IndInv, StreamLost
    PROVE  IndInv'
<1>1. ev' = <<>> /\ UNCHANGED <<known, cxn, hids, queued, round, recent, live, nextHid>>
  BY DEF StreamLost, client, connector
<1>2. EnvInv'
  BY <1>1 DEF EnvInv, IndInv, TypeOK
<1> QED BY <1>1, <1>2, Parts, PartsNext, AddrFrame, HidFrame

LEMMA AddrMessageStep ==
    ASSUME IndInv, NEW h \in Hids, NEW a \in Addrs, AddrMessage(h, a)
    PROVE  IndInv'
<1>1. UNCHANGED <<queued, round, recent, ev, live, nextHid>>
  BY DEF AddrMessage, connector
<1>2. AddrInv'
  <2>1. CASE known[a] = Unknown
    <3> DEFINE d == NewCxn("DISCONNECTED")
    <3>1. d \in CxnState /\ Armed(d) /\ d # NoCxn
      BY NewCxnArmed
    <3>2. known' = [known EXCEPT ![a] = NoHid] /\ cxn' = [cxn EXCEPT ![a] = d]
      BY <2>1 DEF AddrMessage
    <3> HIDE DEF d
    <3> QED BY <3>1, <3>2, AddrStep, Parts, Zenon
  <2>2. CASE known[a] # Unknown
    <3>1. known' = known /\ cxn' = cxn
      BY <2>2 DEF AddrMessage, IndInv, TypeOK
    <3> QED BY <3>1, AddrFrame, Parts
  <2> QED BY <2>1, <2>2
<1>3. HidInv'
  <2>1. CASE h \in DOMAIN hids
    <3> DEFINE n == Enqueue(hids[h])
    <3>1. hids[h] \in HidState
      BY <2>1 DEF IndInv, TypeOK
    <3>2. n \in HidState /\ (hids[h].timer # 0 => n.timer # 0)
      BY <3>1, EnqueueNotDue
    <3>3. hids' = [hids EXCEPT ![h] = n]
      BY <2>1 DEF AddrMessage
    <3> HIDE DEF n
    <3>4. DOMAIN hids' \subseteq Hids /\ hids' \in [DOMAIN hids' -> HidState]
      BY <3>2, <3>3, Zenon DEF IndInv, TypeOK
    <3>5. NotDue' /\ QueuedOnce'
      BY <1>1, <2>1, <3>2, <3>3 DEF IndInv, TypeOK, NotDue, QueuedOnce, IsInjective
    <3> QED BY <1>1, <3>4, <3>5 DEF HidInv, IndInv, TypeOK
  <2>2. CASE h \notin DOMAIN hids
    BY <1>1, <2>2, HidFrame, Parts DEF AddrMessage
  <2> QED BY <2>1, <2>2
<1> QED BY <1>1, <1>2, <1>3, Parts, PartsNext, EnvFrame

LEMMA ClockStep ==
    ASSUME IndInv, Clock
    PROVE  IndInv'
<1>1. /\ round' = round + 1 /\ recent' = TRUE
      /\ hids' = [h \in DOMAIN hids |-> SetSequence(hids[h], round')]
      /\ UNCHANGED <<known, cxn, queued, ev, live, nextHid>>
  BY DEF Clock, connector
<1>2. round' \in Nat
  BY <1>1 DEF IndInv, TypeOK
<1>3. ASSUME NEW h \in DOMAIN hids
      PROVE  /\ SetSequence(hids[h], round') \in HidState
             /\ SetSequence(hids[h], round').timer = hids[h].timer
  BY <1>2, Zenon DEF IndInv, TypeOK, HidState, SetSequence
<1>4. DOMAIN hids' \subseteq Hids /\ hids' \in [DOMAIN hids' -> HidState]
  BY <1>1, <1>3 DEF IndInv, TypeOK
<1>5. NotDue' /\ QueuedOnce'
  BY <1>1, <1>3 DEF IndInv, NotDue, QueuedOnce, IsInjective
<1>6. HidInv'
  BY <1>1, <1>2, <1>4, <1>5 DEF HidInv, IndInv, TypeOK
<1> QED BY <1>1, <1>6, Parts, PartsNext, AddrFrame, EnvFrame

LEMMA WindowClosesStep ==
    ASSUME IndInv, WindowCloses
    PROVE  IndInv'
<1>1. recent' = FALSE /\ UNCHANGED <<known, cxn, hids, queued, round, ev, live, nextHid>>
  BY DEF WindowCloses, connector
<1>2. HidInv'
  BY <1>1, Zenon DEF HidInv, IndInv, TypeOK, NotDue, QueuedOnce, IsInjective
<1> QED BY <1>1, <1>2, Parts, PartsNext, AddrFrame, EnvFrame

LEMMA TakeCommandStep ==
    ASSUME IndInv, TakeCommand
    PROVE  IndInv'
<1> DEFINE c == Head(ctl)
           gone == IF c.cmd = "DISCONNECT" THEN c.to \cap DOMAIN live ELSE {}
<1>1. /\ live' = [h \in DOMAIN live \ gone |-> live[h]]
      /\ UNCHANGED <<known, cxn, hids, queued, round, recent, nextHid>>
  BY DEF TakeCommand, client
<1>2. PICK order \in [1 .. Cardinality(gone) -> gone] :
         Emit([i \in 1 .. Cardinality(gone) |-> Down(live[order[i]], order[i])])
  BY Zenon DEF TakeCommand
<1>3. gone \subseteq DOMAIN live /\ DOMAIN live \subseteq 0 .. MaxHid
  BY DEF IndInv, TypeOK, Hids
<1> HIDE DEF gone
<1>4. Cardinality(gone) \in Nat
  <2>1. IsFiniteSet(0 .. MaxHid)
    BY FS_Interval, GetaddrAssumption
  <2> QED BY <1>3, <2>1, FS_Subset, FS_CardinalityType, Zenon
<1> DEFINE n == Cardinality(gone)
           es == [i \in 1 .. n |-> Down(live[order[i]], order[i])]
<1>5. n \in Nat /\ Emit(es)
  BY <1>2, <1>4
<1>6. ASSUME NEW i \in 1 .. n
      PROVE  Down(live[order[i]], order[i]) \in Event
  <2>1. order[i] \in gone
    BY <1>2
  <2>2. order[i] \in Hids /\ live[order[i]] \in Addrs
    BY <1>3, <2>1 DEF IndInv, TypeOK, Hids
  <2> QED BY <2>2, DownType
<1> HIDE DEF n
<1>7. es \in Seq(Event)
  BY <1>5, <1>6
<1> HIDE DEF es
<1>8. ev' \in Seq(Event)
  BY <1>5, <1>7, EmitStep, Parts
<1>9. EnvInv'
  BY <1>1, <1>8 DEF EnvInv, IndInv, TypeOK
<1> QED BY <1>1, <1>9, Parts, PartsNext, AddrFrame, HidFrame

LEMMA OpenStep ==
    ASSUME IndInv, NEW a \in Addrs, NEW accepted \in BOOLEAN, Open(a, accepted)
    PROVE  IndInv'
<1>1. /\ nextHid <= MaxHid /\ nextHid' = nextHid + 1
      /\ live' = [y \in DOMAIN live \cup {nextHid} |-> IF y = nextHid THEN a ELSE live[y]]
      /\ Emit(<<Up(a, nextHid, accepted)>>)
      /\ UNCHANGED <<known, cxn, hids, queued, round, recent>>
  BY DEF Open, With, client
<1>2. nextHid \in Hids /\ nextHid' \in 0 .. MaxHid + 1
  BY <1>1, GetaddrAssumption DEF IndInv, TypeOK, Hids
<1> DEFINE es == <<Up(a, nextHid, accepted)>>
<1>3. es \in Seq(Event)
  BY <1>2, UpType
<1>4. Emit(es)
  BY <1>1
<1> HIDE DEF es
<1>5. ev' \in Seq(Event)
  BY <1>3, <1>4, EmitStep, Parts
<1>6. DOMAIN live' \subseteq Hids /\ live' \in [DOMAIN live' -> Addrs]
  BY <1>1, <1>2 DEF IndInv, TypeOK
<1>7. EnvInv'
  BY <1>2, <1>5, <1>6 DEF EnvInv
<1> QED BY <1>1, <1>7, Parts, PartsNext, AddrFrame, HidFrame

LEMMA AttemptFailsStep ==
    ASSUME IndInv, NEW a \in Addrs, AttemptFails(a)
    PROVE  IndInv'
<1> DEFINE es == <<Down(a, 0)>>
<1>1. Emit(es) /\ UNCHANGED <<known, cxn, hids, queued, round, recent, live, nextHid>>
  BY DEF AttemptFails, client
<1>2. es \in Seq(Event)
  <2>1. 0 \in Hids
    BY GetaddrAssumption DEF Hids
  <2> QED BY <2>1, DownType
<1> HIDE DEF es
<1>3. ev' \in Seq(Event)
  BY <1>1, <1>2, EmitStep, Parts
<1>4. EnvInv'
  BY <1>1, <1>3 DEF EnvInv, IndInv, TypeOK
<1> QED BY <1>1, <1>4, Parts, PartsNext, AddrFrame, HidFrame

LEMMA PeerClosesStep ==
    ASSUME IndInv, NEW h \in DOMAIN live, PeerCloses(h)
    PROVE  IndInv'
<1> DEFINE es == <<Down(live[h], h)>>
<1>1. /\ Emit(es) /\ live' = [y \in DOMAIN live \ {h} |-> live[y]]
      /\ UNCHANGED <<known, cxn, hids, queued, round, recent, nextHid>>
  BY DEF PeerCloses, Without, client
<1>2. es \in Seq(Event)
  <2>1. h \in Hids /\ live[h] \in Addrs
    BY DEF IndInv, TypeOK
  <2> QED BY <2>1, DownType
<1> HIDE DEF es
<1>3. ev' \in Seq(Event)
  BY <1>1, <1>2, EmitStep, Parts
<1>4. EnvInv'
  BY <1>1, <1>3 DEF EnvInv, IndInv, TypeOK
<1> QED BY <1>1, <1>4, Parts, PartsNext, AddrFrame, HidFrame

=============================================================================
