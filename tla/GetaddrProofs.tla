---------------------------- MODULE GetaddrProofs ----------------------------
(***************************************************************************)
(* Proofs about the getaddr client, for any number of addresses and        *)
(* connections: no address is forgotten (RetryArmed) and no connection is  *)
(* asked twice in one push (QueuedOnce).                                   *)
(*                                                                         *)
(* RetryArmed is inductive once it is known that only an address without a *)
(* handler is in state NONE.  QueuedOnce is not: a handler that is on the  *)
(* list must not be due again before the list is sent.  That is what       *)
(* NotDue says, and it rests on the wait of a handler being longer than    *)
(* the pusher's period.                                                    *)
(***************************************************************************)
EXTENDS GetaddrSteps

LEMMA InitInv == Init => IndInv
<1> SUFFICES ASSUME Init PROVE IndInv
  OBVIOUS
<1>1. DOMAIN live \subseteq {0} /\ DOMAIN live \subseteq Hids /\ live \in [DOMAIN live -> Addrs]
  <2>1. CASE live = <<>>
    BY <2>1
  <2>2. CASE live \in [{0} -> Addrs]
    BY <2>2, GetaddrAssumption DEF Hids
  <2> QED BY <2>1, <2>2 DEF Init
<1>2. nextHid \in 0 .. MaxHid + 1
  BY GetaddrAssumption DEF Init
<1>3. 0 \in Hids
  BY GetaddrAssumption DEF Hids
<1>4. ev \in Seq(Event)
  <2>1. ASSUME NEW a \in Addrs
        PROVE  <<Down(a, 0)>> \in Seq(Event)
    BY <1>3, DownType
  <2>2. ASSUME NEW a \in Addrs
        PROVE  LET u == Up(a, 0, a \in Inbound)
               IN  <<u>> \in Seq(Event) /\ <<u, Down(a, 0)>> \in Seq(Event)
    <3> DEFINE u == Up(a, 0, a \in Inbound)
    <3>1. u \in Event
      <4> DEFINE b == a \in Inbound
      <4>1. b \in BOOLEAN
        OBVIOUS
      <4> HIDE DEF b
      <4>2. Up(a, 0, b) \in Event
        BY <1>3, <4>1, UpType
      <4> QED BY <4>2 DEF b
    <3>2. Down(a, 0) \in Event
      BY <1>3, DownType
    <3> HIDE DEF u
    <3>3. <<u>> \in Seq(Event) /\ <<u, Down(a, 0)>> \in Seq(Event)
      BY <3>1, <3>2
    <3> QED BY <3>3 DEF u
  <2>3. CASE live # <<>>
    <3>1. live[0] \in Addrs
      BY <2>3 DEF Init
    <3>2. ev = <<>> \/ ev = <<Up(live[0], 0, live[0] \in Inbound)>>
      BY <2>3 DEF Init
    <3>3. CASE ev = <<>>
      BY <3>3
    <3>4. CASE ev = <<Up(live[0], 0, live[0] \in Inbound)>>
      BY <2>2, <3>1, <3>4, Zenon
    <3> QED BY <3>2, <3>3, <3>4, Zenon
  <2>4. CASE live = <<>>
    <3>1. \/ ev = <<>>
          \/ \E a \in Addrs : \/ ev = <<Down(a, 0)>>
                             \/ ev = <<Up(a, 0, a \in Inbound), Down(a, 0)>>
      BY <2>4 DEF Init
    <3>2. CASE ev = <<>>
      BY <3>2
    <3>3. CASE \E a \in Addrs : ev = <<Down(a, 0)>>
      BY <2>1, <3>3, Zenon
    <3>4. CASE \E a \in Addrs : ev = <<Up(a, 0, a \in Inbound), Down(a, 0)>>
      BY <2>2, <3>4, Zenon
    <3> QED BY <3>1, <3>2, <3>3, <3>4, Zenon
  <2> QED BY <2>3, <2>4
<1>5. EnvInv
  BY <1>1, <1>2, <1>4 DEF EnvInv
<1>6. AddrInv
  <2> DEFINE c == NewCxn("CONNECTED")
             held(a) == \E h \in DOMAIN live : live[h] = a
  <2>1. c \in CxnState /\ Armed(c) /\ c # NoCxn
    BY NewCxnArmed
  <2>2. NoCxn \in CxnState /\ Armed(NoCxn)
    BY DEF NoCxn, CxnState, Armed
  <2>3. /\ known = [a \in Addrs |-> IF held(a) THEN 0 ELSE Unknown]
        /\ cxn = [a \in Addrs |-> IF held(a) THEN c ELSE NoCxn]
    BY DEF Init
  <2>4. 0 # Unknown
    BY DEF Unknown
  <2> HIDE DEF c, held
  <2>5. known \in [Addrs -> Hids \cup {NoHid, Unknown}] /\ cxn \in [Addrs -> CxnState]
    BY <1>3, <2>1, <2>2, <2>3
  <2>6. ASSUME NEW a \in Addrs
        PROVE  Armed(cxn[a]) /\ (known[a] = Unknown <=> cxn[a] = NoCxn)
    BY <2>1, <2>2, <2>3, <2>4
  <2> QED BY <2>5, <2>6 DEF AddrInv, Retry
<1>7. HidInv
  <2>1. round \in Nat /\ recent \in BOOLEAN /\ queued = <<>>
    BY Zenon DEF Init
  <2>2. hids = [h \in DOMAIN live |-> NewHid(live[h] \in Inbound)]
    BY DEF Init
  <2>3. ASSUME NEW h \in DOMAIN live
        PROVE  NewHid(live[h] \in Inbound) \in HidState
    <3> DEFINE b == live[h] \in Inbound
    <3>1. b \in BOOLEAN
      OBVIOUS
    <3> HIDE DEF b
    <3>2. NewHid(b) \in HidState
      BY <2>1, <3>1, NewHidNotDue
    <3> QED BY <3>2 DEF b
  <2>4. DOMAIN hids \subseteq Hids /\ hids \in [DOMAIN hids -> HidState]
    BY <1>1, <2>2, <2>3
  <2>5. <<>> \in Seq(Hids) /\ DOMAIN <<>> = {}
    OBVIOUS
  <2>6. NotDue /\ QueuedOnce
    BY <2>1, <2>5, Zenon DEF NotDue, QueuedOnce, IsInjective
  <2>7. queued \in Seq(Hids)
    BY <2>1, <2>5
  <2> QED BY <2>1, <2>4, <2>6, <2>7 DEF HidInv
<1> QED BY <1>5, <1>6, <1>7, Parts

LEMMA StepInv == IndInv /\ [Next]_vars => IndInv'
<1> SUFFICES ASSUME IndInv, [Next]_vars PROVE IndInv'
  OBVIOUS
<1>1. ASSUME NEW a \in Addrs, NEW late \in BOOLEAN, CxnTimer(a, late) PROVE IndInv'
  BY <1>1, CxnTimerStep
<1>2. ASSUME NEW h \in DOMAIN hids, HidTimer(h) PROVE IndInv'
  BY <1>2, HidTimerStep
<1>3. CASE PusherTimer
  BY <1>3, PusherTimerStep
<1>4. CASE HandleEvent
  BY <1>4, HandleEventStep
<1>5. CASE StreamLost
  BY <1>5, StreamLostStep
<1>6. ASSUME NEW h \in Hids, NEW a \in Addrs \ Inbound, AddrMessage(h, a) PROVE IndInv'
  BY <1>6, AddrMessageStep
<1>7. CASE Clock
  BY <1>7, ClockStep
<1>8. CASE WindowCloses
  BY <1>8, WindowClosesStep
<1>9. CASE TakeCommand
  BY <1>9, TakeCommandStep
<1>10. ASSUME NEW a \in Addrs, AttemptSucceeds(a) PROVE IndInv'
  BY <1>10, OpenStep, Zenon DEF AttemptSucceeds
<1>11. ASSUME NEW a \in Addrs, AttemptFails(a) PROVE IndInv'
  BY <1>11, AttemptFailsStep
<1>12. ASSUME NEW a \in Inbound, Accept(a) PROVE IndInv'
  BY <1>12, GetaddrAssumption, OpenStep, Zenon DEF Accept
<1>13. ASSUME NEW h \in DOMAIN live, PeerCloses(h) PROVE IndInv'
  BY <1>13, PeerClosesStep
<1>14. CASE UNCHANGED vars
  <2>1. UNCHANGED <<known, cxn, hids, queued, round, recent, ev, live, nextHid>>
    BY <1>14 DEF vars, client, connector
  <2> QED BY <2>1, Parts, PartsNext, AddrFrame, HidFrame, EnvFrame
<1> QED
  BY <1>1, <1>2, <1>3, <1>4, <1>5, <1>6, <1>7, <1>8, <1>9, <1>10, <1>11, <1>12, <1>13,
     <1>14 DEF Next

LEMMA Inductive == Spec => []IndInv
BY InitInv, StepInv, PTL DEF Spec

\* No address the client heard of is forgotten: as long as it is not connected
\* its timer runs, whatever events come, are lost or come twice, and an attempt
\* is pending exactly in state CONNECTING (cxn_handler).
THEOREM NoAddressForgotten == Spec => []RetryArmed
<1>1. IndInv => RetryArmed
  BY DEF IndInv, Retry, Armed, RetryArmed
<1> QED BY <1>1, Inductive, PTL

\* No connection is asked twice in one push (hid_handler, getaddr_pusher), for
\* any number of connections, as long as the wait of a handler is not shorter
\* than the pusher's period.
THEOREM AskedOnce == Spec => []QueuedOnce
<1>1. IndInv => QueuedOnce
  BY DEF IndInv
<1> QED BY <1>1, Inductive, PTL

=============================================================================
