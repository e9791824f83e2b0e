------------------------ MODULE BitcoinHandlerProofs ------------------------
(***************************************************************************)
(* Proofs about BitcoinHandler, for any number of connections, any queue   *)
(* bound and any configuration.                                            *)
(*                                                                         *)
(* The inductive invariant has three layers, each proved from the ones     *)
(* before it: TypeOK; Lifetime, about the two containers and the watchers; *)
(* Output, about the state word, the write queue and the watcher mask.     *)
(***************************************************************************)
EXTENDS BitcoinHandler, TLAPS

(* The fields of a handler with an unbounded write queue. *)
Fields ==
    [recv: RecvFlags, send: SUBSET SendFlags, hungry: BOOLEAN, wq: Nat,
     io: SUBSET EvFlags, open: BOOLEAN, timer: BOOLEAN, aping: BOOLEAN]

(* HandlerState is Fields with the bound on the queue. *)
LEMMA FieldsBound ==
    ASSUME NEW s
    PROVE  s \in HandlerState <=> s \in Fields /\ s.wq <= MaxQueue
BY BoundsAssumption DEF HandlerState, Fields

(* append_for_write adds a message and a reason to send, and nothing else  *)
(* but WRITE interest.                                                     *)
LEMMA AppendedFields ==
    ASSUME NEW s \in Fields
    PROVE  /\ Appended(s) \in Fields
           /\ Appended(s).wq = s.wq + 1
           /\ Appended(s).send = s.send \cup {"MESSAGE"}
           /\ Appended(s).recv = s.recv
           /\ Appended(s).hungry = s.hungry
           /\ Appended(s).open = s.open
           /\ Appended(s).timer = s.timer
           /\ Appended(s).aping = s.aping
           /\ Appended(s).io = IF s.send = {} THEN Events(Appended(s)) ELSE s.io
<1> DEFINE mask == {"WRITE"} \cup (IF s.recv # "NONE" THEN {"READ"} ELSE {})
           io == IF s.send = {} THEN mask ELSE s.io
           send == s.send \cup {"MESSAGE"}
           wq == s.wq + 1
           a == [s EXCEPT !.wq = wq, !.io = io, !.send = send]
<1>1. a = Appended(s)
  BY DEF Appended
<1>2. io \in SUBSET EvFlags /\ send \in SUBSET SendFlags /\ wq \in Nat
  BY DEF EvFlags, SendFlags, Fields
<1>3. a \in Fields
  <2> HIDE DEF io, send, wq
  <2> QED BY ZenonT(60), <1>2 DEF Fields
<1>4. /\ a.wq = s.wq + 1 /\ a.send = s.send \cup {"MESSAGE"}
      /\ a.recv = s.recv /\ a.hungry = s.hungry /\ a.open = s.open
      /\ a.timer = s.timer /\ a.aping = s.aping
      /\ a.io = IF s.send = {} THEN mask ELSE s.io
  <2> HIDE DEF mask
  <2> QED BY DEF Fields
<1>5. a.send # {}
  BY <1>4
<1>6. Events(a) = mask
  <2> HIDE DEF a
  <2> QED BY <1>4, <1>5 DEF Events
<1> HIDE DEF a, mask
<1> QED BY <1>1, <1>3, <1>4, <1>6

(* start_pingers only starts timers. *)
LEMMA WithPingersFields ==
    ASSUME NEW s \in Fields
    PROVE  /\ WithPingers(s) \in Fields
           /\ WithPingers(s).wq = s.wq
           /\ WithPingers(s).send = s.send
           /\ WithPingers(s).recv = s.recv
           /\ WithPingers(s).hungry = s.hungry
           /\ WithPingers(s).open = s.open
           /\ WithPingers(s).io = s.io
BY ZenonT(60), ConfigAssumption DEF Fields, WithPingers

(* Handling a message leaves the receiving half of the state word alone    *)
(* and queues at most one reply, for which it sets a reason to send.       *)
LEMMA HandledFields ==
    ASSUME NEW s \in Fields, NEW m
    PROVE  /\ Handled(s, m) \in Fields
           /\ Handled(s, m).recv = s.recv
           /\ Handled(s, m).hungry = s.hungry
           /\ Handled(s, m).open = s.open
           /\ \/ /\ Handled(s, m).wq = s.wq
                 /\ Handled(s, m).send = s.send
              \/ /\ Handled(s, m).wq = s.wq + 1
                 /\ Handled(s, m).send = s.send \cup {"MESSAGE"}
<1>1. CASE m.command \in {"ping", "getblocks"}
  BY <1>1, AppendedFields DEF Handled
<1>2. CASE m.command = "verack"
  BY <1>2, WithPingersFields DEF Handled
<1>3. CASE m.command \notin {"ping", "getblocks", "verack"}
  BY <1>3 DEF Handled
<1> QED BY <1>1, <1>2, <1>3

(* suicide and destruction touch nothing but the watchers. *)
LEMMA StoppedFields ==
    ASSUME NEW s \in Fields
    PROVE  /\ Suspended(s) \in Fields
           /\ Suspended(s) = [s EXCEPT !.open = FALSE, !.timer = FALSE]
           /\ Destroyed(s) \in Fields
           /\ \A f \in {"recv", "send", "hungry", "wq", "io"} :
                  Suspended(s)[f] = s[f] /\ Destroyed(s)[f] = s[f]
BY ZenonT(60) DEF Fields, Suspended, Destroyed

(* Why a handler sends and reads: a queued message has a reason to be      *)
(* sent, and until our version is sent nothing is read.                    *)
Coherent(s) ==
    /\ s.wq > 0 => s.send # {}
    /\ "VERSION_INIT" \in s.send => s.recv = "NONE" /\ ~s.hungry

(* A header chunk keeps a handler well formed. *)
LEMMA HeaderReadFields ==
    ASSUME NEW s \in Fields, s.recv \in RecvHdr, NEW empty \in BOOLEAN, NEW m
    PROVE  /\ HeaderRead(s, empty, m) \in Fields
           /\ HeaderRead(s, empty, m).open = s.open
           /\ Coherent(s) => Coherent(HeaderRead(s, empty, m))
           /\ (s.send # {} => s.wq > 0)
                => (HeaderRead(s, empty, m).send # {} => HeaderRead(s, empty, m).wq > 0)
<1> DEFINE r == HeaderRead(s, empty, m)
<1>0. s.recv # "NONE"
  BY DEF RecvHdr
<1>1. CASE s.recv = "HEADER" /\ empty
  <2>1. r = Handled(s, m)
    BY <1>1 DEF HeaderRead
  <2>2. s.wq \in Nat /\ r.wq \in Nat
    BY <2>1, HandledFields DEF Fields
  <2> QED BY <2>1, <2>2, <1>0, HandledFields DEF Coherent
<1>2. CASE s.recv = "HEADER" /\ ~empty
  <2>1. r = [s EXCEPT !.recv = "PAYLOAD"]
    BY <1>2 DEF HeaderRead
  <2> QED BY <2>1, <1>0 DEF Coherent, Fields, RecvFlags, RecvBody
<1>3. CASE s.recv = "VERSION_INIT_HDR"
  <2>1. r = [s EXCEPT !.recv = "VERSION_INIT", !.hungry = ~empty]
    BY <1>3 DEF HeaderRead
  <2> QED BY ZenonT(60), <2>1, <1>0 DEF Coherent, Fields, RecvFlags, RecvBody
<1>4. CASE s.recv = "VERSION_REPLY_HDR"
  <2>1. r = [s EXCEPT !.recv = "VERSION_REPLY", !.hungry = ~empty]
    BY <1>4 DEF HeaderRead
  <2> QED BY ZenonT(60), <2>1, <1>0 DEF Coherent, Fields, RecvFlags, RecvBody
<1> QED BY <1>1, <1>2, <1>3, <1>4 DEF RecvHdr

(* A payload chunk keeps a handler well formed: the replies that it queues *)
(* have a reason to be sent, also when the state word is overwritten.      *)
LEMMA BodyReadFields ==
    ASSUME NEW s \in Fields, s.recv \in RecvBody, NEW m
    PROVE  /\ BodyRead(s, m) \in Fields
           /\ BodyRead(s, m).open = s.open
           /\ Coherent(s) => Coherent(BodyRead(s, m))
           /\ (s.send # {} => s.wq > 0)
                => (BodyRead(s, m).send # {} => BodyRead(s, m).wq > 0)
<1> DEFINE r == BodyRead(s, m)
           t == Handled(s, m)
<1>0. s.recv # "NONE"
  BY DEF RecvBody
<1>1. CASE s.recv = "VERSION_REPLY"
  <2> DEFINE u == Appended(Appended(t))
             v == WithPingers(u)
  <2>1. r = [v EXCEPT !.recv = "HEADER", !.send = {"VERSION_REPLY"}]
    BY <1>1 DEF BodyRead
  <2>2. t \in Fields /\ t.open = s.open
    BY HandledFields
  <2>3. Appended(t) \in Fields /\ Appended(t).wq = t.wq + 1 /\ Appended(t).open = t.open
    <3> HIDE DEF t
    <3> QED BY <2>2, AppendedFields
  <2>4. u \in Fields /\ u.wq = Appended(t).wq + 1 /\ u.open = t.open
    <3> HIDE DEF t
    <3> QED BY <2>3, AppendedFields
  <2>5. v \in Fields /\ v.wq = u.wq /\ v.open = u.open
    <3> HIDE DEF u
    <3> QED BY <2>4, WithPingersFields
  <2>6. v.wq > 0 /\ v.open = s.open /\ v \in Fields
    <3> HIDE DEF u, v, t
    <3> QED BY <2>2, <2>3, <2>4, <2>5 DEF Fields
  <2> HIDE DEF v
  <2>7. r \in Fields /\ r.wq = v.wq /\ r.open = v.open /\ r.send = {"VERSION_REPLY"}
    <3>1. "HEADER" \in RecvFlags /\ {"VERSION_REPLY"} \in SUBSET SendFlags
      BY DEF RecvFlags, RecvHdr, SendFlags
    <3> HIDE DEF r
    <3> QED BY <2>1, <2>6, <3>1, ZenonT(60) DEF Fields
  <2> QED BY <2>6, <2>7 DEF Coherent
<1>2. CASE s.recv # "VERSION_REPLY"
  <2>1. r = [t EXCEPT !.recv = "HEADER"]
    BY <1>2 DEF BodyRead
  <2>2. /\ t \in Fields /\ t.open = s.open
        /\ \/ t.wq = s.wq /\ t.send = s.send
           \/ t.wq = s.wq + 1 /\ t.send = s.send \cup {"MESSAGE"}
    BY HandledFields
  <2> HIDE DEF t
  <2>3. /\ r \in Fields /\ r.open = t.open /\ r.wq = t.wq /\ r.send = t.send
    BY <2>1, <2>2 DEF Fields, RecvFlags, RecvHdr
  <2>4. s.wq \in Nat /\ r.wq \in Nat
    BY <2>3 DEF Fields
  <2>5. Coherent(s) => Coherent(r)
    <3> SUFFICES ASSUME Coherent(s) PROVE Coherent(r)
      OBVIOUS
    <3>1. "VERSION_INIT" \notin s.send
      BY <1>0 DEF Coherent
    <3>2. "VERSION_INIT" \notin r.send
      BY <3>1, <2>2, <2>3
    <3>3. r.wq > 0 => r.send # {}
      BY ZenonT(60), <2>2, <2>3, <2>4 DEF Coherent
    <3> QED BY <3>2, <3>3 DEF Coherent
  <2>6. (s.send # {} => s.wq > 0) => (r.send # {} => r.wq > 0)
    BY <2>2, <2>3, <2>4
  <2> QED BY <2>2, <2>3, <2>5, <2>6
<1> QED BY <1>1, <1>2

-----------------------------------------------------------------------------
LEMMA StatesType ==
    /\ NoHandler \in HandlerState
    /\ Idle \in [pc: Pcs, h: Nat, wr: BOOLEAN]
BY BoundsAssumption
   DEF NoHandler, HandlerState, RecvFlags, RecvHdr, RecvBody, Idle, Pcs

(* One step keeps the types; the queue bound is what the guards say. *)
LEMMA TypeStep == TypeOK /\ [Next]_vars => TypeOK'
<1> SUFFICES ASSUME TypeOK, [Next]_vars PROVE TypeOK'
  OBVIOUS
<1> USE BoundsAssumption
<1>0. \A i \in Ids : hs[i] \in HandlerState /\ hs[i] \in Fields /\ hs[i].wq <= MaxQueue
  BY FieldsBound DEF TypeOK
<1>s. \A i \in Ids : Suspended(hs[i]) \in HandlerState /\ Destroyed(hs[i]) \in HandlerState
  BY ZenonT(60), <1>0 DEF Suspended, Destroyed, HandlerState
<1>1. CASE Accept
  <2>1. Incoming \in HandlerState
    BY DEF Incoming, HandlerState, RecvFlags, RecvHdr, EvFlags
  <2>2. hs' \in [Ids -> HandlerState]
    BY <1>1, <2>1, <1>0, <1>s DEF Accept
  <2> QED BY <1>1, <2>2 DEF Accept, TypeOK, Ids
<1>2. CASE SetupHandler
  <2>1. Outgoing \in HandlerState
    BY DEF Outgoing, HandlerState, RecvFlags, SendFlags, EvFlags
  <2> QED BY <1>2, <2>1 DEF SetupHandler, TypeOK, Ids
<1>l. ASSUME NEW h \in Ids, LogAndSuicide(h)
      PROVE  /\ gone' \in [Ids -> Nat] /\ active' \subseteq Ids
             /\ inactive' \subseteq Ids /\ hs' \in [Ids -> HandlerState]
  <2>1. hs' \in [Ids -> HandlerState]
    BY <1>l, <1>0, <1>s DEF LogAndSuicide
  <2> QED BY <1>l, <2>1 DEF LogAndSuicide, TypeOK
<1>3. ASSUME NEW h \in Ids, NEW revents \in SUBSET EvFlags, IoCb(h, revents)
      PROVE  TypeOK'
  BY <1>3 DEF IoCb, TypeOK, Ids, Pcs
<1>4. ASSUME NEW h \in Ids, Callback(h)
      PROVE  TypeOK'
  <2>0. AfterRead \in Pcs
    BY DEF AfterRead, Pcs
  <2>1. CASE ReadBlocks(h)
    BY <2>0, <2>1 DEF ReadBlocks, TypeOK
  <2>2. CASE ReadEnds(h)
    BY <2>0, <2>2, <1>l DEF ReadEnds, TypeOK
  <2>3. ASSUME NEW empty \in BOOLEAN, NEW m \in Messages, ReadHeader(h, empty, m)
        PROVE  TypeOK'
    <3>1. HeaderRead(hs[h], empty, m) \in HandlerState
      BY <2>3, <1>0, HeaderReadFields, FieldsBound DEF ReadHeader
    <3>2. lastBlock' \in Int
      BY <2>3, ConfigAssumption DEF ReadHeader, BlockAfter, Messages, Commands, TypeOK
    <3>3. cb' \in [pc: Pcs, h: Nat, wr: BOOLEAN]
      BY <2>3, <2>0 DEF ReadHeader, TypeOK, Pcs
    <3> QED BY <2>3, <3>1, <3>2, <3>3 DEF ReadHeader, TypeOK
  <2>4. ASSUME NEW m \in Messages, ReadBody(h, m)
        PROVE  TypeOK'
    <3>1. BodyRead(hs[h], m) \in HandlerState
      BY <2>4, <1>0, BodyReadFields, FieldsBound DEF ReadBody
    <3>2. lastBlock' \in Int
      BY <2>4, ConfigAssumption DEF ReadBody, BlockAfter, Messages, Commands, TypeOK
    <3> QED BY <2>4, <3>1, <3>2 DEF ReadBody, TypeOK
  <2>5. CASE WriteMessage(h)
    <3>1. [hs[h] EXCEPT !.wq = hs[h].wq - 1] \in HandlerState
      BY <2>5, <1>0 DEF WriteMessage, HandlerState
    <3> QED BY <2>5, <3>1 DEF WriteMessage, TypeOK
  <2>6. CASE WriteBlocks(h)
    BY <2>6 DEF WriteBlocks, TypeOK, Pcs
  <2>7. CASE WriteFails(h)
    BY <2>7, <1>l DEF WriteFails, TypeOK, Pcs
  <2>8. CASE WriteDrained(h)
    <3>1. Drained(hs[h]) \in HandlerState
      BY ZenonT(60), <1>0 DEF Drained, HandlerState, RecvFlags, RecvHdr
    <3> QED BY <2>8, <3>1 DEF WriteDrained, TypeOK, Pcs
  <2>9. CASE IoCbEnds(h)
    <3>1. Events(hs[h]) \in SUBSET EvFlags
      BY DEF Events, EvFlags
    <3>2. [hs[h] EXCEPT !.io = Events(hs[h])] \in HandlerState
      BY <1>0, <3>1 DEF HandlerState
    <3> QED BY <2>9, <3>2, StatesType DEF IoCbEnds, TypeOK
  <2> QED BY <1>4, <2>1, <2>2, <2>3, <2>4, <2>5, <2>6, <2>7, <2>8, <2>9 DEF Callback
<1>a. \A i \in Ids : hs[i].wq < MaxQueue => Appended(hs[i]) \in HandlerState
  <2> SUFFICES ASSUME NEW i \in Ids, hs[i].wq < MaxQueue
               PROVE  Appended(hs[i]) \in HandlerState
    OBVIOUS
  <2>1. hs[i].wq \in Nat /\ hs[i] \in Fields
    BY <1>0 DEF Fields
  <2> QED BY <2>1, AppendedFields, FieldsBound
<1>5. ASSUME NEW h \in Ids, PingerCb(h) \/ ActivePingerCb(h)
      PROVE  TypeOK'
  BY <1>5, <1>a DEF PingerCb, ActivePingerCb, TypeOK
<1>6. ASSUME NEW h \in Ids, PeerCloses(h)
      PROVE  TypeOK'
  BY <1>6 DEF PeerCloses, TypeOK
<1>7. ASSUME NEW T \in SUBSET Ids, CommandSendMsg(T)
      PROVE  TypeOK'
  <2>1. hs' \in [Ids -> HandlerState]
    BY <1>7, <1>a, <1>0 DEF CommandSendMsg
  <2> QED BY <1>7, <2>1 DEF CommandSendMsg, TypeOK
<1>8. ASSUME NEW T \in SUBSET Ids, NEW last \in Ids, CommandDisconnect(T, last)
      PROVE  TypeOK'
  <2>1. hs' \in [Ids -> HandlerState]
    BY <1>8, <1>s, <1>0 DEF CommandDisconnect
  <2>2. gone' \in [Ids -> Nat]
    BY <1>8 DEF CommandDisconnect, TypeOK
  <2> QED BY <1>8, <2>1, <2>2 DEF CommandDisconnect, TypeOK
<1>9. CASE UNCHANGED vars
  BY <1>9 DEF vars, TypeOK
<1> QED BY <1>1, <1>2, <1>3, <1>4, <1>5, <1>6, <1>7, <1>8, <1>9 DEF Next

(* Every field of the model keeps its type; in particular no callback ever *)
(* takes a message from an empty write queue.                              *)
THEOREM TypeCorrect == Spec => []TypeOK
<1>1. Init => TypeOK
  BY StatesType, BoundsAssumption, ConfigAssumption DEF Init, TypeOK
<1> QED BY <1>1, TypeStep, PTL DEF Spec

-----------------------------------------------------------------------------
(* Second layer: the containers, the watchers and the event log.  Beyond   *)
(* the checked properties it says that a suspended handler was created,    *)
(* that ids not handed out have no events, that an active handler has its  *)
(* descriptor, and that io_cb only reads for an active handler.            *)
Lifetime ==
    /\ WatchersAlive
    /\ LogTellsActive
    /\ OneSuspended
    /\ \A i \in inactive : i < idPool
    /\ \A i \in Ids : i >= idPool => gone[i] = 0
    /\ \A i \in active : hs[i].open
    /\ cb.pc = "read" => cb.h \in active

(* A step that leaves the containers and the log alone, and starts timers  *)
(* of an active handler at most, keeps Lifetime.                           *)
LEMMA LifetimeFrame ==
    ASSUME TypeOK, TypeOK', Lifetime,
           UNCHANGED <<idPool, active, inactive, gone>>,
           \A i \in Ids : /\ hs'[i].open = hs[i].open
                          /\ i \notin active => hs'[i].timer = hs[i].timer
                          /\ i \notin active => hs'[i].aping = hs[i].aping,
           cb'.pc # "idle" => cb'.h \in active \cup inactive,
           cb'.pc = "read" => cb'.h \in active
    PROVE  Lifetime'
<1>1. WatchersAlive'
  <2>1. \A i \in Ids : hs'[i].timer => i \in active
    BY DEF Lifetime, WatchersAlive
  <2>2. \A i \in Ids : hs'[i].aping => i \in active \cup inactive
    BY DEF Lifetime, WatchersAlive
  <2>3. \A i \in Ids : hs'[i].open => i \in active
    BY DEF Lifetime, WatchersAlive
  <2> QED BY <2>1, <2>2, <2>3 DEF WatchersAlive
<1>2. \A i \in active' : hs'[i].open
  BY DEF Lifetime, TypeOK
<1> QED BY <1>1, <1>2 DEF Lifetime, LogTellsActive, OneSuspended, TypeOK

(* Logging a disconnect of a handler that has not been deleted and calling *)
(* suicide keeps Lifetime, whether or not the handler is still active.     *)
LEMMA LifetimeSuicide ==
    ASSUME TypeOK, TypeOK', Lifetime, NEW h \in Ids, h \in active \cup inactive,
           LogAndSuicide(h), UNCHANGED idPool,
           cb'.pc # "idle" => cb'.h = h,
           cb'.pc # "read"
    PROVE  Lifetime'
<1>0. \A i \in Ids : hs[i] \in HandlerState
  BY DEF TypeOK
<1>1. \A i \in Ids : /\ ~Suspended(hs[i]).open /\ ~Suspended(hs[i]).timer
                     /\ Suspended(hs[i]).aping = hs[i].aping
                     /\ ~Destroyed(hs[i]).open /\ ~Destroyed(hs[i]).timer
                     /\ ~Destroyed(hs[i]).aping
  BY <1>0 DEF HandlerState, Suspended, Destroyed
<1>2. h \in inactive'
  BY DEF LogAndSuicide
<1>3. WatchersAlive'
  <2> SUFFICES ASSUME NEW i \in Ids
               PROVE  /\ hs'[i].open => i \in active'
                      /\ hs'[i].timer => i \in active'
                      /\ hs'[i].aping => i \in active' \cup inactive'
    BY <1>2 DEF WatchersAlive
  <2>1. CASE i = h
    BY <1>1, <1>2, <2>1 DEF LogAndSuicide
  <2>2. CASE i # h /\ h \in active /\ i \in inactive
    BY <1>1, <2>2 DEF LogAndSuicide
  <2>3. CASE i # h /\ ~(h \in active /\ i \in inactive)
    BY <2>3 DEF LogAndSuicide, Lifetime, WatchersAlive
  <2> QED BY <2>1, <2>2, <2>3
<1>4. LogTellsActive'
  BY DEF LogAndSuicide, Lifetime, LogTellsActive, TypeOK
<1>5. OneSuspended'
  BY DEF LogAndSuicide, Lifetime, OneSuspended
<1>6. \A i \in inactive' : i < idPool'
  BY DEF LogAndSuicide, Lifetime, LogTellsActive
<1>7. \A i \in Ids : i >= idPool' => gone'[i] = 0
  <2>1. h < idPool
    BY DEF Lifetime, LogTellsActive
  <2> QED BY <2>1 DEF LogAndSuicide, Lifetime, TypeOK, Ids
<1>8. \A i \in active' : hs'[i].open
  BY DEF LogAndSuicide, Lifetime, OneSuspended, TypeOK
<1> QED BY <1>3, <1>4, <1>5, <1>6, <1>7, <1>8 DEF Lifetime

(* Every step keeps Lifetime. *)
LEMMA LifetimeStep == TypeOK /\ TypeOK' /\ Lifetime /\ [Next]_vars => Lifetime'
<1> SUFFICES ASSUME TypeOK, TypeOK', Lifetime, [Next]_vars PROVE Lifetime'
  OBVIOUS
<1>0. \A i \in Ids : hs[i] \in HandlerState /\ hs[i] \in Fields
  BY FieldsBound DEF TypeOK
<1>n. idPool \notin active \cup inactive
  BY DEF TypeOK, Lifetime, LogTellsActive, Ids
<1>d. \A i \in Ids : /\ ~Destroyed(hs[i]).open /\ ~Destroyed(hs[i]).timer
                     /\ ~Destroyed(hs[i]).aping
                     /\ ~Suspended(hs[i]).open /\ ~Suspended(hs[i]).timer
  BY <1>0 DEF HandlerState, Suspended, Destroyed
<1>p. AfterRead # "read"
  BY DEF AfterRead
<1>1. CASE Accept
  <2>0. idPool \in Ids
    BY <1>1 DEF Accept, TypeOK, Ids
  <2>1. WatchersAlive'
    <3> SUFFICES ASSUME NEW i \in Ids
                 PROVE  /\ hs'[i].open => i \in active'
                        /\ hs'[i].timer => i \in active'
                        /\ hs'[i].aping => i \in active'
      BY <1>1 DEF Accept, WatchersAlive
    <3>1. CASE i = idPool
      BY <1>1, <3>1 DEF Accept
    <3>2. CASE i # idPool /\ i \in inactive
      BY <1>1, <1>d, <3>2 DEF Accept
    <3>3. CASE i # idPool /\ i \notin inactive
      BY <1>1, <3>3 DEF Accept, Lifetime, WatchersAlive
    <3> QED BY <3>1, <3>2, <3>3
  <2>2. LogTellsActive'
    BY <1>1, <2>0 DEF Accept, Lifetime, LogTellsActive, TypeOK, Ids
  <2>3. \A i \in active' : hs'[i].open
    BY <1>1, <2>0 DEF Accept, Lifetime, OneSuspended, TypeOK, Incoming
  <2> QED BY <1>1, <2>1, <2>2, <2>3
          DEF Accept, Lifetime, OneSuspended, TypeOK, Ids
<1>2. CASE SetupHandler
  <2>0. idPool \in Ids
    BY <1>2 DEF SetupHandler, TypeOK, Ids
  <2>1. WatchersAlive'
    BY <1>2, <2>0 DEF SetupHandler, Lifetime, WatchersAlive, TypeOK, Outgoing
  <2>2. LogTellsActive'
    BY <1>2, <2>0 DEF SetupHandler, Lifetime, LogTellsActive, TypeOK, Ids
  <2>3. \A i \in active' : hs'[i].open
    BY <1>2, <2>0 DEF SetupHandler, Lifetime, TypeOK, Outgoing
  <2>4. OneSuspended'
    BY <1>2, <1>n DEF SetupHandler, Lifetime, OneSuspended
  <2>5. cb'.pc = "idle"
    BY <1>2 DEF SetupHandler
  <2>6. \A i \in inactive' : i < idPool'
    BY <1>2 DEF SetupHandler, Lifetime, TypeOK, Ids
  <2>7. \A i \in Ids : i >= idPool' => gone'[i] = 0
    BY SMTT(60), <1>2 DEF SetupHandler, Lifetime, TypeOK, Ids
  <2> QED BY <2>1, <2>2, <2>3, <2>4, <2>5, <2>6, <2>7 DEF Lifetime
<1>3. ASSUME NEW h \in Ids, NEW revents \in SUBSET EvFlags, IoCb(h, revents)
      PROVE  Lifetime'
  BY <1>3, LifetimeFrame DEF IoCb, Lifetime, WatchersAlive
<1>4. ASSUME NEW h \in Ids, Callback(h)
      PROVE  Lifetime'
  <2>0. cb.h = h /\ cb.pc # "idle" /\ h \in active \cup inactive
    BY <1>4 DEF Callback, ReadBlocks, ReadEnds, ReadHeader, ReadBody, WriteMessage,
                WriteBlocks, WriteFails, WriteDrained, IoCbEnds, Lifetime, WatchersAlive
  <2>c. cb \in [pc: Pcs, h: Nat, wr: BOOLEAN]
    BY DEF TypeOK
  <2>1. CASE ReadBlocks(h)
    BY <2>0, <2>1, <2>c, <1>p, LifetimeFrame DEF ReadBlocks
  <2>2. CASE ReadEnds(h)
    BY <2>0, <2>2, <2>c, <1>p, LifetimeSuicide DEF ReadEnds
  <2>3. ASSUME NEW empty \in BOOLEAN, NEW m \in Messages, ReadHeader(h, empty, m)
        PROVE  Lifetime'
    <3>1. h \in active
      BY <2>3 DEF ReadHeader, Lifetime
    <3>2. HeaderRead(hs[h], empty, m).open = hs[h].open
      BY <2>3, <1>0, HeaderReadFields DEF ReadHeader
    <3>3. cb'.h = h
      BY <2>3, <2>c DEF ReadHeader
    <3>4. \A i \in Ids : /\ hs'[i].open = hs[i].open
                         /\ i # h => hs'[i] = hs[i]
      BY <2>3, <3>2 DEF ReadHeader, TypeOK
    <3> QED BY <2>3, <3>1, <3>3, <3>4, LifetimeFrame DEF ReadHeader
  <2>4. ASSUME NEW m \in Messages, ReadBody(h, m)
        PROVE  Lifetime'
    <3>1. h \in active
      BY <2>4 DEF ReadBody, Lifetime
    <3>2. BodyRead(hs[h], m).open = hs[h].open
      BY <2>4, <1>0, BodyReadFields DEF ReadBody
    <3>4. \A i \in Ids : /\ hs'[i].open = hs[i].open
                         /\ i # h => hs'[i] = hs[i]
      BY <2>4, <3>2 DEF ReadBody, TypeOK
    <3> QED BY <2>4, <3>1, <2>0, <3>4, LifetimeFrame DEF ReadBody
  <2>5. CASE WriteMessage(h)
    BY <2>0, <2>5, <1>0, LifetimeFrame DEF WriteMessage, TypeOK, HandlerState
  <2>6. CASE WriteBlocks(h)
    BY <2>0, <2>6, <2>c, LifetimeFrame DEF WriteBlocks
  <2>7. CASE WriteFails(h)
    BY <2>0, <2>7, <2>c, LifetimeSuicide DEF WriteFails
  <2>8. CASE WriteDrained(h)
    <3>1. /\ Drained(hs[h]).open = hs[h].open /\ Drained(hs[h]).timer = hs[h].timer
          /\ Drained(hs[h]).aping = hs[h].aping
      BY <1>0 DEF Drained, HandlerState
    <3> QED BY <2>0, <2>8, <2>c, <3>1, LifetimeFrame DEF WriteDrained, TypeOK
  <2>9. CASE IoCbEnds(h)
    BY SMTT(60), <2>0, <2>9, <1>0, LifetimeFrame DEF IoCbEnds, Idle, TypeOK, HandlerState
  <2> QED BY <1>4, <2>1, <2>2, <2>3, <2>4, <2>5, <2>6, <2>7, <2>8, <2>9 DEF Callback
<1>a. \A i \in Ids : /\ Appended(hs[i]).open = hs[i].open
                     /\ Appended(hs[i]).timer = hs[i].timer
                     /\ Appended(hs[i]).aping = hs[i].aping
  BY <1>0, AppendedFields
<1>5. ASSUME NEW h \in Ids, PingerCb(h) \/ ActivePingerCb(h)
      PROVE  Lifetime'
  BY <1>5, <1>a, LifetimeFrame DEF PingerCb, ActivePingerCb, TypeOK
<1>6. ASSUME NEW h \in Ids, PeerCloses(h)
      PROVE  Lifetime'
  BY <1>6, LifetimeFrame DEF PeerCloses, Lifetime, WatchersAlive
<1>7. ASSUME NEW T \in SUBSET Ids, CommandSendMsg(T)
      PROVE  Lifetime'
  BY <1>7, <1>a, LifetimeFrame DEF CommandSendMsg
<1>8. ASSUME NEW T \in SUBSET Ids, NEW last \in Ids, CommandDisconnect(T, last)
      PROVE  Lifetime'
  <2>1. WatchersAlive'
    <3> SUFFICES ASSUME NEW i \in Ids
                 PROVE  /\ hs'[i].open => i \in active'
                        /\ hs'[i].timer => i \in active'
                        /\ hs'[i].aping => i \in active' \cup inactive'
      BY <1>8 DEF CommandDisconnect, WatchersAlive
    <3>1. CASE i = last
      BY <1>8, <1>d, <3>1 DEF CommandDisconnect
    <3>2. CASE i # last /\ i \in T \cup inactive
      BY <1>8, <1>d, <3>2 DEF CommandDisconnect
    <3>3. CASE i # last /\ i \notin T \cup inactive
      BY <1>8, <3>3 DEF CommandDisconnect, Lifetime, WatchersAlive
    <3> QED BY <3>1, <3>2, <3>3
  <2>2. LogTellsActive'
    BY <1>8 DEF CommandDisconnect, Lifetime, LogTellsActive, TypeOK
  <2>3. \A i \in active' : hs'[i].open
    BY <1>8 DEF CommandDisconnect, Lifetime, OneSuspended, TypeOK
  <2>4. OneSuspended'
    BY <1>8 DEF CommandDisconnect, OneSuspended
  <2>5. \A i \in inactive' : i < idPool'
    BY <1>8 DEF CommandDisconnect, Lifetime, LogTellsActive
  <2>6. \A i \in Ids : i >= idPool' => gone'[i] = 0
    <3>1. \A i \in T : i < idPool
      BY <1>8 DEF CommandDisconnect, Lifetime, LogTellsActive
    <3> QED BY <1>8, <3>1 DEF CommandDisconnect, Lifetime, TypeOK, Ids
  <2> QED BY <1>8, <2>1, <2>2, <2>3, <2>4, <2>5, <2>6 DEF CommandDisconnect, Lifetime
<1>9. CASE UNCHANGED vars
  BY <1>9, LifetimeFrame DEF vars, Lifetime, WatchersAlive
<1> QED BY <1>1, <1>2, <1>3, <1>4, <1>5, <1>6, <1>7, <1>8, <1>9 DEF Next

-----------------------------------------------------------------------------
(* Third layer: the state word, the write queue and the watcher mask.  A   *)
(* handler has a reason to send exactly while something is queued, except  *)
(* while do_write empties the queue, and outside its callback the mask is  *)
(* the one io_cb would compute.                                            *)
Writing(i) == cb.pc = "write" /\ cb.h = i

Output ==
    /\ \A i \in Ids : Coherent(hs[i])
    /\ \A i \in active : ~Writing(i) => (hs[i].send # {} => hs[i].wq > 0)
    /\ \A i \in active : Quiet(i) => hs[i].io = Events(hs[i])

(* A step inside the callback of h that leaves it running only has to keep *)
(* h well formed: the mask of h is computed when the callback ends.        *)
LEMMA OutputInCallback ==
    ASSUME TypeOK, TypeOK', Output, NEW h \in Ids,
           cb.h = h, cb.pc # "idle", cb'.h = h, cb'.pc # "idle",
           active' \subseteq active,
           \A i \in Ids \ {h} : i \in active => hs'[i] = hs[i],
           \A i \in Ids : Coherent(hs'[i]),
           h \in active' => Writing(h)' \/ (hs'[h].send # {} => hs'[h].wq > 0)
    PROVE  Output'
<1>1. \A i \in active' : ~Writing(i)' => (hs'[i].send # {} => hs'[i].wq > 0)
  BY DEF Output, Writing, TypeOK
<1>2. \A i \in active' : Quiet(i)' => hs'[i].io = Events(hs'[i])
  BY DEF Output, Quiet, TypeOK
<1> QED BY <1>1, <1>2 DEF Output, Writing, Quiet

(* suicide and deletion leave Coherent alone. *)
LEMMA StoppedCoherent ==
    ASSUME NEW s \in Fields, Coherent(s)
    PROVE  Coherent(Suspended(s)) /\ Coherent(Destroyed(s))
BY DEF Coherent, Suspended, Destroyed, Fields

(* append_for_write keeps a handler well formed and its mask exact. *)
LEMMA AppendedCoherent ==
    ASSUME NEW s \in Fields, Coherent(s)
    PROVE  /\ Coherent(Appended(s))
           /\ Appended(s).wq > 0
           /\ s.io = Events(s) => Appended(s).io = Events(Appended(s))
<1>0. s.wq \in Nat
  BY DEF Fields
<1>1. Coherent(Appended(s)) /\ Appended(s).wq > 0
  BY SMTT(60), <1>0, AppendedFields DEF Coherent
<1>2. ASSUME s.io = Events(s), s.send # {}
      PROVE  Appended(s).io = Events(Appended(s))
  BY ZenonT(60), <1>2, AppendedFields DEF Events
<1>3. ASSUME s.send = {}
      PROVE  Appended(s).io = Events(Appended(s))
  BY <1>3, AppendedFields
<1> QED BY <1>1, <1>2, <1>3

(* Every step keeps Output. *)
LEMMA OutputStep ==
    TypeOK /\ TypeOK' /\ Lifetime /\ Output /\ [Next]_vars => Output'
<1> SUFFICES ASSUME TypeOK, TypeOK', Lifetime, Output, [Next]_vars PROVE Output'
  OBVIOUS
<1>0. \A i \in Ids : hs[i] \in HandlerState /\ hs[i] \in Fields /\ Coherent(hs[i])
  BY FieldsBound DEF TypeOK, Output
<1>s. \A i \in Ids : Coherent(Suspended(hs[i])) /\ Coherent(Destroyed(hs[i]))
  BY <1>0, StoppedCoherent
<1>n. idPool \notin active \cup inactive /\ active \cap inactive = {}
  BY DEF TypeOK, Lifetime, LogTellsActive, OneSuspended, Ids
<1>p. AfterRead # "idle" /\ AfterRead # "read"
  BY DEF AfterRead
<1>1. CASE Accept
  <2>0. idPool \in Ids
    BY <1>1 DEF Accept, TypeOK, Ids
  <2>1. Coherent(Incoming) /\ Incoming.io = Events(Incoming) /\ Incoming.send = {}
    BY DEF Coherent, Incoming, Events
  <2>2. \A i \in Ids : Coherent(hs'[i])
    BY <1>1, <1>0, <1>s, <2>1 DEF Accept
  <2>3. \A i \in active : hs'[i] = hs[i]
    BY <1>1, <1>n DEF Accept, TypeOK
  <2>4. hs'[idPool] = Incoming
    BY <1>1, <2>0 DEF Accept
  <2> QED BY <1>1, <2>0, <2>1, <2>2, <2>3, <2>4 DEF Accept, Output, Writing, Quiet
<1>2. CASE SetupHandler
  <2>0. idPool \in Ids
    BY <1>2 DEF SetupHandler, TypeOK, Ids
  <2>1. Coherent(Outgoing) /\ Outgoing.io = Events(Outgoing) /\ Outgoing.wq > 0
    BY DEF Coherent, Outgoing, Events
  <2>2. \A i \in Ids : Coherent(hs'[i])
    BY <1>2, <1>0, <2>1 DEF SetupHandler, TypeOK
  <2>3. \A i \in active : hs'[i] = hs[i]
    BY <1>2, <1>n DEF SetupHandler, TypeOK
  <2>4. hs'[idPool] = Outgoing
    BY <1>2, <2>0 DEF SetupHandler, TypeOK
  <2> QED BY <1>2, <2>0, <2>1, <2>2, <2>3, <2>4 DEF SetupHandler, Output, Writing, Quiet
<1>l. ASSUME NEW h \in Ids, LogAndSuicide(h)
      PROVE  /\ \A i \in Ids : Coherent(hs'[i])
             /\ active' = active \ {h}
             /\ \A i \in Ids \ {h} : i \in active => hs'[i] = hs[i]
  <2>1. \A i \in Ids : Coherent(hs'[i])
    BY <1>l, <1>0, <1>s DEF LogAndSuicide
  <2>2. \A i \in Ids \ {h} : i \in active => hs'[i] = hs[i]
    BY <1>l, <1>n DEF LogAndSuicide
  <2> QED BY <1>l, <2>1, <2>2 DEF LogAndSuicide
<1>3. ASSUME NEW h \in Ids, NEW revents \in SUBSET EvFlags, IoCb(h, revents)
      PROVE  Output'
  BY <1>3 DEF IoCb, Output, Writing, Quiet
<1>4. ASSUME NEW h \in Ids, Callback(h)
      PROVE  Output'
  <2>0. cb.h = h /\ cb.pc # "idle" /\ cb \in [pc: Pcs, h: Nat, wr: BOOLEAN]
    BY <1>4 DEF Callback, ReadBlocks, ReadEnds, ReadHeader, ReadBody, WriteMessage,
                WriteBlocks, WriteFails, WriteDrained, IoCbEnds, TypeOK
  <2>w. ASSUME cb.pc # "write", h \in active
        PROVE  hs[h].send # {} => hs[h].wq > 0
    BY <2>w DEF Output, Writing
  <2>1. CASE ReadBlocks(h)
    BY <2>0, <2>1, <2>w, <1>0, <1>p, OutputInCallback DEF ReadBlocks
  <2>2. CASE ReadEnds(h)
    BY <2>0, <2>2, <1>l, <1>p, OutputInCallback DEF ReadEnds
  <2>3. ASSUME NEW empty \in BOOLEAN, NEW m \in Messages, ReadHeader(h, empty, m)
        PROVE  Output'
    <3> DEFINE s == HeaderRead(hs[h], empty, m)
    <3>1. Coherent(s) /\ (h \in active => (s.send # {} => s.wq > 0))
      BY <2>3, <1>0, <2>w, HeaderReadFields DEF ReadHeader
    <3>2. hs'[h] = s /\ (\A i \in Ids \ {h} : hs'[i] = hs[i]) /\ active' = active
      BY <2>3 DEF ReadHeader, TypeOK
    <3>3. cb'.h = h /\ cb'.pc # "idle"
      BY <2>3, <2>0, <1>p DEF ReadHeader
    <3> HIDE DEF s
    <3>4. \A i \in Ids : Coherent(hs'[i])
      BY <3>1, <3>2, <1>0
    <3> QED BY <2>0, <3>1, <3>2, <3>3, <3>4, OutputInCallback
  <2>4. ASSUME NEW m \in Messages, ReadBody(h, m)
        PROVE  Output'
    <3> DEFINE s == BodyRead(hs[h], m)
    <3>1. Coherent(s) /\ (h \in active => (s.send # {} => s.wq > 0))
      BY <2>4, <1>0, <2>w, BodyReadFields DEF ReadBody
    <3>2. /\ hs'[h] = s /\ (\A i \in Ids \ {h} : hs'[i] = hs[i])
          /\ active' = active /\ cb' = cb
      BY <2>4 DEF ReadBody, TypeOK
    <3> HIDE DEF s
    <3>4. \A i \in Ids : Coherent(hs'[i])
      BY <3>1, <3>2, <1>0
    <3> QED BY SMTT(60), <2>0, <3>1, <3>2, <3>4, OutputInCallback
  <2>5. CASE WriteMessage(h)
    <3>1. hs[h].wq \in Nat /\ hs[h].wq > 0
      BY <2>5, <1>0 DEF WriteMessage, Fields
    <3>2. Coherent([hs[h] EXCEPT !.wq = hs[h].wq - 1])
      BY <1>0, <3>1 DEF Coherent, Fields
    <3>3. \A i \in Ids : Coherent(hs'[i])
      BY <2>5, <1>0, <3>2 DEF WriteMessage, TypeOK
    <3> QED BY <2>0, <2>5, <3>3, OutputInCallback DEF WriteMessage, Writing, TypeOK
  <2>6. CASE WriteBlocks(h)
    BY <2>0, <2>6, <1>0, OutputInCallback DEF WriteBlocks
  <2>7. CASE WriteFails(h)
    BY <2>0, <2>7, <1>l, OutputInCallback DEF WriteFails
  <2>8. CASE WriteDrained(h)
    <3>1. Coherent(Drained(hs[h])) /\ Drained(hs[h]).send = {}
      BY <2>8, <1>0 DEF WriteDrained, Drained, Coherent, HandlerState
    <3>2. \A i \in Ids : Coherent(hs'[i])
      BY <2>8, <1>0, <3>1 DEF WriteDrained, TypeOK
    <3> QED BY <2>0, <2>8, <3>1, <3>2, OutputInCallback DEF WriteDrained, TypeOK
  <2>9. CASE IoCbEnds(h)
    <3> DEFINE s == [hs[h] EXCEPT !.io = Events(hs[h])]
    <3>1. /\ s.io = Events(s) /\ Coherent(s)
          /\ s.send = hs[h].send /\ s.wq = hs[h].wq
      BY <1>0 DEF Events, Coherent, HandlerState
    <3>2. hs'[h] = s /\ \A i \in Ids \ {h} : hs'[i] = hs[i]
      BY <2>9 DEF IoCbEnds, TypeOK
    <3>3. cb'.pc = "idle" /\ cb.pc = "finish" /\ active' = active
      BY <2>9 DEF IoCbEnds, Idle
    <3> HIDE DEF s
    <3>4. \A i \in Ids : Coherent(hs'[i])
      BY SMTT(60), <3>1, <3>2, <1>0
    <3>5. \A i \in active : hs'[i].send # {} => hs'[i].wq > 0
      BY SMTT(60), <2>0, <3>1, <3>2, <3>3 DEF Output, Writing, TypeOK
    <3>6. \A i \in active : hs'[i].io = Events(hs'[i])
      BY SMTT(60), <2>0, <3>1, <3>2 DEF Output, Quiet, TypeOK
    <3> QED BY <3>3, <3>4, <3>5, <3>6 DEF Output
  <2> QED BY <1>4, <2>1, <2>2, <2>3, <2>4, <2>5, <2>6, <2>7, <2>8, <2>9 DEF Callback
<1>a. ASSUME NEW T \in SUBSET Ids, cb.pc = "idle", UNCHANGED <<active, cb>>,
             \A i \in T : hs'[i] = Appended(hs[i]),
             \A i \in Ids \ T : hs'[i] = hs[i]
      PROVE  Output'
  <2>1. \A i \in T : /\ Coherent(hs'[i]) /\ hs'[i].wq > 0
                     /\ hs[i].io = Events(hs[i]) => hs'[i].io = Events(hs'[i])
    BY <1>0, <1>a, AppendedCoherent
  <2>2. \A i \in Ids : Coherent(hs'[i])
    BY <2>1, <1>0, <1>a
  <2>3. \A i \in active : hs'[i].send # {} => hs'[i].wq > 0
    BY SMTT(60), <2>1, <1>a DEF Output, Writing, TypeOK
  <2>4. \A i \in active : hs'[i].io = Events(hs'[i])
    BY <2>1, <1>a DEF Output, Quiet, TypeOK
  <2> QED BY <1>a, <2>2, <2>3, <2>4 DEF Output
<1>5. ASSUME NEW h \in Ids, PingerCb(h) \/ ActivePingerCb(h)
      PROVE  Output'
  <2>1. /\ hs' = [hs EXCEPT ![h] = Appended(hs[h])]
        /\ cb.pc = "idle" /\ UNCHANGED <<active, cb>>
    BY <1>5 DEF PingerCb, ActivePingerCb
  <2>2. {h} \in SUBSET Ids
    OBVIOUS
  <2>3. (\A i \in {h} : hs'[i] = Appended(hs[i])) /\ (\A i \in Ids \ {h} : hs'[i] = hs[i])
    BY SMTT(60), <2>1 DEF TypeOK
  <2> QED BY ZenonT(60), <2>1, <2>2, <2>3, <1>a
<1>6. ASSUME NEW h \in Ids, PeerCloses(h)
      PROVE  Output'
  BY SMTT(60), <1>6 DEF PeerCloses, Output, Writing, Quiet
<1>7. ASSUME NEW T \in SUBSET Ids, CommandSendMsg(T)
      PROVE  Output'
  BY <1>7, <1>a DEF CommandSendMsg
<1>8. ASSUME NEW T \in SUBSET Ids, NEW last \in Ids, CommandDisconnect(T, last)
      PROVE  Output'
  <2>1. \A i \in Ids : Coherent(hs'[i])
    BY <1>8, <1>0, <1>s DEF CommandDisconnect
  <2>2. \A i \in active' : i \in active /\ hs'[i] = hs[i]
    BY <1>8, <1>n DEF CommandDisconnect, TypeOK
  <2>4. cb.pc = "idle"
    BY <1>8 DEF CommandDisconnect
  <2>5. \A i \in active' : hs'[i].send # {} => hs'[i].wq > 0
    BY <2>2, <2>4 DEF Output, Writing
  <2>6. \A i \in active' : hs'[i].io = Events(hs'[i])
    BY <2>2, <2>4 DEF Output, Quiet
  <2> QED BY SMTT(60), <2>1, <2>5, <2>6 DEF Output
<1>9. CASE UNCHANGED vars
  BY <1>9 DEF vars, Output, Writing, Quiet
<1> QED BY <1>1, <1>2, <1>3, <1>4, <1>5, <1>6, <1>7, <1>8, <1>9 DEF Next

-----------------------------------------------------------------------------
(* The inductive invariant. *)
IndInv == TypeOK /\ Lifetime /\ Output

LEMMA Inductive == Spec => []IndInv
<1>1. Init => IndInv
  <2> SUFFICES ASSUME Init PROVE Lifetime /\ Output
    <3>1. Init => TypeOK
      BY StatesType, BoundsAssumption, ConfigAssumption DEF Init, TypeOK
    <3> QED BY <3>1 DEF IndInv
  <2>1. Lifetime
    BY BoundsAssumption DEF Init, Lifetime, WatchersAlive, LogTellsActive, OneSuspended,
                            NoHandler, Idle, Ids
  <2>2. Output
    BY DEF Init, Output, Coherent, NoHandler
  <2> QED BY <2>1, <2>2
<1>2. IndInv /\ [Next]_vars => IndInv'
  BY TypeStep, LifetimeStep, OutputStep DEF IndInv
<1> QED BY <1>1, <1>2, PTL DEF Spec

(* No io or timer callback ever runs on a deleted handler, and the running *)
(* io_cb belongs to a handler that has not been deleted (suicide).         *)
THEOREM NoUseAfterFree == Spec => []WatchersAlive
<1>1. IndInv => WatchersAlive
  BY DEF IndInv, Lifetime
<1> QED BY <1>1, Inductive, PTL

(* The event log and g_active_handlers agree in every state. *)
THEOREM LogIsTruthful == Spec => []LogTellsActive
<1>1. IndInv => LogTellsActive
  BY DEF IndInv, Lifetime
<1> QED BY <1>1, Inductive, PTL

(* suicide keeps at most one dead handler, and never an active one. *)
THEOREM BoundedGarbage == Spec => []OneSuspended
<1>1. IndInv => OneSuspended
  BY DEF IndInv, Lifetime
<1> QED BY <1>1, Inductive, PTL

(* Outside its callback a connection asks for WRITE events exactly while   *)
(* its write queue holds a message (append_for_write, do_write, io_cb).    *)
THEOREM OutputNeverStuck == Spec => []WriteInterestExact
<1>1. IndInv => WriteInterestExact
  <2> SUFFICES ASSUME IndInv, NEW h \in active, Quiet(h)
               PROVE  "WRITE" \in hs[h].io <=> hs[h].wq > 0
    BY DEF WriteInterestExact
  <2>1. h \in Ids /\ hs[h].io = Events(hs[h])
    BY SMTT(60) DEF IndInv, TypeOK, Output
  <2>2. hs[h].send # {} <=> hs[h].wq > 0
    BY <2>1 DEF IndInv, Output, Coherent, Writing, Quiet
  <2>3. "WRITE" \in Events(hs[h]) <=> hs[h].send # {}
    BY DEF Events
  <2> QED BY <2>1, <2>2, <2>3
<1> QED BY <1>1, Inductive, PTL

(* The assertions in do_read and do_write never fail. *)
THEOREM AssertionsNeverFail == Spec => []AssertsHold
<1>1. IndInv => AssertsHold
  <2> SUFFICES ASSUME IndInv, cb.pc \in {"read", "write"}
               PROVE  AssertsHold
    BY DEF AssertsHold
  <2>1. cb.h \in active \cup inactive
    BY DEF IndInv, Lifetime, WatchersAlive
  <2>2. cb.h \in Ids
    BY <2>1 DEF IndInv, TypeOK
  <2>3. cb.pc = "read" => hs[cb.h].open
    BY DEF IndInv, Lifetime
  <2>4. hs[cb.h].send = {"VERSION_INIT"} => ~hs[cb.h].hungry
    BY <2>2 DEF IndInv, Output, Coherent
  <2> QED BY <2>3, <2>4 DEF AssertsHold
<1> QED BY <1>1, Inductive, PTL

(* What clients see of the connections is ConnLifecycle: every step opens  *)
(* the next connection, ends live ones for good, or is invisible.          *)
THEOREM Refinement == Spec => ImplementsLifecycle
<1> DEFINE Ended == {h \in Ids : gone[h] > 0}
<1>1. Init => Lifecycle!Init
  BY DEF Init, Lifecycle!Init
<1>2. IndInv /\ [Next]_vars => [Lifecycle!Next]_<<idPool, active, Ended>>
  <2> SUFFICES ASSUME IndInv, [Next]_vars
               PROVE  Lifecycle!Next \/ UNCHANGED <<idPool, active, Ended>>
    OBVIOUS
  <2>o. ASSUME active' = active \cup {idPool}, idPool' = idPool + 1, UNCHANGED gone
        PROVE  Lifecycle!Next
    BY <2>o DEF Lifecycle!Next, Lifecycle!Open
  <2>c. ASSUME NEW T \in SUBSET active, T # {}, UNCHANGED idPool,
               active' = active \ T,
               gone' = [i \in Ids |-> IF i \in T THEN gone[i] + 1 ELSE gone[i]]
        PROVE  Lifecycle!Next
    <3>1. Ended' = Ended \cup T
      BY <2>c DEF IndInv, TypeOK
    <3> QED BY <2>c, <3>1 DEF Lifecycle!Next, Lifecycle!Close
  <2>s. ASSUME NEW h \in Ids, cb.pc # "idle", cb.h = h, LogAndSuicide(h), UNCHANGED idPool
        PROVE  Lifecycle!Next \/ UNCHANGED <<idPool, active, Ended>>
    <3>1. CASE h \in active
      <4>1. gone' = [i \in Ids |-> IF i \in {h} THEN gone[i] + 1 ELSE gone[i]]
        BY ZenonT(60), <2>s DEF LogAndSuicide, IndInv, TypeOK
      <4> QED BY ZenonT(60), <2>s, <3>1, <4>1, <2>c DEF LogAndSuicide
    <3>2. CASE h \notin active
      <4>1. h \in inactive
        BY <2>s, <3>2 DEF IndInv, Lifetime, WatchersAlive
      <4>2. gone[h] > 0
        BY <3>2, <4>1 DEF IndInv, Lifetime, LogTellsActive, TypeOK
      <4>3. Ended' = Ended
        BY <2>s, <4>2 DEF LogAndSuicide, IndInv, TypeOK
      <4> QED BY <2>s, <3>2, <4>3 DEF LogAndSuicide
    <3> QED BY <3>1, <3>2
  <2>1. CASE Accept
    BY <2>1, <2>o DEF Accept
  <2>2. CASE SetupHandler
    BY <2>2, <2>o DEF SetupHandler
  <2>3. ASSUME NEW h \in Ids, ReadEnds(h) \/ WriteFails(h)
        PROVE  Lifecycle!Next \/ UNCHANGED <<idPool, active, Ended>>
    BY <2>3, <2>s DEF ReadEnds, WriteFails
  <2>4. ASSUME NEW T \in SUBSET Ids, NEW last \in Ids, CommandDisconnect(T, last)
        PROVE  Lifecycle!Next
    BY <2>4, <2>c DEF CommandDisconnect
  <2>5. CASE UNCHANGED <<idPool, active, gone>>
    BY SMTT(60), <2>5
  <2>6. \/ Accept \/ SetupHandler
        \/ \E h \in Ids : ReadEnds(h) \/ WriteFails(h)
        \/ \E T \in SUBSET Ids, last \in Ids : CommandDisconnect(T, last)
        \/ UNCHANGED <<idPool, active, gone>>
    BY DEF Next, Callback, IoCb, ReadBlocks, ReadHeader, ReadBody, WriteMessage, WriteBlocks,
           WriteDrained, IoCbEnds, PingerCb, ActivePingerCb, PeerCloses, CommandSendMsg, vars
  <2> QED BY <2>1, <2>2, <2>3, <2>4, <2>5, <2>6
<1> QED BY <1>1, <1>2, Inductive, PTL DEF Spec, ImplementsLifecycle, Lifecycle!Spec
=============================================================================
