--------------------------- MODULE LogServerProofs ---------------------------
(***************************************************************************)
(* Proofs about LogServer, for any number of sources and consumers, any    *)
(* types, interests, record lengths and limit, and any number of records.  *)
(***************************************************************************)
EXTENDS LogServer, SequenceTheorems, TLAPS

OutState ==
    [live: BOOLEAN, interests: SUBSET Types, write: BOOLEAN, started: BOOLEAN,
     cur: Seq(Records), left: 0 .. Chunks]

QueueState == [q: Seq(Records), total: Int]

LEMMA NoRecords == <<>> \in Seq(Records)
OBVIOUS

(* Replacing fields of an output handler keeps its type. *)
LEMMA OutUpdate ==
    ASSUME NEW o \in OutState, NEW cur \in Seq(Records), NEW left \in 0 .. Chunks,
           NEW w \in BOOLEAN, NEW t \in BOOLEAN
    PROVE  /\ [o EXCEPT !.cur = cur, !.left = left] \in OutState
           /\ [o EXCEPT !.cur = cur, !.left = left, !.write = w, !.started = t] \in OutState
<1> DEFINE S == Seq(Records)
           L == 0 .. Chunks
<1>1. /\ o \in [live: BOOLEAN, interests: SUBSET Types, write: BOOLEAN, started: BOOLEAN,
                cur: S, left: L]
      /\ cur \in S /\ left \in L
  BY DEF OutState
<1> HIDE DEF S, L
<1>2. /\ [o EXCEPT !.cur = cur, !.left = left]
            \in [live: BOOLEAN, interests: SUBSET Types, write: BOOLEAN, started: BOOLEAN,
                cur: S, left: L]
      /\ [o EXCEPT !.cur = cur, !.left = left, !.write = w, !.started = t]
            \in [live: BOOLEAN, interests: SUBSET Types, write: BOOLEAN, started: BOOLEAN,
                cur: S, left: L]
  BY ZenonT(60), <1>1
<1> QED BY <1>2 DEF OutState, S, L

LEMMA StoppedType ==
    ASSUME NEW o \in OutState
    PROVE  [o EXCEPT !.cur = <<>>, !.left = 0, !.write = FALSE, !.started = FALSE]
              \in OutState
<1>1. 0 \in 0 .. Chunks /\ FALSE \in BOOLEAN
  BY DEF Chunks
<1> QED BY <1>1, NoRecords, OutUpdate, Zenon

(* Taking the next record keeps the types of handler and queue. *)
LEMMA PoppedType ==
    ASSUME NEW o \in OutState, NEW q \in QueueState
    PROVE  Popped(o, q) \in OutState /\ PoppedQueue(q) \in QueueState
<1>1. CASE q.q # <<>>
  <2>1. Head(q.q) \in Records /\ Tail(q.q) \in Seq(Records)
    BY <1>1 DEF QueueState
  <2>2. <<Head(q.q)>> \in Seq(Records)
    BY <2>1
  <2>3. PoppedQueue(q) \in QueueState
    <3>1. q.total - Head(q.q).len \in Int
      BY <2>1 DEF QueueState, Records
    <3> QED BY <1>1, <2>1, <3>1 DEF PoppedQueue, QueueState
  <2>4. Popped(o, q) \in OutState
    <3> DEFINE one == <<Head(q.q)>>
    <3>0. one \in Seq(Records)
      BY <2>2
    <3>1. Popped(o, q) \in {[o EXCEPT !.cur = one, !.left = 3],
                  [o EXCEPT !.cur = <<>>, !.left = 0, !.write = FALSE, !.started = FALSE]}
      BY DEF Popped, Chunks
    <3> HIDE DEF one
    <3>2. [o EXCEPT !.cur = one, !.left = 3] \in OutState
      <4>1. 3 \in 0 .. Chunks /\ FALSE \in BOOLEAN
        BY SMTT(60) DEF Chunks
      <4> QED BY <3>0, <4>1, OutUpdate, Zenon
    <3> QED BY ZenonT(60), <3>1, <3>2, StoppedType
  <2> QED BY <2>3, <2>4
<1>2. CASE q.q = <<>>
  BY ZenonT(60), <1>2, StoppedType DEF Popped, PoppedQueue
<1> QED BY <1>1, <1>2

LEMMA NewType ==
    /\ Deleted \in OutState
    /\ NoQueue \in QueueState
    /\ \A I \in Interests : NewConsumer(I) \in OutState
    /\ \A o \in OutState : WithWrite(o) \in OutState
<1> DEFINE none == <<>>
<1>0. none \in Seq(Records)
  BY NoRecords
<1>1. Deleted \in OutState
  BY <1>0 DEF Deleted, OutState, Chunks
<1>2. NoQueue \in QueueState
  BY <1>0 DEF NoQueue, QueueState
<1>3. \A I \in Interests : NewConsumer(I) \in OutState
  BY <1>0, SetsAssumption DEF NewConsumer, OutState, Chunks
<1>4. \A o \in OutState : WithWrite(o) \in OutState
  BY ZenonT(60) DEF WithWrite, OutState
<1> QED BY <1>1, <1>2, <1>3, <1>4

(* The record that the payload of i completes. *)
Record(i, type) ==
    [n |-> Len(log) + 1, type |-> type, len |-> in[i].len, src |-> in[i].id]

LEMMA TypeStep == TypeOK /\ [Next]_vars => TypeOK'
<1> SUFFICES ASSUME TypeOK, [Next]_vars PROVE TypeOK'
  OBVIOUS
<1>t. /\ out \in [Consumers -> OutState] /\ queues \in [Consumers -> QueueState]
      /\ log \in Seq(Records) /\ got \in [Consumers -> Seq(Records)]
  BY DEF TypeOK, OutState, QueueState
<1>g. ASSUME /\ out' \in [Consumers -> OutState] /\ queues' \in [Consumers -> QueueState]
             /\ UNCHANGED <<clock, taken, listening, in, log>>
             /\ peerGone' \subseteq Consumers
             /\ since' \in [Consumers -> Nat] /\ got' \in [Consumers -> Seq(Records)]
      PROVE  TypeOK'
  BY <1>g DEF TypeOK, OutState, QueueState
<1>1. CASE Tick
  BY <1>1 DEF Tick, TypeOK
<1>2. ASSUME NEW i \in Inputs, NEW id \in Times, AcceptInput(i, id) PROVE TypeOK'
  BY <1>2 DEF AcceptInput, TypeOK
<1>3. ASSUME NEW i \in Inputs, NEW len \in Lens, InputHeader(i, len) PROVE TypeOK'
  <2> DEFINE In == [state: {"closed", "header", "log"}, id: Times, len: Nat]
             n == [[in[i] EXCEPT !.state = "log"] EXCEPT !.len = len]
  <2>1. in \in [Inputs -> In] /\ len \in Nat
    BY <1>3, SetsAssumption DEF TypeOK
  <2>2. n \in In
    BY ZenonT(60), <2>1
  <2>3. in' = [in EXCEPT ![i] = n]
    BY ZenonT(60), <1>3 DEF InputHeader
  <2> HIDE DEF In, n
  <2>4. in' \in [Inputs -> In]
    BY <2>1, <2>2, <2>3
  <2> QED BY <1>3, <2>4 DEF InputHeader, TypeOK, In
<1>4. ASSUME NEW i \in Inputs, NEW type \in Types, InputRecord(i, type) PROVE TypeOK'
  <2> DEFINE r == Record(i, type)
  <2>1. r \in Records
    BY DEF Record, Records, TypeOK
  <2>2. CollectorAppend(r)
    BY <1>4 DEF InputRecord, Record
  <2> HIDE DEF r
  <2>3. log' \in Seq(Records)
    BY <2>1, <2>2, <1>t DEF CollectorAppend
  <2>4. queues' \in [Consumers -> QueueState]
    <3>1. \A c \in Consumers :
             [q |-> Append(queues[c].q, r), total |-> queues[c].total + r.len] \in QueueState
      <4> SUFFICES ASSUME NEW c \in Consumers
                   PROVE  /\ Append(queues[c].q, r) \in Seq(Records)
                          /\ queues[c].total + r.len \in Int
        BY DEF QueueState
      <4>1. queues[c].q \in Seq(Records) /\ queues[c].total \in Int /\ r.len \in Nat
        BY ZenonT(60), <2>1, <1>t DEF QueueState, Records
      <4> QED BY <2>1, <4>1
    <3> QED BY <2>2, <3>1, <1>t, NewType DEF CollectorAppend
  <2>5. out' \in [Consumers -> OutState]
    BY <2>2, <1>t, NewType DEF CollectorAppend
  <2>6. since' \in [Consumers -> Nat] /\ got' \in [Consumers -> Seq(Records)]
    BY <2>2 DEF CollectorAppend, TypeOK
  <2>7. peerGone' \subseteq Consumers
    BY <2>2 DEF CollectorAppend, TypeOK
  <2>8. in' \in [Inputs -> [state: {"closed", "header", "log"}, id: Times, len: Nat]]
    <3>1. /\ in' = [in EXCEPT ![i] = [in[i] EXCEPT !.state = "header", !.len = 0]]
          /\ in \in [Inputs -> [state: {"closed", "header", "log"}, id: Times, len: Nat]]
      BY ZenonT(60), <1>4 DEF InputRecord, TypeOK
    <3> QED BY ZenonT(60), <3>1
  <2> QED BY <1>4, <2>3, <2>4, <2>5, <2>6, <2>7, <2>8
          DEF InputRecord, TypeOK, OutState, QueueState
<1>5. ASSUME NEW i \in Inputs, InputEnds(i) PROVE TypeOK'
  BY <1>5, SizesAssumption DEF InputEnds, TypeOK, ClosedIn, Times
<1>6. ASSUME NEW c \in Consumers, NEW I \in Interests, AcceptOutput(c, I) PROVE TypeOK'
  <2>1. Len(log) \in Nat
    BY <1>t
  <2> QED BY SMTT(60), <1>6, <1>g, <1>t, <2>1, NewType DEF AcceptOutput, TypeOK
<1>7. ASSUME NEW s \in Sockets, AcceptFails(s) PROVE TypeOK'
  BY <1>7 DEF AcceptFails, TypeOK
<1>8. ASSUME NEW c \in Consumers, NEW k \in 0 .. Chunks, OutputCb(c, k) PROVE TypeOK'
  <2>1. CASE k < out[c].left
    <3>1. [out[c] EXCEPT !.left = out[c].left - k] \in OutState
      <4>1. out[c] \in OutState /\ out[c].left - k \in 0 .. Chunks
        BY <2>1, <1>t DEF OutState, Chunks
      <4> QED BY SMTT(60), <4>1 DEF OutState
    <3> QED BY ZenonT(60), <1>8, <2>1, <3>1, <1>g, <1>t DEF OutputCb, TypeOK
  <2>2. CASE ~(k < out[c].left)
    <3>1. Popped(out[c], queues[c]) \in OutState /\ PoppedQueue(queues[c]) \in QueueState
      BY <1>t, PoppedType
    <3>2. got[c] \o out[c].cur \in Seq(Records)
      BY <1>t DEF OutState
    <3>3. /\ out' = [out EXCEPT ![c] = Popped(out[c], queues[c])]
          /\ queues' = [queues EXCEPT ![c] = PoppedQueue(queues[c])]
          /\ got' = [got EXCEPT ![c] = got[c] \o out[c].cur]
          /\ UNCHANGED <<clock, taken, listening, in, peerGone, log, since>>
      BY ZenonT(60), <1>8, <2>2 DEF OutputCb
    <3>4. out' \in [Consumers -> OutState] /\ queues' \in [Consumers -> QueueState]
      BY <3>1, <3>3, <1>t
    <3>5. got' \in [Consumers -> Seq(Records)]
      BY <3>2, <3>3, <1>t
    <3> QED BY SMTT(60), <3>3, <3>4, <3>5, <1>g DEF TypeOK
  <2> QED BY <2>1, <2>2
<1>9. ASSUME NEW c \in Consumers, OutputFails(c) PROVE TypeOK'
  <2>1. out' \in [Consumers -> OutState] /\ queues' \in [Consumers -> QueueState]
    BY <1>9, <1>t, NewType DEF OutputFails
  <2>2. since' \in [Consumers -> Nat] /\ got' \in [Consumers -> Seq(Records)]
    BY <1>9, NoRecords DEF OutputFails, TypeOK
  <2> QED BY SMTT(60), <1>9, <1>g, <2>1, <2>2 DEF OutputFails, TypeOK
<1>11. ASSUME NEW c \in Consumers, PeerCloses(c) PROVE TypeOK'
  BY <1>11 DEF PeerCloses, TypeOK
<1>10. CASE UNCHANGED vars
  BY <1>10 DEF vars, TypeOK
<1> QED BY <1>1, <1>2, <1>3, <1>4, <1>5, <1>6, <1>7, <1>8, <1>9, <1>10, <1>11 DEF Next

(* Every variable keeps its type. *)
THEOREM TypeCorrect == Spec => []TypeOK
<1>1. Init => TypeOK
  BY NewType, SizesAssumption
     DEF Init, TypeOK, ClosedIn, Times, Deleted, NoQueue, OutState, QueueState, Chunks
<1> QED BY <1>1, TypeStep, PTL DEF Spec

-----------------------------------------------------------------------------
(* What holds of a consumer o with queue q whose peer received g: a        *)
(* deleted one has left nothing behind, nothing is half written without    *)
(* being remembered, queued records are not empty, and whatever is to be   *)
(* written is waited for.                                                  *)
ConsumerOK(o, q, g) ==
    /\ ~o.live => q.q = <<>> /\ g = <<>> /\ o.cur = <<>>
    /\ o.left = 0 => o.cur = <<>>
    /\ \A k \in 1 .. Len(q.q) : q.q[k].len > 0
    /\ o.write => o.started
    /\ o.live /\ (o.left > 0 \/ q.q # <<>>) => o.write
    /\ q.total <= MaxSize

LEMMA FreshOK ==
    /\ ConsumerOK(Deleted, NoQueue, <<>>)
    /\ \A I \in Interests : ConsumerOK(NewConsumer(I), NoQueue, <<>>)
BY SizesAssumption DEF ConsumerOK, Deleted, NoQueue, NewConsumer

(* collector::append for a consumer within its limit *)
LEMMA AppendOK ==
    ASSUME NEW o \in OutState, NEW q \in QueueState, NEW g, NEW r \in Records,
           ConsumerOK(o, q, g), o.live, r.len > 0, q.total + r.len <= MaxSize
    PROVE  ConsumerOK(WithWrite(o), [q |-> Append(q.q, r), total |-> q.total + r.len], g)
<1> DEFINE w == WithWrite(o)
<1>1. /\ w.live /\ w.cur = o.cur /\ w.left = o.left /\ w.write /\ w.started
  BY DEF WithWrite, OutState, ConsumerOK
<1>2. \A k \in 1 .. Len(Append(q.q, r)) : Append(q.q, r)[k].len > 0
  <2>1. q.q \in Seq(Records)
    BY DEF QueueState
  <2> QED BY <2>1 DEF ConsumerOK
<1> HIDE DEF w
<1>3. ConsumerOK(w, [q |-> Append(q.q, r), total |-> q.total + r.len], g)
  BY <1>1, <1>2 DEF ConsumerOK
<1> QED BY <1>3 DEF w

(* io_cb writes some chunks, not all. *)
LEMMA PartOK ==
    ASSUME NEW o \in OutState, NEW q, NEW g, ConsumerOK(o, q, g),
           NEW k \in Nat, k < o.left
    PROVE  ConsumerOK([o EXCEPT !.left = o.left - k], q, g)
<1> DEFINE p == [o EXCEPT !.left = o.left - k]
<1>1. /\ p.live = o.live /\ p.cur = o.cur /\ p.write = o.write /\ p.started = o.started
      /\ p.left = o.left - k
  BY DEF OutState
<1>2. p.left > 0 /\ o.left > 0
  BY <1>1 DEF OutState, Chunks
<1> HIDE DEF p
<1>3. ConsumerOK(p, q, g)
  BY <1>1, <1>2 DEF ConsumerOK
<1> QED BY <1>3 DEF p

(* io_cb has written all chunks and takes the next record, or sleeps. *)
LEMMA PopOK ==
    ASSUME NEW o \in OutState, NEW q \in QueueState, NEW g, ConsumerOK(o, q, g),
           o.live, o.write, o.started, NEW g2
    PROVE  /\ ConsumerOK(Popped(o, q), PoppedQueue(q), g2)
           /\ Popped(o, q).live /\ Popped(o, q).interests = o.interests
           /\ Popped(o, q).cur \o PoppedQueue(q).q = q.q
<1> DEFINE p == Popped(o, q)
           s == PoppedQueue(q)
<1>0. q.q \in Seq(Records) /\ q.total \in Int
  BY DEF QueueState
<1>1. CASE q.q # <<>>
  <2> DEFINE h == Head(q.q)
             one == <<h>>
  <2>1. h.len > 0 /\ h \in Records
    BY <1>0, <1>1 DEF ConsumerOK
  <2>2. p = [o EXCEPT !.cur = one, !.left = 3]
    BY <1>1, <2>1 DEF Popped, Chunks
  <2>3. s.q = Tail(q.q) /\ s.total = q.total - h.len
    BY <1>1 DEF PoppedQueue
  <2>4. one \o Tail(q.q) = q.q
    BY <1>0, <1>1
  <2> HIDE DEF one, h
  <2>5. /\ p.live /\ p.write /\ p.started /\ p.left = 3 /\ p.cur = one
        /\ p.interests = o.interests
    BY <2>2 DEF OutState
  <2>6. \A k \in 1 .. Len(Tail(q.q)) : Tail(q.q)[k].len > 0
    BY <1>0, <1>1 DEF ConsumerOK
  <2>7. s.total <= MaxSize
    BY <1>0, <2>1, <2>3, SizesAssumption DEF ConsumerOK, Records
  <2> HIDE DEF p, s
  <2>8. ConsumerOK(p, s, g2)
    BY <2>3, <2>5, <2>6, <2>7 DEF ConsumerOK
  <2> QED BY <2>3, <2>4, <2>5, <2>8 DEF p, s
<1>2. CASE q.q = <<>>
  <2>1. /\ p = [o EXCEPT !.cur = <<>>, !.left = 0, !.write = FALSE, !.started = FALSE]
        /\ s = q
    BY <1>2 DEF Popped, PoppedQueue
  <2>2. /\ p.live /\ ~p.write /\ p.left = 0 /\ p.cur = <<>> /\ p.interests = o.interests
    BY <2>1 DEF OutState
  <2>3. p.cur \o s.q = q.q
    BY <2>1, <2>2, <1>2
  <2> HIDE DEF p
  <2>4. ConsumerOK(p, q, g2)
    BY <2>2, <1>2 DEF ConsumerOK
  <2> QED BY <2>1, <2>2, <2>3, <2>4 DEF p
<1> QED BY ZenonT(60), <1>1, <1>2

-----------------------------------------------------------------------------
(* A new record that is wanted keeps a stream exact when it is appended to *)
(* it.                                                                     *)
LEMMA ExactWanted ==
    ASSUME NEW s \in Seq(Records), NEW from \in Nat, NEW l \in Seq(Records), NEW I,
           NEW r \in Records, r.n = Len(l) + 1, r.type \in I, from <= Len(l),
           Exact(s, from, l, I)
    PROVE  Exact(Append(s, r), from, Append(l, r), I)
<1> DEFINE s2 == Append(s, r)
           l2 == Append(l, r)
<1>1. /\ Len(l2) = Len(l) + 1 /\ l2[Len(l) + 1] = r
      /\ \A n \in 1 .. Len(l) : l2[n] = l[n]
  OBVIOUS
<1>2. /\ DOMAIN s = 1 .. Len(s) /\ DOMAIN s2 = 1 .. Len(s) + 1 /\ s2[Len(s) + 1] = r
      /\ \A k \in 1 .. Len(s) : s2[k] = s[k]
      /\ Len(s) \in Nat /\ Len(l) \in Nat
  OBVIOUS
<1> HIDE DEF s2, l2
<1>3. Due(from, l2, I) = Due(from, l, I) \cup {Len(l) + 1}
  BY <1>1, <1>2 DEF Due
<1>4. \A k \in 1 .. Len(s) : s[k].n \in Due(from, l, I) /\ s[k] = l[s[k].n]
  BY <1>2 DEF Exact
<1>5. \A k \in 1 .. Len(s) : s[k].n \in 1 .. Len(l)
  BY <1>4, <1>2 DEF Due
<1>6. \A j, k \in DOMAIN s2 : j < k => s2[j].n < s2[k].n
  BY SMTT(60), <1>2, <1>5 DEF Exact
<1>7. \A k \in DOMAIN s2 : s2[k].n \in Due(from, l2, I) /\ s2[k] = l2[s2[k].n]
  BY SMTT(60), <1>1, <1>2, <1>3, <1>4, <1>5
<1>8. \A n \in Due(from, l2, I) : \E k \in DOMAIN s2 : s2[k].n = n
  BY <1>2, <1>3 DEF Exact
<1>9. Exact(s2, from, l2, I)
  BY <1>6, <1>7, <1>8 DEF Exact
<1> QED BY <1>9 DEF s2, l2

(* A new record that is not wanted changes nothing. *)
LEMMA ExactUnwanted ==
    ASSUME NEW s \in Seq(Records), NEW from \in Nat, NEW l \in Seq(Records), NEW I,
           NEW r \in Records, r.type \notin I, Exact(s, from, l, I)
    PROVE  Exact(s, from, Append(l, r), I)
<1> DEFINE l2 == Append(l, r)
<1>1. /\ Len(l2) = Len(l) + 1 /\ l2[Len(l) + 1] = r /\ Len(l) \in Nat
      /\ \A n \in 1 .. Len(l) : l2[n] = l[n]
  OBVIOUS
<1> HIDE DEF l2
<1>2. Due(from, l2, I) = Due(from, l, I)
  BY <1>1 DEF Due
<1>3. \A n \in Due(from, l, I) : l2[n] = l[n]
  BY <1>1 DEF Due
<1>4. Exact(s, from, l2, I)
  BY <1>2, <1>3 DEF Exact
<1> QED BY <1>4 DEF l2

(* A consumer starts with nothing due. *)
LEMMA ExactEmpty ==
    ASSUME NEW l \in Seq(Records), NEW I
    PROVE  Exact(<<>>, Len(l), l, I)
<1>1. Len(l) \in Nat
  OBVIOUS
<1>2. Due(Len(l), l, I) = {}
  BY <1>1 DEF Due
<1> QED BY <1>2 DEF Exact

-----------------------------------------------------------------------------
(* The inductive invariant, beyond the types, of one consumer *)
Served(c) ==
    /\ ConsumerOK(out[c], queues[c], got[c])
    /\ since[c] <= Len(log)
    /\ out[c].live => Exact(Stream(c), since[c], log, out[c].interests)

IndInv == TypeOK /\ \A c \in Consumers : Served(c)

(* A consumer that a step does not touch stays served. *)
LEMMA ServedFrame ==
    ASSUME NEW c \in Consumers, Served(c), out'[c] = out[c], queues'[c] = queues[c],
           got'[c] = got[c], since'[c] = since[c], log' = log
    PROVE  Served(c)'
BY DEF Served, Stream

(* A deleted consumer leaves nothing behind. *)
LEMMA ServedDeleted ==
    ASSUME TypeOK', NEW c \in Consumers, out'[c] = Deleted, queues'[c] = NoQueue,
           got'[c] = <<>>, since'[c] = 0
    PROVE  Served(c)'
<1>1. Len(log') \in Nat /\ ~Deleted.live
  BY DEF TypeOK, Deleted
<1> QED BY <1>1, FreshOK DEF Served

LEMMA ConcatAppend ==
    ASSUME NEW a \in Seq(Records), NEW b \in Seq(Records), NEW q \in Seq(Records),
           NEW r \in Records
    PROVE  (a \o b) \o Append(q, r) = Append((a \o b) \o q, r)
<1>1. a \o b \in Seq(Records)
  OBVIOUS
<1> DEFINE x == a \o b
<1>2. x \in Seq(Records)
  BY <1>1
<1> HIDE DEF x
<1>3. x \o Append(q, r) = Append(x \o q, r)
  BY SMTT(60), <1>2
<1> QED BY <1>3 DEF x

(* collector::append serves every consumer: the interested ones within the *)
(* limit get the record, the others lose nothing.                          *)
LEMMA AppendServes ==
    ASSUME TypeOK, TypeOK', \A c \in Consumers : Served(c),
           NEW r \in Records, r.n = Len(log) + 1, r.len > 0, CollectorAppend(r)
    PROVE  \A c \in Consumers : Served(c)'
<1> SUFFICES ASSUME NEW c \in Consumers PROVE Served(c)'
  OBVIOUS
<1>0. /\ out[c] \in OutState /\ queues[c] \in QueueState /\ got[c] \in Seq(Records)
      /\ log \in Seq(Records) /\ since[c] \in Nat /\ Len(log) \in Nat
      /\ out[c].cur \in Seq(Records) /\ queues[c].q \in Seq(Records)
      /\ queues[c].total + r.len \in Int
  <2>1. /\ out[c] \in OutState /\ queues[c] \in QueueState /\ got[c] \in Seq(Records)
        /\ log \in Seq(Records) /\ since[c] \in Nat
    BY DEF TypeOK, OutState, QueueState
  <2>2. /\ out[c].cur \in Seq(Records) /\ queues[c].q \in Seq(Records)
        /\ queues[c].total \in Int /\ r.len \in Nat
    BY <2>1 DEF OutState, QueueState, Records
  <2>3. Len(log) \in Nat /\ queues[c].total + r.len \in Int
    BY SMTT(60), <2>1, <2>2
  <2> QED BY <2>1, <2>2, <2>3
<1>l. log' = Append(log, r) /\ Len(log') = Len(log) + 1
  BY <1>0 DEF CollectorAppend
<1>s. Stream(c) \in Seq(Records)
  BY SMTT(60), <1>0 DEF Stream
<1>1. CASE c \in Morose(r)
  BY SMTT(60), <1>1, ServedDeleted DEF CollectorAppend
<1>2. CASE c \in Interested(r) \ Morose(r)
  <2>1. /\ out'[c] = WithWrite(out[c]) /\ since'[c] = since[c] /\ got'[c] = got[c]
        /\ queues'[c] = [q |-> Append(queues[c].q, r), total |-> queues[c].total + r.len]
    BY <1>2 DEF CollectorAppend
  <2>2. out[c].live /\ r.type \in out[c].interests /\ queues[c].total + r.len <= MaxSize
    BY SMTT(60), <1>0, <1>2, SizesAssumption DEF Interested, Morose
  <2>3. ConsumerOK(out'[c], queues'[c], got'[c])
    BY ZenonT(60), <1>0, <2>1, <2>2, AppendOK DEF Served
  <2>4. out'[c].cur = out[c].cur /\ out'[c].interests = out[c].interests
    BY SMTT(60), <1>0, <2>1 DEF WithWrite, OutState
  <2>5. Stream(c)' = Append(Stream(c), r)
    <3>1. Stream(c)' = (got[c] \o out[c].cur) \o Append(queues[c].q, r)
      <4>1. queues'[c].q = Append(queues[c].q, r)
        BY SMTT(60), <2>1
      <4> QED BY <4>1, <2>1, <2>4, Zenon DEF Stream
    <3>2. @ = Append((got[c] \o out[c].cur) \o queues[c].q, r)
      BY ZenonT(60), <1>0, ConcatAppend
    <3> QED BY <3>1, <3>2 DEF Stream
  <2>6. Exact(Append(Stream(c), r), since[c], Append(log, r), out[c].interests)
    BY <1>0, <1>s, <2>2, ExactWanted DEF Served
  <2>7. since[c] <= Len(log)
    BY DEF Served
  <2> QED BY SMTT(60), <1>0, <1>l, <2>1, <2>3, <2>4, <2>5, <2>6, <2>7 DEF Served
<1>3. CASE c \notin Interested(r)
  <2>1. /\ out'[c] = out[c] /\ since'[c] = since[c] /\ got'[c] = got[c]
        /\ queues'[c] = queues[c]
    BY <1>3 DEF CollectorAppend, Morose
  <2>2. Stream(c)' = Stream(c)
    BY <2>1 DEF Stream
  <2>3. ASSUME out[c].live
        PROVE  Exact(Stream(c), since[c], Append(log, r), out[c].interests)
    <3>1. r.type \notin out[c].interests
      BY <1>3, <2>3 DEF Interested
    <3> QED BY <1>0, <1>s, <2>3, <3>1, ExactUnwanted DEF Served
  <2>4. since[c] <= Len(log)
    BY DEF Served
  <2> QED BY <1>0, <1>l, <2>1, <2>2, <2>3, <2>4 DEF Served
<1> QED BY <1>1, <1>2, <1>3 DEF Morose

(* io_cb of a consumer: whatever it writes, its stream is the same. *)
LEMMA OutputServes ==
    ASSUME TypeOK, NEW c \in Consumers, Served(c), NEW k \in 0 .. Chunks, OutputCb(c, k)
    PROVE  Served(c)'
<1>0. /\ out[c] \in OutState /\ queues[c] \in QueueState /\ got[c] \in Seq(Records)
      /\ out[c].cur \in Seq(Records) /\ queues[c].q \in Seq(Records)
      /\ out \in [Consumers -> OutState] /\ queues \in [Consumers -> QueueState]
      /\ got \in [Consumers -> Seq(Records)]
  BY DEF TypeOK, OutState, QueueState
<1>1. log' = log /\ since'[c] = since[c]
  BY DEF OutputCb
<1>2. CASE k < out[c].left
  <2>1. /\ out'[c] = [out[c] EXCEPT !.left = out[c].left - k]
        /\ queues'[c] = queues[c] /\ got'[c] = got[c]
    BY <1>0, <1>2 DEF OutputCb
  <2>2. /\ out'[c].cur = out[c].cur /\ out'[c].live = out[c].live
        /\ out'[c].interests = out[c].interests
    BY <1>0, <2>1 DEF OutState
  <2>3. ConsumerOK(out'[c], queues'[c], got'[c])
    BY <1>0, <1>2, <2>1, PartOK DEF Served
  <2>4. Stream(c)' = Stream(c)
    BY ZenonT(60), <2>1, <2>2 DEF Stream
  <2> QED BY <1>1, <2>2, <2>3, <2>4 DEF Served
<1>3. CASE ~(k < out[c].left)
  <2>1. /\ out'[c] = Popped(out[c], queues[c])
        /\ queues'[c] = PoppedQueue(queues[c]) /\ got'[c] = got[c] \o out[c].cur
    BY <1>0, <1>3 DEF OutputCb
  <2>2. out[c].live /\ out[c].write /\ out[c].started
    BY DEF OutputCb, Writable
  <2>3. /\ ConsumerOK(out'[c], queues'[c], got'[c])
        /\ out'[c].live /\ out'[c].interests = out[c].interests
        /\ out'[c].cur \o queues'[c].q = queues[c].q
    <3> DEFINE g2 == got[c] \o out[c].cur
    <3>1. ConsumerOK(out[c], queues[c], got[c])
      BY DEF Served
    <3>2. /\ ConsumerOK(Popped(out[c], queues[c]), PoppedQueue(queues[c]), g2)
          /\ Popped(out[c], queues[c]).live
          /\ Popped(out[c], queues[c]).interests = out[c].interests
          /\ Popped(out[c], queues[c]).cur \o PoppedQueue(queues[c]).q = queues[c].q
      <4> HIDE DEF g2
      <4> QED BY <1>0, <2>2, <3>1, PopOK, Zenon
    <3> QED BY <2>1, <3>2, Zenon
  <2>4. out'[c].cur \in Seq(Records) /\ queues'[c].q \in Seq(Records)
    <3>1. out'[c] \in OutState /\ queues'[c] \in QueueState
      BY SMTT(60), <1>0, <2>1, PoppedType
    <3> QED BY <3>1 DEF OutState, QueueState
  <2>5. Stream(c)' = Stream(c)
    <3>1. Stream(c)' = ((got[c] \o out[c].cur) \o out'[c].cur) \o queues'[c].q
      BY SMTT(60), <2>1 DEF Stream
    <3>2. @ = (got[c] \o out[c].cur) \o (out'[c].cur \o queues'[c].q)
      <4>1. got[c] \o out[c].cur \in Seq(Records)
        BY <1>0
      <4> DEFINE x == got[c] \o out[c].cur
                 y == out'[c].cur
                 z == queues'[c].q
      <4>2. x \in Seq(Records) /\ y \in Seq(Records) /\ z \in Seq(Records)
        BY <4>1, <2>4
      <4> HIDE DEF x, y, z
      <4>3. (x \o y) \o z = x \o (y \o z)
        BY SMTT(60), <4>2
      <4> QED BY <4>3 DEF x, y, z
    <3> QED BY ZenonT(60), <3>1, <3>2, <2>3 DEF Stream
  <2> QED BY <1>1, <2>2, <2>3, <2>5 DEF Served
<1> QED BY <1>2, <1>3

LEMMA Step == IndInv /\ [Next]_vars => IndInv'
<1> SUFFICES ASSUME IndInv, [Next]_vars PROVE \A c \in Consumers : Served(c)'
  BY TypeStep DEF IndInv
<1>0. TypeOK /\ TypeOK' /\ \A c \in Consumers : Served(c)
  BY TypeStep DEF IndInv
<1>f. ASSUME NEW S \in SUBSET Consumers, log' = log,
             \A c \in Consumers \ S : /\ out'[c] = out[c] /\ queues'[c] = queues[c]
                                      /\ got'[c] = got[c] /\ since'[c] = since[c],
             \A c \in S : Served(c)'
      PROVE  \A c \in Consumers : Served(c)'
  BY <1>f, <1>0, ServedFrame
<1>u. ASSUME UNCHANGED <<out, queues, log, since, got>>
      PROVE  \A c \in Consumers : Served(c)'
  BY <1>u, <1>0, ServedFrame
<1>1. CASE Tick
  BY <1>1, <1>u DEF Tick
<1>2. ASSUME NEW i \in Inputs, NEW id \in Times, AcceptInput(i, id)
      PROVE  \A c \in Consumers : Served(c)'
  BY <1>2, <1>u DEF AcceptInput
<1>3. ASSUME NEW i \in Inputs, NEW len \in Lens, InputHeader(i, len)
      PROVE  \A c \in Consumers : Served(c)'
  BY <1>3, <1>u DEF InputHeader
<1>4. ASSUME NEW i \in Inputs, NEW type \in Types, InputRecord(i, type)
      PROVE  \A c \in Consumers : Served(c)'
  <2> DEFINE r == Record(i, type)
  <2>1. r \in Records /\ r.n = Len(log) + 1
    BY <1>0 DEF Record, Records, TypeOK
  <2>2. r.len > 0 /\ CollectorAppend(r)
    BY <1>4 DEF InputRecord, Record, Hungry
  <2> HIDE DEF r
  <2> QED BY <1>0, <2>1, <2>2, AppendServes
<1>5. ASSUME NEW i \in Inputs, InputEnds(i)
      PROVE  \A c \in Consumers : Served(c)'
  BY <1>5, <1>u DEF InputEnds
<1>6. ASSUME NEW c \in Consumers, NEW I \in Interests, AcceptOutput(c, I)
      PROVE  \A d \in Consumers : Served(d)'
  <2>1. /\ out'[c] = NewConsumer(I) /\ queues'[c] = NoQueue /\ got'[c] = got[c]
        /\ since'[c] = Len(log) /\ log' = log /\ log \in Seq(Records)
    BY SMTT(60), <1>6, <1>0 DEF AcceptOutput, TypeOK
  <2>2. got[c] = <<>>
    BY <1>6, <1>0 DEF AcceptOutput, Served, ConsumerOK
  <2>3. Stream(c)' = <<>>
    BY SMTT(60), <2>1, <2>2 DEF Stream, NewConsumer, NoQueue
  <2>4. Served(c)'
    BY SMTT(60), <2>1, <2>2, <2>3, FreshOK, ExactEmpty DEF Served, NewConsumer
  <2>5. \A d \in Consumers \ {c} : /\ out'[d] = out[d] /\ queues'[d] = queues[d]
                                   /\ got'[d] = got[d] /\ since'[d] = since[d]
    BY <1>6, <1>0 DEF AcceptOutput, TypeOK
  <2> QED BY SMTT(60), <2>1, <2>4, <2>5, <1>0, ServedFrame
<1>7. ASSUME NEW s \in Sockets, AcceptFails(s)
      PROVE  \A c \in Consumers : Served(c)'
  BY SMTT(60), <1>7, <1>u DEF AcceptFails
<1>8. ASSUME NEW c \in Consumers, NEW k \in 0 .. Chunks, OutputCb(c, k)
      PROVE  \A d \in Consumers : Served(d)'
  <2>1. Served(c)'
    BY <1>8, <1>0, OutputServes
  <2>2. \A d \in Consumers \ {c} : /\ out'[d] = out[d] /\ queues'[d] = queues[d]
                                   /\ got'[d] = got[d] /\ since'[d] = since[d]
    BY ZenonT(60), <1>8, <1>0 DEF OutputCb, TypeOK
  <2>3. log' = log
    BY <1>8 DEF OutputCb
  <2> QED BY <2>1, <2>2, <2>3, <1>0, ServedFrame
<1>9. ASSUME NEW c \in Consumers, OutputFails(c)
      PROVE  \A d \in Consumers : Served(d)'
  <2>1. Served(c)'
    BY SMTT(60), <1>9, <1>0, ServedDeleted DEF OutputFails, TypeOK
  <2>2. \A d \in Consumers \ {c} : /\ out'[d] = out[d] /\ queues'[d] = queues[d]
                                   /\ got'[d] = got[d] /\ since'[d] = since[d]
    BY <1>9, <1>0 DEF OutputFails, TypeOK
  <2>3. log' = log
    BY <1>9 DEF OutputFails
  <2> QED BY <2>1, <2>2, <2>3, <1>0, ServedFrame
<1>10. ASSUME NEW c \in Consumers, PeerCloses(c)
       PROVE  \A d \in Consumers : Served(d)'
  BY <1>10, <1>u DEF PeerCloses
<1>11. CASE UNCHANGED vars
  BY SMTT(60), <1>11, <1>u DEF vars
<1> QED BY <1>1, <1>2, <1>3, <1>4, <1>5, <1>6, <1>7, <1>8, <1>9, <1>10, <1>11 DEF Next

LEMMA Inductive == Spec => []IndInv
<1>1. Init => TypeOK
  BY NewType, SizesAssumption
     DEF Init, TypeOK, ClosedIn, Times, Deleted, NoQueue, OutState, QueueState, Chunks
<1>2. ASSUME Init, NEW c \in Consumers PROVE Served(c)
  BY <1>2, FreshOK DEF Init, Served, Deleted
<1>3. Init => IndInv
  BY <1>1, <1>2 DEF IndInv
<1> QED BY <1>3, Step, PTL DEF Spec

(* A consumer gets exactly the records of its interest that were logged    *)
(* after it connected, in order, for any number of records (append, pop,   *)
(* output io_cb).                                                          *)
THEOREM StreamsAreExact == Spec => []ExactStream
<1>1. IndInv => ExactStream
  BY SMTT(60) DEF IndInv, Served, ExactStream
<1> QED BY <1>1, Inductive, PTL

(* No record is left behind by a consumer that went to sleep.  *)
THEOREM WakeupsAreKept == Spec => []NoLostWakeup
<1>1. IndInv => NoLostWakeup
  BY DEF IndInv, Served, ConsumerOK, NoLostWakeup, Writable
<1> QED BY <1>1, Inductive, PTL

(* No consumer ever has more than logger.max_buffer queued. *)
THEOREM BuffersAreBounded == Spec => []BufferBounded
<1>1. IndInv => BufferBounded
  BY DEF IndInv, Served, ConsumerOK, BufferBounded
<1> QED BY <1>1, Inductive, PTL

-----------------------------------------------------------------------------
(* The ids of sources.  Every id in use, by a connection or in a record, is *)
(* in taken_ids; a record takes its id from an open connection.             *)

Marked ==
    /\ \A n \in DOMAIN log : log[n].src \in taken
    /\ \A i \in Inputs : in[i].state # "closed" => in[i].id \in taken

(* Steps that log nothing and open no connection. *)
LEMMA MarkedFrame ==
    ASSUME Marked, taken' = taken, log' = log,
           \A i \in Inputs : in'[i].state # "closed" =>
               in[i].state # "closed" /\ in'[i].id = in[i].id
    PROVE  Marked'
BY DEF Marked

LEMMA MarkedStep == TypeOK /\ Marked /\ [Next]_vars => Marked'
<1> SUFFICES ASSUME TypeOK, Marked, [Next]_vars
             PROVE  Marked'
  OBVIOUS
<1>0. in \in [Inputs -> [state: {"closed", "header", "log"}, id: Times, len: Nat]]
  BY DEF TypeOK
<1>1. ASSUME NEW i \in Inputs, NEW id \in Times, AcceptInput(i, id)
      PROVE  Marked'
  <2>1. /\ taken' = taken \cup {id} /\ log' = log
        /\ in' = [in EXCEPT ![i] = [state |-> "header", id |-> id, len |-> 0]]
    BY <1>1 DEF AcceptInput
  <2>2. ASSUME NEW j \in Inputs, in'[j].state # "closed" PROVE in'[j].id \in taken'
    BY <1>0, <2>1, <2>2 DEF Marked
  <2> QED BY <2>1, <2>2 DEF Marked
<1>2. ASSUME NEW i \in Inputs, NEW len \in Lens, InputHeader(i, len)
      PROVE  Marked'
  BY <1>0, <1>2, MarkedFrame DEF InputHeader
<1>3. ASSUME NEW i \in Inputs, NEW type \in Types, InputRecord(i, type)
      PROVE  Marked'
  <2> DEFINE r == [n |-> Len(log) + 1, type |-> type, len |-> in[i].len, src |-> in[i].id]
  <2>1. /\ taken' = taken /\ log' = Append(log, r) /\ in[i].state = "log"
        /\ in' = [in EXCEPT ![i].state = "header", ![i].len = 0]
    BY <1>3 DEF InputRecord, CollectorAppend
  <2>2. r.src \in taken
    BY <2>1 DEF Marked
  <2> HIDE DEF r
  <2>3. log \in Seq(Records)
    BY DEF TypeOK
  <2>4. ASSUME NEW n \in DOMAIN log' PROVE log'[n].src \in taken'
    BY <2>1, <2>2, <2>3 DEF Marked
  <2>5. ASSUME NEW j \in Inputs, in'[j].state # "closed" PROVE in'[j].id \in taken'
    BY <1>0, <2>1, <2>5 DEF Marked
  <2> QED BY <2>4, <2>5 DEF Marked
<1>4. ASSUME NEW i \in Inputs, InputEnds(i)
      PROVE  Marked'
  BY <1>0, <1>4, MarkedFrame DEF InputEnds, ClosedIn
<1>5. CASE UNCHANGED <<taken, in, log>>
  BY <1>5, MarkedFrame
<1>6. ASSUME NEW c \in Consumers, NEW k \in 0 .. Chunks, OutputCb(c, k)
      PROVE  UNCHANGED <<taken, in, log>>
  BY <1>6 DEF OutputCb
<1>7. ASSUME \/ Tick
             \/ \E c \in Consumers, I \in Interests : AcceptOutput(c, I)
             \/ \E s \in Sockets : AcceptFails(s)
             \/ \E c \in Consumers : OutputFails(c) \/ PeerCloses(c)
             \/ UNCHANGED vars
      PROVE  UNCHANGED <<taken, in, log>>
  BY <1>7, Zenon DEF Tick, AcceptOutput, AcceptFails, OutputFails, PeerCloses, vars
<1> QED BY <1>1, <1>2, <1>3, <1>4, <1>5, <1>6, <1>7 DEF Next

(* Only handle_accept opens a connection, with an id not in taken_ids. *)
LEMMA OpensFresh == TypeOK /\ Marked /\ [Next]_vars => [FreshIds]_vars
<1> SUFFICES ASSUME TypeOK, Marked, Next
             PROVE  FreshIds
  OBVIOUS
<1>0. in \in [Inputs -> [state: {"closed", "header", "log"}, id: Times, len: Nat]]
  BY DEF TypeOK
<1>1. ASSUME NEW i \in Inputs, NEW id \in Times, AcceptInput(i, id)
      PROVE  FreshIds
  <2>1. /\ id \notin taken
        /\ in' = [in EXCEPT ![i] = [state |-> "header", id |-> id, len |-> 0]]
    BY <1>1 DEF AcceptInput
  <2>2. ASSUME NEW j \in Inputs, in[j].state = "closed", in'[j].state # "closed"
        PROVE  in'[j].id \notin taken
    BY <1>0, <2>1, <2>2
  <2> QED BY <2>2 DEF FreshIds, Marked
<1>2. ASSUME \A i \in Inputs : in[i].state = "closed" => in'[i].state = "closed"
      PROVE  FreshIds
  BY <1>2 DEF FreshIds
<1>3. ASSUME NEW i \in Inputs, NEW len \in Lens, InputHeader(i, len)
      PROVE  \A j \in Inputs : in[j].state = "closed" => in'[j].state = "closed"
  BY <1>0, <1>3 DEF InputHeader
<1>4. ASSUME NEW i \in Inputs, NEW type \in Types, InputRecord(i, type)
      PROVE  \A j \in Inputs : in[j].state = "closed" => in'[j].state = "closed"
  BY <1>0, <1>4 DEF InputRecord
<1>5. ASSUME NEW i \in Inputs, InputEnds(i)
      PROVE  \A j \in Inputs : in[j].state = "closed" => in'[j].state = "closed"
  BY <1>0, <1>5 DEF InputEnds, ClosedIn
<1>6. ASSUME NEW c \in Consumers, NEW k \in 0 .. Chunks, OutputCb(c, k)
      PROVE  in' = in
  BY <1>6 DEF OutputCb
<1>7. ASSUME \/ Tick
             \/ \E c \in Consumers, I \in Interests : AcceptOutput(c, I)
             \/ \E s \in Sockets : AcceptFails(s)
             \/ \E c \in Consumers : OutputFails(c) \/ PeerCloses(c)
      PROVE  in' = in
  BY <1>7, Zenon DEF Tick, AcceptOutput, AcceptFails, OutputFails, PeerCloses
<1>8. in' = in => FreshIds
  BY DEF FreshIds
<1> QED BY <1>1, <1>2, <1>3, <1>4, <1>5, <1>6, <1>7, <1>8 DEF Next

(* No two connections of sources ever have the same id, so that the records *)
(* of a source that connects again are told from its earlier ones, for any  *)
(* number of sources and however the clock is set (input_cxn, taken_ids).   *)
THEOREM SourcesAreFresh == Spec => FreshSource
<1>1. Init => Marked
  BY DEF Init, Marked, ClosedIn
<1>2. Spec => []Marked
  BY <1>1, MarkedStep, TypeCorrect, PTL DEF Spec
<1> QED BY <1>2, OpensFresh, TypeCorrect, PTL DEF Spec, FreshSource
=============================================================================
