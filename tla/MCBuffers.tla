----------------------------- MODULE MCBuffers -----------------------------
(* Model-checking instance of Buffers and WireFormats. *)
EXTENDS Buffers, WireFormats, TLC

CONSTANTS rb, p, q, u
MCObjs == {rb, p, q, u}
Sym == Permutations({p, q, u})

\* around every limit of to_varint
MCNumbers == UNION {l - 2 .. l + 2 : l \in {2, Fd, Base, Base ^ 2, Base ^ 4}} \cup {Base ^ 8 - 1}

\* none reads the same in both byte orders
MCWords == {1, Base - 1, Base ^ 3 + 1 + Base}

\* The buffers, the command and the log file share no state: they are
\* explored one at a time.  The buffers are explored three times:
\*   sharing     a reader and two other buffers, nothing is written out;
\*   queueing    a write queue of up to two elements and the buffer that they
\*               are appended from, nothing is read;
\*   forwarding  a record that is read is queued while the next one is read.
VARIABLE turn

MCInit ==
    /\ Init /\ CommandInit /\ LogInit
    /\ turn \in {"sharing", "queueing", "forwarding", "command", "log"}

InUse == {o \in Objs : obj[o] # None}
OneSource == Cardinality(InUse \cap Mine) <= 1
ThreeInUse == Cardinality(InUse) <= 3

\* no contents but those that were there before the step
NothingNew == \A o \in InUse' \ InUse : \E s \in InUse : obj'[o] = obj[s]

\* what concerns the write queue and a buffer that it was appended from
QueueNext ==
    \/ \E o \in Mine, n \in 1 .. MaxLen : Store(o, n)
    \/ \E o \in Mine : Drop(o)
    \/ \E o, s \in Mine, n \in 1 .. MaxLen : Append_(o, s, n)
    \/ \E k \in 0 .. MaxLen : DoWrite(k)

BuffersNext ==
    \/ turn = "sharing" /\ UNCHANGED writer /\ Next /\ ThreeInUse'
    \/ turn = "queueing" /\ QueueNext /\ OneSource'
    \/ turn = "forwarding" /\ Next /\ ThreeInUse' /\ OneSource' /\ NothingNew

MCNext ==
    /\ UNCHANGED turn
    /\ \/ BuffersNext /\ UNCHANGED wire
       \/ turn = "command" /\ CommandNext /\ UNCHANGED vars
       \/ turn = "log" /\ LogNext /\ UNCHANGED vars

MCSpec == MCInit /\ [][MCNext]_<<vars, wire, turn>>

=============================================================================
