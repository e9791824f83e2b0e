------------------------------ MODULE Buffers ------------------------------
(***************************************************************************)
(* The buffers of shared/: wrapped_buffer, which holds a small buffer on    *)
(* the heap (alloc_buffer) or a large one in mapped pages (mmap_buffer).    *)
(* Copies share a block with a count of its users; a block with more than   *)
(* one user is copied before it is written or resized.  One of the objects, *)
(* Rb, is the buffer_ of a read_buffer, which receives into a second buffer *)
(* and hands its contents out as a copy (extract_buffer).  Others are the   *)
(* elements of a write_buffer, which shares the buffers appended to it.     *)
(*                                                                         *)
(* The bytes that arrive are numbered, so that the contents tell where in   *)
(* the stream they come from; 0 is a cleared cell and Mark a byte that an   *)
(* owner of a copy writes.  Sizes are those that callers ask for, at least  *)
(* 1; allocations do not fail.                                             *)
(***************************************************************************)
EXTENDS Naturals, FiniteSets, FiniteSetsExt, SequencesExt

CONSTANTS
    Objs, Rb, MaxLen, Threshold, Page,
    RecvSize,   \* 4096, the size of recv_buffer_
    MaxPos      \* bound on the bytes received

VARIABLES
    obj,      \* object -> kind and block
    heap,     \* block -> refcount_ and contents
    cursor,   \* read_buffer::cursor_
    toRead,   \* read_buffer::to_read_
    staged,   \* recv_buffer_ from rb_loc_ to rb_size_
    pos,      \* bytes received so far
    wq,       \* write_buffer::buffers_: object, cursor, writable
    toWrite,  \* write_buffer::to_write_
    due       \* history: the bytes appended and not yet written

reader == <<cursor, toRead, staged, pos>>
writer == <<wq, toWrite, due>>
vars == <<obj, heap, reader, writer>>

Blocks == 1 .. Cardinality(Objs) + 1
Mark == MaxPos + 1
None == [kind |-> "none", blk |-> 0]
Free == [rc |-> 0, data |-> <<>>]

Values == INSTANCE ValueBuffers WITH
    Reader <- Rb,
    val <- [o \in Objs |-> IF obj[o] = None THEN <<>> ELSE heap[obj[o].blk].data]

View(o) == IF obj[o] = None THEN <<>> ELSE heap[obj[o].blk].data
RoundToPage(n) ==
    IF n = 0 THEN Page ELSE IF n % Page = 0 THEN n ELSE (n \div Page + 1) * Page
Kind(n) == IF n > Threshold THEN "mmap" ELSE "alloc"
Queued == {wq[i].o : i \in 1 .. Len(wq)}
Mine == Objs \ (Queued \cup {Rb})    \* what the rest of the program holds
Fresh(h) == Min({b \in Blocks : h[b] = Free})

\* the destructors: the last user frees the block
Release(h, b) ==
    [h EXCEPT ![b] = IF @.rc = 1 THEN Free ELSE [@ EXCEPT !.rc = @ - 1]]
Share(h, b) == [h EXCEPT ![b].rc = @ + 1]
Allocate(h, data) == [h EXCEPT ![Fresh(h)] = [rc |-> 1, data |-> data]]

ReleaseOf(h, w) == IF w = None THEN h ELSE Release(h, w.blk)
ShareOf(h, w) == IF w = None THEN h ELSE Share(h, w.blk)

-----------------------------------------------------------------------------
(* State of one object and the heap, as a pair: what realloc and ptr do     *)

\* alloc_buffer::realloc of w with a block: nothing for the same size, in place
\* for the only user, else a copy
AllocRealloc(w, h, size) ==
    LET data == Values!Resized(h[w.blk].data, size)
    IN  IF size = Len(h[w.blk].data) THEN [w |-> w, h |-> h]
        ELSE IF h[w.blk].rc = 1 THEN [w |-> w, h |-> [h EXCEPT ![w.blk].data = data]]
        ELSE [w |-> [w EXCEPT !.blk = Fresh(h)], h |-> Release(Allocate(h, data), w.blk)]

\* mmap_buffer::realloc: the same, in whole pages
MmapRealloc(w, h, n) == AllocRealloc(w, h, RoundToPage(n))

\* wrapped_buffer::realloc: a buffer of the other kind is allocated, filled and
\* takes the place of the old one
Realloc(w, h, n) ==
    LET old == IF w = None THEN <<>> ELSE h[w.blk].data
        size == IF Kind(n) = "mmap" THEN RoundToPage(n) ELSE n
    IN  CASE w.kind = "mmap" /\ Kind(n) = "mmap" -> MmapRealloc(w, h, n)
          [] w.kind = "alloc" /\ Kind(n) = "alloc" -> AllocRealloc(w, h, n)
          [] OTHER -> [w |-> [kind |-> Kind(n), blk |-> Fresh(h)],
                       h |-> ReleaseOf(Allocate(h, Values!Resized(old, size)), w)]

\* Mutant: the block that was shared keeps its count.
PtrKeepsCount(w, h) ==
    IF h[w.blk].rc = 1 THEN [w |-> w, h |-> h]
    ELSE [w |-> [w EXCEPT !.blk = Fresh(h)], h |-> Allocate(h, h[w.blk].data)]

\* Mutant: the block is written in place although it is shared.
PtrInPlace(w, h) == [w |-> w, h |-> h]

\* ptr: a write; a shared block is copied first
Ptr(w, h) ==
    IF h[w.blk].rc = 1 THEN [w |-> w, h |-> h]
    ELSE [w |-> [w EXCEPT !.blk = Fresh(h)],
          h |-> Release(Allocate(h, h[w.blk].data), w.blk)]

\* realloc(n), then bytes written through ptr() from cell at on
Loaded(w, h, n, at, bytes) ==
    LET r == Realloc(w, h, n)
        s == Ptr(r.w, r.h)
    IN  [w |-> s.w, h |-> [s.h EXCEPT ![s.w.blk].data = Values!Overlay(@, at, bytes)]]

-----------------------------------------------------------------------------
(* Operations on objects other than the reader's                            *)

New(o, n) ==
    LET r == Realloc(None, heap, n)
    IN  /\ obj[o] = None
        /\ obj' = [obj EXCEPT ![o] = r.w]
        /\ heap' = r.h
        /\ UNCHANGED <<reader, writer>>

\* The copy constructor, and the assignment: its parameter is a copy that is
\* swapped with the old contents and then destroyed.
Copy(o, p) ==
    /\ obj[p] # None
    /\ obj' = [obj EXCEPT ![o] = obj[p]]
    /\ heap' = ReleaseOf(ShareOf(heap, obj[p]), obj[o])
    /\ UNCHANGED <<reader, writer>>

Move(o, p) ==
    /\ o # p /\ obj[o] = None /\ obj[p] # None
    /\ obj' = [obj EXCEPT ![o] = obj[p], ![p] = None]
    /\ UNCHANGED <<heap, reader, writer>>

Drop(o) ==
    /\ obj[o] # None
    /\ obj' = [obj EXCEPT ![o] = None]
    /\ heap' = ReleaseOf(heap, obj[o])
    /\ UNCHANGED <<reader, writer>>

\* A user of a buffer makes room for n bytes and writes the last: g_log_inner, append, handle_message.
Store(o, n) ==
    LET r == Loaded(obj[o], heap, n, n, <<Mark>>)
    IN  /\ obj' = [obj EXCEPT ![o] = r.w]
        /\ heap' = r.h
        /\ UNCHANGED <<reader, writer>>

-----------------------------------------------------------------------------
(* read_buffer                                                              *)

Recv(k) == [i \in 1 .. k |-> pos + i]

\* Mutant: what is left of a receive is thrown away.
DoReadForgets(k) ==
    LET avail == IF staged = <<>> THEN Recv(k) ELSE staged
        rd == Min({toRead, Len(avail)})
        r == IF rd = 0 THEN Realloc(obj[Rb], heap, cursor + toRead)
             ELSE Loaded(obj[Rb], heap, cursor + toRead, cursor + 1, SubSeq(avail, 1, rd))
    IN  /\ toRead > 0
        /\ k > 0 => staged = <<>>
        /\ pos + k <= MaxPos
        /\ obj' = [obj EXCEPT ![Rb] = r.w]
        /\ heap' = r.h
        /\ staged' = <<>>
        /\ cursor' = cursor + rd
        /\ toRead' = toRead - rd
        /\ pos' = pos + k
        /\ UNCHANGED writer

\* do_read: receive only when everything received before is used up, k = 0
\* being a receive that failed; then copy as much as is there and wanted.
DoRead(k) ==
    LET avail == IF staged = <<>> THEN Recv(k) ELSE staged
        rd == Min({toRead, Len(avail)})
        r == IF rd = 0 THEN Realloc(obj[Rb], heap, cursor + toRead)
             ELSE Loaded(obj[Rb], heap, cursor + toRead, cursor + 1, SubSeq(avail, 1, rd))
    IN  /\ toRead > 0
        /\ k > 0 => staged = <<>>
        /\ pos + k <= MaxPos
        /\ obj' = [obj EXCEPT ![Rb] = r.w]
        /\ heap' = r.h
        /\ staged' = SubSeq(avail, rd + 1, Len(avail))
        /\ cursor' = cursor + rd
        /\ toRead' = toRead - rd
        /\ pos' = pos + k
        /\ UNCHANGED writer

\* The record is whole: a copy is handed out and the next read set up.
Extract(o, n) ==
    /\ toRead = 0
    /\ obj' = [obj EXCEPT ![o] = obj[Rb]]
    /\ heap' = ReleaseOf(ShareOf(heap, obj[Rb]), obj[o])
    /\ cursor' = 0
    /\ toRead' = n
    /\ UNCHANGED <<staged, pos, writer>>

\* The header is whole: the rest of the record is read behind it.
More(n) ==
    /\ toRead = 0 /\ cursor + n <= MaxLen
    /\ toRead' = n
    /\ UNCHANGED <<obj, heap, cursor, staged, pos, writer>>

-----------------------------------------------------------------------------
(* write_buffer                                                             *)

\* append(buf, len): the first n bytes of p, shared
Append_(o, p, n) ==
    /\ obj[o] = None /\ n <= Len(View(p))
    /\ obj' = [obj EXCEPT ![o] = obj[p]]
    /\ heap' = ShareOf(heap, obj[p])
    /\ wq' = Append(wq, [o |-> o, cur |-> 0, len |-> n])
    /\ toWrite' = toWrite + n
    /\ due' = due \o SubSeq(View(p), 1, n)
    /\ UNCHANGED reader

\* Mutant: what one write may take is bounded by to_write_ alone, not by the
\* element at the front.
DoWriteAcross(k) ==
    LET c == Head(wq)
        done == c.cur + k = c.len
    IN  /\ toWrite > 0
        /\ k <= toWrite
        /\ toWrite' = toWrite - k
        /\ due' = SubSeq(due, k + 1, Len(due))
        /\ wq' = IF done THEN Tail(wq) ELSE [wq EXCEPT ![1].cur = @ + k]
        /\ obj' = IF done THEN [obj EXCEPT ![c.o] = None] ELSE obj
        /\ heap' = IF done THEN ReleaseOf(heap, obj[c.o]) ELSE heap
        /\ UNCHANGED reader

\* do_write: k bytes of the first element go out, 0 when write fails
DoWrite(k) ==
    LET c == Head(wq)
        done == c.cur + k = c.len
    IN  /\ toWrite > 0
        /\ k <= Min({toWrite, c.len - c.cur})
        /\ toWrite' = toWrite - k
        /\ due' = SubSeq(due, k + 1, Len(due))
        /\ wq' = IF done THEN Tail(wq) ELSE [wq EXCEPT ![1].cur = @ + k]
        /\ obj' = IF done THEN [obj EXCEPT ![c.o] = None] ELSE obj
        /\ heap' = IF done THEN ReleaseOf(heap, obj[c.o]) ELSE heap
        /\ UNCHANGED reader

-----------------------------------------------------------------------------

Init ==
    /\ obj = [o \in Objs |-> IF o = Rb THEN [kind |-> Kind(1), blk |-> 1] ELSE None]
    /\ heap = [b \in Blocks |-> IF b = 1 THEN [rc |-> 1, data |-> Values!Resized(<<>>, 1)] ELSE Free]
    /\ cursor = 0
    /\ toRead = 1
    /\ staged = <<>>
    /\ pos = 0
    /\ wq = <<>>
    /\ toWrite = 0
    /\ due = <<>>

Next ==
    \/ \E o \in Mine, n \in 1 .. MaxLen : New(o, n) \/ Store(o, n) \/ Extract(o, n)
    \/ \E o, p \in Mine : Copy(o, p) \/ Move(o, p)
    \/ \E o \in Mine : Drop(o)
    \/ \E k \in 0 .. RecvSize : DoRead(k)
    \/ \E n \in 1 .. MaxLen : More(n)
    \/ \E o, p \in Mine, n \in 1 .. MaxLen : Append_(o, p, n)
    \/ \E k \in 0 .. MaxLen : DoWrite(k)

Spec == Init /\ [][Next]_vars

-----------------------------------------------------------------------------

\* A block's count is the number of its users, so that it is freed with the
\* last of them and never before, and the only user may write in place.
CountsExact ==
    \A b \in Blocks : heap[b].rc = Cardinality({o \in Objs : obj[o] # None /\ obj[o].blk = b})

\* read_buffer delivers the stream: what is read so far are the bytes that
\* were received, in order, without a gap, up to those still staged.
ReadsStream ==
    /\ \A i \in 1 .. cursor : View(Rb)[i] = pos - Len(staged) - cursor + i
    /\ \A i \in 1 .. Len(staged) : staged[i] = pos - Len(staged) + i

\* write_buffer sends what was appended, in that order and each byte once
\* (append, do_write): whatever happens to the buffers that it was appended
\* from, what is left of its elements, one after the other, are the bytes that
\* they held then, and to_write_ is their number over all elements.
WritesWhatWasQueued ==
    /\ due = FlattenSeq([i \in 1 .. Len(wq) |-> SubSeq(View(wq[i].o), wq[i].cur + 1, wq[i].len)])
    /\ toWrite = Len(due)

\* Sharing is not observable: every operation changes one object at most.  A
\* record that was extracted stays as it is while the next one is read over it.
ImplementsValues == Values!Spec

=============================================================================
