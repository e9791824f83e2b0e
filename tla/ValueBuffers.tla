---------------------------- MODULE ValueBuffers ----------------------------
(***************************************************************************)
(* What the buffers of shared/ promise their users: a variable of type     *)
(* wrapped_buffer is a value.  Whatever is done to one of them, the        *)
(* contents of the others stay as they are.                                *)
(***************************************************************************)
EXTENDS Naturals, Sequences

CONSTANTS
    Objs,       \* variables and members of type wrapped_buffer
    Reader,     \* the one that belongs to a read_buffer
    MaxLen,     \* bound on the sizes asked for
    Threshold,  \* MMAP_THRESHOLD
    Page        \* page size

VARIABLE val    \* contents, <<>> without a buffer

\* The size that is allocated for n cells: above the threshold whole pages.
Size(n) == IF n > Threshold THEN ((n + Page - 1) \div Page) * Page ELSE n

\* contents s in n cells: what fits is kept, new cells are zero
Resized(s, n) == [i \in 1 .. n |-> IF i <= Len(s) THEN s[i] ELSE 0]

\* contents s with bytes written from cell at on
Overlay(s, at, bytes) ==
    [i \in 1 .. Len(s) |-> IF at <= i /\ i < at + Len(bytes) THEN bytes[i - at + 1] ELSE s[i]]

\* the contents of the others stay as they are
Only(o) == \A p \in Objs \ {o} : val'[p] = val[p]

New(o, n) == val[o] = <<>> /\ val'[o] = Resized(<<>>, Size(n))
Copy(o, p) == val'[o] = val[p]
Drop(o) == val'[o] = <<>>

\* realloc(n), then bytes written through ptr(): the reader fills any cells it
\* asked for, other users write the last one here, and the rest is kept
Load(o, n) ==
    LET kept == Resized(val[o], Size(n))
        written == IF o = Reader THEN 1 .. n ELSE {n}
    IN  /\ Len(val'[o]) = Size(n)
        /\ \A i \in (1 .. Size(n)) \ written : val'[o][i] = kept[i]

Move(o, p) == o # p /\ val[o] = <<>> /\ val' = [val EXCEPT ![o] = val[p], ![p] = <<>>]

Init == \A o \in Objs : val[o] = Resized(<<>>, Len(val[o]))
Next ==
    \/ \E o \in Objs :
          /\ Only(o)
          /\ \/ \E p \in Objs : Copy(o, p)
             \/ Drop(o)
             \/ \E n \in 1 .. MaxLen : New(o, n) \/ Load(o, n)
    \/ \E o, p \in Objs : Move(o, p)
Spec == Init /\ [][Next]_val

=============================================================================
