--------------------------- MODULE ConnLifecycle ---------------------------
(***************************************************************************)
(* What the connector promises its clients about connections: each one has *)
(* a number that was never used before, is live from the moment it is      *)
(* announced until its disconnect is logged, and has then ended for good.  *)
(***************************************************************************)
EXTENDS Naturals

VARIABLES
    next,    \* the number of the next connection
    live,    \* connections announced and not ended
    ended    \* connections whose disconnect was logged

Init ==
    /\ next = 0
    /\ live = {}
    /\ ended = {}

Open ==
    /\ next' = next + 1
    /\ live' = live \cup {next}
    /\ UNCHANGED ended

\* One command may end several connections.
Close ==
    \E T \in SUBSET live :
        /\ T # {}
        /\ live' = live \ T
        /\ ended' = ended \cup T
        /\ UNCHANGED next

Next == Open \/ Close

Spec == Init /\ [][Next]_<<next, live, ended>>
=============================================================================
