----------------------------- MODULE MCGetaddr -----------------------------
(* Model-checking instance of Getaddr: one address the client connects to   *)
(* and one that connects by itself.                                         *)
EXTENDS Getaddr

CONSTANTS a1, b1

MCAddrs == {a1, b1}
MCInbound == {b1}

=============================================================================
