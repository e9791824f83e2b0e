--------------------------- MODULE MCCtrlHandler ---------------------------
(* Model-checking instance of CtrlHandler: two messages, and a regid that    *)
(* equals the id of the first client beside one that no handler has.        *)
(* Nothing tells the two messages apart, so they are symmetric.             *)
EXTENDS CtrlHandler, TLC

CONSTANTS m1, m2

MCPayloads == {m1, m2}
MCOnePayload == {m1}
MCSymmetry == Permutations(MCPayloads)
MCNonces == {0, 70}
MCOneNonce == {70}

\* The safety properties do not depend on eof, which only keeps data from
\* being read, nor on connections that go, which only keep messages from
\* being sent.
MCSafety == Init /\ [][UNCHANGED eof /\ Next /\ conns \subseteq conns']_vars
============================================================================
