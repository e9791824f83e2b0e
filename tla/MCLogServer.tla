----------------------------- MODULE MCLogServer -----------------------------
(* Model-checking instance of LogServer: one socket for one type, or also   *)
(* one for both, records of up to two bytes, room for three or two bytes.   *)
EXTENDS LogServer

CONSTANTS i1, i2, c1, c2

MCTypes == {"BITCOIN", "BITCOIN_MSG"}
MCOneInterest == {{"BITCOIN"}}
MCInterests == {{"BITCOIN"}, MCTypes}
MCLens == {0, 1, 2}
MCFewLens == {0, 2}

=============================================================================
