--------------------------- MODULE MCConnections ---------------------------
(* Model-checking instance of BitcoinHandler, with clients and peers that    *)
(* do anything at any time, and of ConnectHandler.  The established          *)
(* connections and the attempts share no state in the two models: they are   *)
(* explored one at a time.                                                   *)
EXTENDS MCBitcoinHandler

CONSTANTS Attempts, Addrs, MaxFd, a1, a2, a3, x

VARIABLES at, open, conns, blacklist, ok, failed, turn

attempts == <<at, open, conns, blacklist, ok, failed>>

Connecting == INSTANCE ConnectHandler

MCInit ==
    /\ Init /\ Connecting!Init
    /\ turn \in {"attempts", "established"}
    /\ turn = "established" => blacklist = {}

\* eof only keeps data from being read: what must never happen does not
\* depend on it.
MCNext ==
    /\ UNCHANGED turn
    /\ \/ turn = "attempts" /\ Connecting!Next /\ UNCHANGED vars
       \/ turn = "established" /\ UNCHANGED <<attempts, eof>> /\ Next

MCSpec == MCInit /\ [][MCNext]_<<vars, attempts, turn>>

-----------------------------------------------------------------------------
(* The properties of ConnectHandler under the names they have there. *)

(* Every open descriptor has exactly one owner, a pending attempt or a      *)
(* bitcoin handler, and only a pending attempt has a started watcher, on    *)
(* the descriptor it owns (setup_handler, io_cb, advance, destructors).     *)
FdsOwned == Connecting!FdsOwned

(* No attempt is reported before it is over or more than once, and one to   *)
(* an ordinary address is always reported (the constructors and callbacks   *)
(* that end an attempt).                                                    *)
ReportedOnce == Connecting!ReportedOnce
=============================================================================
