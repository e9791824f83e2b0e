--------------------------- MODULE MessageRegistry ---------------------------
(* What the connector promises to the clients of its control socket about   *)
(* the bitcoin messages they register: a name that a client was given       *)
(* stands for that message until the client leaves, or until all its names  *)
(* are forgotten at once; it never stands for a message of another client   *)
(* or for another message, and sending it sends exactly that message.       *)
EXTENDS Integers

CONSTANTS
    Clients,      \* client connections, each used once
    Names,        \* message ids; 0 says that the registration failed
    Payloads      \* bitcoin messages

VARIABLES
    joined,       \* clients that are connected
    table,        \* the names given to each of them, pairs of name and message
    sent          \* what was sent last: client, name and message

vars == <<joined, table, sent>>

Init ==
    /\ joined = {}
    /\ table = [c \in Clients |-> {}]
    /\ sent = <<>>

Join(c) ==
    /\ c \notin joined
    /\ joined' = joined \cup {c}
    /\ UNCHANGED <<table, sent>>

(* A name is new among those of its client. *)
Register(c, n, m) ==
    /\ c \in joined
    /\ n # 0
    /\ \A e \in table[c] : e[1] # n
    /\ table' = [table EXCEPT ![c] = @ \cup {<<n, m>>}]
    /\ UNCHANGED <<joined, sent>>

(* One client leaves, and only its names are forgotten. *)
Leave(c) ==
    /\ c \in joined
    /\ joined' = joined \ {c}
    /\ table' = [table EXCEPT ![c] = {}]
    /\ UNCHANGED sent

(* A registration may cost one client all the names it had, but not one of *)
(* them alone and nobody else's.                                           *)
Forget(c) ==
    /\ c \in joined
    /\ table' = [table EXCEPT ![c] = {}]
    /\ UNCHANGED <<joined, sent>>

Send(c, n, m) ==
    /\ c \in joined
    /\ <<n, m>> \in table[c]
    /\ sent' = <<c, n, m>>
    /\ UNCHANGED <<joined, table>>

(* The name 0 was never given, yet the id counter passes it when it wraps: *)
(* what it sends is unspecified.                                           *)
SendUnnamed(c, m) ==
    /\ c \in joined
    /\ sent' = <<c, 0, m>>
    /\ UNCHANGED <<joined, table>>

Next ==
    \E c \in Clients :
        \/ Join(c)
        \/ Leave(c)
        \/ Forget(c)
        \/ \E m \in Payloads : SendUnnamed(c, m)
        \/ \E n \in Names, m \in Payloads : Register(c, n, m) \/ Send(c, n, m)

Spec == Init /\ [][Next]_vars

=============================================================================
