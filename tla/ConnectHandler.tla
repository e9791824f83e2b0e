--------------------------- MODULE ConnectHandler ---------------------------
(***************************************************************************)
(* How connections to bitcoin nodes come about (connector/src/             *)
(* bitcoin_handler.cpp): connect_handler for ordinary addresses,           *)
(* tor_connect_handler for .onion addresses through a SOCKS proxy, and     *)
(* accept_handler.  Each ends in a bitcoin::handler that owns the          *)
(* descriptor, or in a descriptor that is closed.                          *)
(*                                                                         *)
(* One thread, one libev loop: each callback is one action.  A handler     *)
(* that is done is not deleted in its own callback: it waits in one of two *)
(* sets until a later attempt deletes it.                                  *)
(*                                                                         *)
(* Descriptors are numbers and are used again as soon as they are closed,  *)
(* the lowest first, as socket and accept do.  0 stands for -1.  What the  *)
(* established connections do is in BitcoinHandler.                        *)
(***************************************************************************)
EXTENDS Integers

CONSTANTS
    Attempts,     \* connect handlers, each used once
    Addrs,        \* addresses of bitcoin nodes
    MaxFd         \* descriptors 1 .. MaxFd can be open

VARIABLES
    at,           \* the fields of each attempt
    open,         \* descriptors that are open
    conns,        \* the bitcoin handlers: descriptor and address
    blacklist,    \* g_blacklist
    ok, failed    \* CONNECT_SUCCESS and CONNECT_FAILURE events of each attempt

vars == <<at, open, conns, blacklist, ok, failed>>

Fds == 1 .. MaxFd
NoFd == 0

TorStates == {"CONNECT_PROXY", "SEND_GREETING", "RECV_GREETING", "SEND_CONNECT",
              "RECV_CONNECT", "HANDSHAKE_DONE"}

(* life: pending attempts wait for their socket, inactive ones wait for    *)
(* deletion.  fd is connect_handler's io.fd and tor_connect_handler's fd_, *)
(* iofd the latter's io.fd; watching says that io is started.              *)
AttemptState ==
    [kind: {"none", "direct", "tor"}, life: {"none", "pending", "inactive", "deleted"},
     addr: Addrs, fd: {NoFd} \cup Fds, iofd: {NoFd} \cup Fds, watching: BOOLEAN,
     tor: TorStates]

NoAttempt ==
    [kind |-> "none", life |-> "none", addr |-> CHOOSE x \in Addrs : TRUE, fd |-> NoFd,
     iofd |-> NoFd, watching |-> FALSE, tor |-> "CONNECT_PROXY"]

Free == Fds \ open
Lowest(S) == CHOOSE f \in S : \A g \in S : f <= g

Inactive(kind) == {a \in Attempts : at[a].kind = kind /\ at[a].life = "inactive"}

Init ==
    /\ at = [a \in Attempts |-> NoAttempt]
    /\ open = {}
    /\ conns = {}
    /\ blacklist \in SUBSET Addrs
    /\ ok = [a \in Attempts |-> 0]
    /\ failed = [a \in Attempts |-> 0]

(* ~tor_connect_handler closes fd_ when it is not the watched descriptor.  *)
ClosedByDelete(D) ==
    {at[d].fd : d \in {e \in D : /\ at[e].kind = "tor"
                                 /\ at[e].iofd # NoFd
                                 /\ at[e].fd # NoFd
                                 /\ at[e].iofd # at[e].fd}}

(* Attempt a becomes r and the handlers D are deleted; destruction stops   *)
(* their watchers.                                                         *)
Updated(a, r, D) ==
    [b \in Attempts |->
        IF b = a THEN r
        ELSE IF b \in D THEN [at[b] EXCEPT !.life = "deleted", !.watching = FALSE]
        ELSE at[b]]

(* io.set and io.start on a socket whose connect is in progress. *)
PendingOn(t, f) ==
    [t EXCEPT !.life = "pending", !.fd = f, !.iofd = f, !.watching = TRUE]

Report(a, success) ==
    /\ ok' = IF success THEN [ok EXCEPT ![a] = @ + 1] ELSE ok
    /\ failed' = IF success THEN failed ELSE [failed EXCEPT ![a] = @ + 1]

-----------------------------------------------------------------------------
(* connect_handler::connect_handler with a new socket.  A blacklisted      *)
(* address, or a connect that fails at once, closes it again.              *)
NewDirect(a, addr) ==
    /\ at[a].kind = "none"
    /\ Free # {}
    /\ LET f == Lowest(Free)
           done == [NoAttempt EXCEPT !.kind = "direct", !.life = "inactive", !.addr = addr]
           D == Inactive("direct")
       IN
          \/ /\ at' = Updated(a, done, D)
             /\ Report(a, FALSE)
             /\ UNCHANGED <<open, conns>>
          \/ /\ addr \notin blacklist
             /\ at' = Updated(a, done, D)
             /\ open' = open \cup {f}
             /\ conns' = conns \cup {[fd |-> f, addr |-> addr]}
             /\ Report(a, TRUE)
          \/ /\ addr \notin blacklist
             /\ at' = Updated(a, PendingOn(done, f), D)
             /\ open' = open \cup {f}
             /\ UNCHANGED <<conns, ok, failed>>
    /\ UNCHANGED blacklist

(* A connect handler that is done: its watcher is stopped. *)
DoneDirect(a) ==
    [at[a] EXCEPT !.life = "inactive", !.watching = FALSE, !.fd = NoFd, !.iofd = NoFd]

(* connect_handler::io_cb: connected.  The bitcoin handler owns the        *)
(* descriptor.  The blacklist is not looked at again.  A spurious event    *)
(* changes nothing.                                                        *)
DirectConnected(a) ==
    /\ at[a].kind = "direct" /\ at[a].watching
    /\ conns' = conns \cup {[fd |-> at[a].fd, addr |-> at[a].addr]}
    /\ at' = Updated(a, DoneDirect(a), Inactive("direct"))
    /\ Report(a, TRUE)
    /\ UNCHANGED <<open, blacklist>>

(* Mutant: the error is not reported. *)
DirectFailsQuietly(a) ==
    /\ at[a].kind = "direct" /\ at[a].watching
    /\ open' = open \ {at[a].fd}
    /\ at' = Updated(a, DoneDirect(a), Inactive("direct"))
    /\ UNCHANGED <<conns, blacklist, ok, failed>>

(* connect_handler::io_cb: connect fails. *)
DirectFails(a) ==
    /\ at[a].kind = "direct" /\ at[a].watching
    /\ open' = open \ {at[a].fd}
    /\ at' = Updated(a, DoneDirect(a), Inactive("direct"))
    /\ Report(a, FALSE)
    /\ UNCHANGED <<conns, blacklist>>

-----------------------------------------------------------------------------
(* tor_connect_handler::tor_connect_handler: the proxy is being connected, *)
(* or there is no socket or no proxy.  The blacklist is not consulted.     *)
NewTor(a, addr) ==
    /\ at[a].kind = "none"
    /\ LET D == Inactive("tor")
           t == [NoAttempt EXCEPT !.kind = "tor", !.life = "inactive", !.addr = addr]
           left == open \ ClosedByDelete(D)
       IN
          \/ /\ at' = Updated(a, t, D)
             /\ open' = left
             /\ Report(a, FALSE)
          \/ /\ left # Fds
             /\ LET f == Lowest(Fds \ left)
                IN  /\ at' = Updated(a, [PendingOn(t, f) EXCEPT !.tor = "SEND_GREETING"], D)
                    /\ open' = left \cup {f}
             /\ UNCHANGED <<ok, failed>>
    /\ UNCHANGED <<conns, blacklist>>

(* send_greeting, recv_greeting and send_connect succeed. *)
TorNext ==
    [s \in {"SEND_GREETING", "RECV_GREETING", "SEND_CONNECT"} |->
        CASE s = "SEND_GREETING" -> "RECV_GREETING"
          [] s = "RECV_GREETING" -> "SEND_CONNECT"
          [] s = "SEND_CONNECT"  -> "RECV_CONNECT"]

TorStep(a) ==
    /\ at[a].kind = "tor" /\ at[a].watching
    /\ at[a].tor \in DOMAIN TorNext
    /\ at' = [at EXCEPT ![a].tor = TorNext[at[a].tor]]
    /\ UNCHANGED <<open, conns, blacklist, ok, failed>>

(* tor_connect_handler::advance.  It deletes no other handler. *)
Advanced(t) ==
    [t EXCEPT !.life = "inactive", !.watching = FALSE, !.fd = NoFd, !.tor = "CONNECT_PROXY"]

(* An error, an end of file or a refusal at any step: advance is called.   *)
TorFails(a) ==
    /\ at[a].kind = "tor" /\ at[a].watching
    /\ open' = open \ {at[a].fd}
    /\ at' = [at EXCEPT ![a] = Advanced(@)]
    /\ UNCHANGED <<conns, blacklist, ok, failed>>

(* Mutant: fd_ is not given up before advance. *)
TorConnectedKeepsFd(a) ==
    /\ at[a].kind = "tor" /\ at[a].watching
    /\ at[a].tor = "RECV_CONNECT"
    /\ conns' = conns \cup {[fd |-> at[a].fd, addr |-> at[a].addr]}
    /\ open' = open \ {at[a].fd}
    /\ at' = [at EXCEPT ![a] = Advanced(@)]
    /\ Report(a, TRUE)
    /\ UNCHANGED blacklist

(* recv_connect: the proxy has connected us; fd_ goes to the new handler,  *)
(* then advance is called.                                                 *)
TorConnected(a) ==
    /\ at[a].kind = "tor" /\ at[a].watching
    /\ at[a].tor = "RECV_CONNECT"
    /\ conns' = conns \cup {[fd |-> at[a].fd, addr |-> at[a].addr]}
    /\ at' = [at EXCEPT ![a] = Advanced(@)]
    /\ Report(a, TRUE)
    /\ UNCHANGED <<open, blacklist>>

-----------------------------------------------------------------------------
(* accept_handler::io_cb; a blacklisted peer is closed at once. *)
Accept(addr) ==
    /\ Free # {}
    /\ addr \notin blacklist
    /\ open' = open \cup {Lowest(Free)}
    /\ conns' = conns \cup {[fd |-> Lowest(Free), addr |-> addr]}
    /\ UNCHANGED <<at, blacklist, ok, failed>>

(* handler::suicide closes the descriptor of an established connection.    *)
ConnCloses(c) ==
    /\ conns' = conns \ {c}
    /\ open' = open \ {c.fd}
    /\ UNCHANGED <<at, blacklist, ok, failed>>

(* hup_watcher, load_blacklist: the file lists S.  A file that cannot be   *)
(* opened changes nothing.                                                 *)
LoadBlacklist(S) ==
    /\ blacklist' = S
    /\ UNCHANGED <<at, open, conns, ok, failed>>

Next ==
    \/ \E a \in Attempts, addr \in Addrs : NewDirect(a, addr) \/ NewTor(a, addr)
    \/ \E a \in Attempts : \/ DirectConnected(a) \/ DirectFails(a)
                           \/ TorStep(a) \/ TorFails(a) \/ TorConnected(a)
    \/ \E addr \in Addrs : Accept(addr)
    \/ \E c \in conns : ConnCloses(c)
    \/ \E S \in SUBSET Addrs : LoadBlacklist(S)

Spec == Init /\ [][Next]_vars

-----------------------------------------------------------------------------
TypeOK ==
    /\ at \in [Attempts -> AttemptState]
    /\ open \subseteq Fds
    /\ conns \subseteq [fd: Fds, addr: Addrs]
    /\ blacklist \subseteq Addrs
    /\ ok \in [Attempts -> Nat]
    /\ failed \in [Attempts -> Nat]

Pending == {a \in Attempts : at[a].life = "pending"}

(* Every open descriptor has exactly one owner, a pending attempt or a     *)
(* bitcoin handler, and what they own is open: none leaks, none is closed  *)
(* under its owner, although numbers are used again while handlers that    *)
(* are done still remember them (setup_handler, io_cb, advance and the     *)
(* destructors).  Only a pending attempt has a started watcher, on the     *)
(* descriptor it owns: deletion never hits a handler that the loop may     *)
(* still call (the assertion in ~connect_handler), and no event is read    *)
(* off a descriptor that belongs to someone else by now.                   *)
FdsOwned ==
    /\ open = {at[a].fd : a \in Pending} \cup {c.fd : c \in conns}
    /\ \A a, b \in Pending : at[a].fd = at[b].fd => a = b
    /\ \A c, d \in conns : c.fd = d.fd => c = d
    /\ \A a \in Pending, c \in conns : at[a].fd # c.fd
    /\ \A a \in Attempts : at[a].watching => a \in Pending /\ at[a].iofd = at[a].fd

(* No attempt is reported before it is over or more than once, whichever   *)
(* of the constructors and callbacks ends it, and one to an ordinary       *)
(* address is always reported, as a success or as a failure.  (A failure   *)
(* in the SOCKS exchange is not: advance logs no event.)                   *)
ReportedOnce ==
    \A a \in Attempts :
        /\ ok[a] + failed[a] <= IF a \in Pending THEN 0 ELSE 1
        /\ at[a].kind = "direct" /\ a \notin Pending => ok[a] + failed[a] = 1

=============================================================================
