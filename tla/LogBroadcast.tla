---------------------------- MODULE LogBroadcast ----------------------------
(***************************************************************************)
(* What the log server promises: one log, and readers that each get the    *)
(* records of their interest, in the order of the log and one by one, from *)
(* the moment they subscribe until they are dropped.                       *)
(***************************************************************************)
EXTENDS Integers, Sequences

CONSTANTS
    Readers,
    Limit         \* what may be waiting for a reader, in bytes

VARIABLES
    log,          \* the records published
    on,           \* the readers that are subscribed
    interests,    \* the types each reader wants
    since,        \* the length of the log when it subscribed
    got           \* what it has received

vars == <<log, on, interests, since, got>>

Init ==
    /\ log = <<>>
    /\ on = {}
    /\ got = [c \in Readers |-> <<>>]

(* The others are untouched. *)
Keep(S) ==
    \A c \in S : /\ c \in on' <=> c \in on
                 /\ interests'[c] = interests[c]
                 /\ since'[c] = since[c]
                 /\ got'[c] = got[c]

Subscribe(c) ==
    /\ c \notin on
    /\ c \in on'
    /\ since'[c] = Len(log)
    /\ got'[c] = <<>>
    /\ UNCHANGED log
    /\ Keep(Readers \ {c})

Last(c) == IF got[c] = <<>> THEN since[c] ELSE got[c][Len(got[c])].n

(* The size of what c still has to get of the log l. *)
Behind(c, l) ==
    LET sum[n \in 0 .. Len(l)] ==
            IF n = 0 THEN 0
            ELSE sum[n - 1] + (IF n > Last(c) /\ l[n].type \in interests[c] THEN l[n].len ELSE 0)
    IN  sum[Len(l)]

(* A record is published.  A reader may be dropped only if it wants the    *)
(* record and is behind by more than the limit with it.                    *)
Publish ==
    /\ Len(log') = Len(log) + 1
    /\ \A n \in DOMAIN log : log'[n] = log[n]
    /\ on' \subseteq on
    /\ \A c \in on \ on' :
          log'[Len(log')].type \in interests[c] /\ Behind(c, log') > Limit
    /\ Keep(Readers \ (on \ on'))

Drop(c) ==
    /\ c \in on
    /\ c \notin on'
    /\ UNCHANGED log
    /\ Keep(Readers \ {c})

(* The next record that c wants is n. *)
Wanted(c, n) ==
    /\ log[n].type \in interests[c]
    /\ \A k \in Last(c) + 1 .. n - 1 : log[k].type \notin interests[c]

Deliver(c) ==
    /\ c \in on
    /\ \E n \in Last(c) + 1 .. Len(log) :
          Wanted(c, n) /\ got'[c] = Append(got[c], log[n])
    /\ c \in on'
    /\ interests'[c] = interests[c]
    /\ since'[c] = since[c]
    /\ UNCHANGED log
    /\ Keep(Readers \ {c})

Next ==
    \/ Publish
    \/ \E c \in Readers : Subscribe(c) \/ Drop(c) \/ Deliver(c)

Spec == Init /\ [][Next]_vars
=============================================================================
