------------------------------- MODULE Logger -------------------------------
(***************************************************************************)
(* The logging library (shared/src/logger.cpp, shared/includes/logger.hpp) *)
(* in a process that is connected to the log server, and the timer of the  *)
(* connector that connects it again (log_watcher, connector/src/main.cpp). *)
(*                                                                         *)
(* BITCOIN and BITCOIN_MSG records are collected in g_log_store; the other *)
(* types are written at once, after whatever is in the store.  log_buffer  *)
(* writes to the socket.                                                   *)
(*                                                                         *)
(* One thread, one libev loop: each call of g_log and each callback is one *)
(* action.  A record is its number and its length with the length prefix.  *)
(* The chunks of write_queue are the one sequence of records queue: chunk  *)
(* boundaries cannot be seen in the byte stream.                           *)
(*                                                                         *)
(* got, since and prev are history: the records written to the current     *)
(* connection, the number of the first record logged after it was made,    *)
(* and the last record written in full to an earlier one.                  *)
(***************************************************************************)
EXTENDS Integers, Sequences

CONSTANTS
    StoreSize,    \* store_size
    Lens,         \* lengths of records, with the length prefix
    MaxRecords    \* bound: records logged

ASSUME SizesAssumption ==
    /\ StoreSize \in Nat \ {0}
    /\ Lens \subseteq Nat \ {0}
    /\ MaxRecords \in Nat

VARIABLES
    next,         \* number of the next record
    store,        \* g_log_store, the records in it
    cursor,       \* g_log_cursor
    allocated,    \* g_log_store.allocated()
    connected,    \* g_log_buffer is not null
    queue,        \* g_log_buffer->write_queue
    part,         \* the first record of queue has been written in part
    write,        \* g_log_buffer->io asks for WRITE
    broken,       \* environment: the log server has closed this connection
    got, since, prev

gvars == <<store, cursor, allocated>>
bvars == <<connected, queue, part, write>>
hvars == <<got, since, prev>>
vars == <<next, gvars, bvars, broken, hvars>>

Records == [n: Nat, len: Lens]

MaxOf(a, b) == IF a > b THEN a ELSE b

Init ==
    /\ next = 0
    /\ store = <<>> /\ cursor = 0 /\ allocated = StoreSize
    /\ connected \in BOOLEAN
    /\ queue = <<>> /\ part = FALSE /\ write = connected
    /\ broken = FALSE
    /\ got = <<>> /\ since = 0 /\ prev = -1

-----------------------------------------------------------------------------
(* log_buffer::append of the records s; what is appended while there is no *)
(* log server goes to the console (append_buf).                            *)
AppendBuf(s) ==
    /\ queue' = IF connected THEN queue \o s ELSE queue
    /\ write' = (write \/ (connected /\ queue = <<>> /\ s # <<>>))
    /\ UNCHANGED <<connected, part, broken, hvars>>

Fits(len) == len <= allocated - cursor

(* Mutant: a full store is replaced and not written. *)
LogBufferedDrops(len) ==
    /\ next < MaxRecords
    /\ next' = next + 1
    /\ store' = IF Fits(len) THEN Append(store, [n |-> next, len |-> len])
                ELSE <<[n |-> next, len |-> len]>>
    /\ cursor' = IF Fits(len) THEN cursor + len ELSE len
    /\ allocated' = IF Fits(len) THEN allocated ELSE MaxOf(StoreSize, len)
    /\ UNCHANGED <<bvars, broken, hvars>>

(* g_log<BITCOIN> and g_log<BITCOIN_MSG>: a record that does not fit makes *)
(* room first.                                                             *)
LogBuffered(len) ==
    /\ next < MaxRecords
    /\ next' = next + 1
    /\ LET r == [n |-> next, len |-> len] IN
          IF Fits(len)
          THEN /\ store' = Append(store, r)
               /\ cursor' = cursor + len
               /\ UNCHANGED <<allocated, bvars, broken, hvars>>
          ELSE /\ AppendBuf(store)
               /\ store' = <<r>>
               /\ cursor' = len
               /\ allocated' = MaxOf(StoreSize, len)

(* Mutant: the store is not flushed first. *)
LogNowOvertakes(len) ==
    /\ next < MaxRecords
    /\ next' = next + 1
    /\ IF connected THEN AppendBuf(<<[n |-> next, len |-> len]>>)
       ELSE UNCHANGED <<bvars, broken, hvars>>
    /\ UNCHANGED gvars

(* g_log of the other types: the store is flushed first to keep the order. *)
LogNow(len) ==
    /\ next < MaxRecords
    /\ next' = next + 1
    /\ IF connected
       THEN /\ AppendBuf(store \o <<[n |-> next, len |-> len]>>)
            /\ store' = <<>>
            /\ cursor' = 0
            /\ allocated' = IF cursor > 0 THEN StoreSize ELSE allocated
       ELSE UNCHANGED <<gvars, bvars, broken, hvars>>

-----------------------------------------------------------------------------
(* Mutant: the watcher is stopped although the socket blocked. *)
IoCbStops(j, p) ==
    /\ connected /\ write
    /\ j \in 0 .. Len(queue)
    /\ broken => j = 0 /\ queue = <<>>
    /\ got' = got \o SubSeq(queue, 1, j)
    /\ queue' = SubSeq(queue, j + 1, Len(queue))
    /\ part' = (queue' # <<>> /\ (p \/ (part /\ j = 0)))
    /\ write' = FALSE
    /\ UNCHANGED <<next, gvars, connected, broken, since, prev>>

(* log_buffer::io_cb: j records are written, and if p part of another one, *)
(* until the queue is empty or the socket blocks.                          *)
IoCb(j, p) ==
    /\ connected /\ write
    /\ j \in 0 .. Len(queue)
    /\ broken => j = 0 /\ queue = <<>>
    /\ got' = got \o SubSeq(queue, 1, j)
    /\ queue' = SubSeq(queue, j + 1, Len(queue))
    /\ part' = (queue' # <<>> /\ (p \/ (part /\ j = 0)))
    /\ write' = (queue' # <<>>)
    /\ UNCHANGED <<next, gvars, connected, broken, since, prev>>

(* Mutant: what was queued is kept for the next connection. *)
IoFailsKeeps ==
    /\ connected /\ write
    /\ queue # <<>>
    /\ connected' = FALSE
    /\ write' = FALSE
    /\ prev' = IF got = <<>> THEN prev ELSE got[Len(got)].n
    /\ got' = <<>>
    /\ broken' = FALSE
    /\ UNCHANGED <<next, gvars, queue, part, since>>

(* log_buffer::io_cb: write fails.  The log buffer is deleted with what    *)
(* was queued.                                                             *)
IoFails ==
    /\ connected /\ write
    /\ queue # <<>>
    /\ connected' = FALSE
    /\ queue' = <<>>
    /\ part' = FALSE
    /\ write' = FALSE
    /\ prev' = IF got = <<>> THEN prev ELSE got[Len(got)].n
    /\ got' = <<>>
    /\ broken' = FALSE
    /\ UNCHANGED <<next, gvars, since>>

(* log_watcher finds the log server; a failed attempt changes nothing.     *)
LogWatcher ==
    /\ ~ connected
    /\ connected' = TRUE
    /\ write' = TRUE
    /\ since' = next
    /\ UNCHANGED <<next, gvars, queue, part, broken, got, prev>>

ServerCloses ==
    /\ connected /\ ~ broken
    /\ broken' = TRUE
    /\ UNCHANGED <<next, gvars, bvars, hvars>>

Next ==
    \/ \E len \in Lens : LogBuffered(len) \/ LogNow(len)
    \/ \E j \in 0 .. MaxRecords, p \in BOOLEAN : IoCb(j, p)
    \/ IoFails
    \/ LogWatcher
    \/ ServerCloses

Spec == Init /\ [][Next]_vars

(* The loop polls, and a log server that keeps the connection reads.       *)
Fairness ==
    /\ WF_vars(\E j \in 1 .. MaxRecords, p \in BOOLEAN : IoCb(j, p))
    /\ WF_vars(broken /\ IoFails)

FairSpec == Spec /\ Fairness

-----------------------------------------------------------------------------
TypeOK ==
    /\ next \in 0 .. MaxRecords
    /\ store \in Seq(Records)
    /\ cursor \in Nat
    /\ allocated \in Nat
    /\ connected \in BOOLEAN
    /\ queue \in Seq(Records)
    /\ part \in BOOLEAN
    /\ write \in BOOLEAN
    /\ broken \in BOOLEAN
    /\ got \in Seq(Records)
    /\ since \in 0 .. MaxRecords
    /\ prev \in Int

(* What is on its way, oldest first. *)
Pipeline == got \o queue \o store

(* Records leave in the order in which they were logged, and none twice,   *)
(* over one connection and from one connection to the next ("flush here to *)
(* maintain ordering", g_log).                                             *)
InOrder ==
    /\ \A i \in 1 .. Len(Pipeline) - 1 : Pipeline[i].n < Pipeline[i + 1].n
    /\ Pipeline # <<>> => prev < Pipeline[1].n

(* Nothing that is logged while the log server is connected is lost as     *)
(* long as the connection lasts: it was written, is queued, or is in the   *)
(* store (g_log, append_buf, io_cb).  The bytes in g_log_store never pass  *)
(* its end (the tests in g_log<BITCOIN> and g_log<BITCOIN_MSG>).           *)
NothingLost ==
    /\ cursor <= allocated
    /\ connected => \A k \in since .. next - 1 :
                        \E i \in 1 .. Len(Pipeline) : Pipeline[i].n = k

(* The log server can cut the stream into records: a new connection does   *)
(* not start with the rest of a record (io_cb, log_watcher).               *)
StartsWhole == part => connected /\ queue # <<>>

(* A record that was queued reaches the log server, or the connection      *)
(* breaks.                                                                 *)
Delivered ==
    \A k \in 0 .. MaxRecords - 1 :
        (\E i \in 1 .. Len(queue) : queue[i].n = k)
            ~> (~ connected \/ \E i \in 1 .. Len(got) : got[i].n = k)

=============================================================================
