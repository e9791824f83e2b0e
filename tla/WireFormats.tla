---------------------------- MODULE WireFormats ----------------------------
(***************************************************************************)
(* Encodings that two programs have to agree on:                           *)
(*  - the variable-length integers of the bitcoin protocol (bitcoin.cpp);  *)
(*  - control messages as the client library builds and changes them       *)
(*    (connector.cpp), and as the connector reads them;                    *)
(*  - the log file of length-prefixed records that logtruncate repairs.    *)
(*                                                                         *)
(* A byte is a digit in base Base; the widths 1, 2, 4, 8 are those of the  *)
(* code.  The host is little-endian: a number in memory is a sequence of   *)
(* digits, the lowest first.  The encodings are pure functions; a command  *)
(* that a client builds and changes, and a log that is written, cut off by *)
(* a crash and repaired, are the state they are used on.                   *)
(***************************************************************************)
EXTENDS Naturals, SequencesExt, FiniteSetsExt

CONSTANTS
    Base,       \* 256
    Numbers,    \* numbers to encode, below Base^8
    Words,      \* 32-bit numbers, below Base^4
    MaxTargets, \* longest list of targets
    MaxLogged   \* bound on the records in a log file

ASSUME BaseAssumption == Base > 3 /\ \A v \in Numbers : v < Base ^ 8

-----------------------------------------------------------------------------
(* Variable-length integers *)

Digits(v, w) == [i \in 1 .. w |-> (v \div Base ^ (i - 1)) % Base]
Number(d) == FoldLeft(LAMBDA acc, x : acc * Base + x, 0, Reverse(d))

\* the three highest bytes announce 2, 4 and 8 bytes
Fd == Base - 3
Fe == Base - 2
Ff == Base - 1

get_varint_size(bytes) ==
    CASE bytes[1] < Fd -> 1
      [] bytes[1] = Fd -> 3
      [] bytes[1] = Fe -> 5
      [] bytes[1] = Ff -> 9

get_varint(bytes) ==
    LET size == get_varint_size(bytes)
    IN  IF size = 1 THEN bytes[1] ELSE Number(SubSeq(bytes, 2, size))

to_varint(v) ==
    CASE v < Fd -> <<v>>
      [] v >= Fd /\ v < Base ^ 2 -> <<Fd>> \o Digits(v, 2)
      [] v >= Base ^ 2 /\ v < Base ^ 4 -> <<Fe>> \o Digits(v, 4)
      [] OTHER -> <<Ff>> \o Digits(v, 8)

-----------------------------------------------------------------------------
(* Control messages.  A 32-bit field holds the number that the bytes mean   *)
(* to a little-endian host; length is the field of struct message and size  *)
(* what the buffer has room for behind the header.                          *)

hton(x) ==
    LET d == Digits(x, 4)
    IN  ((d[1] * Base + d[2]) * Base + d[3]) * Base + d[4]

Header == 9     \* sizeof(struct command_msg)

\* the constructor
command_msg(command, id, targets) ==
    [size |-> Header + 4 * Len(targets),
     length |-> hton(Header + 4 * Len(targets)),
     command |-> command,
     message_id |-> hton(id),
     target_cnt |-> hton(Len(targets)),
     targets |-> [i \in DOMAIN targets |-> hton(targets[i])]]

\* Mutant: a shorter list is written in place, too.
set_targets_in_place(m, targets) ==
    IF Len(targets) <= hton(m.target_cnt)
    THEN [m EXCEPT !.targets = [i \in DOMAIN @ |->
            IF i <= Len(targets) THEN hton(targets[i]) ELSE @[i]]]
    ELSE command_msg(m.command, hton(m.message_id), targets)

\* targets(...): in place when there are as many, else a new message
set_targets(m, targets) ==
    IF Len(targets) = hton(m.target_cnt)
    THEN [m EXCEPT !.targets = [i \in DOMAIN targets |-> hton(targets[i])]]
    ELSE command_msg(m.command, hton(m.message_id), targets)

\* bitcoin_msg: the payload is replaced, in a buffer that fits it
message(payload) ==
    [size |-> Len(payload), length |-> hton(Len(payload)), payload |-> payload]

set_payload(m, payload) ==
    [size |-> IF Len(payload) # hton(m.length) THEN Len(payload) ELSE m.size,
     length |-> hton(Len(payload)),
     payload |-> payload]

set_command(m, command) == [m EXCEPT !.command = command]
set_message_id(m, id) == [m EXCEPT !.message_id = hton(id)]

\* serialize: the bytes that are sent
serialized(m) == hton(m.length)

\* what the connector makes of the message
Received(m) ==
    [command |-> m.command,
     message_id |-> hton(m.message_id),
     targets |-> [i \in 1 .. hton(m.target_cnt) |-> hton(m.targets[i])]]

-----------------------------------------------------------------------------
(* Log files.  A file is a sequence of bytes; a record is its length in     *)
(* LenBytes bytes, highest first, and as many bytes.                        *)

LenBytes == 2
Record(n, b) == Reverse(Digits(n, LenBytes)) \o [i \in 1 .. n |-> b]

\* Mutant: a record that reaches past the end of the file is kept.
WholeKeepsLast(file) ==
    LET after[at \in 0 .. Len(file)] ==
          IF at + LenBytes > Len(file) THEN at
          ELSE LET sought == at + LenBytes + Number(Reverse(SubSeq(file, at + 1, at + LenBytes)))
               IN  IF sought > Len(file) THEN Len(file) ELSE after[sought]
    IN  after[0]

\* The loop of logtruncate: the end of the last record that is there whole.
\* It stops when a length cannot be read or reaches past the end of the file.
Whole(file) ==
    LET after[at \in 0 .. Len(file)] ==
          IF at + LenBytes > Len(file) THEN at
          ELSE LET sought == at + LenBytes + Number(Reverse(SubSeq(file, at + 1, at + LenBytes)))
               IN  IF sought > Len(file) THEN at ELSE after[sought]
    IN  after[0]

logtruncate(file) == IF Whole(file) < Len(file) THEN SubSeq(file, 1, Whole(file)) ELSE file

-----------------------------------------------------------------------------

\* What to_varint writes get_varint reads back, whatever bytes follow, from
\* exactly the bytes written; no shorter form would do (the limits of
\* to_varint, in bytes and in marks).
VarintsAgree ==
    \A v \in Numbers, b \in {0, Ff} :
        LET bytes == to_varint(v) \o <<b>>
            size == get_varint_size(bytes)
        IN  /\ get_varint(bytes) = v
            /\ size = Len(to_varint(v))
            /\ size = CHOOSE s \in {1, 3, 5, 9} :
                        /\ v < (IF s = 1 THEN Fd ELSE Base ^ (s - 1))
                        /\ \A t \in {1, 3, 5, 9} : t < s => v >= (IF t = 1 THEN Fd ELSE Base ^ (t - 1))

Lists == BoundedSeq(Words, MaxTargets)

\* Of a message whose payload is replaced exactly the bytes it has are sent.
PayloadsAgree ==
    \A s, t \in Lists :
        LET m == set_payload(message(s), t)
        IN  serialized(m) = m.size /\ m.size = Len(t)

-----------------------------------------------------------------------------
(* A command in the hands of a client, and a log file *)

VARIABLES
    cmd,     \* a command_msg
    want,    \* history: what was set last
    file,    \* a log of verbatim
    whole,   \* history: the records that are in it whole
    cut      \* the file ends within a record

command == <<cmd, want>>
logfile == <<file, whole, cut>>
wire == <<command, logfile>>

Commands == {1, 3}   \* COMMAND_GET_CXN, COMMAND_SEND_MSG

CommandInit ==
    /\ cmd = command_msg(1, 0, <<>>)
    /\ want = [command |-> 1, message_id |-> 0, targets |-> <<>>]

LogInit ==
    /\ file = <<>>
    /\ whole = <<>>
    /\ cut = FALSE

SetTargets(t) ==
    /\ cmd' = set_targets(cmd, t)
    /\ want' = [want EXCEPT !.targets = t]
    /\ UNCHANGED logfile

SetCommand(c) ==
    /\ cmd' = set_command(cmd, c)
    /\ want' = [want EXCEPT !.command = c]
    /\ UNCHANGED logfile

SetMessageId(i) ==
    /\ cmd' = set_message_id(cmd, i)
    /\ want' = [want EXCEPT !.message_id = i]
    /\ UNCHANGED logfile

\* verbatim writes a record of n bytes
Log(n, b) ==
    /\ ~cut
    /\ Len(whole) < MaxLogged
    /\ file' = file \o Record(n, b)
    /\ whole' = Append(whole, Record(n, b))
    /\ UNCHANGED <<command, cut>>

\* The machine stops, and the last k bytes did not reach the disk.
Crash(k) ==
    /\ ~cut
    /\ whole # <<>> /\ k \in 1 .. Len(Last(whole))
    /\ file' = SubSeq(file, 1, Len(file) - k)
    /\ whole' = Front(whole)
    /\ cut' = TRUE
    /\ UNCHANGED command

\* logtruncate is run, also on a file that needs no repair; verbatim goes on
\* with the file.
Repair ==
    /\ file' = logtruncate(file)
    /\ cut' = FALSE
    /\ UNCHANGED <<command, whole>>

CommandNext ==
    \/ \E t \in Lists : SetTargets(t)
    \/ \E c \in Commands : SetCommand(c)
    \/ \E i \in Words : SetMessageId(i)

LogNext ==
    \/ \E n \in {0, 1, 2, Base - 1, Base, Base + 1}, b \in {0, 1, Ff} : Log(n, b)
    \/ \E k \in 1 .. LenBytes + Base + 1 : Crash(k)
    \/ Repair

-----------------------------------------------------------------------------

\* What one end encodes the other decodes: variable-length integers at every
\* limit, and messages.  In whatever order a command is changed after it was
\* built, the connector receives what was set last, and exactly the bytes it
\* has are sent (connector.cpp; "integers are sent in network byte order",
\* command_structures.hpp:10).
EncodingsAgree ==
    /\ VarintsAgree
    /\ PayloadsAgree
    /\ Received(cmd) = want
    /\ serialized(cmd) = cmd.size

\* A crash leaves a log cut off anywhere.  logtruncate keeps every record that
\* is there whole and nothing of the one that was cut, so that the file can be
\* written on, and leaves a whole file as it is: "it is possible to have the
\* file end with a length prefix but [not] the full length bytes following"
\* (logtruncate.cpp:31).
RepairKeepsWholeRecords == ~cut => file = FlattenSeq(whole)

=============================================================================
