------------------------------ MODULE Verbatim ------------------------------
(***************************************************************************)
(* The verbatim log client (logclient/verbatim.cpp): it reads records from *)
(* the log server and writes each, with its length, to verbatim.log, while *)
(* logrotate renames that file between SIGUSR1 and SIGUSR2                 *)
(* (tools/resources/verbatim-rotate.cfg).                                  *)
(*                                                                         *)
(* A signal may arrive between any two steps of the main loop.  When it    *)
(* arrives in recv the call returns EINTR, when it arrives just before,    *)
(* recv blocks all the same; both are outcomes of the signal actions.      *)
(*                                                                         *)
(* A length is LenParts reads long and a record's body BodyParts reads.    *)
(* Files are numbered in the order in which open_log creates them.         *)
(***************************************************************************)
EXTENDS Integers, Sequences

CONSTANTS
    LenParts, BodyParts,
    MaxRecords,       \* records the log server sends
    MaxRotations      \* times logrotate runs

ASSUME PartsAssumption == LenParts \in Nat \ {0} /\ BodyParts \in Nat \ {0}

VARIABLES
    pc,               \* where the main loop is
    g_prerotate, g_postrotate,
    reading_len,
    cursor, to_read,  \* of input_buf, in reads
    record,           \* number of the record being read
    logout,           \* the file that is open for writing, 0 when closed
    path,             \* the file called verbatim.log, 0 when there is none
    created,          \* number of files so far
    written,          \* what is written: file, record and how many parts of it
    rotate,           \* what logrotate has done: idle, signalled, renamed
    rotations,
    noticed,          \* verbatim has closed its log for the rotation going on
    missed            \* a SIGUSR1 came between open_log and the clearing of the flags

vars == <<pc, g_prerotate, g_postrotate, reading_len, cursor, to_read, record, logout, path,
          created, written, rotate, rotations, noticed, missed>>

input == <<reading_len, cursor, to_read, record>>
files == <<logout, path, created, written>>
rotation == <<rotate, rotations, noticed, missed>>

Whole == LenParts + BodyParts

(* open_log has run once. *)
Init ==
    /\ pc = "read"
    /\ g_prerotate = FALSE /\ g_postrotate = FALSE
    /\ reading_len = TRUE /\ cursor = 0 /\ to_read = LenParts /\ record = 1
    /\ logout = 1 /\ path = 1 /\ created = 1
    /\ written = <<>>
    /\ rotate = "idle" /\ rotations = 0 /\ noticed = FALSE /\ missed = FALSE

(* input_buf.do_read returns n > 0 parts. *)
DoRead(n) ==
    /\ pc = "read"
    /\ record <= MaxRecords
    /\ n <= to_read
    /\ cursor' = cursor + n
    /\ to_read' = to_read - n
    /\ pc' = "check"
    /\ UNCHANGED <<g_prerotate, g_postrotate, reading_len, record, files, rotation>>

(* End of file or an error: main returns; logout's destructor flushes.     *)
Disconnected ==
    /\ pc = "read"
    /\ pc' = "exit"
    /\ logout' = 0
    /\ UNCHANGED <<g_prerotate, g_postrotate, input, path, created, written, rotation>>

(* The rotation starts in the loop: flush and close. *)
CloseLog ==
    /\ pc = "check"
    /\ g_prerotate
    /\ logout' = 0
    /\ noticed' = (rotate # "idle")
    /\ pc' = "rotating"
    /\ UNCHANGED <<g_prerotate, g_postrotate, input, path, created, written, rotate, rotations,
                   missed>>

(* Mutant: the loop does not wait for SIGUSR2. *)
CreateLogAtOnce ==
    /\ pc = "rotating"
    /\ created' = IF path = 0 THEN created + 1 ELSE created
    /\ path' = IF path = 0 THEN created' ELSE path
    /\ pc' = "creating"
    /\ UNCHANGED <<g_prerotate, g_postrotate, input, logout, written, rotation>>

(* SIGUSR2 has come: open_log creates the file when it is missing.         *)
CreateLog ==
    /\ pc = "rotating"
    /\ g_postrotate
    /\ created' = IF path = 0 THEN created + 1 ELSE created
    /\ path' = IF path = 0 THEN created' ELSE path
    /\ pc' = "creating"
    /\ UNCHANGED <<g_prerotate, g_postrotate, input, logout, written, rotation>>

(* Mutant: the first log is opened again. *)
OpenFirstLog ==
    /\ pc = "creating"
    /\ logout' = IF path = 0 THEN 0 ELSE 1
    /\ pc' = IF path = 0 THEN "exit" ELSE "opened"
    /\ UNCHANGED <<g_prerotate, g_postrotate, input, path, created, written, rotation>>

(* open_log opens it for writing; it aborts when the file was renamed      *)
(* since.                                                                  *)
OpenLog ==
    /\ pc = "creating"
    /\ logout' = path
    /\ pc' = IF path = 0 THEN "exit" ELSE "opened"
    /\ UNCHANGED <<g_prerotate, g_postrotate, input, path, created, written, rotation>>

(* Mutant: only one of the flags is cleared, and the loop goes back to wait. *)
ClearPostOnly ==
    /\ pc = "opened"
    /\ g_postrotate' = FALSE
    /\ pc' = IF g_prerotate THEN "rotating" ELSE "handle"
    /\ UNCHANGED <<g_prerotate, input, files, rotation>>

(* Both flags are cleared, also those set since open_log. *)
ClearFlags ==
    /\ pc = "opened"
    /\ g_prerotate' = FALSE /\ g_postrotate' = FALSE
    /\ pc' = "handle"
    /\ UNCHANGED <<input, files, rotation>>

NoRotation ==
    /\ pc = "check"
    /\ ~g_prerotate
    /\ pc' = "handle"
    /\ UNCHANGED <<g_prerotate, g_postrotate, input, files, rotation>>

(* The buffer is still hungry. *)
Hungry ==
    /\ pc = "handle"
    /\ to_read > 0
    /\ pc' = "read"
    /\ UNCHANGED <<g_prerotate, g_postrotate, input, files, rotation>>

(* Mutant: the cursor goes back before the body is read. *)
LengthReadResets ==
    /\ pc = "handle"
    /\ to_read = 0
    /\ reading_len
    /\ to_read' = BodyParts
    /\ cursor' = 0
    /\ reading_len' = FALSE
    /\ pc' = "read"
    /\ UNCHANGED <<g_prerotate, g_postrotate, record, files, rotation>>

(* The length is there; the cursor stays, the body goes behind it.         *)
LengthRead ==
    /\ pc = "handle"
    /\ to_read = 0
    /\ reading_len
    /\ to_read' = BodyParts
    /\ reading_len' = FALSE
    /\ pc' = "read"
    /\ UNCHANGED <<g_prerotate, g_postrotate, cursor, record, files, rotation>>

(* print_message; the next record begins. *)
PrintMessage ==
    /\ pc = "handle"
    /\ to_read = 0
    /\ ~reading_len
    /\ written' = Append(written, [file |-> logout, rec |-> record, parts |-> cursor])
    /\ cursor' = 0
    /\ to_read' = LenParts
    /\ reading_len' = TRUE
    /\ record' = record + 1
    /\ pc' = "read"
    /\ UNCHANGED <<g_prerotate, g_postrotate, logout, path, created, rotation>>

-----------------------------------------------------------------------------
(* sigusr runs; it interrupts recv or comes outside it. *)
SignalAt ==
    \/ pc' = pc
    \/ pc = "read" /\ pc' = "check"

(* logrotate starts, if there is a log, and sends SIGUSR1. *)
PreRotate ==
    /\ rotate = "idle"
    /\ rotations < MaxRotations
    /\ path # 0
    /\ pc # "exit"
    /\ rotate' = "signalled"
    /\ rotations' = rotations + 1
    /\ g_prerotate' = TRUE
    /\ noticed' = FALSE
    /\ missed' = (missed \/ pc \in {"creating", "opened"})
    /\ SignalAt
    /\ UNCHANGED <<g_postrotate, input, files>>

Rename ==
    /\ rotate = "signalled"
    /\ rotate' = "renamed"
    /\ path' = 0
    /\ UNCHANGED <<pc, g_prerotate, g_postrotate, input, logout, created, written, rotations,
                   noticed, missed>>

(* logrotate sends SIGUSR2. *)
PostRotate ==
    /\ rotate = "renamed"
    /\ rotate' = "idle"
    /\ g_postrotate' = TRUE
    /\ noticed' = FALSE
    /\ SignalAt
    /\ UNCHANGED <<g_prerotate, input, files, rotations, missed>>

Loop ==
    \/ CloseLog \/ CreateLog \/ OpenLog \/ ClearFlags \/ NoRotation
    \/ Hungry \/ LengthRead \/ PrintMessage

Next ==
    \/ \E n \in 1 .. Whole : DoRead(n)
    \/ Disconnected
    \/ Loop
    \/ PreRotate \/ Rename \/ PostRotate

Spec == Init /\ [][Next]_vars

(* The loop runs, and logrotate finishes what it starts. *)
Fairness == WF_vars(Loop) /\ WF_vars(Rename) /\ WF_vars(PostRotate)

FairSpec == Spec /\ Fairness

-----------------------------------------------------------------------------
TypeOK ==
    /\ pc \in {"read", "check", "rotating", "creating", "opened", "handle", "exit"}
    /\ g_prerotate \in BOOLEAN /\ g_postrotate \in BOOLEAN /\ reading_len \in BOOLEAN
    /\ cursor \in 0 .. Whole /\ to_read \in 0 .. Whole
    /\ record \in 1 .. MaxRecords + 1
    /\ created \in Nat /\ logout \in 0 .. created /\ path \in 0 .. created
    /\ written \in Seq([file: 0 .. created, rec: 1 .. MaxRecords, parts: 0 .. Whole])
    /\ rotate \in {"idle", "signalled", "renamed"}
    /\ rotations \in 0 .. MaxRotations /\ noticed \in BOOLEAN /\ missed \in BOOLEAN

(* Every record that was read is written, once, whole and in order, and to *)
(* a file that is open, wherever rotations interrupt the reading of a      *)
(* record (reading_len, the cursor and print_message): "so it doesn't      *)
(* write incomplete logging onto the new file" (README.md:49).             *)
WholeRecords ==
    /\ Len(written) = record - 1
    /\ \A i \in DOMAIN written : /\ written[i].rec = i
                                 /\ written[i].parts = Whole
                                 /\ written[i].file # 0

(* From the time verbatim has closed its log for a rotation until          *)
(* logrotate has sent SIGUSR2 nothing is written: "Don't write until       *)
(* rotation finished (i.e., received postrotate)" (verbatim.cpp:116).      *)
WaitsForPostrotate == [][written' # written => ~noticed]_vars

(* When no rotation is going on and none is left to handle, the log that   *)
(* is open is verbatim.log and not a file that was renamed: the loop does  *)
(* "log rotation if necessary" (verbatim.cpp:116; open_log, the flags).    *)
(* The one exception is a SIGUSR1 that came after open_log had created the *)
(* log and before both flags were cleared.                                 *)
OnCurrentLog ==
    (~missed /\ rotate = "idle" /\ ~g_prerotate /\ ~g_postrotate /\ pc # "exit") => logout = path

(* A rotation that verbatim has begun to handle ends: it does not sleep    *)
(* for ever in the loop at verbatim.cpp:120.  (open_log may abort.)        *)
RotationEnds == (pc = "rotating") ~> (pc \in {"read", "exit"})

=============================================================================
