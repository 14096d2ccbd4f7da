-------------------------------- MODULE Loader --------------------------------
(***************************************************************************)
(* message.c: how one message is read from its file, first its headers up   *)
(* to the empty line, later its body, with a buffer that grows, reads of any *)
(* size, and the file closed in between.                                    *)
(*                                                                         *)
(* The buffer always holds a stretch of the file: size bytes, those that    *)
(* follow the first base bytes.  One action is one turn of the loop of      *)
(* message_notify, in which nothing else of the program can run.             *)
(***************************************************************************)
EXTENDS Integers, Sequences

CONSTANT Texts  \* what the files may contain

Bytes == {"CR", "LF", "x"}  \* x: any other

ASSUME LoaderAssumption == Texts \subseteq Seq(Bytes)

VARIABLES
  text,      \* the contents of the file
  state,     \* message->state
  open,      \* fd # -1
  base,      \* where in the file the buffer begins
  offset,    \* message->offset: where the next part of the file begins
  capacity, size,    \* of the buffer
  scanned,   \* headers_len: no separator begins before it
  bodyAt, bodyLen,   \* body: where in the file it is from, and body_len
  dead,      \* die() has ended the program
  excused,   \* open() or read() has failed, or a header is malformed
  unsought   \* lseek() has failed for the body, and "skipped" was logged

vars == <<text, state, open, base, offset, capacity, size, scanned,
          bodyAt, bodyLen, dead, excused, unsought>>

buffer == <<base, capacity, size>>
fate   == <<dead, excused, unsought>>

Loading == {"LOADING_HEADERS", "LOADING_BODY"}

TypeOK ==
  /\ text \in Texts
  /\ state \in Loading \cup {"HEADERS_LOADED", "BODY_LOADED", "LOADING_FAILED"}
  /\ open \in BOOLEAN
  /\ base \in Nat /\ offset \in Nat /\ scanned \in Nat
  /\ size \in Nat /\ capacity \in Nat /\ size <= capacity
  /\ base + size <= Len(text)
  /\ bodyAt \in Nat /\ bodyLen \in Nat
  /\ dead \in BOOLEAN /\ excused \in BOOLEAN /\ unsought \in BOOLEAN

\* message_create
Init ==
  /\ text \in Texts
  /\ state = "LOADING_HEADERS"
  /\ open = FALSE
  /\ base = 0 /\ offset = 0 /\ capacity = 0 /\ size = 0 /\ scanned = 0
  /\ bodyAt = 0 /\ bodyLen = 0
  /\ dead = FALSE /\ excused = FALSE /\ unsought = FALSE

-----------------------------------------------------------------------------
(* message_subscribe *)

SubscribeFromStart ==  \* fault: the offset is forgotten
  /\ ~dead
  /\ state \in Loading
  /\ ~open
  /\ open' = TRUE
  /\ base' = 0
  /\ UNCHANGED <<text, state, offset, capacity, size, scanned, bodyAt, bodyLen, fate>>

Subscribe ==
  /\ ~dead
  /\ state \in Loading
  /\ ~open
  /\ \/ /\ state' = "LOADING_FAILED"
        /\ excused' = TRUE
        /\ UNCHANGED <<open, base, unsought>>
     \/ /\ open' = TRUE
        /\ base' = offset
        /\ UNCHANGED <<state, excused, unsought>>
     \/ /\ open' = TRUE  \* lseek() fails
        /\ base' = 0
        /\ unsought' = (unsought \/ offset # 0)
        /\ UNCHANGED <<state, excused>>
  /\ UNCHANGED <<text, offset, capacity, size, scanned, bodyAt, bodyLen, dead>>

-----------------------------------------------------------------------------
(* message_notify *)

\* The separator of headers and body follows the first k bytes of the file.
SeparatorAt(k) ==
  /\ k + 4 <= Len(text)
  /\ text[k + 1] = "CR" /\ text[k + 2] = "LF"
  /\ text[k + 3] = "CR" /\ text[k + 4] = "LF"

\* A full buffer is made larger before the read.
Grown == IF size = capacity THEN (capacity * 5) \div 3 + 1 ELSE capacity

\* read() returns n: anything that there is room for and that is there, and 0 at
\* the end of the file (or when there is no room).
Reads(n) ==
  /\ n \in 0 .. Len(text) - base - size
  /\ n <= Grown - size
  /\ n = 0 => Grown = size \/ base + size = Len(text)

\* What follows the label cleanup; the buffer may have been handed on before.
Cleanup ==
  /\ open' = FALSE
  /\ capacity' = 0
  /\ size' = 0

\* realloc() to the length of what was read: when that is 0, it may return NULL.
Shrink(length) == IF length = 0 THEN dead' \in BOOLEAN ELSE UNCHANGED dead

\* Places where the search for the separator stops, with s bytes in the buffer.
FoundAt(k, s) ==
  /\ k \in scanned .. s - 4
  /\ SeparatorAt(base + k)
  /\ \A j \in scanned .. k - 1 : ~SeparatorAt(base + j)

NotFound(s) == \A j \in scanned .. s - 4 : ~SeparatorAt(base + j)

\* The search goes on where the next separator may begin.
AllScanned(s) == s  \* fault: separators are not split between reads
ScannedAfter(s) == IF scanned < s - 3 THEN s - 3 ELSE scanned

TooEarly(k) ==  \* fault: the separator is taken for a part of the body
  /\ offset' = offset + k
  /\ scanned' = k
  /\ Shrink(k)
  /\ \/ state' = "HEADERS_LOADED" /\ UNCHANGED excused
     \/ state' = "LOADING_FAILED" /\ excused' = TRUE

\* parse_headers and parse_sender_and_destinations may find a malformed header.
HeadersEnd(k) ==
  /\ offset' = offset + k + 4
  /\ scanned' = k
  /\ Shrink(k)
  /\ \/ state' = "HEADERS_LOADED" /\ UNCHANGED excused
     \/ state' = "LOADING_FAILED" /\ excused' = TRUE

ReadHeaders(n) ==
  /\ state = "LOADING_HEADERS"
  /\ IF n = 0
     THEN /\ state' = "LOADING_FAILED"
          /\ Cleanup
          /\ UNCHANGED <<offset, scanned, dead, excused>>
     ELSE \/ /\ \E k \in scanned .. size + n - 4 : FoundAt(k, size + n) /\ HeadersEnd(k)
             /\ Cleanup
          \/ /\ NotFound(size + n)
             /\ scanned' = ScannedAfter(size + n)
             /\ capacity' = Grown
             /\ size' = size + n
             /\ UNCHANGED <<state, open, offset, dead, excused>>
  /\ UNCHANGED <<bodyAt, bodyLen>>

\* Fault: the end of the file is not noticed.
GoOnReading(n) ==
  /\ state = "LOADING_BODY"
  /\ capacity' = Grown
  /\ size' = size + n
  /\ UNCHANGED <<state, open, offset, bodyAt, bodyLen, scanned, dead, excused>>

ReadBody(n) ==
  /\ state = "LOADING_BODY"
  /\ IF n = 0
     THEN /\ state' = "BODY_LOADED"
          /\ offset' = offset + size
          /\ bodyAt' = base
          /\ bodyLen' = size
          /\ Shrink(size)
          /\ Cleanup
     ELSE /\ capacity' = Grown
          /\ size' = size + n
          /\ UNCHANGED <<state, open, offset, bodyAt, bodyLen, dead>>
  /\ UNCHANGED <<scanned, excused>>

Notify ==
  /\ ~dead
  /\ open
  /\ \E n \in 0 .. Len(text) : Reads(n) /\ (ReadHeaders(n) \/ ReadBody(n))
  /\ UNCHANGED <<text, base, unsought>>

\* read() fails.  (When it fails with EAGAIN, nothing happens.)
NotifyFails ==
  /\ ~dead
  /\ open
  /\ state' = "LOADING_FAILED"
  /\ excused' = TRUE
  /\ Cleanup
  /\ UNCHANGED <<text, base, offset, scanned, bodyAt, bodyLen, dead, unsought>>

-----------------------------------------------------------------------------
(* message_start_loading_body *)

StartLoadingBody ==
  /\ ~dead
  /\ state = "HEADERS_LOADED"
  /\ state' = "LOADING_BODY"
  /\ UNCHANGED <<text, open, buffer, offset, scanned, bodyAt, bodyLen, fate>>

Next == Subscribe \/ Notify \/ NotifyFails \/ StartLoadingBody

\* The loop opens what is to be loaded and poll() reports what is open.
Fairness == WF_vars(Subscribe) /\ WF_vars(Notify)

Spec     == Init /\ [][Next]_vars
FairSpec == Spec /\ Fairness

-----------------------------------------------------------------------------
(* Properties.  The file is cut into the pieces that reads of any size make   *)
(* of it, and into the buffers that hold them.                              *)

FirstSeparatorAt(k) == SeparatorAt(k) /\ \A j \in 0 .. k - 1 : ~SeparatorAt(j)

\* The headers are what comes before the first empty line, wherever the reads
\* have cut the file, and the body is looked for right after that line.
HeadersExact ==
  state \in {"HEADERS_LOADED", "LOADING_BODY"} =>
    FirstSeparatorAt(scanned) /\ offset = scanned + 4

\* The body is all that follows the first empty line, unless lseek() failed.
BodyExact ==
  state = "BODY_LOADED" /\ ~unsought =>
    /\ FirstSeparatorAt(scanned)
    /\ bodyAt = scanned + 4
    /\ bodyAt + bodyLen = Len(text)

\* "No empty line separating headers from body" is said of files that have none:
\* no read that returns 0 is taken for the end of the file before it.
RefusedForCause ==
  state = "LOADING_FAILED" /\ ~excused => \A k \in 0 .. Len(text) : ~SeparatorAt(k)

\* The program dies of a message only if its headers or its body are empty.
OnlyEmptyPartDies ==
  dead => \/ FirstSeparatorAt(0)
          \/ \E k \in 0 .. Len(text) : FirstSeparatorAt(k) /\ k + 4 = Len(text)

\* Neither a message nor the program is given up without one of these causes.
FailsForCause == RefusedForCause /\ OnlyEmptyPartDies

\* Reading comes to an end.
LoadingEnds == state \in Loading ~> state \notin Loading \/ dead
=============================================================================
