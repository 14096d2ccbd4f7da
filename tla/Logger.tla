-------------------------------- MODULE Logger --------------------------------
(***************************************************************************)
(* logger.c: the thread of the poll loop prints, the logger's own thread    *)
(* writes.  They share a queue and a flag under one mutex with one          *)
(* condition variable.  A step is what a thread does between two points at  *)
(* which the other can be seen to run.  A line is the number of its print.  *)
(***************************************************************************)
EXTENDS Naturals, Sequences, Functions

CONSTANT Lines  \* how many lines are printed at most

ASSUME LoggerAssumption == Lines \in Nat

VARIABLES
  \* struct logger
  messages,        \* the lines printed and not taken by the thread yet
  join_requested,
  mutex,           \* free, or the thread that holds it
  \* thread_body
  batch,           \* its own queue
  joining,         \* its own copy of the flag
  buffer,          \* what it has written to the stream and not flushed
  file,            \* what is in the log file
  lost,            \* the lines that a failed fwrite took with it
  \* both
  printed,         \* how many lines have been put in the queue
  pcMain,          \* where the printing thread is
  pcLogger         \* where the logger's thread is

shared == <<messages, join_requested>>
local  == <<batch, joining, buffer, file, lost>>
vars   == <<messages, join_requested, mutex, batch, joining, buffer, file, lost,
            printed, pcMain, pcLogger>>

MainPlaces == {"idle", "print", "insert", "signal", "unlock",
               "finalize", "request", "signalEnd", "unlockEnd", "join",
               "done", "dead"}

\* dead: the process was ended by die() while the thread was running.
LoggerPlaces == {"lock", "test", "waiting", "relock", "take", "unlock",
                 "write", "flush", "done", "dead"}

\* The places between pthread_mutex_lock and pthread_mutex_unlock.
MainInside   == {"insert", "signal", "unlock", "request", "signalEnd", "unlockEnd"}
LoggerInside == {"test", "take", "unlock"}

TypeOK ==
  /\ messages \in Seq(1 .. Lines)
  /\ join_requested \in BOOLEAN
  /\ mutex \in {"free", "main", "logger"}
  /\ batch \in Seq(1 .. Lines)
  /\ joining \in BOOLEAN
  /\ buffer \in Seq(1 .. Lines)
  /\ file \in Seq(1 .. Lines)
  /\ lost \in SUBSET (1 .. Lines)
  /\ printed \in 0 .. Lines
  /\ pcMain \in MainPlaces
  /\ pcLogger \in LoggerPlaces

\* logger_initialize
Init ==
  /\ messages = <<>>
  /\ join_requested = FALSE
  /\ mutex = "free"
  /\ batch = <<>>
  /\ joining = FALSE
  /\ buffer = <<>>
  /\ file = <<>>
  /\ lost = {}
  /\ printed = 0
  /\ pcMain = "idle"
  /\ pcLogger = "lock"

-----------------------------------------------------------------------------
(* The printing thread: logger_vprintf and logger_finalize. *)

MainGoes(from, to) == pcMain = from /\ pcMain' = to

MainLocks(from, to) ==
  /\ MainGoes(from, to)
  /\ mutex = "free"
  /\ mutex' = "main"
  /\ UNCHANGED <<shared, local, printed, pcLogger>>

MainUnlocks(from, to) ==
  /\ MainGoes(from, to)
  /\ mutex' = "free"
  /\ UNCHANGED <<shared, local, printed, pcLogger>>

\* pthread_cond_signal: nobody hears it but a thread that waits.
Unheard == pcLogger  \* fault: another condition variable
Signalled == IF pcLogger = "waiting" THEN "relock" ELSE pcLogger

MainSignals(from, to) ==
  /\ MainGoes(from, to)
  /\ pcLogger' = Signalled
  /\ UNCHANGED <<shared, mutex, local, printed>>

StartPrint ==
  /\ printed < Lines
  /\ MainGoes("idle", "print")
  /\ UNCHANGED <<shared, mutex, local, printed, pcLogger>>

Insert ==
  /\ MainGoes("insert", "signal")
  /\ messages' = Append(messages, printed + 1)
  /\ printed' = printed + 1
  /\ UNCHANGED <<join_requested, mutex, local, pcLogger>>

Finalize ==
  /\ MainGoes("idle", "finalize")
  /\ UNCHANGED <<shared, mutex, local, printed, pcLogger>>

RequestJoin ==
  /\ MainGoes("request", "signalEnd")
  /\ join_requested' = TRUE
  /\ UNCHANGED <<messages, mutex, local, printed, pcLogger>>

Joined ==
  /\ MainGoes("join", "done")
  /\ pcLogger = "done"
  /\ UNCHANGED <<shared, mutex, local, printed, pcLogger>>

Main ==
  \/ StartPrint \/ MainLocks("print", "insert") \/ Insert
  \/ MainSignals("signal", "unlock") \/ MainUnlocks("unlock", "idle")
  \/ Finalize \/ MainLocks("finalize", "request") \/ RequestJoin
  \/ MainSignals("signalEnd", "unlockEnd") \/ MainUnlocks("unlockEnd", "join")
  \/ Joined

\* die() in the printing thread: exit() writes out what is in the stream, the
\* two queues are never seen again.
Die ==
  /\ pcMain = "idle"
  /\ pcMain' = "dead"
  /\ pcLogger' = "dead"
  /\ file' = file \o buffer
  /\ buffer' = <<>>
  /\ UNCHANGED <<shared, mutex, batch, joining, lost, printed>>

-----------------------------------------------------------------------------
(* The logger's thread: thread_body. *)

LoggerGoes(from, to) == pcLogger = from /\ pcLogger' = to

LoggerLocks(from) ==
  /\ LoggerGoes(from, "test")
  /\ mutex = "free"
  /\ mutex' = "logger"
  /\ UNCHANGED <<shared, local, printed, pcMain>>

NoLines == messages = <<>>  \* fault: a request to join does not count
NothingToDo == messages = <<>> /\ ~join_requested

\* pthread_cond_wait gives up the mutex and waits in one step.
Wait ==
  /\ LoggerGoes("test", "waiting")
  /\ NothingToDo
  /\ mutex' = "free"
  /\ UNCHANGED <<shared, local, printed, pcMain>>

\* It may return without a signal.
SpuriousWakeup ==
  /\ LoggerGoes("waiting", "relock")
  /\ UNCHANGED <<shared, mutex, local, printed, pcMain>>

StopWaiting ==
  /\ LoggerGoes("test", "take")
  /\ ~NothingToDo
  /\ UNCHANGED <<shared, mutex, local, printed, pcMain>>

\* STAILQ_CONCAT empties the shared queue.
Copy ==  \* fault: it does not
  /\ LoggerGoes("take", "unlock")
  /\ batch' = batch \o messages
  /\ joining' = (joining \/ join_requested)
  /\ UNCHANGED <<shared, mutex, buffer, file, lost, printed, pcMain>>

Take ==
  /\ LoggerGoes("take", "unlock")
  /\ batch' = batch \o messages
  /\ messages' = <<>>
  /\ joining' = (joining \/ join_requested)
  /\ UNCHANGED <<join_requested, mutex, buffer, file, lost, printed, pcMain>>

LoggerUnlocks ==
  /\ LoggerGoes("unlock", "write")
  /\ mutex' = "free"
  /\ UNCHANGED <<shared, local, printed, pcMain>>

\* fwrite puts the line behind what is in the stream.
Written ==
  /\ buffer' = Append(buffer, Head(batch))
  /\ UNCHANGED <<file, lost>>

\* fwrite fails: a message on stderr.  The stream had to write out its buffer
\* and could not, or only some of it, and starts with an empty one.  (A line
\* of which a part has got to the file counts as lost.)
WriteFails ==
  \E out \in 0 .. Len(buffer) :
    /\ file' = file \o SubSeq(buffer, 1, out)
    /\ buffer' = <<>>
    /\ lost' = lost \union {Head(batch)} \union {buffer[i] : i \in out + 1 .. Len(buffer)}

\* Either way the line leaves the queue and the thread goes on.
WriteLine ==
  /\ LoggerGoes("write", "write")
  /\ batch # <<>>
  /\ batch' = Tail(batch)
  /\ Written \/ WriteFails
  /\ UNCHANGED <<shared, mutex, joining, printed, pcMain>>

WrittenAll ==
  /\ LoggerGoes("write", "flush")
  /\ batch = <<>>
  /\ UNCHANGED <<shared, mutex, local, printed, pcMain>>

\* fflush, then out of the loop or round again.
LeaveEarly ==  \* fault: the loop looks at the shared flag
  /\ pcLogger = "flush"
  /\ pcLogger' = IF join_requested THEN "done" ELSE "lock"
  /\ file' = file \o buffer
  /\ buffer' = <<>>
  /\ UNCHANGED <<shared, mutex, batch, joining, lost, printed, pcMain>>

NoFlush ==  \* fault: fflush is left to the end of the program
  /\ pcLogger = "flush"
  /\ pcLogger' = IF joining THEN "done" ELSE "lock"
  /\ UNCHANGED <<shared, mutex, local, printed, pcMain>>

Flush ==
  /\ pcLogger = "flush"
  /\ pcLogger' = IF joining THEN "done" ELSE "lock"
  /\ file' = file \o buffer
  /\ buffer' = <<>>
  /\ UNCHANGED <<shared, mutex, batch, joining, lost, printed, pcMain>>

\* fflush fails: die() in this thread ends the process, too.
LoggerDies ==
  /\ LoggerGoes("flush", "dead")
  /\ pcMain' = "dead"
  /\ UNCHANGED <<shared, mutex, local, printed>>

LoggerThread ==
  \/ LoggerLocks("lock") \/ LoggerLocks("relock") \/ Wait \/ StopWaiting \/ Take
  \/ LoggerUnlocks \/ WriteLine \/ WrittenAll \/ Flush

Ended == pcMain \in {"done", "dead"} /\ UNCHANGED vars

Next == Main \/ Die \/ LoggerThread \/ SpuriousWakeup \/ LoggerDies \/ Ended

Spec == Init /\ [][Next]_vars

\* Threads are scheduled fairly, and a mutex is had in the end by who waits
\* for it.  StartPrint, Finalize and Die are up to the program.
Fairness ==
  /\ WF_vars(Main /\ pcMain # "idle")
  /\ SF_vars(MainLocks("print", "insert"))
  /\ SF_vars(MainLocks("finalize", "request"))
  /\ WF_vars(LoggerThread)
  /\ SF_vars(LoggerLocks("lock"))
  /\ SF_vars(LoggerLocks("relock"))

FairSpec == Spec /\ Fairness

-----------------------------------------------------------------------------
(* Properties. *)

\* The mutex does what it is for: while a thread is at the shared queue or
\* flag the mutex is its own, and never are both there.
MutualExclusion ==
  pcMain # "dead" =>
    /\ (mutex = "main") <=> (pcMain \in MainInside)
    /\ (mutex = "logger") <=> (pcLogger \in LoggerInside)

\* Where a line is on its way, from the file back to the shared queue.
Way == file \o buffer \o batch \o messages

\* What has been printed and not lost in an fwrite that failed.
Kept == (1 .. printed) \ lost

Increasing(s) == \A i, j \in DOMAIN s : i < j => s[i] < s[j]

\* Every line but those that a failed fwrite took with it is in one place of
\* the way, once, and the lines there are in the order in which they were
\* printed: the hand-over from queue to queue loses, doubles and overtakes none.
InOrder == Increasing(Way) /\ Range(Way) = Kept

\* The thread does not sleep through work: when it waits with a line in the
\* queue or an end requested, the signal is the very next thing that happens.
NoLostWakeup ==
  pcLogger = "waiting" /\ ~NothingToDo => pcMain \in {"signal", "signalEnd"}

\* When logger_finalize has returned, the file has every line printed but
\* those that a failed fwrite took with it: nothing is left in a queue or in
\* the stream.
CompleteWhenJoined == pcMain = "done" => Range(file) = Kept

\* Every line printed gets to the file, unless die() comes first or an fwrite
\* fails that was to write it or a line behind it.
EveryLineWritten ==
  \A n \in 1 .. Lines : (printed >= n) ~> (n \in Range(file) \union lost \/ pcMain = "dead")

\* logger_finalize returns.
FinalizeReturns == (pcMain = "finalize") ~> (pcMain \in {"done", "dead"})
=============================================================================
