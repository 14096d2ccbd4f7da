------------------------------- MODULE Maildir -------------------------------
(***************************************************************************)
(* maildir.c: how the names of files in <maildir>/out reach the client.     *)
(* An inotify watch reports what is renamed into the directory, one scan    *)
(* with readdir() reports what was there before, and maildir->messages is   *)
(* where the two meet.  maildir_notify reads some events and at most one    *)
(* directory entry per round of the poll loop; nothing is given to the      *)
(* client before the scan is over.                                          *)
(***************************************************************************)
EXTENDS Naturals, Sequences, FiniteSets

CONSTANTS Files,    \* names of files
          MaxRead,  \* how many events one read() of inotify_fd can return
          MaxRuns   \* how often the program is started

ASSUME MaildirAssumption == /\ MaxRead \in Nat \ {0}
                            /\ MaxRuns \in Nat

VARIABLES
  out,     \* the directory
  moved,   \* every file that was ever moved there: a name is used once
  phase,   \* down, watching (inotify only), scanning, or scanned (dir is NULL)
  events,  \* the kernel's queue of inotify events
  unread,  \* entries that the directory stream has yet to return
  late,    \* entries made after opendir(): readdir() may return them or not
  queue,   \* maildir->messages
  told,    \* told[f]: how often the client was told of f in this run
  run      \* how often the program has been started

vars == <<out, moved, phase, events, unread, late, queue, told, run>>

Phases == {"down", "watching", "scanning", "scanned"}

Elements(s) == {s[i] : i \in DOMAIN s}

TypeOK ==
  /\ out \subseteq moved
  /\ moved \subseteq Files
  /\ phase \in Phases
  /\ events \in Seq(Files)
  /\ unread \subseteq Files
  /\ late \subseteq Files
  /\ queue \in Seq(Files)
  /\ told \in [Files -> Nat]
  /\ run \in Nat

Init ==
  /\ out = {}
  /\ moved = {}
  /\ phase = "down"
  /\ events = <<>>
  /\ unread = {}
  /\ late = {}
  /\ queue = <<>>
  /\ told = [f \in Files |-> 0]
  /\ run = 0

-----------------------------------------------------------------------------
(* maildir_initialize: the watch first, the directory stream after it. *)

AddWatch ==
  /\ phase = "down"
  /\ run < MaxRuns
  /\ phase' = "watching"
  /\ run' = run + 1
  /\ UNCHANGED <<out, moved, events, unread, late, queue, told>>

OpenDir ==
  /\ phase = "watching"
  /\ phase' = "scanning"
  /\ unread' = out
  /\ UNCHANGED <<out, moved, events, late, queue, told, run>>

\* enqueue: a name that is in the queue already is not put there again.
EnqueueAlways(q, f) == Append(q, f)  \* fault: it is
Enqueue(q, f) == IF f \in Elements(q) THEN q ELSE Append(q, f)

\* The queue after n events have been read into it.
FirstOnly(n) == IF n = 0 THEN queue ELSE Enqueue(queue, events[1])  \* fault
Absorbed(n) ==
  LET q[i \in 0 .. n] == IF i = 0 THEN queue ELSE Enqueue(q[i - 1], events[i])
  IN  q[n]

\* maildir_notify reads n events.  n = 0: poll() reported none.
ReadEvents(n) ==
  /\ n <= Len(events)
  /\ events' = SubSeq(events, n + 1, Len(events))

\* Afterwards, while the directory is open, it reads one entry: none when
\* poll() did not report the directory or the entry is "." or "..".
NoEntry(n) ==
  /\ phase \in {"scanning", "scanned"}
  /\ n > 0
  /\ queue' = Absorbed(n)
  /\ UNCHANGED <<phase, unread, late>>

Entry(n) ==
  /\ phase = "scanning"
  /\ \E f \in unread \cup late :
       /\ queue' = Enqueue(Absorbed(n), f)
       /\ unread' = unread \ {f}
       /\ late' = late \ {f}
  /\ UNCHANGED phase

\* readdir() returns NULL and the directory is closed.
NeverClosed(n) ==  \* fault: maildir->dir is not set to NULL
  /\ phase = "scanning"
  /\ unread = {}
  /\ queue' = Absorbed(n)
  /\ UNCHANGED <<phase, unread, late>>

LastEntry(n) ==
  /\ phase = "scanning"
  /\ unread = {}
  /\ queue' = Absorbed(n)
  /\ phase' = "scanned"
  /\ late' = {}
  /\ UNCHANGED unread

Notify ==
  /\ \E n \in 0 .. MaxRead :
       ReadEvents(n) /\ (NoEntry(n) \/ Entry(n) \/ LastEntry(n))
  /\ UNCHANGED <<out, moved, told, run>>

\* maildir_discover_message
Discover ==
  /\ phase = "scanned"
  /\ queue # <<>>
  /\ queue' = Tail(queue)
  /\ told' = [told EXCEPT ![Head(queue)] = @ + 1]
  /\ UNCHANGED <<out, moved, phase, events, unread, late, run>>

-----------------------------------------------------------------------------
(* The others. *)

\* A file is renamed into the directory.
MoveIn(f) ==
  /\ f \notin moved
  /\ moved' = moved \cup {f}
  /\ out' = out \cup {f}
  /\ events' = IF phase = "down" THEN events ELSE Append(events, f)
  /\ late' = IF phase = "scanning" THEN late \cup {f} ELSE late
  /\ UNCHANGED <<phase, unread, queue, told, run>>

\* The client deletes a file it has been told of (message_release).
Unlink(f) ==
  /\ phase = "scanned"
  /\ f \in out
  /\ told[f] > 0
  /\ out' = out \ {f}
  /\ UNCHANGED <<moved, phase, events, unread, late, queue, told, run>>

\* maildir_finalize or a crash: the queues of the process and of its inotify
\* descriptor are gone.
Stop ==
  /\ phase # "down"
  /\ phase' = "down"
  /\ events' = <<>>
  /\ unread' = {}
  /\ late' = {}
  /\ queue' = <<>>
  /\ told' = [f \in Files |-> 0]
  /\ UNCHANGED <<out, moved, run>>

Next ==
  \/ AddWatch \/ OpenDir \/ Notify \/ Discover \/ Stop
  \/ \E f \in Files : MoveIn(f) \/ Unlink(f)

\* A round of the poll loop comes when there is something to read.
Fairness == WF_vars(OpenDir) /\ WF_vars(Notify) /\ WF_vars(Discover)

Spec     == Init /\ [][Next]_vars
FairSpec == Spec /\ Fairness

-----------------------------------------------------------------------------
(* Properties. *)

\* Where a report of f can still come from.
Noticed(f) == \/ f \in Elements(queue)
              \/ f \in Elements(events)
              \/ f \in unread
              \/ phase = "watching"

\* No file falls between the scan and the watch: while the program runs, a
\* file in the directory has been reported or is on its way to be.
NoFileMissed ==
  \A f \in out : phase = "down" \/ told[f] > 0 \/ Noticed(f)

\* One file is reported at most twice in a run, and twice only by the scan and
\* an event that arrived when the scan was under way.
ToldAtMostTwice ==
  \A f \in Files : told[f] + (IF f \in Elements(queue) THEN 1 ELSE 0)
                          + (IF f \in Elements(events) THEN 1 ELSE 0) <= 2

\* The state that the abstract component sees: what Spool promises is kept,
\* every file is reported once, or twice if it came during the scan.
up    == phase # "down"
due   == CASE phase = "down"     -> {}
           [] phase = "watching" -> out
           [] OTHER -> Elements(queue) \cup Elements(events) \cup unread
again == IF phase = "watching" THEN Elements(events)
         ELSE Elements(events) \cap (Elements(queue) \cup unread \cup late)

Promise == INSTANCE Reports
ImplementsSpool == Promise!ReportsSpec

\* Every file in the directory is reported in the end, unless the program stops.
EveryFileReported ==
  \A f \in Files : (f \in out /\ phase # "down") ~> (told[f] > 0 \/ phase = "down")
=============================================================================
