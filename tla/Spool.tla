-------------------------------- MODULE Spool --------------------------------
(***************************************************************************)
(* What the maildir component promises to the client: while the client     *)
(* runs, every file that is or comes to be in <maildir>/out is reported to  *)
(* it once, except that a file that arrives while the directory is being    *)
(* scanned may be reported twice (by the scan and by its inotify event).   *)
(* Module Maildir is the detailed component and implements this one, with  *)
(* its reports counted (module Reports).                                   *)
(***************************************************************************)
CONSTANT Files

VARIABLES out,    \* the files in <maildir>/out
          up,     \* the client is running
          due,    \* the files still to be reported in this run
          again   \* of those, the ones that will be reported once more

spoolVars == <<out, up, due, again>>

SpoolTypeOK == /\ out \subseteq Files
               /\ up \in BOOLEAN
               /\ due \subseteq Files
               /\ again \subseteq due

SpoolInit == /\ out = {}
             /\ up = FALSE
             /\ due = {}
             /\ again = {}

\* Another program renames a finished file into the directory.
MoveIn(f) ==
  /\ f \notin out
  /\ out' = out \cup {f}
  /\ due' = IF up THEN due \cup {f} ELSE due
  /\ again' \in IF up THEN {again, again \cup {f}} ELSE {again}
  /\ UNCHANGED up

\* The second reports of some files meet the first in the queue of names, or
\* the scan does not come to see them.
Merge(fs) == /\ fs \subseteq again
             /\ again' = again \ fs
             /\ UNCHANGED <<out, up, due>>

Report(f) == /\ up
             /\ f \in due
             /\ due' = IF f \in again THEN due ELSE due \ {f}
             /\ again' = again \ {f}

Discover(f) == Report(f) /\ UNCHANGED <<out, up>>

\* The client deletes a file it has delivered.  The file has been reported,
\* but a second report of it may still be due.
Unlink(f) == /\ up
             /\ f \in out
             /\ out' = out \ {f}
             /\ UNCHANGED <<up, due, again>>

Begin == /\ ~up
         /\ up' = TRUE
         /\ due' = out
         /\ again' = {}

End == /\ up' = FALSE
       /\ due' = {}
       /\ again' = {}

Start == Begin /\ UNCHANGED out
Stop  == up /\ End /\ UNCHANGED out
=============================================================================
