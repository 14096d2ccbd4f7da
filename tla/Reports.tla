------------------------------- MODULE Reports -------------------------------
(* Spool with its reports counted: what Maildir implements. *)
EXTENDS Spool, Naturals

VARIABLE told  \* told[f]: how often the client was told of f in this run

None == [f \in Files |-> 0]

Tell(f) == Discover(f) /\ told' = [told EXCEPT ![f] = @ + 1]

ReportsNext ==
  \/ \E f \in Files : Tell(f)
  \/ /\ \/ \E f \in Files : MoveIn(f) \/ Unlink(f)
        \/ \E fs \in SUBSET Files : Merge(fs)
     /\ UNCHANGED told
  \/ (Start \/ Stop) /\ told' = None

ReportsSpec == SpoolInit /\ told = None /\ [][ReportsNext]_<<spoolVars, told>>
=============================================================================
