------------------------------ MODULE Delivery ------------------------------
(***************************************************************************)
(* What the relay promises to whoever drops a file into <maildir>/out: the  *)
(* file stays there until the server of every one of its destination hosts  *)
(* has taken responsibility for a copy.  Nothing is said of how often a     *)
(* host is given a copy; the relay delivers at least once.                  *)
(***************************************************************************)
CONSTANTS Files,    \* names of the files that can appear in <maildir>/out
          Hosts,    \* destination hosts, the part of an address after the '@'
          Dests     \* Dests[f]: the hosts that the headers of f name

VARIABLES stored,   \* the files that are in <maildir>/out
          accepted  \* the pairs <<f, h>> such that h's server accepted f

vars == <<stored, accepted>>

Delivered(f) == /\ Dests[f] # {}
                /\ \A h \in Dests[f] : <<f, h>> \in accepted

Init == /\ stored = {}
        /\ accepted = {}

\* A file name is never used twice: a file some server has seen is not new.
Submit(f) == /\ f \notin stored
             /\ \A h \in Hosts : <<f, h>> \notin accepted
             /\ stored' = stored \cup {f}
             /\ UNCHANGED accepted

\* One stop or crash of the relay can leave several payloads in flight that
\* their servers accept, hence a set of files and hosts.
Accept(S) == /\ S \subseteq {p \in stored \X Hosts : p[2] \in Dests[p[1]]}
             /\ accepted' = accepted \cup S
             /\ UNCHANGED stored

Remove(f) == /\ f \in stored
             /\ Delivered(f)
             /\ stored' = stored \ {f}
             /\ UNCHANGED accepted

Next == \/ \E f \in Files : Submit(f) \/ Remove(f)
        \/ \E S \in SUBSET (Files \X Hosts) : Accept(S)

Spec == Init /\ [][Next]_vars
=============================================================================
