-------------------------------- MODULE Search --------------------------------
(***************************************************************************)
(* What the search for an address promises to the rest of the session: it   *)
(* goes to and fro between waiting for the DNS and for connect(), and ends  *)
(* in a connection to one of the domain's mail exchangers, or in CLOSED.    *)
(* These are the steps Resolve, Connected and OutOfAddresses of module      *)
(* Client.  Module Resolver is the detailed search and implements this one. *)
(***************************************************************************)
CONSTANT Exchangers  \* hosts that MX records name

VARIABLES state,     \* of the session
          exchanger  \* the host that the session's socket is for

NoExchanger == "none"

Searching == {"RESOLVING_DNS", "CONNECTING"}

SearchTypeOK ==
  /\ state \in Searching \cup {"RECEIVING_GREETING", "CLOSED"}
  /\ exchanger \in Exchangers \cup {NoExchanger}

SearchInit ==
  /\ state \in {"RESOLVING_DNS", "CLOSED"}
  /\ exchanger = NoExchanger

Seek ==
  /\ state \in Searching
  /\ \/ state' = "RESOLVING_DNS" /\ exchanger' \in Exchangers \cup {NoExchanger}
     \/ state' = "CONNECTING" /\ exchanger' \in Exchangers

Arrive ==
  /\ state \in Searching
  /\ state' = "RECEIVING_GREETING"
  /\ exchanger' \in Exchangers

GiveUp ==
  /\ state # "CLOSED"
  /\ state' = "CLOSED"
  /\ exchanger' = NoExchanger

SearchNext == Seek \/ Arrive \/ GiveUp

searchVars == <<state, exchanger>>

\* A search ends.  An established session ends when it likes.
SearchSpec ==
  /\ SearchInit
  /\ [][SearchNext]_searchVars
  /\ WF_searchVars(Arrive \/ (state \in Searching /\ GiveUp))
=============================================================================
