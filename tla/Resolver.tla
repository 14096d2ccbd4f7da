------------------------------- MODULE Resolver -------------------------------
(***************************************************************************)
(* session.c up to the connection: the MX, AAAA and A queries of a session, *)
(* the addresses it tries, the socket it tries them with, and what it has    *)
(* on the heap for it, until session_finalize.                              *)
(*                                                                         *)
(* One action is one callback of c-ares, with all that it calls, or one     *)
(* outcome of connect().  There is one query at a time; one that cannot be  *)
(* sent fails at once, which is an answer that comes before anything else.  *)
(* A fault of the code (undefined behaviour in C) ends the run.             *)
(***************************************************************************)
EXTENDS Naturals, Sequences

CONSTANTS Exchangers,   \* hosts that MX records name
          MaxRecords,   \* how many MX records a domain can have
          MaxAddresses  \* how many addresses of one family a host can have

ASSUME ResolverAssumption == /\ "none" \notin Exchangers
                             /\ MaxRecords \in Nat
                             /\ MaxAddresses \in Nat

VARIABLES
  state,    \* state of the session
  query,    \* the query that c-ares has not answered: none, mx, aaaa or a
  records,  \* the list at first_mx_reply, while it is not freed
  mx,       \* mx_reply: its place in the list, 0 before there is one
  hostent,  \* the struct hostent: null, live, or freed with the pointer kept
  family,   \* its h_addrtype
  count,    \* the length of its h_addr_list
  index,    \* addr_index, counted from 1
  socket,   \* fd: none, or the family of the socket
  peer,     \* sockaddr.ss_family: none until it is set
  stage,    \* how far session_finalize has come
  fault,    \* what the code did wrong
  known, tried  \* the addresses it has been given, those it has tried

vars == <<state, query, records, mx, hostent, family, count, index, socket,
          peer, stage, fault, known, tried>>

search == <<state, query, mx>>
host   == <<hostent, family, count, index>>

Families == {"inet6", "inet"}
Places   == 1 .. MaxRecords
Address  == Places \X Families \X (1 .. MaxAddresses)

TypeOK ==
  /\ state \in {"RESOLVING_DNS", "CONNECTING", "RECEIVING_GREETING", "CLOSED"}
  /\ query \in {"none", "mx", "aaaa", "a"}
  /\ records \in Seq(Exchangers) /\ Len(records) <= MaxRecords
  /\ mx \in 0 .. MaxRecords + 1
  /\ hostent \in {"null", "live", "freed"}
  /\ family \in Families
  /\ count \in 0 .. MaxAddresses
  /\ index \in 1 .. MaxAddresses + 1
  /\ socket \in Families \cup {"none"}
  /\ peer \in Families \cup {"none"}
  /\ stage \in {"running", "cancelled", "released", "destroyed"}
  /\ fault \in {"none", "null_read", "double_free", "use_after_free"}
  /\ known \subseteq Address
  /\ tried \subseteq Address

\* session_initialize: ares_init may fail; the query for MX records goes out.
Init ==
  /\ \/ state = "RESOLVING_DNS" /\ query = "mx"
     \/ state = "CLOSED" /\ query = "none"
  /\ records = <<>>
  /\ mx = 0
  /\ hostent = "null" /\ family = "inet6" /\ count = 0 /\ index = 1
  /\ socket = "none" /\ peer = "none"
  /\ stage = "running"
  /\ fault = "none"
  /\ known = {} /\ tried = {}

Running == stage = "running" /\ fault = "none"

-----------------------------------------------------------------------------
(* What the callbacks call, in a session whose state is s. *)

\* ares_search
Ask(what, s) ==
  /\ state' = s
  /\ query' = what

Abort ==
  /\ state' = "CLOSED"
  /\ query' = "none"

\* try_next_mx_reply
StartOver(s) ==  \* fault: after the last one comes the first
  /\ mx' = (mx % Len(records)) + 1
  /\ Ask("aaaa", s)

TryNextMx(s) ==
  /\ mx' = mx + 1
  /\ IF mx < Len(records) THEN Ask("aaaa", s) ELSE Abort

\* A query failed, or its answer could not be parsed: IPv4 comes after IPv6,
\* the next exchanger after IPv4.
TryNextFamily(failed, s) ==
  IF failed = "inet6" THEN Ask("a", s) /\ UNCHANGED mx ELSE TryNextMx(s)

\* A socket of the other family is closed, a new one made.
SocketKept(f) == IF socket = "none" THEN f ELSE socket  \* fault: it is not
SocketFor(f)  == IF socket = "none" \/ peer # f THEN f ELSE socket

\* The end of the list of addresses: it is freed.
OutOfAddresses(f, s) ==
  /\ hostent' = "freed"
  /\ TryNextFamily(f, s)

\* try_addr, on n addresses of family f from place i on: connect() fails at
\* once for those before place j; at j it is on its way, or succeeds, or there
\* is no j-th address.
TryAddr(f, n, i, s) ==
  \E j \in i .. n + 1 :
    /\ index' = j
    /\ tried' = tried \cup {<<mx, f, k>> : k \in i .. (IF j > n THEN n ELSE j)}
    /\ IF i > n THEN UNCHANGED <<socket, peer>>
       ELSE socket' = SocketFor(f) /\ peer' = f
    /\ IF j > n THEN OutOfAddresses(f, s)
       ELSE /\ state' \in {"CONNECTING", "RECEIVING_GREETING"}
            /\ query' = "none"
            /\ hostent' = "live"
            /\ UNCHANGED mx

-----------------------------------------------------------------------------
(* The callbacks of c-ares, while the session runs. *)

\* mx_search_callback.  A reply may have answers, but no MX among them.
MxAnswered ==
  /\ Running
  /\ query = "mx"
  /\ \/ Abort /\ UNCHANGED <<records, mx, fault>>
     \/ \E n \in 1 .. MaxRecords :
          /\ records' \in [1 .. n -> Exchangers]
          /\ mx' = 1
          /\ Ask("aaaa", state)
          /\ UNCHANGED fault
     \/ /\ fault' = "null_read"
        /\ UNCHANGED <<state, query, records, mx>>
  /\ UNCHANGED <<host, socket, peer, stage, known, tried>>

FamilyAsked == IF query = "aaaa" THEN "inet6" ELSE "inet"

\* The status is not ARES_SUCCESS: session->hostent stays as it is.
QueryFailed ==
  /\ query \in {"aaaa", "a"}
  /\ TryNextFamily(FamilyAsked, state)
  /\ UNCHANGED host

\* The parser fails: it sets the pointer to NULL.
AnswerMalformed ==
  /\ query \in {"aaaa", "a"}
  /\ TryNextFamily(FamilyAsked, state)
  /\ hostent' = "null"
  /\ UNCHANGED <<family, count, index>>

NoAddresses ==
  /\ Running
  /\ QueryFailed \/ AnswerMalformed
  /\ UNCHANGED <<records, socket, peer, stage, fault, known, tried>>

\* aaaa_search_callback and a_search_callback with n addresses.
IndexKept ==  \* fault: addr_index is not set back
  /\ Running
  /\ query \in {"aaaa", "a"}
  /\ \E n \in 0 .. MaxAddresses :
       /\ family' = FamilyAsked
       /\ count' = n
       /\ known' = known \cup {<<mx, FamilyAsked, k>> : k \in 1 .. n}
       /\ TryAddr(FamilyAsked, n, IF index <= n + 1 THEN index ELSE n + 1, state)
  /\ UNCHANGED <<records, stage, fault>>

Addresses ==
  /\ Running
  /\ query \in {"aaaa", "a"}
  /\ \E n \in 0 .. MaxAddresses :
       /\ family' = FamilyAsked
       /\ count' = n
       /\ known' = known \cup {<<mx, FamilyAsked, k>> : k \in 1 .. n}
       /\ TryAddr(FamilyAsked, n, 1, state)
  /\ UNCHANGED <<records, stage, fault>>

-----------------------------------------------------------------------------
(* session_notify in state CONNECTING. *)

Connected ==
  /\ Running
  /\ state = "CONNECTING"
  /\ state' = "RECEIVING_GREETING"
  /\ UNCHANGED <<query, records, mx, host, socket, peer, stage, fault, known, tried>>

StateKept ==  \* fault: the session does not go back to RESOLVING_DNS
  /\ Running
  /\ state = "CONNECTING"
  /\ TryAddr(family, count, index + 1, state)
  /\ UNCHANGED <<records, family, count, stage, fault, known>>

ConnectFailed ==
  /\ Running
  /\ state = "CONNECTING"
  /\ TryAddr(family, count, index + 1, "RESOLVING_DNS")
  /\ UNCHANGED <<records, family, count, stage, fault, known>>

-----------------------------------------------------------------------------
(* session_finalize, when the session is closed or the client ends. *)

\* A callback with a failure: what c-ares makes of a query it gives up.
GivenUp ==
  \/ query = "none" /\ UNCHANGED <<search, host>>
  \/ query = "mx" /\ Abort /\ UNCHANGED <<mx, host>>
  \/ QueryFailed

\* ares_cancel calls back; the callback may send the next query.
Cancel ==
  /\ Running
  /\ GivenUp
  /\ stage' = "cancelled"
  /\ UNCHANGED <<records, socket, peer, fault, known, tried>>

\* ... which may fail at once.
FailAtOnce ==
  /\ stage = "cancelled"
  /\ fault = "none"
  /\ query # "none"
  /\ GivenUp
  /\ UNCHANGED <<records, socket, peer, stage, fault, known, tried>>

\* close(), ares_free_hostent and ares_free_data
ReleaseAll ==
  /\ stage = "cancelled"
  /\ fault = "none"
  /\ stage' = "released"
  /\ IF hostent = "freed"
     THEN fault' = "double_free" /\ UNCHANGED <<hostent, socket>>
     ELSE hostent' = "null" /\ socket' = "none" /\ UNCHANGED fault
  /\ UNCHANGED <<search, records, family, count, index, peer, known, tried>>

\* ares_destroy calls back, too: the callbacks for AAAA and A use mx_reply.
Destroy ==
  /\ stage = "released"
  /\ fault = "none"
  /\ stage' = "destroyed"
  /\ fault' = IF query \in {"aaaa", "a"} THEN "use_after_free" ELSE fault
  /\ UNCHANGED <<search, records, host, socket, peer, known, tried>>

-----------------------------------------------------------------------------
\* session_notify calls ares_process in this state only.
Answer == state = "RESOLVING_DNS" /\ (MxAnswered \/ NoAddresses \/ Addresses)

Next ==
  \/ Answer
  \/ Connected \/ ConnectFailed
  \/ Cancel \/ FailAtOnce \/ ReleaseAll \/ Destroy

\* c-ares gives a query up when its timeouts have passed, and TCP a connect().
Fairness == WF_vars(Answer) /\ WF_vars(Connected \/ ConnectFailed)

Spec     == Init /\ [][Next]_vars
FairSpec == Spec /\ Fairness

-----------------------------------------------------------------------------
(* Properties. *)

\* The socket that connect() is called with has the family of the address it
\* is called with, whichever addresses of whichever hosts it was used for.
SocketFits == socket # "none" => socket = peer

\* A session is given up for want of addresses only when it has asked for
\* those of every exchanger and tried each one, through failed queries,
\* unusable answers and connections that are refused at once or later.
EveryAddressTried ==
  Running /\ state = "CLOSED" => known = tried /\ (mx = 0 \/ mx = Len(records) + 1)

\* The struct hostent is overwritten by the next answer: by then it must have
\* been freed, or it is lost.
HostentNotLost == query # "none" => hostent # "live"

\* session_subscribe looks at c-ares' sockets and timeouts in RESOLVING_DNS
\* only: in each other state a query would never be answered, and without one
\* nothing would ever wake a session in this state.
QueryWhileResolving ==
  Running => (query # "none" <=> state = "RESOLVING_DNS")

\* The search does what module Search promises, and ends.
Promise == INSTANCE Search WITH
  state     <- IF Running THEN state ELSE "CLOSED",
  exchanger <- IF Running /\ state \in {"CONNECTING", "RECEIVING_GREETING"}
               THEN records[mx] ELSE "none"
ImplementsSearch == Promise!SearchSpec

\* session_finalize frees a list of addresses twice, or the list of exchangers
\* too early, only in a session that is still searching or has found nothing:
\* from the first connect() that is under way on, what it frees is there, and
\* no query is left that would call back into it.
ConnectedIsSafe == state \in {"CONNECTING", "RECEIVING_GREETING"} => fault = "none"
=============================================================================
