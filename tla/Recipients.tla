------------------------------ MODULE Recipients ------------------------------
(***************************************************************************)
(* The recipients of one message, from its headers to the servers:           *)
(* parse_sender_and_destinations sorts them by host, client_notify gives the  *)
(* message to a session for each host, every session names those of its host *)
(* one by one, each after a reply, and takes the host off the list when its   *)
(* server has the message.                                                   *)
(***************************************************************************)
EXTENDS Integers, Sequences, SequencesExt

CONSTANTS
  Users, Hosts, Senders,
  Names,  \* of the headers that are not part of the envelope
  Inputs  \* what parse_headers may leave: sequences of headers

\* A header, as far as parse_sender_and_destinations can tell them apart.
From(s)   == [kind |-> "from", sender |-> s]
To(u, h)  == [kind |-> "to", user |-> u, host |-> h]
Malformed == [kind |-> "malformed"]  \* X-Original-To without an @
Other(n)  == [kind |-> "other", name |-> n]

Header == {From(s) : s \in Senders} \cup {To(u, h) : u \in Users, h \in Hosts}
          \cup {Malformed} \cup {Other(n) : n \in Names}

ASSUME InputsAssumption == Inputs \subseteq Seq(Header)

VARIABLES
  input,         \* the headers of the file
  visited,       \* how many of them have been looked at
  headers,       \* message->headers
  sender,        \* message->sender: <<>> or <<s>>
  destinations,  \* message->destinations
  state,         \* loading, loaded, failed (LOADING_FAILED), sending or released
  holders,       \* hosts of the sessions that hold the message
  named,         \* named[h]: the users h's session has named
  deleted        \* the file

vars == <<input, visited, headers, sender, destinations, state, holders, named, deleted>>

Places(h) == {i \in DOMAIN destinations : destinations[i].host = h}

Init ==
  /\ input \in Inputs
  /\ visited = 0
  /\ headers = input
  /\ sender = <<>>
  /\ destinations = <<>>
  /\ state = "loading"
  /\ holders = {}
  /\ named = [h \in Hosts |-> <<>>]
  /\ deleted = FALSE

-----------------------------------------------------------------------------
(* message.c *)

\* The recipient u joins those of its host, unless it is among them.
AddedAgain(users, u) == Append(users, u)  \* fault
Added(users, u) == IF Contains(users, u) THEN users ELSE Append(users, u)

\* The destination of a host: the one there is, or a new one at the end.
AnyFound(u, h) ==  \* fault: hosts are compared by their lengths
  destinations' =
    IF destinations # <<>>
    THEN [destinations EXCEPT ![1].recipients = Added(@, u)]
    ELSE <<[host |-> h, recipients |-> <<u>>]>>

AddRecipient(u, h) ==
  destinations' =
    IF Places(h) # {}
    THEN [i \in DOMAIN destinations |->
            IF i \in Places(h)
            THEN [destinations[i] EXCEPT !.recipients = Added(@, u)]
            ELSE destinations[i]]
    ELSE Append(destinations, [host |-> h, recipients |-> <<u>>])

\* The place of the header that is being looked at in what is left of the list.
Place == Len(headers) - Len(input) + visited + 1

RemovedLate == RemoveAt(headers, 1)  \* fault: the list is taken for a queue
Removed == RemoveAt(headers, Place)

\* One turn of the loop of parse_sender_and_destinations.
ParseHeader ==
  /\ state = "loading" /\ visited < Len(input)
  /\ visited' = visited + 1
  /\ LET header == input[visited + 1]
     IN  CASE header.kind = "from" ->
                /\ sender' = <<header.sender>>
                /\ headers' = Removed
                /\ UNCHANGED <<destinations, state>>
           [] header.kind = "to" ->
                /\ AddRecipient(header.user, header.host)
                /\ headers' = Removed
                /\ UNCHANGED <<sender, state>>
           [] header.kind = "malformed" ->
                /\ state' = "failed"
                /\ UNCHANGED <<headers, sender, destinations>>
           [] OTHER -> UNCHANGED <<headers, sender, destinations, state>>
  /\ UNCHANGED <<input, holders, named, deleted>>

AllParsed ==
  /\ state = "loading" /\ visited = Len(input)
  /\ state' = "loaded"
  /\ UNCHANGED <<input, visited, headers, sender, destinations, holders, named, deleted>>

\* The first destination with that host.
PlaceOf(h) == CHOOSE i \in Places(h) : \A j \in Places(h) : i <= j

\* message_mark_as_sent
Marked(h) == destinations' = RemoveAt(destinations, PlaceOf(h))

\* message_release by the session to h: the last one to go may delete the file.
ReleaseBy(h) ==
  /\ holders' = holders \ {h}
  /\ state' = IF holders' = {} THEN "released" ELSE state
  /\ deleted' = (holders' = {} /\ destinations' = <<>>)

-----------------------------------------------------------------------------
(* client.c and session.c *)

\* client_notify: each destination's session takes the message, the client drops it.
Enqueue ==
  /\ state = "loaded"
  /\ holders' = {destinations[i].host : i \in DOMAIN destinations}
  /\ state' = IF holders' = {} THEN "released" ELSE "sending"
  /\ UNCHANGED <<input, visited, headers, sender, destinations, named, deleted>>

\* The recipients of the destination with the session's host.
RecipientsOf(h) == destinations[PlaceOf(h)].recipients

\* dispatch, SENDING_MAIL_OR_RCPT: the next recipient.
Rcpt(h) ==
  /\ h \in holders
  /\ Len(named[h]) < Len(RecipientsOf(h))
  /\ named' = [named EXCEPT ![h] = Append(@, RecipientsOf(h)[Len(@) + 1])]
  /\ UNCHANGED <<input, visited, headers, sender, destinations, state, holders, deleted>>

\* dispatch, SENDING_DATA_PAYLOAD: the server has taken the message.
Sent(h) ==
  /\ h \in holders
  /\ Len(named[h]) = Len(RecipientsOf(h))
  /\ Marked(h)
  /\ ReleaseBy(h)
  /\ UNCHANGED <<input, visited, headers, sender, named>>

\* The session ends, or gives up the message, before that.
GiveUp(h) ==
  /\ h \in holders
  /\ UNCHANGED <<input, visited, headers, sender, destinations, named>>
  /\ ReleaseBy(h)

Next == ParseHeader \/ AllParsed \/ Enqueue \/ \E h \in Hosts : Rcpt(h) \/ Sent(h) \/ GiveUp(h)

Spec == Init /\ [][Next]_vars

-----------------------------------------------------------------------------
(* Properties. *)

Wanted == {<<input[i].user, input[i].host>> : i \in {j \in DOMAIN input : input[j].kind = "to"}}

\* No server is told a recipient twice, or one that is not in the headers with its
\* host, however often and in whatever order the headers name them.
EachNamedOnce ==
  \A h \in Hosts :
    /\ IsInjective(named[h])
    /\ \A i \in DOMAIN named[h] : <<named[h][i], h>> \in Wanted

\* The file goes only when every recipient in the headers has been named to the
\* server of its host.
DeletedWhenAllNamed ==
  deleted => \A w \in Wanted : Contains(named[w[2]], w[1])

\* What is sent with the body are the other headers, all of them, in their order;
\* who else gets the message cannot be seen in it.
Others == {i \in DOMAIN input : input[i].kind = "other"}

EnvelopeNotSent ==
  state = "sending" =>
    \E from \in [DOMAIN headers -> Others] :
      /\ \A i, j \in DOMAIN headers : i < j => from[i] < from[j]
      /\ \A k \in Others : \E i \in DOMAIN headers : from[i] = k
      /\ \A i \in DOMAIN headers : headers[i] = input[from[i]]
=============================================================================
