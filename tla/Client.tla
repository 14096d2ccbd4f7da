------------------------------- MODULE Client -------------------------------
(***************************************************************************)
(* The relay client: the poll loop's handlers (client_subscribe,           *)
(* client_notify, client_finalize) over the messages and the sessions they *)
(* share, the spool directory, the mail servers, and stops, crashes and    *)
(* restarts of the process.  One action is one run of one handler for one  *)
(* message or one session; the environment moves between any two of them.  *)
(*                                                                         *)
(* A session's dialogue is at the level of commands and replies here (see  *)
(* module Session for bytes), its search for an address at the level of    *)
(* the states RESOLVING_DNS and CONNECTING.                                *)
(***************************************************************************)
EXTENDS Smtp, FiniteSets, Sequences

CONSTANTS Files,       \* names of files of <maildir>/out
          Hosts,       \* destination hosts
          Dests,       \* Dests[f]: the hosts in the headers of f
          Recipients,  \* how many recipients each of them has
          Objects,     \* identities of struct message, the heap's
          NoMessage,   \* an identity that is not allocated
          NoSession,   \* a host the client has no session with
          OtherCodes,  \* the codes with which servers turn a command down
          MaxRuns      \* how often the program is started

ASSUME ClientAssumption ==
  /\ Dests \in [Files -> SUBSET Hosts]
  /\ IsFiniteSet(Hosts)
  /\ Recipients \in Nat \ {0}
  /\ OtherCodes \subseteq Nat
  /\ MaxRuns \in Nat

VARIABLES
  out, up, due, again,  \* the spool directory and its reports: module Spool
  run,       \* how often the program has been started
  msg,       \* msg[o]: the struct message o
  listed,    \* client->messages: the objects on the client's list
  sess,      \* sess[h]: the session to host h on client->sessions
  link,      \* link[h]: what goes on between that session and h's server
  accepted,  \* the <<f, h>> such that h's server accepted a copy of f
  taken      \* taken[o]: the hosts whose servers accepted o in this run

spool == <<out, up, due, again>>
vars  == <<out, up, due, again, run, msg, listed, sess, link, accepted, taken>>

Spool == INSTANCE Spool

-----------------------------------------------------------------------------
(* The state. *)

\* struct message.  fd: its file is open; dests: the destinations not served.
Message == [path : Files, state : MessageStates, open : BOOLEAN,
            dests : SUBSET Hosts, ref : Nat]

\* struct session.  left: recipients of the head not named to the server yet.
Session == [state : SessionStates, queue : Seq(Objects), left : Nat]

ASSUME NothingAssumption == NoMessage \notin Message /\ NoSession \notin Session

Codes == {220, 221, 250, 354} \cup OtherCodes

\* The connection.  idle: the server owes no reply; asked: it owes one;
\* answered: the reply is at the client; lost: the connection is gone.
Link == [phase : {"idle", "asked", "answered", "lost"}, code : Codes \cup {0}]

Phase(p) == [phase |-> p, code |-> 0]

TypeOK ==
  /\ Spool!SpoolTypeOK
  /\ run \in Nat
  /\ msg \in [Objects -> Message \cup {NoMessage}]
  /\ listed \subseteq Objects
  /\ sess \in [Hosts -> Session \cup {NoSession}]
  /\ link \in [Hosts -> Link]
  /\ accepted \subseteq Files \X Hosts
  /\ taken \in [Objects -> SUBSET Hosts]

Elements(s) == {s[i] : i \in DOMAIN s}

Alive(o)  == msg[o] # NoMessage
Open(h)   == sess[h] # NoSession
HeadOf(h) == Head(sess[h].queue)
Busy(h)   == Open(h) /\ sess[h].queue # <<>>

Queued(h) == IF Open(h) THEN Elements(sess[h].queue) ELSE {}

\* The sessions that hold a reference to o.
Holders(o) == {h \in Hosts : o \in Queued(h)}

Init ==
  /\ Spool!SpoolInit
  /\ run = 0
  /\ msg = [o \in Objects |-> NoMessage]
  /\ listed = {}
  /\ sess = [h \in Hosts |-> NoSession]
  /\ link = [h \in Hosts |-> Phase("idle")]
  /\ accepted = {}
  /\ taken = [o \in Objects |-> {}]

-----------------------------------------------------------------------------
(* message.c *)

\* message_create: a new message has one reference, the creator's.
Created(f) == [path |-> f, state |-> "LOADING_HEADERS", open |-> FALSE,
               dests |-> {}, ref |-> 1]

\* session_enqueue_message: each session of a destination takes a reference.
SharedOnce(m) == [m EXCEPT !.ref = @ + 1]  \* fault: one for all of them
Shared(m) == [m EXCEPT !.ref = @ + Cardinality(m.dests)]

\* message_release deletes the file of a message that it frees when every
\* destination has been served.
LoadedIsEnough(m) == m.state = "BODY_LOADED"  \* fault: served or not
MayUnlink(m) == m.state = "BODY_LOADED" /\ m.dests = {}

\* message_release of every object of os: the heap after it ...
Released(m, os) ==
  [o \in Objects |->
     IF o \notin os THEN m[o]
     ELSE IF m[o].ref > 1 THEN [m[o] EXCEPT !.ref = @ - 1]
     ELSE NoMessage]

\* ... and the files it deletes.
Unlinked(m, os) == {m[o].path : o \in {p \in os : m[p].ref <= 1 /\ MayUnlink(m[p])}}

\* message_start_loading_body
BodyRequestedAgain(m) == [m EXCEPT !.state = "LOADING_BODY"]  \* fault: in any state
BodyRequested(m) ==
  IF m.state = "HEADERS_LOADED" THEN [m EXCEPT !.state = "LOADING_BODY"] ELSE m

\* message_mark_as_sent
MarkedForAll(m, h) == [m EXCEPT !.dests = {}]  \* fault: for every destination
MarkedAsSent(m, h) == [m EXCEPT !.dests = @ \ {h}]

\* Loading fails: the file is closed.
Failed(m) == [m EXCEPT !.state = "LOADING_FAILED", !.open = FALSE]

\* What message_notify can make of m: nothing when poll() did not report its
\* file; the next part when it did; a failure when it cannot be read, has no
\* empty line after its headers, or has a header it cannot parse.
Notified(m) ==
  {m} \cup
  IF m.state \in Loading /\ m.open
  THEN {Failed(m),
        IF m.state = "LOADING_HEADERS"
        THEN [m EXCEPT !.state = "HEADERS_LOADED", !.open = FALSE,
                       !.dests = Dests[m.path]]
        ELSE [m EXCEPT !.state = "BODY_LOADED", !.open = FALSE]}
  ELSE {}

\* message_subscribe, for the messages that client_subscribe calls it for: the
\* listed ones and the head of each session's queue.  A file that is not there
\* any more cannot be opened, one that is there may fail to open.
MessageSubscribe(o) ==
  /\ up
  /\ o \in listed \/ \E h \in Hosts : Busy(h) /\ o = HeadOf(h)
  /\ msg[o].state \in Loading
  /\ ~msg[o].open
  /\ \/ /\ msg[o].path \in out
        /\ msg' = [msg EXCEPT ![o].open = TRUE]
     \/ msg' = [msg EXCEPT ![o].state = "LOADING_FAILED"]
  /\ UNCHANGED <<spool, run, listed, sess, link, accepted, taken>>

-----------------------------------------------------------------------------
(* client.c: the loops of client_notify over new names and over messages. *)

\* The name goes to maildir_discover_message, the object on the list.
Discover(f) ==
  /\ Spool!Discover(f)
  /\ \E o \in Objects :
       /\ ~Alive(o)
       /\ msg' = [msg EXCEPT ![o] = Created(f)]
       /\ listed' = listed \cup {o}
       /\ taken' = [taken EXCEPT ![o] = {}]
  /\ UNCHANGED <<run, sess, link, accepted>>

\* session_initialize: ares_init may fail, the session is then closed at once
\* and goes away in the loop over the sessions.
NewSession(failed) == [state |-> IF failed THEN "CLOSED" ELSE "RESOLVING_DNS",
                       queue |-> <<>>, left |-> 0]

\* session_enqueue_message, for each session in hs.
Enqueued(ss, hs, o) ==
  [h \in Hosts |-> IF h \in hs THEN [ss[h] EXCEPT !.queue = Append(@, o)]
                   ELSE ss[h]]

\* The sessions of hs exist, those in failed having failed to start.
WithSessions(hs, failed) ==
  [h \in Hosts |-> IF h \in hs /\ ~Open(h) THEN NewSession(h \in failed)
                   ELSE sess[h]]

\* One round of the loop for a message whose headers are there: a session per
\* destination takes a reference, then the list gives up its own.
Distribute(o, m) ==
  /\ m.state = "HEADERS_LOADED"
  /\ msg' = Released([msg EXCEPT ![o] = Shared(m)], {o})
  /\ \E failed \in SUBSET {h \in m.dests : ~Open(h)} :
       sess' = Enqueued(WithSessions(m.dests, failed), m.dests, o)
  /\ listed' = listed \ {o}

\* ... and for one that has failed.
Drop(o, m) ==
  /\ m.state = "LOADING_FAILED"
  /\ msg' = Released([msg EXCEPT ![o] = m], {o})
  /\ listed' = listed \ {o}
  /\ UNCHANGED sess

MessageNotify(o) ==
  /\ up
  /\ o \in listed
  /\ \E m \in Notified(msg[o]) : Distribute(o, m) \/ Drop(o, m)
  /\ UNCHANGED <<spool, run, link, accepted, taken>>

-----------------------------------------------------------------------------
(* session.c: session_notify, and what client_notify does after it. *)

\* message_notify of the head comes first, whatever the state.
HeadNotified(h) ==
  IF Busy(h) THEN {[msg EXCEPT ![HeadOf(h)] = m] : m \in Notified(msg[HeadOf(h)])}
  ELSE {msg}

\* A request goes out, or into the void when the connection is gone.
Request(h) ==
  link' = [link EXCEPT ![h] = IF @.phase = "lost" THEN @ ELSE Phase("asked")]

GoTo(h, state, m) ==
  /\ sess' = [sess EXCEPT ![h].state = state]
  /\ msg' = m
  /\ Request(h)
  /\ UNCHANGED spool

\* message_release(s): the process goes on when every file to be deleted is
\* still there (when one is not, die() ends it: UnlinkDies).
Release(m, os) ==
  /\ Unlinked(m, os) \subseteq out
  /\ out' = out \ Unlinked(m, os)
  /\ UNCHANGED <<up, due, again>>

\* A session that comes out of session_notify as SESSION_CLOSED is taken off
\* the list and finalized: its queue is released, sent or not.
Close(h, m) ==
  /\ sess' = [sess EXCEPT ![h] = NoSession]
  /\ msg' = Released(m, Queued(h))
  /\ link' = [link EXCEPT ![h] = Phase("idle")]
  /\ Release(m, Queued(h))

\* start_message_transfer, with q as the queue.
Transfer(h, q, m) ==
  /\ IF q = <<>>
     THEN /\ sess' = [sess EXCEPT ![h].state = "SENDING_QUIT", ![h].queue = q]
          /\ msg' = m
     ELSE /\ sess' = [sess EXCEPT ![h].state = "SENDING_MAIL_OR_RCPT",
                                  ![h].queue = q, ![h].left = Recipients]
          /\ msg' = [m EXCEPT ![Head(q)] = BodyRequested(@)]
  /\ Request(h)

\* Fault: the head stays.
Resend(h, m) ==
  /\ Transfer(h, sess[h].queue, m)
  /\ UNCHANGED spool

\* dequeue_message: the head is released, the next message begins.
Dequeue(h, m) ==
  /\ Release(m, {HeadOf(h)})
  /\ Transfer(h, Tail(sess[h].queue), Released(m, {HeadOf(h)}))

\* The steps of the search for an address that works.
Resolve(h, m) ==
  /\ sess[h].state \in {"RESOLVING_DNS", "CONNECTING"}
  /\ \E s \in {"RESOLVING_DNS", "CONNECTING"} : sess' = [sess EXCEPT ![h].state = s]
  /\ msg' = m
  /\ UNCHANGED <<spool, link>>

Connected(h, m) ==
  /\ sess[h].state \in {"RESOLVING_DNS", "CONNECTING"}
  /\ GoTo(h, "RECEIVING_GREETING", m)

OutOfAddresses(h, m) ==
  /\ sess[h].state \in {"RESOLVING_DNS", "CONNECTING"}
  /\ Close(h, m)

\* A session whose ares_init failed.
Reap(h, m) ==
  /\ sess[h].state = "CLOSED"
  /\ Close(h, m)

\* poll() has not reported the connection (yet).
Wait(h, m) ==
  /\ sess[h].state \in Exchanging
  /\ msg' = m
  /\ UNCHANGED <<spool, sess, link>>

\* read() or write() fails.
IgnoredInQuit(h, m) ==  \* fault: a session that quits waits for the 221
  /\ sess[h].state \in Exchanging \ {"SENDING_QUIT"}
  /\ link[h].phase = "lost"
  /\ Close(h, m)

ConnectionLost(h, m) ==
  /\ sess[h].state \in Exchanging
  /\ link[h].phase = "lost"
  /\ Close(h, m)

\* dispatch: a reply has come, with this code in this state.
Got(h, state, code) ==
  /\ sess[h].state = state
  /\ link[h] = [phase |-> "answered", code |-> code]

Greeted(h, m) ==
  \/ Got(h, "RECEIVING_GREETING", 220) /\ GoTo(h, "SENDING_HELO", m)
  \/ Got(h, "RECEIVING_GREETING", Refused) /\ GoTo(h, "SENDING_QUIT", m)

HeloAccepted(h, m) ==
  /\ Got(h, "SENDING_HELO", 250)
  /\ Transfer(h, sess[h].queue, m)
  /\ UNCHANGED spool

OneTooMany(h, m) ==  \* fault: past the last recipient
  /\ Got(h, "SENDING_MAIL_OR_RCPT", 250)
  /\ sess' = [sess EXCEPT ![h].left = @ - 1]
  /\ msg' = m
  /\ Request(h)
  /\ UNCHANGED spool

NextRecipient(h, m) ==
  /\ Got(h, "SENDING_MAIL_OR_RCPT", 250)
  /\ sess[h].left > 0
  /\ sess' = [sess EXCEPT ![h].left = @ - 1]
  /\ msg' = m
  /\ Request(h)
  /\ UNCHANGED spool

BodyLoadingDone(h, m) ==
  LET next == AfterBody(m[HeadOf(h)].state)
  IN  IF next = "CLOSED" THEN Close(h, m) ELSE GoTo(h, next, m)

RecipientsAccepted(h, m) ==
  /\ Got(h, "SENDING_MAIL_OR_RCPT", 250)
  /\ sess[h].left = 0
  /\ IF m[HeadOf(h)].state = "LOADING_BODY"
     THEN /\ sess' = [sess EXCEPT ![h].state = "LOADING_MESSAGE_BODY"]
          /\ msg' = m
          /\ link' = [link EXCEPT ![h] = Phase("idle")]
          /\ UNCHANGED spool
     ELSE BodyLoadingDone(h, m)

\* In this state dispatch runs without a reply, and the socket is not read.
AwaitOwn(h, m) ==  \* fault: a body that another session has read is waited for
  /\ sess[h].state = "LOADING_MESSAGE_BODY"
  /\ IF m[HeadOf(h)].state # "LOADING_FAILED" /\ m[HeadOf(h)] = msg[HeadOf(h)]
     THEN msg' = m /\ UNCHANGED <<spool, sess, link>>
     ELSE BodyLoadingDone(h, m)

AwaitBody(h, m) ==
  /\ sess[h].state = "LOADING_MESSAGE_BODY"
  /\ IF m[HeadOf(h)].state = "LOADING_BODY"
     THEN msg' = m /\ UNCHANGED <<spool, sess, link>>
     ELSE BodyLoadingDone(h, m)

DataAccepted(h, m) ==
  /\ Got(h, "SENDING_DATA", 354)
  /\ GoTo(h, "SENDING_DATA_PAYLOAD", m)

PayloadAccepted(h, m) ==
  /\ Got(h, "SENDING_DATA_PAYLOAD", 250)
  /\ Dequeue(h, [m EXCEPT ![HeadOf(h)] = MarkedAsSent(@, h)])

ResetAccepted(h, m) ==
  /\ Got(h, "SENDING_RSET", 250)
  /\ Dequeue(h, m)

QuitAccepted(h, m) ==
  /\ Got(h, "SENDING_QUIT", 221)
  /\ Close(h, m)

Unexpected(h, m) ==
  /\ sess[h].state \in Exchanging
  /\ link[h].phase = "answered"
  /\ link[h].code # Expected[sess[h].state]
  /\ ~(sess[h].state = "RECEIVING_GREETING" /\ link[h].code = Refused)
  /\ Close(h, m)

\* What the session does once its head has been notified, with m as the heap.
SessionActs(h, m) ==
  \/ Resolve(h, m) \/ Connected(h, m) \/ OutOfAddresses(h, m)
  \/ Reap(h, m) \/ Wait(h, m) \/ ConnectionLost(h, m)
  \/ Greeted(h, m) \/ HeloAccepted(h, m)
  \/ NextRecipient(h, m) \/ RecipientsAccepted(h, m) \/ AwaitBody(h, m)
  \/ DataAccepted(h, m) \/ PayloadAccepted(h, m)
  \/ ResetAccepted(h, m) \/ QuitAccepted(h, m) \/ Unexpected(h, m)

SessionNotify(h) ==
  /\ up
  /\ Open(h)
  /\ \E m \in HeadNotified(h) : SessionActs(h, m)
  /\ UNCHANGED <<run, listed, accepted, taken>>

-----------------------------------------------------------------------------
(* The servers. *)

\* A payload is on its way to h's server, or there and not replied to.
InFlight(h) == /\ Busy(h)
               /\ sess[h].state = "SENDING_DATA_PAYLOAD"
               /\ link[h].phase = "asked"

Copies(hs) == {<<msg[HeadOf(h)].path, h>> : h \in hs}

\* The servers of hs take responsibility for the payloads in flight to them.
Take(hs) ==
  /\ accepted' = accepted \cup Copies(hs)
  /\ taken' = [o \in Objects |->
                  taken[o] \cup {h \in hs : HeadOf(h) = o}]

\* A reply to what the client said last: the one that the dialogue goes on
\* with, or another.  250 to a payload means that it is taken.
Reply(h, code) ==
  /\ Open(h)
  /\ sess[h].state \in Exchanging
  /\ link[h].phase = "asked"
  /\ code \in {Expected[sess[h].state]} \cup OtherCodes
  /\ link' = [link EXCEPT ![h] = [phase |-> "answered", code |-> code]]
  /\ Take(IF InFlight(h) /\ code = 250 THEN {h} ELSE {})
  /\ UNCHANGED <<spool, run, msg, listed, sess>>

\* The connection goes, maybe with the reply to a payload that was taken.
Disconnect(h) ==
  /\ Open(h)
  /\ sess[h].state \in Exchanging \cup {"LOADING_MESSAGE_BODY"}
  /\ link[h].phase # "lost"
  /\ link' = [link EXCEPT ![h] = Phase("lost")]
  /\ \E hs \in SUBSET {x \in {h} : InFlight(x)} : Take(hs)
  /\ UNCHANGED <<spool, run, msg, listed, sess>>

-----------------------------------------------------------------------------
(* The process. *)

\* Every connection goes; some payloads in flight may still be taken.
Vanish ==
  /\ msg' = [o \in Objects |-> NoMessage]
  /\ listed' = {}
  /\ sess' = [h \in Hosts |-> NoSession]
  /\ link' = [h \in Hosts |-> Phase("idle")]
  /\ taken' = [o \in Objects |-> {}]
  /\ \E hs \in SUBSET {h \in Hosts : InFlight(h)} :
       accepted' = accepted \cup Copies(hs)
  /\ UNCHANGED run

\* A signal, a failed assertion, die() for want of memory or of a descriptor,
\* or the machine.
Crash ==
  /\ Spool!Stop
  /\ Vanish

\* The file of a message that has been delivered is not there: the same file
\* was reported twice and has been deleted with its first message.
UnlinkDies(h) ==
  /\ up
  /\ Open(h)
  /\ Got(h, "SENDING_DATA_PAYLOAD", 250)
  /\ LET m == [msg EXCEPT ![HeadOf(h)] = MarkedAsSent(@, h)]
     IN  ~ (Unlinked(m, {HeadOf(h)}) \subseteq out)
  /\ Spool!Stop
  /\ Vanish

\* client_finalize after SIGINT or SIGQUIT: every reference is given up.
Terminate ==
  /\ up
  /\ Spool!End
  /\ out' = out \ {msg[o].path : o \in {p \in Objects : Alive(p) /\ MayUnlink(msg[p])}}
  /\ Vanish

Start ==
  /\ run < MaxRuns
  /\ run' = run + 1
  /\ Spool!Start
  /\ UNCHANGED <<msg, listed, sess, link, accepted, taken>>

\* A name that some server has seen is not used again.
MoveIn(f) ==
  /\ \A h \in Hosts : <<f, h>> \notin accepted
  /\ Spool!MoveIn(f)
  /\ UNCHANGED <<run, msg, listed, sess, link, accepted, taken>>

Merge(fs) ==
  /\ Spool!Merge(fs)
  /\ UNCHANGED <<run, msg, listed, sess, link, accepted, taken>>

-----------------------------------------------------------------------------
Next ==
  \/ \E f \in Files : MoveIn(f) \/ Discover(f) \/ Merge({f})
  \/ \E o \in Objects : MessageSubscribe(o) \/ MessageNotify(o)
  \/ \E h \in Hosts : SessionNotify(h) \/ Disconnect(h) \/ UnlinkDies(h)
  \/ \E h \in Hosts, code \in Codes : Reply(h, code)
  \/ Start \/ Terminate \/ Crash

Spec == Init /\ [][Next]_vars

-----------------------------------------------------------------------------
(* Safety. *)

\* message.c keeps messages alive by counting, and nothing else stops a freed
\* message from being used: the count of a live message is the number of
\* queues it is in plus one while the client's list has it, no queue and no
\* list has a message that is not alive, and no queue has a message twice.
RefCountExact ==
  /\ \A o \in Objects :
       IF Alive(o)
       THEN msg[o].ref = Cardinality(Holders(o)) + (IF o \in listed THEN 1 ELSE 0)
       ELSE Holders(o) = {} /\ o \notin listed
  /\ \A h \in Hosts : Open(h) =>
       \A i, j \in DOMAIN sess[h].queue :
         sess[h].queue[i] = sess[h].queue[j] => i = j

\* start_message_transfer looks for this session's destination in the head
\* without an end to the search: every queued message must still have it.
QueuedHasDestination ==
  \A h \in Hosts : \A o \in Queued(h) : h \in msg[o].dests

\* The assertions of client_notify, message_start_loading_body and
\* message_mark_as_sent, the head that dispatch takes for granted, and the
\* destination that start_message_transfer looks for without an end.
AssertionsHold ==
  /\ QueuedHasDestination
  /\ \A o \in listed : msg[o].state \in {"LOADING_HEADERS", "LOADING_FAILED"}
  /\ \A h \in Hosts : Open(h) =>
       /\ \A o \in Queued(h) : msg[o].state # "LOADING_HEADERS"
       /\ sess[h].state \in Transferring => sess[h].queue # <<>>
       /\ sess[h].state = "SENDING_DATA_PAYLOAD" =>
            msg[HeadOf(h)].state = "BODY_LOADED"

\* message_mark_as_sent takes a destination off a message only when that
\* host's server has accepted the file: however the replies of several
\* sessions to the same message interleave, nothing is marked for another.
MarkedOnlyIfAccepted ==
  \A o \in Objects :
    Alive(o) /\ msg[o].state \in {"HEADERS_LOADED", "LOADING_BODY", "BODY_LOADED"} =>
      \A h \in Dests[msg[o].path] \ msg[o].dests : <<msg[o].path, h>> \in accepted

\* A server that has taken a message is not sent the same message again by
\* this run: by the time of the next payload it has left the queue.
NoSecondCopy ==
  \A h \in Hosts : InFlight(h) => h \notin taken[HeadOf(h)]

\* No file stays open that nobody is going to read: the descriptor of a
\* message is closed in each state but the two loading ones.
OpenOnlyWhileLoading ==
  \A o \in Objects : Alive(o) /\ msg[o].open => msg[o].state \in Loading

\* A file leaves the directory only when the servers of all its hosts have
\* accepted it, through crashes, stops, lost replies and repeated reports.
Abstract == INSTANCE Delivery WITH stored <- out
NothingLost == Abstract!Spec

\* The report's requirement that one session carries all messages of its
\* host (report.tex): a QUIT that was answered leaves none of them behind.
QuitLeavesNothingBehind ==
  [][\A h \in Hosts :
       Open(h) /\ Got(h, "SENDING_QUIT", 221) /\ up' /\ ~Open(h)' => sess[h].queue = <<>>]_vars

-----------------------------------------------------------------------------
(* Liveness.  poll() returns when a handler has something to do, every round *)
(* of the loop runs every handler, c-ares gives up a search in finite time  *)
(* and the addresses of a host are finitely many; module EventLoop shows that *)
(* the loop is as fair as this.  The client has no timeout for a server: that *)
(* each one replies or hangs up in the end is assumed.                       *)

\* A listed message whose file could not be opened has no descriptor that
\* poll() could report: it is dropped when something else ends the poll().
Skipped(o) == o \in listed /\ msg[o].state = "LOADING_FAILED"

Resolved(h) ==
  /\ up
  /\ Open(h)
  /\ \E m \in HeadNotified(h) : Connected(h, m) \/ OutOfAddresses(h, m)
  /\ UNCHANGED <<run, listed, accepted, taken>>

Fairness ==
  /\ \A f \in Files : WF_vars(Discover(f))
  /\ \A o \in Objects : WF_vars(MessageSubscribe(o)) /\ WF_vars(~Skipped(o) /\ MessageNotify(o))
  /\ \A h \in Hosts : /\ WF_vars(SessionNotify(h))
                      /\ SF_vars(Resolved(h))
                      /\ WF_vars((\E code \in Codes : Reply(h, code)) \/ Disconnect(h))

FairSpec == Spec /\ Fairness

\* Every message the client takes in is let go of again, be it delivered,
\* failed, or given up with its session; only one whose file could not even be
\* opened may stay on the list, while nothing else happens.
MessagesEnd == \A o \in Objects : Alive(o) ~> ~Alive(o) \/ Skipped(o)

\* No session stays for ever, also when it loses the race for the body of a
\* message it shares, and when its queue is refilled while it is quitting.
SessionsEnd == \A h \in Hosts : Open(h) ~> ~Open(h)
=============================================================================
