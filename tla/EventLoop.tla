------------------------------- MODULE EventLoop -------------------------------
(***************************************************************************)
(* main.c's loop around the handlers of module Client: subscribe, poll(),   *)
(* signal_handler_notify, then client_notify with its three loops, over and  *)
(* over until SIGINT or SIGQUIT has been read.  A handler acts on what        *)
(* poll() has reported, not on what is so when it runs; what happens in       *)
(* between is reported by the next poll(), which sleeps, without a timeout    *)
(* but that of c-ares, while nothing it watches is ready.                     *)
(*                                                                         *)
(* A descriptor is named for what it is of.  A message's file is ready, or   *)
(* c-ares has an answer or a timeout, when the environment likes.             *)
(***************************************************************************)
EXTENDS Client

CONSTANT Regular  \* the messages are regular files, which are always ready

ASSUME RegularAssumption == Regular \in BOOLEAN

VARIABLES
  phase,      \* where the loop is: subscribing (up to poll() included),
              \* reading signals, or in one of the loops of client_notify
  ready,      \* what poll() has reported
  todo,       \* the messages or sessions that the current loop has yet to visit
  signalled,  \* a signal is pending
  requested   \* signal_handler.termination_requested

loop     == <<phase, ready, todo, signalled, requested>>
loopVars == <<vars, loop>>

File(o)   == <<"file", o>>
Socket(h) == <<"socket", h>>  \* of an established connection
Search(h) == <<"search", h>>  \* c-ares' sockets and timeouts, or a connect()
Maildir   == <<"maildir">>    \* the inotify instance and the open directory
Signals   == <<"signals">>

Searching == {"RESOLVING_DNS", "CONNECTING"}

Descriptors == {File(o) : o \in Objects} \cup {Socket(h) : h \in Hosts}
               \cup {Search(h) : h \in Hosts} \cup {Maildir, Signals}

\* session_notify is called for every session, those of this round included.
VisitedIfReported ==  \* fault: only for those that poll() has reported
  {h \in Hosts : Open(h) /\ ready \cap {Socket(h), Search(h)} # {}}

Visited == {h \in Hosts : Open(h)}

LoopTypeOK ==
  /\ phase \in {"off", "subscribe", "signals", "discover", "messages", "sessions"}
  /\ ready \subseteq Descriptors
  /\ todo \subseteq IF phase = "messages" THEN listed
                    ELSE IF phase = "sessions" THEN Visited ELSE {}
  /\ signalled \in BOOLEAN
  /\ requested \in BOOLEAN
  /\ phase = "off" <=> ~up
  /\ phase = "subscribe" => ready = {}

LoopInit ==
  /\ Init
  /\ phase = "off"
  /\ ready = {} /\ todo = {}
  /\ signalled = FALSE /\ requested = FALSE

GoOn(next, visit) ==
  /\ phase' = next
  /\ todo' = visit
  /\ UNCHANGED <<signalled, requested>>

-----------------------------------------------------------------------------
(* client_subscribe and fd_set_poll *)

\* The heads of the sessions' queues: session_subscribe watches their files.
NoHeads == {}  \* fault: it does not
Heads == {HeadOf(h) : h \in {x \in Hosts : Busy(x)}}

\* message_subscribe has not yet been called for a message that it opens.
Unopened == {o \in listed \cup Heads : msg[o].state \in Loading /\ ~msg[o].open}

Subscribe ==
  /\ phase = "subscribe"
  /\ ~requested
  /\ \E o \in Objects : MessageSubscribe(o)
  /\ UNCHANGED loop

\* What the set of descriptors has in it ...
WatchedByClient ==  \* fault: signal_handler_subscribe is forgotten
  {Maildir}
  \cup {File(o) : o \in {p \in listed \cup Heads : msg[p].state \in Loading /\ msg[p].open}}
  \cup {Socket(h) : h \in {x \in Hosts : Open(x) /\ sess[x].state \in Exchanging}}
  \cup {Search(h) : h \in {x \in Hosts : Open(x) /\ sess[x].state \in Searching}}

Watched == {Signals} \cup WatchedByClient

\* ... of which some are ready for sure, and some may be.
SurelyReady ==
  {d \in {Signals} : signalled} \cup {d \in {Maildir} : due # {}}
  \cup {Socket(h) : h \in {x \in Hosts : link[x].phase \in {"answered", "lost"}}}
  \cup IF Regular THEN {File(o) : o \in Objects} ELSE {}

MaybeReady == {File(o) : o \in Objects} \cup {Search(h) : h \in Hosts}

Poll ==
  /\ phase = "subscribe"
  /\ up /\ ~requested
  /\ Unopened = {}
  /\ \E maybe \in SUBSET (Watched \cap MaybeReady) :
       ready' = maybe \cup (Watched \cap SurelyReady)
  /\ ready' # {}
  /\ GoOn("signals", {})
  /\ UNCHANGED vars

-----------------------------------------------------------------------------
(* The handlers. *)

\* signal_handler_notify
SignalNotify ==
  /\ phase = "signals"
  /\ requested' = (Signals \in ready)
  /\ signalled' = (signalled /\ Signals \notin ready)
  /\ phase' = "discover"
  /\ UNCHANGED <<vars, ready, todo>>

\* client_notify: the new names, then the messages, then the sessions.
Swapped ==  \* fault: the sessions, then the messages
  [discover |-> "sessions", sessions |-> "messages", messages |-> "subscribe"]
AgainUnpolled ==  \* fault: client_notify again on one poll(), as long as a reply came
  [discover |-> "messages", messages |-> "sessions",
   sessions |-> IF \E h \in Hosts : Socket(h) \in ready THEN "discover" ELSE "subscribe"]
After == [discover |-> "messages", messages |-> "sessions", sessions |-> "subscribe"]

ToVisit(next) ==
  IF next = "messages" THEN listed ELSE IF next = "sessions" THEN Visited ELSE {}

\* maildir_notify and maildir_discover_message, until there is no other name.
DiscoverAll ==
  /\ phase = "discover"
  /\ \/ /\ Maildir \in ready
        /\ \E f \in Files : Discover(f)
        /\ UNCHANGED loop
     \/ /\ GoOn(After["discover"], ToVisit(After["discover"]))
        /\ UNCHANGED <<vars, ready>>

\* message_notify of o in this round.  It reads a regular file to the end.
Seen(o) ==
  IF File(o) \notin ready THEN {msg[o]}
  ELSE IF Regular /\ msg[o].state \in Loading /\ msg[o].open
       THEN Notified(msg[o]) \ {msg[o]}
  ELSE Notified(msg[o])

\* The round for a listed message: nothing more is done for one that has not
\* come to the end of its headers.
VisitMessage(o) ==
  /\ phase = "messages"
  /\ o \in todo
  /\ \E m \in Seen(o) :
       \/ Distribute(o, m)
       \/ Drop(o, m)
       \/ m = msg[o] /\ m.state = "LOADING_HEADERS" /\ UNCHANGED <<msg, sess, listed>>
  /\ UNCHANGED <<spool, run, link, accepted, taken>>
  /\ GoOn("messages", todo \ {o})
  /\ UNCHANGED ready

\* The round for a session: its head is notified; a connect() or a dialogue goes
\* on when poll() has reported that; c-ares is called in any case, for its
\* timeouts, and a session that waits for a body, or has failed to start, is
\* looked at in any case.
HeadSeen(h) ==
  IF Busy(h) THEN {[msg EXCEPT ![HeadOf(h)] = m] : m \in Seen(HeadOf(h))} ELSE {msg}

VisitSession(h) ==
  /\ phase = "sessions"
  /\ h \in todo
  /\ \/ /\ \E m \in HeadSeen(h) : SessionActs(h, m)
        /\ sess[h].state = "CONNECTING" /\ Search(h) \notin ready => sess' = sess
        /\ sess[h].state \in Exchanging => (Socket(h) \in ready <=> link' # link)
        /\ UNCHANGED <<run, listed, accepted, taken>>
        /\ GoOn("sessions", todo \ {h})
     \/ /\ Socket(h) \in ready
        /\ UnlinkDies(h)
        /\ GoOn("off", {})
  /\ UNCHANGED ready

\* The end of one of client_notify's loops, or of the round (fd_set_clear).
NextLoop ==
  /\ phase \in {"messages", "sessions"}
  /\ todo = {}
  /\ GoOn(After[phase], ToVisit(After[phase]))
  /\ ready' = IF After[phase] = "subscribe" THEN {} ELSE ready
  /\ UNCHANGED vars

-----------------------------------------------------------------------------
(* The process and what is around it. *)

LoopStart ==
  /\ Start
  /\ phase' = "subscribe"
  /\ ready' = {} /\ todo' = {}
  /\ signalled' = FALSE /\ requested' = FALSE

\* The loop ends after the round in which the signal was read.
LoopTerminate ==
  /\ phase = "subscribe"
  /\ requested
  /\ Terminate
  /\ GoOn("off", {})
  /\ UNCHANGED ready

LoopCrash ==
  /\ Crash
  /\ GoOn("off", {})
  /\ UNCHANGED ready

\* SIGINT or SIGQUIT, which are blocked: it waits to be read.
Signal ==
  /\ up
  /\ signalled' = TRUE
  /\ UNCHANGED <<vars, phase, ready, todo, requested>>

Around ==
  /\ \/ \E f \in Files : MoveIn(f) \/ Merge({f})
     \/ \E h \in Hosts : Disconnect(h) \/ \E code \in Codes : Reply(h, code)
  /\ UNCHANGED loop

-----------------------------------------------------------------------------
Handlers ==
  \/ Subscribe \/ SignalNotify \/ DiscoverAll \/ NextLoop
  \/ \E o \in Objects : VisitMessage(o)
  \/ \E h \in Hosts : VisitSession(h)

LoopNext ==
  \/ Handlers \/ Poll \/ LoopTerminate
  \/ LoopStart \/ LoopCrash \/ Signal \/ Around

LoopSpec == LoopInit /\ [][LoopNext]_loopVars

\* The process is scheduled; poll() returns when something is ready for sure,
\* and a file or a search is ready in the end; the queue of names is emptied in
\* the end (module Maildir); a search ends (module Resolver); servers reply or
\* hang up.
LoopFairness ==
  /\ WF_loopVars(Handlers)
  /\ WF_loopVars(LoopTerminate)
  /\ WF_loopVars(Poll /\ Watched \cap SurelyReady # {})
  /\ \A d \in MaybeReady : SF_loopVars(Poll /\ d \in ready')
  /\ \A f \in Files : SF_loopVars(DiscoverAll /\ Discover(f))
  /\ \A h \in Hosts : /\ SF_loopVars(VisitSession(h) /\ Resolved(h))
                      /\ WF_loopVars(Around /\ ((\E code \in Codes : Reply(h, code))
                                              \/ Disconnect(h)))

FairLoopSpec == LoopSpec /\ LoopFairness

-----------------------------------------------------------------------------
(* Properties. *)

\* While poll() sleeps, nobody waits for anything but what it watches: no closed
\* session is left to be finalized, and each message on the list is being read
\* or has failed to open.
AsleepOnlyWhenDone ==
  phase = "subscribe" /\ up /\ ~requested /\ Unopened = {} =>
    /\ \A o \in listed : File(o) \in Watched \/ Skipped(o)
    /\ \A h \in Hosts : Open(h) => sess[h].state # "CLOSED"

\* session_subscribe watches nothing for a session that waits for a body.  With
\* regular files none ever does: the body that is asked for with MAIL is there
\* before the reply to MAIL is looked at, whichever sessions share it.
BodyInTime == \A h \in Hosts : Open(h) => sess[h].state # "LOADING_MESSAGE_BODY"

\* The visit to h is still to come in this round.
ToCome(h) ==
  \/ phase \in {"signals", "discover", "messages"}
  \/ phase = "sessions" /\ h \in todo

\* ... or to o, if it is on the list.
IsNext(o) ==
  \/ phase \in {"signals", "discover"}
  \/ phase = "messages" /\ o \in todo

\* What poll() has reported is still so when its handler runs, whatever the
\* handlers before it in the round have done: the search or the dialogue that was
\* reported is the one that the session is still in, and the file is that of a
\* message that is still being read - not of another one that has been put in its
\* place since.  (A head's file, which several sessions share, may have been read
\* by the first of them: see BodyInTime.)
ReportsCurrent ==
  /\ \A h \in Hosts : ToCome(h) =>
       /\ Socket(h) \in ready => Open(h) /\ sess[h].state \in Exchanging
       /\ Search(h) \in ready => Open(h) /\ sess[h].state \in Searching
  /\ \A o \in Objects : IsNext(o) =>
       (File(o) \in ready => Alive(o) /\ msg[o].state \in Loading /\ msg[o].open)

\* SIGINT ends the program, whatever else goes on.
SignalEndsLoop == signalled ~> ~up

\* The loop does what module Client says, and is as fair as it assumes.
LoopIsFairClient == FairSpec
=============================================================================
