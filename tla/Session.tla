------------------------------- MODULE Session -------------------------------
(***************************************************************************)
(* session.c from the greeting on: one session, its queue, its socket and  *)
(* the server at the other end.  Module Client has the same dialogue with   *)
(* whole commands and one reply to each; here a request is written in      *)
(* pieces, replies are lines of a stream that are read in pieces, a reply   *)
(* may have several lines, and the server may speak when it was not asked,  *)
(* close its side, or reset the connection, at any moment.                 *)
(*                                                                         *)
(* One run of session_notify reads, writes and dispatches, in this order,   *)
(* as poll() allows.  Each line read is dispatched at once, so that the     *)
(* response code of the C struct never outlives a step.                    *)
(***************************************************************************)
EXTENDS Smtp, Sequences

CONSTANTS Messages,    \* how many messages come for this host
          Recipients,  \* how many recipients each has at this host
          Pieces,      \* in how many writes a request can go out
          MaxLines     \* how many lines a reply can have

ASSUME SessionAssumption == /\ Messages \in Nat \ {0}
                            /\ Recipients \in Nat \ {0}
                            /\ Pieces \in Nat \ {0}
                            /\ MaxLines \in Nat \ {0}

VARIABLES
  \* struct session
  state,     \* state; CLOSED once it is finalized
  queue,     \* messages, the head first
  arrived,   \* how many messages have been put there
  left,      \* recipients of the head yet to be named (message_recepient)
  request,   \* what request_buffer holds
  unsent,    \* how many pieces of it are to be written yet
  \* struct message, of each message
  body,      \* state of the message
  marked,    \* the messages marked as sent to this host
  \* the process
  fate,      \* running, or how it ended: aborted (assert) or killed (SIGPIPE)
  \* the connection
  rx,        \* the reply lines sent and not read; 0 is the rest of a line
  conn,      \* open, shut (by the server: end of file after rx), or reset
  dirty,     \* the last command that the server sees is cut off
  \* the server
  inbox,     \* commands it has and has not replied to
  mode,      \* it expects a command or the data of a message
  mail,      \* the transaction: 0, or the message of the MAIL it accepted ...
  rcpts,     \* ... and the recipients it accepted
  taken,     \* <<m, r>>: it has accepted m for its recipient r
  multiline  \* it has sent a reply of more than one line

client == <<state, queue, left, request, unsent, marked, fate>>
server == <<mode, mail, rcpts, taken, multiline>>
vars   == <<state, queue, arrived, left, request, unsent, body, marked, fate,
            rx, conn, dirty, inbox, mode, mail, rcpts, taken, multiline>>

Bad == 550        \* any code with which the dialogue does not go on
Fragment == 0     \* nor does it with the rest of a line, read as a line

Command(name, m, r) == [name |-> name, msg |-> m, rcpt |-> r]
Plain(name) == Command(name, 0, 0)

Names == {"NONE", "HELO", "MAIL", "RCPT", "DATA", "PAYLOAD", "RSET", "QUIT", "JUNK"}
Commands == {c \in [name : Names, msg : 0 .. Messages, rcpt : 0 .. Recipients] :
               c.name = "RCPT" => c.rcpt # 0}

TypeOK ==
  /\ state \in SessionStates
  /\ queue \in Seq(1 .. Messages)
  /\ arrived \in 1 .. Messages
  /\ left \in 0 .. Recipients
  /\ request \in Commands
  /\ unsent \in 0 .. Pieces
  /\ body \in [1 .. Messages -> MessageStates]
  /\ marked \subseteq 1 .. Messages
  /\ fate \in {"running", "aborted", "killed"}
  /\ rx \in Seq({0, 220, 221, 250, 354, Refused, Bad})
  /\ conn \in {"open", "shut", "reset"}
  /\ dirty \in BOOLEAN
  /\ inbox \in Seq(Commands)
  /\ mode \in {"command", "data"}
  /\ mail \in 0 .. Messages
  /\ rcpts \subseteq 1 .. Recipients
  /\ taken \subseteq (1 .. Messages) \X (1 .. Recipients)
  /\ multiline \in BOOLEAN

\* connect() has succeeded and the first message is in the queue.
Init ==
  /\ state = "RECEIVING_GREETING"
  /\ queue = <<1>>
  /\ arrived = 1
  /\ left = 0
  /\ request = Plain("NONE")
  /\ unsent = 0
  /\ body = [m \in 1 .. Messages |-> "HEADERS_LOADED"]
  /\ marked = {}
  /\ fate = "running"
  /\ rx = <<>>
  /\ conn = "open"
  /\ dirty = FALSE
  /\ inbox = <<Plain("NONE")>>
  /\ mode = "command"
  /\ mail = 0
  /\ rcpts = {}
  /\ taken = {}
  /\ multiline = FALSE

Running == fate = "running" /\ state # "CLOSED"

-----------------------------------------------------------------------------
(* The request. *)

\* try_send_request: write() takes n pieces.  The server sees a command when it
\* has all of it, and can make nothing of one that follows a piece of another.
Delivered(n) == n > 0 /\ n = unsent

Written(n) == IF Delivered(n) /\ conn = "open"
              THEN Append(inbox, IF dirty THEN Plain("JUNK") ELSE request)
              ELSE inbox

\* dispatch frees the old request whether all of it has been written or not.
CutOff(n) == IF unsent = n THEN dirty /\ ~Delivered(n)
             ELSE dirty \/ unsent - n < Pieces

-----------------------------------------------------------------------------
(* dispatch: a reply with this code, b being the states of the messages. *)

Send(next, command) ==
  /\ state' = next
  /\ request' = command
  /\ unsent' = Pieces

Finalize ==
  /\ state' = "CLOSED"
  /\ request' = Plain("NONE")
  /\ unsent' = 0

Keep == UNCHANGED <<queue, left, marked>>

\* Fault: the last recipient is left out.
TransferToFewer(q, b) ==
  /\ queue' = q
  /\ IF q = <<>>
     THEN Send("SENDING_QUIT", Plain("QUIT")) /\ body' = b /\ UNCHANGED left
     ELSE /\ Send("SENDING_MAIL_OR_RCPT", Command("MAIL", Head(q), 0))
          /\ body' = [b EXCEPT ![Head(q)] = IF @ = "HEADERS_LOADED" THEN "LOADING_BODY" ELSE @]
          /\ left' = Recipients - 1

\* Fault: MAIL is built from the message that was just dequeued.
TransferStale(q, b) ==
  /\ queue' = q
  /\ IF q = <<>>
     THEN Send("SENDING_QUIT", Plain("QUIT")) /\ body' = b /\ UNCHANGED left
     ELSE /\ Send("SENDING_MAIL_OR_RCPT", Command("MAIL", Head(queue), 0))
          /\ body' = [b EXCEPT ![Head(q)] = IF @ = "HEADERS_LOADED" THEN "LOADING_BODY" ELSE @]
          /\ left' = Recipients

\* start_message_transfer with q as the queue
Transfer(q, b) ==
  /\ queue' = q
  /\ IF q = <<>>
     THEN /\ Send("SENDING_QUIT", Plain("QUIT"))
          /\ body' = b
          /\ UNCHANGED left
     ELSE /\ Send("SENDING_MAIL_OR_RCPT", Command("MAIL", Head(q), 0))
          /\ body' = [b EXCEPT ![Head(q)] = IF @ = "HEADERS_LOADED" THEN "LOADING_BODY" ELSE @]
          /\ left' = Recipients

OnGreeting(code, b) ==
  /\ state = "RECEIVING_GREETING"
  /\ \/ code = 220 /\ Send("SENDING_HELO", Plain("HELO"))
     \/ code = Refused /\ Send("SENDING_QUIT", Plain("QUIT"))
  /\ body' = b
  /\ Keep

OnHelo(code, b) ==
  /\ state = "SENDING_HELO" /\ code = 250
  /\ Transfer(queue, b)
  /\ UNCHANGED marked

OneTooMany(code, b) ==  \* fault: past the last recipient
  /\ state = "SENDING_MAIL_OR_RCPT" /\ code = 250
  /\ Send(state, Command("RCPT", Head(queue), left))
  /\ left' = left - 1
  /\ body' = b
  /\ UNCHANGED <<queue, marked>>

OnRecipient(code, b) ==
  /\ state = "SENDING_MAIL_OR_RCPT" /\ code = 250
  /\ left > 0
  /\ Send(state, Command("RCPT", Head(queue), left))
  /\ left' = left - 1
  /\ body' = b
  /\ UNCHANGED <<queue, marked>>

\* message_body_loading_done, and waiting for it
OnBody(b) ==
  LET head == Head(queue)
  IN  /\ CASE b[head] = "LOADING_BODY" ->
               /\ state' = "LOADING_MESSAGE_BODY"
               /\ request' = Plain("NONE")
               /\ unsent' = 0
            [] b[head] = "LOADING_FAILED" -> Send("SENDING_RSET", Plain("RSET"))
            [] b[head] = "BODY_LOADED"    -> Send("SENDING_DATA", Command("DATA", head, 0))
            [] OTHER                      -> Finalize
      /\ body' = b
      /\ Keep

OnLastRecipient(code, b) ==
  /\ state = "SENDING_MAIL_OR_RCPT" /\ code = 250
  /\ left = 0
  /\ OnBody(b)

OnData(code, b) ==
  /\ state = "SENDING_DATA" /\ code = 354
  /\ Send("SENDING_DATA_PAYLOAD", Command("PAYLOAD", Head(queue), 0))
  /\ body' = b
  /\ Keep

MarkedAnyway(code, b) ==  \* fault: the code is not looked at
  /\ state = "SENDING_DATA_PAYLOAD"
  /\ marked' = marked \cup {Head(queue)}
  /\ Transfer(Tail(queue), b)

OnPayload(code, b) ==
  /\ state = "SENDING_DATA_PAYLOAD" /\ code = 250
  /\ marked' = marked \cup {Head(queue)}
  /\ Transfer(Tail(queue), b)

OnReset(code, b) ==
  /\ state = "SENDING_RSET" /\ code = 250
  /\ Transfer(Tail(queue), b)
  /\ UNCHANGED marked

\* Fault: a refused sender or recipient costs its message only.
SkipRefused(code, b) ==
  /\ code # Expected[state] \/ state = "SENDING_QUIT"
  /\ ~(state = "RECEIVING_GREETING" /\ code = Refused)
  /\ IF state = "SENDING_MAIL_OR_RCPT"
     THEN Transfer(Tail(queue), b) /\ UNCHANGED marked
     ELSE Finalize /\ body' = b /\ Keep

\* Any other code, and the 221 that answers QUIT, close the session.
Otherwise(code, b) ==
  /\ code # Expected[state] \/ state = "SENDING_QUIT"
  /\ ~(state = "RECEIVING_GREETING" /\ code = Refused)
  /\ Finalize
  /\ body' = b
  /\ Keep

Dispatch(code, b) ==
  \/ OnGreeting(code, b) \/ OnHelo(code, b) \/ OnRecipient(code, b)
  \/ OnLastRecipient(code, b) \/ OnData(code, b) \/ OnPayload(code, b)
  \/ OnReset(code, b) \/ Otherwise(code, b)

-----------------------------------------------------------------------------
(* session_notify *)

\* message_notify of the head: its body may have come, or failed to.
HeadNotified ==
  {body} \cup
  IF queue # <<>> /\ body[Head(queue)] = "LOADING_BODY"
  THEN {[body EXCEPT ![Head(queue)] = s] : s \in {"BODY_LOADED", "LOADING_FAILED"}}
  ELSE {}

\* try_receive_response leaves the loop at the end of the first line, and
\* dispatch forgets all that came with it: more lines, or the start of one.
LeftUnread(lines) ==
  {SubSeq(lines, k + 1, Len(lines)) : k \in 0 .. Len(lines)} \cup
  {<<Fragment>> \o SubSeq(lines, k + 1, Len(lines)) : k \in 1 .. Len(lines)}

\* A reply is read, the request goes on, the reply is dispatched.
NotifyReply ==
  /\ rx # <<>>
  /\ rx' \in LeftUnread(Tail(rx))
  /\ \E n \in 0 .. unsent, b \in HeadNotified :
       /\ conn = "reset" => n = 0
       /\ inbox' = Written(n)
       /\ dirty' = CutOff(n)
       /\ Dispatch(Head(rx), b)
  /\ UNCHANGED <<arrived, fate, conn, server>>

\* A reply is read, writing on fails with the state set to CLOSED, and
\* dispatch runs all the same; or SIGPIPE comes first.
NotifyReplyThenBroken ==
  /\ rx # <<>>
  /\ conn = "reset"
  /\ unsent > 0
  /\ fate' \in {"aborted", "killed"}
  /\ rx' = <<>>
  /\ UNCHANGED <<state, queue, arrived, left, request, unsent, body, marked,
                 conn, dirty, inbox, server>>

\* No reply is there, or no whole line of it; the request goes on.
NotifyWrite ==
  /\ \E n \in 0 .. unsent, b \in HeadNotified :
       /\ conn = "reset" => n = 0
       /\ inbox' = Written(n)
       /\ unsent' = unsent - n
       /\ dirty' = (dirty /\ ~Delivered(n))
       /\ body' = b
  /\ UNCHANGED <<state, queue, arrived, left, request, marked, fate, rx, conn, server>>

\* read() meets the end of file or an error, or write() an error.  A write to
\* a connection that the server has closed can raise SIGPIPE.
NotifyBroken ==
  /\ \/ conn # "open" /\ rx = <<>>
     \/ conn = "reset" /\ unsent > 0
  /\ \E b \in HeadNotified : body' = b
  /\ \/ Finalize /\ UNCHANGED fate
     \/ unsent > 0 /\ fate' = "killed" /\ UNCHANGED <<state, request, unsent>>
  /\ Keep
  /\ UNCHANGED <<arrived, rx, conn, dirty, inbox, server>>

\* In this state dispatch runs without a reply.
NotifyAwaitBody ==
  /\ state = "LOADING_MESSAGE_BODY"
  /\ \E b \in HeadNotified : OnBody(b)
  /\ UNCHANGED <<arrived, fate, rx, conn, dirty, inbox, server>>

Notify ==
  /\ Running
  /\ \/ /\ state \in Exchanging
        /\ NotifyReply \/ NotifyReplyThenBroken \/ NotifyWrite \/ NotifyBroken
     \/ NotifyAwaitBody

\* session_enqueue_message
Enqueue ==
  /\ Running
  /\ arrived < Messages
  /\ arrived' = arrived + 1
  /\ queue' = Append(queue, arrived + 1)
  /\ UNCHANGED <<state, left, request, unsent, body, marked, fate, rx, conn, dirty,
                 inbox, server>>

\* Another session has the message as its head, too.
LoadedElsewhere(m) ==
  /\ \/ body[m] = "HEADERS_LOADED" /\ body' = [body EXCEPT ![m] = "LOADING_BODY"]
     \/ body[m] = "LOADING_BODY" /\ body' = [body EXCEPT ![m] = "BODY_LOADED"]
     \/ body[m] = "LOADING_BODY" /\ body' = [body EXCEPT ![m] = "LOADING_FAILED"]
  /\ UNCHANGED <<client, arrived, rx, conn, dirty, inbox, server>>

-----------------------------------------------------------------------------
(* The server: one that keeps to the protocol, as far as it gets. *)

\* The codes with which it may reply to the command c.
Replies(c) ==
  CASE c.name = "NONE" -> {220, Refused, Bad}
    [] c.name = "HELO" -> {250, Bad}
    [] c.name = "MAIL" -> IF mail = 0 THEN {250, Bad} ELSE {Bad}
    [] c.name = "RCPT" -> IF mail # 0 THEN {250, Bad} ELSE {Bad}
    [] c.name = "DATA" -> IF rcpts # {} THEN {354, Bad} ELSE {Bad}
    [] c.name = "RSET" -> {250}
    [] c.name = "QUIT" -> {221}
    [] OTHER           -> {Bad}

Say(code) ==
  \E lines \in 1 .. MaxLines :
    /\ rx' = rx \o [i \in 1 .. lines |-> code]
    /\ multiline' = (multiline \/ lines > 1)

ServeCommand ==
  /\ mode = "command"
  /\ LET c == Head(inbox)
     IN \E code \in Replies(c) :
          /\ Say(code)
          /\ mode' = IF code = 354 THEN "data" ELSE mode
          /\ mail' = CASE c.name = "MAIL" /\ code = 250 -> c.msg
                       [] c.name = "RSET"               -> 0
                       [] OTHER                         -> mail
          /\ rcpts' = CASE c.name = "RCPT" /\ code = 250 -> rcpts \cup {c.rcpt}
                        [] c.name = "RSET"               -> {}
                        [] OTHER                         -> rcpts
  /\ UNCHANGED taken

\* The end of the data, which only a whole payload has.
ServeData ==
  /\ mode = "data"
  /\ IF Head(inbox).name = "PAYLOAD"
     THEN /\ \E code \in {250, Bad} :
               /\ Say(code)
               /\ taken' = IF code = 250
                           THEN taken \cup {<<Head(inbox).msg, r>> : r \in rcpts}
                           ELSE taken
          /\ mode' = "command"
          /\ mail' = 0
          /\ rcpts' = {}
     ELSE UNCHANGED <<rx, server>>

Serve ==
  /\ conn = "open"
  /\ inbox # <<>>
  /\ inbox' = Tail(inbox)
  /\ ServeCommand \/ ServeData
  /\ UNCHANGED <<client, arrived, body, conn, dirty>>

\* 421, or 552 in the middle of a payload: a reply that nothing asked for.  It
\* reports an error: an unasked 250 would be taken for the reply that is due,
\* which the session has no means to tell.  MaxLines bounds how many of them can
\* be on their way.
Complain ==
  /\ conn = "open"
  /\ Len(rx) <= MaxLines
  /\ rx' = Append(rx, Bad)
  /\ conn' \in {"open", "shut"}
  /\ UNCHANGED <<client, arrived, body, dirty, inbox, server>>

\* The server closes its side; a reset may overtake what it has said.
Shut ==
  /\ conn = "open"
  /\ conn' = "shut"
  /\ UNCHANGED <<client, arrived, body, rx, dirty, inbox, server>>

Reset ==
  /\ conn # "reset"
  /\ conn' = "reset"
  /\ rx' \in {rx, <<>>}
  /\ UNCHANGED <<client, arrived, body, dirty, inbox, server>>

-----------------------------------------------------------------------------
Next ==
  \/ Notify
  \/ Enqueue
  \/ \E m \in 1 .. Messages : LoadedElsewhere(m)
  \/ Running /\ (Serve \/ Complain \/ Shut \/ Reset)

Spec == Init /\ [][Next]_vars

-----------------------------------------------------------------------------
(* Properties. *)

\* A message is marked as sent only when the server has taken it, for one
\* recipient at least: no reply that is late or of several lines, no error that
\* was told unasked, and no rest of a cut line passes for the 250 to the payload.
\* (What is said unasked is an error in this model, the rest of a line no code
\* at all: see Complain and Fragment.)
MarkedOnlyIfTaken ==
  \A m \in marked : \E r \in 1 .. Recipients : <<m, r>> \in taken

\* With servers whose replies have one line, it is taken for all of them: the
\* refusal of a recipient is never mistaken for the reply to something else.
\* (A second line of a reply puts the session out of step, and then a refusal
\* that arrives together with another reply is dropped unread.)
MarkedOnlyIfTakenForAll ==
  ~multiline =>
    \A m \in marked : \A r \in 1 .. Recipients : <<m, r>> \in taken

\* The payload that reaches a server in data mode is the one of the message
\* that the transaction was opened for.  (Out of step, an RSET can be dropped
\* before it is written, and then the next message goes to the recipients of
\* the one that failed.)
PayloadInItsTransaction ==
  ~multiline /\ mode = "data" =>
    /\ request.name = "PAYLOAD" => request.msg = mail
    /\ \A i \in 1 .. Len(inbox) : inbox[i].name = "PAYLOAD" => inbox[i].msg = mail

\* While every reply has one line, whatever is said unasked, the two sides
\* stay in step: no command reaches the server cut off.
NoCommandCutOff ==
  ~multiline =>
    \A i \in 1 .. Len(inbox) : inbox[i].name # "JUNK"

\* A message is dropped from the queue of a session that goes on only when it
\* was marked or when its file could not be read.
DroppedOnlyForCause ==
  [][\A i \in 1 .. Len(queue) :
       state' # "CLOSED" =>
         \/ \E j \in 1 .. Len(queue') : queue'[j] = queue[i]
         \/ queue[i] \in marked'
         \/ body[queue[i]] = "LOADING_FAILED"]_vars

\* session.c:485 asserts that dispatch never runs for a closed session.
NeverDispatchedClosed == fate # "aborted"
=============================================================================
