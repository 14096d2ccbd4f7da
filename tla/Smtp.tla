-------------------------------- MODULE Smtp --------------------------------
(***************************************************************************)
(* The states of a message and of a session, and what the client makes of  *)
(* a reply code (session.c, dispatch).  The names are those of the enums,  *)
(* without the prefix.                                                     *)
(***************************************************************************)
EXTENDS Naturals

MessageStates == {"LOADING_FAILED", "LOADING_HEADERS", "HEADERS_LOADED",
                  "LOADING_BODY", "BODY_LOADED"}

SessionStates == {"RESOLVING_DNS", "CONNECTING", "RECEIVING_GREETING",
                  "SENDING_HELO", "SENDING_MAIL_OR_RCPT", "SENDING_DATA",
                  "LOADING_MESSAGE_BODY", "SENDING_DATA_PAYLOAD",
                  "SENDING_RSET", "SENDING_QUIT", "CLOSED"}

\* A message in one of these has its file read whenever poll() says so.
Loading == {"LOADING_HEADERS", "LOADING_BODY"}

\* The states in which session_notify exchanges requests and replies.
Exchanging == {"RECEIVING_GREETING", "SENDING_HELO", "SENDING_MAIL_OR_RCPT",
               "SENDING_DATA", "SENDING_DATA_PAYLOAD", "SENDING_RSET",
               "SENDING_QUIT"}

\* The states in which the head of the queue is being transferred.
Transferring == {"SENDING_MAIL_OR_RCPT", "SENDING_DATA", "LOADING_MESSAGE_BODY",
                 "SENDING_DATA_PAYLOAD", "SENDING_RSET"}

\* The reply code with which the dialogue goes on.
Expected == [s \in Exchanging |->
               CASE s = "RECEIVING_GREETING"   -> 220
                 [] s = "SENDING_DATA"         -> 354
                 [] s = "SENDING_QUIT"         -> 221
                 [] OTHER                      -> 250]

\* A server that refuses the session in its greeting is sent a QUIT.
Refused == 554

\* Where a body that is no longer needed to be waited for leads
\* (message_body_loading_done); a body in no other state reaches that label.
AfterBody(s) == CASE s = "LOADING_FAILED" -> "SENDING_RSET"
                  [] s = "BODY_LOADED"    -> "SENDING_DATA"
                  [] OTHER                -> "CLOSED"
=============================================================================
