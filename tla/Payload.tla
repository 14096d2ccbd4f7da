-------------------------------- MODULE Payload --------------------------------
(***************************************************************************)
(* A message from end to end: its headers are parsed (module Headers),       *)
(* write_data_payload (session.c) writes them and the body after DATA, the   *)
(* server, which keeps to RFC 5321, takes the dots out again and finds the   *)
(* end, and whoever gets the message parses it.  This last reader is the     *)
(* same parser: what it makes of the lines is what any reader of mail does.   *)
(*                                                                         *)
(* One action is one turn of the loops of write_data_payload.                *)
(***************************************************************************)
EXTENDS Headers

CONSTANT Mails  \* the messages: pairs of what stands before and after the empty line

ASSUME MailsAssumption == Mails \subseteq Seq(Bytes) \X Seq(Bytes)

VARIABLES
  body,     \* what follows the empty line
  written,  \* how many of the headers have been written
  phase,    \* headers, body, written or received
  start,    \* how much of the body has been written
  stream,   \* what has been written after DATA
  sent      \* the fields and the body that were sent; <<>> until they are received

payloadVars == <<body, written, phase, start, stream, sent>>
vars == <<headerVars, payloadVars>>

CrLf == <<"CR", "LF">>

Init ==
  \E mail \in Mails :
    /\ text = mail[1] /\ body = mail[2]
    /\ line = 0 /\ lineEnd = 0 /\ fields = <<>>
    /\ state = "parsing"
    /\ written = 0
    /\ phase = "headers"
    /\ start = 0
    /\ stream = <<>>
    /\ sent = <<>>

Load == Parse /\ UNCHANGED payloadVars

-----------------------------------------------------------------------------
(* write_data_payload *)

\* "%.*s" prints a string up to the first NUL.
Printed(s) == SubSeq(s, 1, Least({i \in DOMAIN s : s[i] = "NUL"}, Len(s) + 1) - 1)

Line(header) == Printed(header[1]) \o <<":", "SP">> \o Printed(header[2]) \o CrLf

WriteHeader ==
  /\ phase = "headers" /\ state = "parsed"
  /\ written < Len(fields)
  /\ stream' = stream \o Line(Content[written + 1])
  /\ written' = written + 1
  /\ UNCHANGED <<headerVars, body, phase, start, sent>>

NoEmptyLine ==  \* fault: the empty line after the headers is forgotten
  /\ phase = "headers" /\ state = "parsed"
  /\ written = Len(fields)
  /\ phase' = "body"
  /\ UNCHANGED <<headerVars, body, written, start, stream, sent>>

WriteEmptyLine ==
  /\ phase = "headers" /\ state = "parsed"
  /\ written = Len(fields)
  /\ stream' = stream \o CrLf
  /\ phase' = "body"
  /\ UNCHANGED <<headerVars, body, written, start, sent>>

\* Where the line that begins at start ends: at CR LF or at the end of the body.
LineEnd ==
  Least({p \in start .. Len(body) - 2 : SubSeq(body, p + 1, p + 2) = CrLf}, Len(body))

\* A line that is a single dot gets a second one.
NeverStuffed(end) == <<>>  \* fault
Stuffing(end) == IF SubSeq(body, start + 1, end) = <<".">> THEN <<".">> ELSE <<>>

LineStart(end) == IF end < Len(body) THEN end + 2 ELSE end

WriteLine ==
  /\ phase = "body" /\ start < Len(body)
  /\ start' = LineStart(LineEnd)
  /\ stream' = stream \o Stuffing(LineEnd) \o Printed(SubSeq(body, start + 1, start'))
  /\ UNCHANGED <<headerVars, body, written, phase, sent>>

WriteEnd ==
  /\ phase = "body" /\ start = Len(body)
  /\ stream' = stream \o CrLf \o <<".">> \o CrLf
  /\ phase' = "written"
  /\ UNCHANGED <<headerVars, body, written, start, sent>>

-----------------------------------------------------------------------------
(* The server (RFC 5321, 4.5.2), whose last line before the data is that of     *)
(* DATA: the data ends with the first line that is a single dot, and a dot    *)
(* that begins another line is removed.                                     *)

LineBegins(s, i) == i = 1 \/ (i > 2 /\ SubSeq(s, i - 2, i - 1) = CrLf)

EndsAt(s, i) ==
  /\ i + 2 <= Len(s)
  /\ LineBegins(s, i)
  /\ SubSeq(s, i, i + 2) = <<".">> \o CrLf

Data == SubSeq(stream, 1, Least({i \in DOMAIN stream : EndsAt(stream, i)}, 0) - 1)

Unstuffed(s) ==
  FlattenSeq([i \in DOMAIN s |-> IF LineBegins(s, i) /\ s[i] = "." THEN <<>> ELSE <<s[i]>>])

\* Headers and body of s: what comes before and after the first empty line.
EmptyLine(s) == Least({p \in 0 .. Len(s) - 4 : SubSeq(s, p + 1, p + 4) = CrLf \o CrLf}, Len(s))

Receive ==
  /\ phase = "written"
  /\ LET mail == Unstuffed(Data)
     IN  /\ text' = SubSeq(mail, 1, EmptyLine(mail))
         /\ body' = SubSeq(mail, EmptyLine(mail) + 5, Len(mail))
  /\ sent' = <<Content, body>>
  /\ line' = 0 /\ lineEnd' = 0 /\ fields' = <<>>
  /\ state' = "parsing"
  /\ phase' = "received"
  /\ UNCHANGED <<written, start, stream>>

-----------------------------------------------------------------------------
Next == Load \/ WriteHeader \/ WriteEmptyLine \/ WriteLine \/ WriteEnd \/ Receive

Spec == Init /\ [][Next]_vars

-----------------------------------------------------------------------------
(* Properties.  They say which messages get through, and except those that do   *)
(* not: a NUL ends what is printed early, a dot that begins a line is lost     *)
(* when the line goes on, a name that goes on over a line's end is cut there,   *)
(* and a value that ends with one puts an empty line after its header.         *)

\* What is being sent, or has been.
Source == IF sent # <<>> THEN sent ELSE <<Content, body>>

HasNul ==
  \/ Contains(Source[2], "NUL")
  \/ \E i \in DOMAIN Source[1] : Contains(Source[1][i][1], "NUL") \/ Contains(Source[1][i][2], "NUL")

\* A line that begins with a dot and has something after it.
HasDottedLine ==
  \/ \E i \in DOMAIN Source[1] : Source[1][i][1] # <<>> /\ Head(Source[1][i][1]) = "."
  \/ \E i \in DOMAIN Source[2] :
       Source[2][i] = "." /\ LineBegins(Source[2], i) /\ ~EndsAt(Source[2] \o CrLf, i)

NamesOnOneLine == \A i \in DOMAIN Source[1] : ~Contains(Source[1][i][1], "LF")

NoValueEndsALine ==
  \A i \in DOMAIN Source[1] : Source[1][i][2] # <<>> => Last(Source[1][i][2]) # "LF"

\* The server takes for the end of the data what the client wrote as such: not
\* before, where the rest of the message would be taken for commands.
DataEndsOnce ==
  phase = "written" /\ ~HasNul /\ NamesOnOneLine =>
    \A i \in DOMAIN stream : EndsAt(stream, i) <=> i = Len(stream) - 2

\* The system test compares what was received with the original (system.py): the
\* receiver finds the fields that were parsed here, the folded ones too, and the
\* body, after which a line's end is added.
MailRecovered ==
  /\ phase = "received" /\ state # "parsing"
  /\ ~HasNul /\ ~HasDottedLine /\ NamesOnOneLine /\ NoValueEndsALine
  => state = "parsed" /\ Content = sent[1] /\ body = sent[2] \o CrLf
=============================================================================
