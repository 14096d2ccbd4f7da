----------------------------- MODULE SessionProofs -----------------------------
(***************************************************************************)
(* Theorems about Session, for any numbers of messages, recipients, pieces    *)
(* and lines.  One invariant holds with every server: a session that waits    *)
(* for the reply to its payload finds a 250 only where the server has the     *)
(* message (Paired).  The other says that the two sides are in step, as long  *)
(* as each reply has one line (InStep).                                      *)
(***************************************************************************)
EXTENDS Session, SequenceTheorems, TLAPS

\* The codes on their way to the session, and those that are replies.
Said == {rx[i] : i \in DOMAIN rx}
Good == {220, 221, 250, 354, Refused}

NeverAfter(A, B) == \A i, j \in DOMAIN rx : i < j /\ rx[i] \in A => rx[j] \notin B

\* The commands on their way to the server.
Asked == {inbox[i].name : i \in DOMAIN inbox}

Heads ==
  /\ state \in Transferring => queue # <<>>
  /\ state = "SENDING_RSET" => body[Head(queue)] = "LOADING_FAILED"

\* Outside of the states in which data is sent there is no trace of it.
NoData ==
  /\ mode = "command"
  /\ 354 \notin Said
  /\ request.name \notin {"DATA", "PAYLOAD"}
  /\ Asked \cap {"DATA", "PAYLOAD"} = {}

\* One DATA is sent, and it is the last thing the server reads as a command.
DataSent ==
  /\ request.name = "DATA"
  /\ "PAYLOAD" \notin Asked
  /\ unsent > 0 => "DATA" \notin Asked
  /\ \A i \in DOMAIN inbox : inbox[i].name = "DATA" => i = Len(inbox)
  /\ mode = "data" => unsent = 0 /\ inbox = <<>> /\ rcpts # {}
  /\ mode = "command" => 354 \notin Said
  /\ NeverAfter({354}, {250})

\* One payload is sent, and no 250 comes before the server has read it.
PayloadSent ==
  /\ request = Command("PAYLOAD", Head(queue), 0)
  /\ unsent > 0 => mode = "data" /\ inbox = <<>>
  /\ mode = "command" => inbox = <<>>
  /\ \A i \in DOMAIN inbox : /\ i = Len(inbox)
                             /\ inbox[i].name = "PAYLOAD" => inbox[i].msg = Head(queue)
  /\ mode = "data" => rcpts # {} /\ 250 \notin Said
  /\ 250 \in Said => \E r \in 1 .. Recipients : <<Head(queue), r>> \in taken
  /\ NeverAfter({250}, {354})

Paired ==
  Running =>
    /\ state \notin {"SENDING_DATA", "SENDING_DATA_PAYLOAD"} => NoData
    /\ state = "SENDING_DATA" => DataSent
    /\ state = "SENDING_DATA_PAYLOAD" => PayloadSent

\* One request is on its way, or with the server, or has been replied to.
OneAtATime ==
  /\ dirty = FALSE
  /\ request.name # "JUNK"
  /\ NeverAfter(Good, Good)
  /\ unsent > 0 => inbox = <<>> /\ Said \cap Good = {}
  /\ inbox # <<>> => inbox = <<request>> /\ Said \cap Good = {}

\* The server has the transaction that the session believes it has.
Opened(m, rs) == mail = m /\ rcpts = rs
Waiting == unsent > 0 \/ inbox # <<>>

Agreed ==
  /\ state \in {"RECEIVING_GREETING", "SENDING_HELO"} =>
       request.name \in {"NONE", "HELO"} /\ Opened(0, {})
  /\ state = "SENDING_MAIL_OR_RCPT" =>
       \/ /\ request = Command("MAIL", Head(queue), 0) /\ left = Recipients
          /\ Waiting => Opened(0, {})
          /\ 250 \in Said => Opened(Head(queue), {})
       \/ /\ request = Command("RCPT", Head(queue), left + 1) /\ left < Recipients
          /\ Waiting => Opened(Head(queue), left + 2 .. Recipients)
          /\ 250 \in Said => Opened(Head(queue), left + 1 .. Recipients)
  /\ state = "LOADING_MESSAGE_BODY" =>
       /\ ~Waiting /\ Said \cap Good = {}
       /\ Opened(Head(queue), 1 .. Recipients)
  /\ state = "SENDING_DATA" =>
       request = Command("DATA", Head(queue), 0) /\ Opened(Head(queue), 1 .. Recipients)
  /\ state = "SENDING_DATA_PAYLOAD" =>
       /\ mode = "data" => Opened(Head(queue), 1 .. Recipients)
       /\ mode = "command" => Opened(0, {})
       /\ 250 \in Said => \A r \in 1 .. Recipients : <<Head(queue), r>> \in taken
  /\ state = "SENDING_RSET" =>
       request = Plain("RSET") /\ (250 \in Said => Opened(0, {}))

InStep == Running /\ ~multiline => OneAtATime /\ Agreed

SessionInv ==
  /\ TypeOK
  /\ Heads
  /\ Paired
  /\ InStep
  /\ MarkedOnlyIfTaken
  /\ MarkedOnlyIfTakenForAll
  /\ PayloadInItsTransaction
  /\ NoCommandCutOff

Line == {0, 220, 221, 250, 354, Refused, Bad}

-----------------------------------------------------------------------------
(* The stream of replies. *)

\* A stream without its first k lines.
LEMMA DropFacts ==
  ASSUME NEW s \in Seq(Line), NEW k \in Nat, k <= Len(s)
  PROVE  LET v == SubSeq(s, k + 1, Len(s))
         IN  /\ v \in Seq(Line) /\ Len(v) = Len(s) - k /\ DOMAIN v = 1 .. Len(s) - k
             /\ \A j \in 1 .. Len(s) - k : v[j] = s[k + j]
<1> DEFINE v == SubSeq(s, k + 1, Len(s))
<1>1. PICK m \in Nat : m = Len(s)
  OBVIOUS
<1>2. DOMAIN s = 1 .. m
  BY <1>1
<1>3. /\ v \in Seq(Line)
      /\ Len(v) = IF k + 1 <= m THEN m - (k + 1) + 1 ELSE 0
      /\ \A i \in 1 .. m - (k + 1) + 1 : v[i] = s[(k + 1) + i - 1]
  BY <1>1, <1>2, SubSeqProperties
<1> HIDE DEF v
<1>4. k <= m
  BY <1>1
<1>5. Len(v) = m - k
  BY <1>3, <1>4
<1>6. ASSUME NEW i \in 1 .. m - k PROVE v[i] = s[k + i]
  <2>1. i \in 1 .. m - (k + 1) + 1 /\ (k + 1) + i - 1 = k + i
    BY <1>4
  <2> QED
    BY <1>3, <2>1
<1>7. DOMAIN v = 1 .. m - k
  BY <1>3, <1>5
<1> QED
  BY <1>1, <1>3, <1>5, <1>6, <1>7 DEF v

\* A stream with the end of a line in front.
LEMMA FragmentFacts ==
  ASSUME NEW v \in Seq(Line), NEW l \in Nat, l = Len(v)
  PROVE  LET t == <<0>> \o v
         IN  /\ t \in Seq(Line) /\ DOMAIN t = 1 .. 1 + l
             /\ t[1] = 0 /\ \A j \in 2 .. 1 + l : t[j] = v[j - 1]
<1> DEFINE w == <<0>>
           t == w \o v
<1>1. w \in Seq(Line) /\ Len(w) = 1 /\ w[1] = 0
  BY DEF Line
<1> HIDE DEF w
<1>2. /\ t \in Seq(Line) /\ Len(t) = Len(w) + Len(v)
      /\ \A i \in 1 .. Len(w) + Len(v) :
           t[i] = IF i <= Len(w) THEN w[i] ELSE v[i - Len(w)]
  BY <1>1, ConcatProperties
<1> HIDE DEF t
<1>3. /\ DOMAIN t = 1 .. 1 + l /\ t[1] = 0
      /\ \A j \in 2 .. 1 + l : t[j] = v[j - 1]
  BY <1>1, <1>2
<1> QED
  BY <1>2, <1>3 DEF t, w

\* What is left of a stream after a line: a stretch of it, a few places on, and
\* maybe the end of a line in front.
LEMMA UnreadShift ==
  ASSUME NEW s \in Seq(Line), s # <<>>, NEW t \in LeftUnread(Tail(s))
  PROVE  /\ t \in Seq(Line)
         /\ \E d \in Nat \ {0} : \A j \in DOMAIN t :
              t[j] = 0 \/ (j + d \in DOMAIN s /\ t[j] = s[j + d])
<1> DEFINE u == Tail(s)
<1>1. PICK m \in Nat : m = Len(u)
  OBVIOUS
<1>2. /\ u \in Seq(Line) /\ DOMAIN s = 1 .. m + 1
      /\ \A j \in 1 .. m : u[j] = s[j + 1]
  BY <1>1
<1> HIDE DEF u
<1>3. ASSUME NEW k \in 0 .. m
      PROVE  LET v == SubSeq(u, k + 1, m)
             IN  /\ v \in Seq(Line) /\ Len(v) = m - k /\ DOMAIN v = 1 .. m - k
                 /\ \A j \in 1 .. m - k : v[j] = s[j + (k + 1)] /\ j + (k + 1) \in DOMAIN s
  <2> DEFINE v == SubSeq(u, k + 1, m)
  <2>1. /\ v \in Seq(Line) /\ Len(v) = m - k /\ DOMAIN v = 1 .. m - k
        /\ \A j \in 1 .. m - k : v[j] = u[k + j]
    <3>1. k \in Nat /\ k <= Len(u) /\ v = SubSeq(u, k + 1, Len(u))
      BY <1>1
    <3>2. /\ v \in Seq(Line) /\ Len(v) = Len(u) - k /\ DOMAIN v = 1 .. Len(u) - k
          /\ \A j \in 1 .. Len(u) - k : v[j] = u[k + j]
      BY <1>2, <3>1, DropFacts
    <3> QED
      BY <1>1, <3>2
  <2> HIDE DEF v
  <2>2. ASSUME NEW j \in 1 .. m - k PROVE v[j] = s[j + (k + 1)] /\ j + (k + 1) \in DOMAIN s
    <3>1. k + j \in 1 .. m /\ (k + j) + 1 = j + (k + 1) /\ j + (k + 1) \in 1 .. m + 1
      BY <1>1
    <3> QED
      BY <1>2, <2>1, <3>1
  <2> QED
    BY <2>1, <2>2 DEF v
<1>4. ASSUME NEW k \in 0 .. m, t = SubSeq(u, k + 1, m)
      PROVE  /\ t \in Seq(Line)
             /\ \A j \in DOMAIN t : j + (k + 1) \in DOMAIN s /\ t[j] = s[j + (k + 1)]
  BY <1>3, <1>4
<1>5. ASSUME NEW k \in 1 .. m, t = <<Fragment>> \o SubSeq(u, k + 1, m)
      PROVE  /\ t \in Seq(Line)
             /\ \A j \in DOMAIN t : t[j] = 0 \/ (j + k \in DOMAIN s /\ t[j] = s[j + k])
  <2> DEFINE v == SubSeq(u, k + 1, m)
  <2> k \in 0 .. m
    OBVIOUS
  <2>1. /\ v \in Seq(Line) /\ Len(v) = m - k /\ DOMAIN v = 1 .. m - k
        /\ \A j \in 1 .. m - k : v[j] = s[j + (k + 1)] /\ j + (k + 1) \in DOMAIN s
    BY <1>1, <1>3
  <2> HIDE DEF v
  <2>2. t = <<0>> \o v
    BY <1>5 DEF v, Fragment
  <2>3. m - k \in Nat
    <3>1. m \in Nat /\ k \in Nat /\ k <= m
      OBVIOUS
    <3> QED
      BY <3>1
  <2>4. /\ t \in Seq(Line) /\ DOMAIN t = 1 .. 1 + (m - k)
        /\ t[1] = 0 /\ \A j \in 2 .. 1 + (m - k) : t[j] = v[j - 1]
    <3>1. v \in Seq(Line) /\ m - k = Len(v)
      BY <2>1
    <3> HIDE <2>1
    <3> QED
      BY <2>2, <2>3, <3>1, FragmentFacts
  <2>5. ASSUME NEW j \in 2 .. 1 + (m - k) PROVE j + k \in DOMAIN s /\ t[j] = s[j + k]
    <3>1. j - 1 \in 1 .. m - k /\ (j - 1) + (k + 1) = j + k
      BY <1>1
    <3> QED
      BY <2>1, <2>4, <3>1
  <2> QED
    BY <1>1, <2>4, <2>5
<1>6. \/ \E k \in 0 .. m : t = SubSeq(u, k + 1, m)
      \/ \E k \in 1 .. m : t = <<Fragment>> \o SubSeq(u, k + 1, m)
  BY <1>1 DEF LeftUnread, u
<1> QED
  <2>1. CASE \E k \in 0 .. m : t = SubSeq(u, k + 1, m)
    <3>1. PICK k \in 0 .. m : t = SubSeq(u, k + 1, m)
      BY <2>1
    <3>2. k + 1 \in Nat \ {0}
      BY <1>1
    <3> QED
      BY <1>4, <3>1, <3>2
  <2>2. CASE \E k \in 1 .. m : t = <<Fragment>> \o SubSeq(u, k + 1, m)
    <3>1. PICK k \in 1 .. m : t = <<Fragment>> \o SubSeq(u, k + 1, m)
      BY <2>2
    <3>2. k \in Nat \ {0}
      BY <1>1
    <3> QED
      BY <1>5, <3>1, <3>2
  <2> QED
    BY <1>6, <2>1, <2>2

\* After a line has been read there is nothing new, and nothing that cannot come
\* after that line.
LEMMA UnreadFacts ==
  ASSUME rx \in Seq(Line), rx # <<>>, rx' \in LeftUnread(Tail(rx))
  PROVE  /\ rx' \in Seq(Line)
         /\ Said' \subseteq Said \cup {0}
         /\ Head(rx) \in Said
         /\ \A A, B : NeverAfter(A, B) /\ 0 \notin A \cup B => NeverAfter(A, B)'
         /\ \A A, B : NeverAfter(A, B) /\ Head(rx) \in A /\ 0 \notin B => Said' \cap B = {}
<1>1. PICK d \in Nat \ {0} : \A j \in DOMAIN rx' :
        rx'[j] = 0 \/ (j + d \in DOMAIN rx /\ rx'[j] = rx[j + d])
  BY UnreadShift
<1>2. rx' \in Seq(Line)
  BY UnreadShift
<1>3. /\ 1 \in DOMAIN rx /\ Head(rx) = rx[1]
      /\ DOMAIN rx \subseteq Nat /\ DOMAIN rx' \subseteq Nat \ {0}
  BY <1>2
<1>4. Said' \subseteq Said \cup {0} /\ Head(rx) \in Said
  BY <1>1, <1>3 DEF Said
<1>5. ASSUME NEW A, NEW B, NeverAfter(A, B), 0 \notin A \cup B PROVE NeverAfter(A, B)'
  <2> SUFFICES ASSUME NEW i \in DOMAIN rx', NEW j \in DOMAIN rx', i < j, rx'[i] \in A, rx'[j] \in B
               PROVE  FALSE
    BY DEF NeverAfter
  <2>1. /\ i + d \in DOMAIN rx /\ rx'[i] = rx[i + d]
        /\ j + d \in DOMAIN rx /\ rx'[j] = rx[j + d]
    BY <1>1, <1>5
  <2>2. i + d < j + d
    BY <1>3
  <2> QED
    BY <1>5, <2>1, <2>2 DEF NeverAfter
<1>6. ASSUME NEW A, NEW B, NeverAfter(A, B), Head(rx) \in A, 0 \notin B
      PROVE  Said' \cap B = {}
  <2> SUFFICES ASSUME NEW j \in DOMAIN rx', rx'[j] \in B PROVE FALSE
    BY DEF Said
  <2>1. j + d \in DOMAIN rx /\ rx'[j] = rx[j + d]
    BY <1>1, <1>6
  <2>2. 1 < j + d
    BY <1>3
  <2> QED
    BY <1>3, <1>6, <2>1, <2>2 DEF NeverAfter
<1> QED
  BY <1>2, <1>4, <1>5, <1>6

\* The server says code, in so many lines.
LEMMA SayFacts ==
  ASSUME rx \in Seq(Line), NEW code \in Line, NEW n \in Nat \ {0},
         rx' = rx \o [i \in 1 .. n |-> code]
  PROVE  /\ rx' \in Seq(Line)
         /\ Said' = Said \cup {code}
         /\ \A A, B : NeverAfter(A, B) /\ code \notin B => NeverAfter(A, B)'
         /\ \A A, B : Said \cap A = {} /\ n = 1 => NeverAfter(A, B)'
<1> DEFINE t == [i \in 1 .. n |-> code]
<1>1. PICK m \in Nat : m = Len(rx)
  OBVIOUS
<1>2. t \in Seq(Line) /\ Len(t) = n
  OBVIOUS
<1>3. /\ rx' \in Seq(Line) /\ DOMAIN rx = 1 .. m /\ DOMAIN rx' = 1 .. m + n
      /\ \A i \in 1 .. m + n : rx'[i] = IF i <= m THEN rx[i] ELSE t[i - m]
  BY <1>1, <1>2
<1>4. \A i \in 1 .. m + n : rx'[i] = IF i <= m THEN rx[i] ELSE code
  <2>1. ASSUME NEW i \in 1 .. m + n, ~(i <= m) PROVE t[i - m] = code
    BY <1>1, <2>1
  <2> QED
    BY <1>3, <2>1
<1> HIDE DEF t
<1>5. Said' = Said \cup {code}
  <2>1. m + 1 \in DOMAIN rx' /\ rx'[m + 1] = code
    BY <1>1, <1>3, <1>4
  <2>2. \A i \in DOMAIN rx : i \in DOMAIN rx' /\ rx'[i] = rx[i]
    BY <1>1, <1>3, <1>4
  <2>3. Said' \subseteq Said \cup {code}
    BY <1>1, <1>3, <1>4 DEF Said
  <2> QED
    BY <2>1, <2>2, <2>3 DEF Said
<1>6. ASSUME NEW A, NEW B, NeverAfter(A, B), code \notin B PROVE NeverAfter(A, B)'
  BY <1>1, <1>3, <1>4, <1>6 DEF NeverAfter
<1>7. ASSUME NEW A, NEW B, Said \cap A = {}, n = 1 PROVE NeverAfter(A, B)'
  BY <1>1, <1>3, <1>4, <1>7 DEF NeverAfter, Said
<1> QED
  BY <1>3, <1>5, <1>6, <1>7

-----------------------------------------------------------------------------
(* What the parts of session_notify do, for any state. *)

LEMMA WrittenFacts ==
  ASSUME TypeOK, NEW n \in 0 .. unsent
  PROVE  /\ Written(n) \in Seq(Commands)
         /\ CutOff(n) \in BOOLEAN
         /\ \/ Written(n) = inbox
            \/ /\ unsent > 0 /\ n = unsent
               /\ \E c \in {request, Plain("JUNK")} :
                    Written(n) = Append(inbox, c) /\ (dirty = FALSE => c = request)
<1>1. Plain("JUNK") \in Commands
  BY SessionAssumption DEF Plain, Command, Commands, Names
<1>2. inbox \in Seq(Commands) /\ request \in Commands /\ dirty \in BOOLEAN /\ unsent \in Nat
  BY SessionAssumption DEF TypeOK
<1>3. CutOff(n) \in BOOLEAN
  BY <1>2 DEF CutOff, Delivered
<1> QED
  BY <1>1, <1>2, <1>3 DEF Written, Delivered

\* The commands of a queue with one more.
LEMMA AppendInbox ==
  ASSUME inbox \in Seq(Commands), NEW c \in Commands, inbox' = Append(inbox, c)
  PROVE  /\ Asked' = Asked \cup {c.name}
         /\ DOMAIN inbox' = 1 .. Len(inbox) + 1 /\ Len(inbox') = Len(inbox) + 1
         /\ inbox'[Len(inbox) + 1] = c
         /\ \A i \in DOMAIN inbox : i \in DOMAIN inbox' /\ inbox'[i] = inbox[i]
<1>1. /\ DOMAIN inbox = 1 .. Len(inbox) /\ Len(inbox) \in Nat
      /\ DOMAIN inbox' = 1 .. Len(inbox) + 1 /\ Len(inbox') = Len(inbox) + 1
      /\ inbox'[Len(inbox) + 1] = c
      /\ \A i \in 1 .. Len(inbox) : inbox'[i] = inbox[i]
  OBVIOUS
<1>2. \A i \in DOMAIN inbox : i \in DOMAIN inbox' /\ inbox'[i] = inbox[i]
  BY <1>1
<1>3. Asked' = Asked \cup {c.name}
  BY <1>1, <1>2 DEF Asked
<1> QED
  BY <1>1, <1>2, <1>3

LEMMA HeadFacts ==
  ASSUME NEW S, NEW s \in Seq(S), s # <<>>
  PROVE  Head(s) \in S /\ Tail(s) \in Seq(S)
OBVIOUS

LEMMA NotifiedFacts ==
  ASSUME TypeOK, NEW b \in HeadNotified
  PROVE  /\ b \in [1 .. Messages -> MessageStates]
         /\ \A m \in 1 .. Messages : body[m] = "LOADING_FAILED" => b[m] = "LOADING_FAILED"
         /\ queue # <<>> => Head(queue) \in 1 .. Messages
<1>1. queue \in Seq(1 .. Messages) /\ body \in [1 .. Messages -> MessageStates]
  BY DEF TypeOK
<1>2. queue # <<>> => Head(queue) \in 1 .. Messages
  BY <1>1, HeadFacts
<1>3. CASE b = body
  BY <1>1, <1>2, <1>3
<1>4. CASE b # body
  <2>1. queue # <<>> /\ body[Head(queue)] = "LOADING_BODY"
    BY <1>4 DEF HeadNotified
  <2>2. PICK t \in {"BODY_LOADED", "LOADING_FAILED"} : b = [body EXCEPT ![Head(queue)] = t]
    BY <1>4, <2>1 DEF HeadNotified
  <2>3. t \in MessageStates
    BY DEF MessageStates
  <2> QED
    BY <1>1, <1>2, <2>1, <2>2, <2>3
<1> QED
  BY <1>3, <1>4

LEMMA TransferFacts ==
  ASSUME TypeOK, NEW q \in Seq(1 .. Messages), NEW b \in [1 .. Messages -> MessageStates],
         Transfer(q, b)
  PROVE  /\ queue' = q /\ unsent' = Pieces /\ request' \in Commands
         /\ left' \in 0 .. Recipients /\ body' \in [1 .. Messages -> MessageStates]
         /\ \/ q = <<>> /\ state' = "SENDING_QUIT" /\ request' = Plain("QUIT")
            \/ /\ q # <<>> /\ state' = "SENDING_MAIL_OR_RCPT"
               /\ request' = Command("MAIL", Head(q), 0) /\ left' = Recipients
<1>1. Plain("QUIT") \in Commands /\ (q # <<>> => Command("MAIL", Head(q), 0) \in Commands)
  BY SessionAssumption DEF Plain, Command, Commands, Names
<1>2. Recipients \in 0 .. Recipients /\ left \in 0 .. Recipients
  BY SessionAssumption DEF TypeOK
<1> QED
  BY <1>1, <1>2 DEF Transfer, Send, MessageStates

LEMMA BodyFacts ==
  ASSUME TypeOK, queue # <<>>, NEW b \in [1 .. Messages -> MessageStates], OnBody(b)
  PROVE  /\ body' = b /\ UNCHANGED <<queue, left, marked>>
         /\ request' \in Commands /\ unsent' \in 0 .. Pieces
         /\ \/ state' = "CLOSED" /\ request' = Plain("NONE")
            \/ state' = "LOADING_MESSAGE_BODY" /\ request' = Plain("NONE") /\ unsent' = 0
            \/ /\ state' = "SENDING_RSET" /\ request' = Plain("RSET")
               /\ b[Head(queue)] = "LOADING_FAILED"
            \/ /\ state' = "SENDING_DATA" /\ request' = Command("DATA", Head(queue), 0)
<1>1. Head(queue) \in 1 .. Messages
  BY HeadFacts DEF TypeOK
<1>2. /\ Plain("NONE") \in Commands /\ Plain("RSET") \in Commands
      /\ Command("DATA", Head(queue), 0) \in Commands
  BY <1>1, SessionAssumption DEF Plain, Command, Commands, Names
<1>3. Pieces \in 0 .. Pieces /\ 0 \in 0 .. Pieces
  BY SessionAssumption
<1>4. body' = b /\ UNCHANGED <<queue, left, marked>>
  BY DEF OnBody, Keep
<1>5. CASE b[Head(queue)] = "LOADING_BODY"
  BY <1>2, <1>3, <1>4, <1>5 DEF OnBody
<1>6. CASE b[Head(queue)] = "LOADING_FAILED"
  BY <1>2, <1>3, <1>4, <1>6 DEF OnBody, Send
<1>7. CASE b[Head(queue)] = "BODY_LOADED"
  BY <1>2, <1>3, <1>4, <1>7 DEF OnBody, Send
<1>8. CASE b[Head(queue)] \notin {"LOADING_BODY", "LOADING_FAILED", "BODY_LOADED"}
  BY <1>2, <1>3, <1>4, <1>8 DEF OnBody, Finalize
<1> QED
  BY <1>5, <1>6, <1>7, <1>8

-----------------------------------------------------------------------------
(* A reply is read. *)

\* What session_notify has done when it comes to dispatch the reply.
Read(n, b) ==
  /\ rx # <<>> /\ rx' \in LeftUnread(Tail(rx))
  /\ n \in 0 .. unsent /\ b \in HeadNotified
  /\ inbox' = Written(n) /\ dirty' = CutOff(n)
  /\ UNCHANGED <<arrived, fate, conn, mode, mail, rcpts, taken, multiline>>

LEMMA ReadTypes ==
  ASSUME SessionInv, NEW n, NEW b, Read(n, b)
  PROVE  /\ rx' \in Seq(Line) /\ inbox' \in Seq(Commands) /\ dirty' \in BOOLEAN
         /\ b \in [1 .. Messages -> MessageStates]
         /\ Head(rx) \in Said /\ Said' \subseteq Said \cup {0}
         /\ Asked' \subseteq Asked \cup {request.name, "JUNK"}
<1>1. TypeOK /\ rx \in Seq(Line)
  BY DEF SessionInv, TypeOK, Line
<1>2. rx' \in Seq(Line) /\ Head(rx) \in Said /\ Said' \subseteq Said \cup {0}
  BY <1>1, UnreadFacts DEF Read
<1>3. inbox' \in Seq(Commands) /\ dirty' \in BOOLEAN
  BY <1>1, WrittenFacts DEF Read
<1>4. b \in [1 .. Messages -> MessageStates]
  BY <1>1, NotifiedFacts DEF Read
<1>5. Asked' \subseteq Asked \cup {request.name, "JUNK"}
  <2>1. CASE inbox' = inbox
    BY <2>1 DEF Asked
  <2>2. CASE \E c \in {request, Plain("JUNK")} : inbox' = Append(inbox, c)
    <3>1. PICK c \in {request, Plain("JUNK")} : inbox' = Append(inbox, c)
      BY <2>2
    <3>2. c \in Commands /\ inbox \in Seq(Commands) /\ c.name \in {request.name, "JUNK"}
      BY <1>1, <3>1, SessionAssumption DEF TypeOK, Plain, Command, Commands, Names
    <3> QED
      BY <3>1, <3>2, AppendInbox
  <2> QED
    BY <1>1, <2>1, <2>2, WrittenFacts DEF Read
<1> QED
  BY <1>2, <1>3, <1>4, <1>5

\* The codes on which the dialogue of a message turns come from where they should.
LEMMA ReadPaired ==
  ASSUME SessionInv, Running, NEW n, NEW b, Read(n, b)
  PROVE  /\ state \notin {"SENDING_DATA", "SENDING_DATA_PAYLOAD"} =>
              /\ mode' = "command" /\ 354 \notin Said'
              /\ Asked' \cap {"DATA", "PAYLOAD"} = {}
         /\ state = "SENDING_DATA" /\ Head(rx) = 354 =>
              mode' = "data" /\ inbox' = <<>> /\ 250 \notin Said' /\ rcpts' # {}
         /\ state = "SENDING_DATA_PAYLOAD" /\ Head(rx) = 250 =>
              /\ mode' = "command" /\ inbox' = <<>> /\ 354 \notin Said'
              /\ \E r \in 1 .. Recipients : <<Head(queue), r>> \in taken
<1>1. /\ rx \in Seq(Line) /\ unsent \in Nat /\ Head(rx) \in Said
      /\ Said' \subseteq Said \cup {0} /\ Asked' \subseteq Asked \cup {request.name, "JUNK"}
  BY ReadTypes, SessionAssumption DEF SessionInv, TypeOK, Line
<1>2. UNCHANGED <<mode, rcpts>> /\ mode \in {"command", "data"}
  BY DEF Read, SessionInv, TypeOK
<1>3. CASE state \notin {"SENDING_DATA", "SENDING_DATA_PAYLOAD"}
  BY <1>1, <1>2, <1>3 DEF SessionInv, Paired, NoData
<1>4. CASE state = "SENDING_DATA" /\ Head(rx) = 354
  <2>1. DataSent /\ mode = "data" /\ unsent = 0 /\ inbox = <<>>
    BY <1>1, <1>2, <1>4 DEF SessionInv, Paired, DataSent
  <2>2. inbox' = <<>>
    BY <2>1, WrittenFacts DEF Read, SessionInv
  <2>3. Said' \cap {250} = {}
    <3>1. NeverAfter({354}, {250}) /\ Head(rx) \in {354} /\ 0 \notin {250}
      BY <1>4, <2>1 DEF DataSent
    <3> QED
      BY <1>1, <3>1, UnreadFacts DEF Read
  <2> QED
    BY <1>2, <1>4, <2>1, <2>2, <2>3 DEF DataSent
<1>5. CASE state = "SENDING_DATA_PAYLOAD" /\ Head(rx) = 250
  <2>1. PayloadSent /\ mode = "command" /\ unsent = 0 /\ inbox = <<>>
    <3>1. PayloadSent
      BY <1>5 DEF SessionInv, Paired
    <3>2. mode = "command"
      BY <1>1, <1>2, <1>5, <3>1 DEF PayloadSent
    <3>3. ~(unsent > 0) /\ inbox = <<>>
      BY <3>1, <3>2 DEF PayloadSent
    <3> QED
      BY <1>1, <3>1, <3>2, <3>3
  <2>2. inbox' = <<>>
    BY <2>1, WrittenFacts DEF Read, SessionInv
  <2>3. Said' \cap {354} = {}
    <3>1. NeverAfter({250}, {354}) /\ Head(rx) \in {250} /\ 0 \notin {354}
      BY <1>5, <2>1 DEF PayloadSent
    <3> QED
      BY <1>1, <3>1, UnreadFacts DEF Read
  <2> QED
    BY <1>1, <1>2, <1>5, <2>1, <2>2, <2>3 DEF PayloadSent
<1> QED
  BY <1>3, <1>4, <1>5

\* In step, a reply is read when the request has been written and served, and
\* there is no other behind it.
LEMMA ReadInStep ==
  ASSUME SessionInv, Running, ~multiline, NEW n, NEW b, Read(n, b), Head(rx) \in Good
  PROVE  /\ OneAtATime /\ Agreed /\ unsent = 0 /\ inbox = <<>>
         /\ inbox' = <<>> /\ dirty' = FALSE
         /\ Said' \cap Good = {} /\ NeverAfter(Good, Good)'
<1>1. OneAtATime /\ Agreed /\ rx \in Seq(Line) /\ unsent \in Nat /\ Head(rx) \in Said
  BY ReadTypes, SessionAssumption DEF SessionInv, InStep, TypeOK, Line
<1>2. unsent = 0 /\ inbox = <<>> /\ dirty = FALSE /\ NeverAfter(Good, Good)
  BY <1>1 DEF OneAtATime
<1>3. inbox' = <<>> /\ dirty' = FALSE
  <2>1. inbox' = inbox
    BY <1>2, WrittenFacts DEF Read, SessionInv
  <2>2. n = 0
    BY <1>2 DEF Read
  <2>3. dirty' = FALSE
    BY <1>2, <2>2 DEF Read, CutOff
  <2> QED
    BY <1>2, <2>1, <2>3
<1>4. Said' \cap Good = {}
  BY <1>1, <1>2, UnreadFacts DEF Read, Good, Refused
<1>5. NeverAfter(Good, Good)'
  BY <1>4 DEF NeverAfter, Said
<1> QED
  BY <1>1, <1>2, <1>3, <1>4, <1>5

-----------------------------------------------------------------------------
(* The invariant again, in parts. *)

\* While the session runs, two properties follow from the others.
LEMMA Assembled ==
  ASSUME TypeOK', Heads', Paired', InStep', MarkedOnlyIfTaken', MarkedOnlyIfTakenForAll', Running'
  PROVE  SessionInv'
<1>1. inbox' \in Seq(Commands)
  BY DEF TypeOK
<1>2. PayloadInItsTransaction'
  <2> SUFFICES ASSUME ~multiline', mode' = "data"
               PROVE  /\ request'.name = "PAYLOAD" => request'.msg = mail'
                      /\ \A i \in 1 .. Len(inbox') :
                           inbox'[i].name = "PAYLOAD" => inbox'[i].msg = mail'
    BY DEF PayloadInItsTransaction
  <2>1. state' \in {"SENDING_DATA", "SENDING_DATA_PAYLOAD"}
    BY DEF Paired, NoData
  <2>2. CASE state' = "SENDING_DATA"
    BY <1>1, <2>2 DEF Paired, DataSent
  <2>3. CASE state' = "SENDING_DATA_PAYLOAD"
    <3>1. mail' = Head(queue')
      BY <2>3 DEF InStep, Agreed, Opened
    <3>2. request' = Command("PAYLOAD", Head(queue'), 0)
          /\ \A i \in DOMAIN inbox' : inbox'[i].name = "PAYLOAD" => inbox'[i].msg = Head(queue')
      BY <2>3 DEF Paired, PayloadSent
    <3> QED
      BY <1>1, <3>1, <3>2 DEF Command
  <2> QED
    BY <2>1, <2>2, <2>3
<1>3. NoCommandCutOff'
  BY <1>1 DEF InStep, OneAtATime, NoCommandCutOff
<1> QED
  BY <1>2, <1>3 DEF SessionInv

LEMMA MarkedStays ==
  ASSUME SessionInv, marked' = marked, taken \subseteq taken', multiline => multiline'
  PROVE  MarkedOnlyIfTaken' /\ MarkedOnlyIfTakenForAll'
BY DEF SessionInv, MarkedOnlyIfTaken, MarkedOnlyIfTakenForAll

\* The last step of a session: what is with the server stays there.
LEMMA ClosingKeeps ==
  ASSUME SessionInv, Running, ~Running', TypeOK', Heads',
         NEW n \in 0 .. unsent, inbox' \in {inbox, Written(n)},
         request' \in {request, Plain("NONE")},
         UNCHANGED <<marked, mode, mail, rcpts, taken, multiline>>
  PROVE  SessionInv'
<1>1. Paired' /\ InStep'
  BY DEF Paired, InStep
<1>2. MarkedOnlyIfTaken' /\ MarkedOnlyIfTakenForAll'
  BY MarkedStays
<1>3. inbox \in Seq(Commands) /\ request \in Commands /\ unsent \in Nat
  BY SessionAssumption DEF SessionInv, TypeOK
<1>4. ASSUME ~multiline
      PROVE  \A i \in 1 .. Len(inbox') :
               /\ inbox'[i].name # "JUNK"
               /\ mode = "data" /\ inbox'[i].name = "PAYLOAD" => inbox'[i].msg = mail
  <2>1. \A i \in 1 .. Len(inbox) :
          /\ inbox[i].name # "JUNK"
          /\ mode = "data" /\ inbox[i].name = "PAYLOAD" => inbox[i].msg = mail
    BY <1>4 DEF SessionInv, NoCommandCutOff, PayloadInItsTransaction
  <2>2. dirty = FALSE /\ request.name # "JUNK"
    BY <1>4 DEF SessionInv, InStep, OneAtATime
  <2>3. mode = "data" /\ request.name = "PAYLOAD" => request.msg = mail
    BY <1>4 DEF SessionInv, PayloadInItsTransaction
  <2>4. inbox' = inbox \/ inbox' = Append(inbox, request)
    BY <2>2, WrittenFacts DEF SessionInv
  <2>5. CASE inbox' = Append(inbox, request)
    <3>1. /\ Len(inbox') = Len(inbox) + 1 /\ Len(inbox) \in Nat
          /\ inbox'[Len(inbox) + 1] = request
          /\ \A i \in 1 .. Len(inbox) : inbox'[i] = inbox[i]
      BY <1>3, <2>5
    <3>2. \A i \in 1 .. Len(inbox') : i \in 1 .. Len(inbox) \/ i = Len(inbox) + 1
      BY <3>1
    <3> QED
      BY <2>1, <2>2, <2>3, <3>1, <3>2
  <2> QED
    BY <2>1, <2>4, <2>5
<1>5. PayloadInItsTransaction' /\ NoCommandCutOff'
  <2>1. request'.name = "PAYLOAD" => request' = request
    BY DEF Plain, Command
  <2> QED
    BY <1>4, <2>1 DEF SessionInv, PayloadInItsTransaction, NoCommandCutOff
<1> QED
  BY <1>1, <1>2, <1>5 DEF SessionInv

-----------------------------------------------------------------------------
(* Each reply keeps the invariant. *)

LEMMA ReadTypeOK ==
  ASSUME SessionInv, NEW n, NEW b, Read(n, b),
         state' \in SessionStates, queue' \in Seq(1 .. Messages), left' \in 0 .. Recipients,
         request' \in Commands, unsent' \in 0 .. Pieces,
         body' \in [1 .. Messages -> MessageStates], marked' \subseteq 1 .. Messages
  PROVE  TypeOK'
<1>1. rx' \in Seq(Line) /\ inbox' \in Seq(Commands) /\ dirty' \in BOOLEAN
  BY ReadTypes
<1> QED
  BY <1>1 DEF Read, SessionInv, TypeOK, Line

\* A new request that is not about data, in answer to a reply.
LEMMA Turned ==
  ASSUME SessionInv, Running, NEW n, NEW b, Read(n, b), Head(rx) \in Good,
         \/ state \notin {"SENDING_DATA", "SENDING_DATA_PAYLOAD"}
         \/ state = "SENDING_DATA_PAYLOAD" /\ Head(rx) = 250,
         state' \notin {"SENDING_DATA", "SENDING_DATA_PAYLOAD", "CLOSED"},
         request'.name \notin {"DATA", "PAYLOAD", "JUNK"}
  PROVE  /\ Paired'
         /\ Running'
         /\ ~multiline' => OneAtATime' /\ Said' \cap Good = {}
<1>1. /\ mode' = "command" /\ 354 \notin Said' /\ Asked' \cap {"DATA", "PAYLOAD"} = {}
  <2>1. CASE state \notin {"SENDING_DATA", "SENDING_DATA_PAYLOAD"}
    BY <2>1, ReadPaired
  <2>2. CASE state = "SENDING_DATA_PAYLOAD" /\ Head(rx) = 250
    <3>1. mode' = "command" /\ 354 \notin Said' /\ inbox' = <<>>
      BY <2>2, ReadPaired
    <3>2. Asked' = {}
      BY <3>1 DEF Asked
    <3> QED
      BY <3>1, <3>2
  <2> QED
    BY <2>1, <2>2
<1>2. Paired'
  BY <1>1 DEF Paired, NoData
<1>3. Running'
  BY DEF Running, Read
<1>4. ASSUME ~multiline' PROVE OneAtATime' /\ Said' \cap Good = {}
  <2>1. ~multiline
    BY <1>4 DEF Read
  <2>2. /\ OneAtATime /\ Agreed /\ unsent = 0 /\ inbox = <<>>
        /\ inbox' = <<>> /\ dirty' = FALSE
        /\ Said' \cap Good = {} /\ NeverAfter(Good, Good)'
    <3>1. SessionInv /\ Running /\ Read(n, b) /\ Head(rx) \in Good
      OBVIOUS
    <3> QED
      BY ONLY <2>1, <3>1, ReadInStep
  <2> QED
    BY <2>2 DEF OneAtATime
<1> QED
  BY <1>2, <1>3, <1>4

LEMMA OnGreetingKeeps ==
  ASSUME SessionInv, Running, NEW n, NEW b, Read(n, b), OnGreeting(Head(rx), b)
  PROVE  SessionInv'
<1>1. /\ state = "RECEIVING_GREETING" /\ Head(rx) \in Good
      /\ \/ state' = "SENDING_HELO" /\ request' = Plain("HELO")
         \/ state' = "SENDING_QUIT" /\ request' = Plain("QUIT")
      /\ unsent' = Pieces /\ body' = b /\ UNCHANGED <<queue, left, marked>>
  BY DEF OnGreeting, Send, Keep, Good
<1>2. request' \in Commands /\ unsent' \in 0 .. Pieces
  BY <1>1, SessionAssumption DEF Plain, Command, Commands, Names
<1>3. b \in [1 .. Messages -> MessageStates]
  BY ReadTypes
<1>4. TypeOK'
  BY <1>1, <1>2, <1>3, ReadTypeOK DEF SessionInv, TypeOK, SessionStates
<1>5. Heads'
  BY <1>1 DEF Heads, Transferring
<1>6. Paired' /\ Running' /\ (~multiline' => OneAtATime')
  BY <1>1, Turned DEF Plain, Command
<1>7. InStep'
  <2>1. ASSUME ~multiline' PROVE Agreed'
    <3>1. ~multiline /\ UNCHANGED <<mail, rcpts>>
      BY <2>1 DEF Read
    <3>2. Opened(0, {})
      BY <1>1, <3>1 DEF SessionInv, InStep, Agreed
    <3> QED
      BY <1>1, <3>1, <3>2 DEF Agreed, Opened, Plain, Command
  <2> QED
    BY <1>6, <2>1 DEF InStep
<1>8. MarkedOnlyIfTaken' /\ MarkedOnlyIfTakenForAll'
  BY <1>1, MarkedStays DEF Read
<1> QED
  BY <1>4, <1>5, <1>6, <1>7, <1>8, Assembled

\* A transfer begins in step when the server has no transaction.
LEMMA TransferAgreed ==
  ASSUME SessionInv, ~multiline', mail' = 0, rcpts' = {}, inbox' = <<>>, Said' \cap Good = {},
         \/ state' = "SENDING_QUIT"
         \/ /\ state' = "SENDING_MAIL_OR_RCPT"
            /\ request' = Command("MAIL", Head(queue'), 0) /\ left' = Recipients
  PROVE  Agreed'
<1>1. 250 \notin Said'
  BY DEF Good
<1> QED
  BY <1>1 DEF Agreed, Opened

LEMMA OnHeloKeeps ==
  ASSUME SessionInv, Running, NEW n, NEW b, Read(n, b), OnHelo(Head(rx), b)
  PROVE  SessionInv'
<1>1. /\ state = "SENDING_HELO" /\ Head(rx) = 250 /\ Transfer(queue, b) /\ marked' = marked
  BY DEF OnHelo
<1>2. b \in [1 .. Messages -> MessageStates]
  BY ReadTypes
<1>3. /\ queue' = queue /\ unsent' = Pieces /\ request' \in Commands
      /\ left' \in 0 .. Recipients /\ body' \in [1 .. Messages -> MessageStates]
      /\ \/ queue = <<>> /\ state' = "SENDING_QUIT" /\ request' = Plain("QUIT")
         \/ /\ queue # <<>> /\ state' = "SENDING_MAIL_OR_RCPT"
            /\ request' = Command("MAIL", Head(queue), 0) /\ left' = Recipients
  BY <1>1, <1>2, TransferFacts DEF SessionInv, TypeOK
<1>4. TypeOK'
  <2>1. unsent' \in 0 .. Pieces
    BY <1>3, SessionAssumption
  <2> QED
    BY <1>1, <1>3, <2>1, ReadTypeOK DEF SessionInv, TypeOK, SessionStates
<1>5. Heads'
  BY <1>3 DEF Heads, Transferring
<1>6. Paired' /\ Running' /\ (~multiline' => OneAtATime' /\ Said' \cap Good = {})
  BY <1>1, <1>3, Turned DEF Plain, Command, Good
<1>7. InStep'
  <2>1. ASSUME ~multiline' PROVE Agreed'
    <3>1. ~multiline /\ UNCHANGED <<mail, rcpts>> /\ Head(rx) \in Good
      BY <1>1, <2>1 DEF Read, Good
    <3>2. Opened(0, {})
      BY <1>1, <3>1 DEF SessionInv, InStep, Agreed
    <3>3. inbox' = <<>>
      BY <3>1, ReadInStep
    <3> QED
      BY <1>3, <1>6, <2>1, <3>1, <3>2, <3>3, TransferAgreed DEF Opened
  <2> QED
    BY <1>6, <2>1 DEF InStep
<1>8. MarkedOnlyIfTaken' /\ MarkedOnlyIfTakenForAll'
  BY <1>1, MarkedStays DEF Read
<1> QED
  BY <1>4, <1>5, <1>6, <1>7, <1>8, Assembled

LEMMA OnRecipientKeeps ==
  ASSUME SessionInv, Running, NEW n, NEW b, Read(n, b), OnRecipient(Head(rx), b)
  PROVE  SessionInv'
<1>1. /\ state = "SENDING_MAIL_OR_RCPT" /\ Head(rx) = 250 /\ left > 0
      /\ state' = state /\ request' = Command("RCPT", Head(queue), left) /\ unsent' = Pieces
      /\ left' = left - 1 /\ body' = b /\ UNCHANGED <<queue, marked>>
  BY DEF OnRecipient, Send
<1>2. queue # <<>> /\ queue \in Seq(1 .. Messages) /\ left \in 0 .. Recipients
  BY <1>1 DEF SessionInv, TypeOK, Heads, Transferring
<1>3. left' \in 0 .. Recipients /\ left \in 1 .. Recipients /\ left' < Recipients
      /\ left = left' + 1
  BY <1>1, <1>2, SessionAssumption
<1>4. request' \in Commands /\ unsent' \in 0 .. Pieces
  <2>1. Head(queue) \in 1 .. Messages
    BY <1>2, HeadFacts
  <2> QED
    BY <1>1, <1>3, <2>1, SessionAssumption DEF Command, Commands, Names
<1>5. b \in [1 .. Messages -> MessageStates]
  BY ReadTypes
<1>6. TypeOK'
  BY <1>1, <1>3, <1>4, <1>5, ReadTypeOK DEF SessionInv, TypeOK
<1>7. Heads'
  BY <1>1, <1>2 DEF Heads, Transferring
<1>8. Paired' /\ Running' /\ (~multiline' => OneAtATime' /\ Said' \cap Good = {})
  BY <1>1, Turned DEF Command, Good
<1>9. InStep'
  <2>1. ASSUME ~multiline' PROVE Agreed'
    <3>1. /\ ~multiline /\ UNCHANGED <<mail, rcpts>> /\ Head(rx) \in Good /\ 250 \in Said
      BY <1>1, <2>1, ReadTypes DEF Read, Good
    <3>2. 250 \notin Said'
      BY <1>8, <2>1 DEF Good
    <3>3. Opened(Head(queue), left + 1 .. Recipients)
      <4>1. \/ left = Recipients /\ Opened(Head(queue), {})
            \/ Opened(Head(queue), left + 1 .. Recipients)
        BY <1>1, <3>1 DEF SessionInv, InStep, Agreed
      <4>2. left = Recipients => left + 1 .. Recipients = {}
        BY SessionAssumption
      <4> QED
        BY <4>1, <4>2
    <3>4. mail' = Head(queue') /\ rcpts' = left' + 2 .. Recipients
      <4>1. left' + 2 = left + 1
        BY <1>2, <1>3
      <4> QED
        BY <1>1, <3>1, <3>3, <4>1 DEF Opened
    <3>5. request' = Command("RCPT", Head(queue'), left' + 1)
      BY <1>1, <1>3
    <3> QED
      BY <1>1, <1>3, <3>2, <3>4, <3>5 DEF Agreed, Opened
  <2> QED
    BY <1>8, <2>1 DEF InStep
<1>10. MarkedOnlyIfTaken' /\ MarkedOnlyIfTakenForAll'
  BY <1>1, MarkedStays DEF Read
<1> QED
  BY <1>6, <1>7, <1>8, <1>9, <1>10, Assembled

\* What becomes of a message whose recipients have been named, asked for or not.
LEMMA BodyKeeps ==
  ASSUME SessionInv, Running, state \in {"SENDING_MAIL_OR_RCPT", "LOADING_MESSAGE_BODY"},
         NEW b \in HeadNotified, OnBody(b),
         NEW n \in 0 .. unsent, inbox' \in {inbox, Written(n)},
         UNCHANGED <<arrived, fate, conn, mode, mail, rcpts, taken, multiline>>,
         rx' \in Seq(Line), inbox' \in Seq(Commands), dirty' \in BOOLEAN,
         354 \notin Said', Asked' \cap {"DATA", "PAYLOAD"} = {},
         ~multiline => /\ inbox' = <<>> /\ dirty' = FALSE /\ Said' \cap Good = {}
                       /\ Opened(Head(queue), 1 .. Recipients)
  PROVE  SessionInv'
<1>1. queue # <<>> /\ TypeOK /\ b \in [1 .. Messages -> MessageStates]
  BY NotifiedFacts DEF SessionInv, Heads, Transferring
<1>2. /\ body' = b /\ UNCHANGED <<queue, left, marked>>
      /\ request' \in Commands /\ unsent' \in 0 .. Pieces
      /\ \/ state' = "CLOSED" /\ request' = Plain("NONE")
         \/ state' = "LOADING_MESSAGE_BODY" /\ request' = Plain("NONE") /\ unsent' = 0
         \/ /\ state' = "SENDING_RSET" /\ request' = Plain("RSET")
            /\ b[Head(queue)] = "LOADING_FAILED"
         \/ /\ state' = "SENDING_DATA" /\ request' = Command("DATA", Head(queue), 0)
  BY <1>1, BodyFacts
<1>3. TypeOK'
  BY <1>1, <1>2 DEF TypeOK, Line, SessionStates
<1>4. Heads'
  BY <1>1, <1>2 DEF Heads
<1>5. mode' = "command"
  BY DEF SessionInv, Paired, NoData
<1>6. MarkedOnlyIfTaken' /\ MarkedOnlyIfTakenForAll'
  BY <1>2, MarkedStays
<1>7. CASE state' = "CLOSED"
  <2>1. ~Running'
    BY <1>7 DEF Running
  <2> QED
    BY <1>2, <1>3, <1>4, <1>7, <2>1, ClosingKeeps
<1>8. CASE state' # "CLOSED"
  <2>1. Running'
    BY <1>8 DEF Running
  <2>2. Paired'
    <3>1. CASE state' # "SENDING_DATA"
      BY <1>2, <1>5, <3>1 DEF Paired, NoData, Plain, Command
    <3>2. CASE state' = "SENDING_DATA"
      <4>1. \A i \in DOMAIN inbox' : inbox'[i].name \notin {"DATA", "PAYLOAD"}
        BY DEF Asked
      <4>2. NeverAfter({354}, {250})'
        BY DEF NeverAfter, Said
      <4> QED
        BY <1>2, <1>5, <3>2, <4>1, <4>2 DEF Paired, DataSent, Command
    <3> QED
      BY <3>1, <3>2
  <2>3. ASSUME ~multiline' PROVE OneAtATime' /\ Agreed'
    <3>1. /\ inbox' = <<>> /\ dirty' = FALSE /\ Said' \cap Good = {}
          /\ mail' = Head(queue') /\ rcpts' = 1 .. Recipients
      BY <1>2, <2>3 DEF Opened
    <3>2. NeverAfter(Good, Good)' /\ 250 \notin Said'
      <4>1. NeverAfter(Good, Good)'
        BY <3>1 DEF NeverAfter, Said
      <4>2. 250 \in Good
        BY DEF Good
      <4> QED
        BY <3>1, <4>1, <4>2
    <3>3. OneAtATime'
      BY <1>2, <1>8, <3>1, <3>2 DEF OneAtATime, Plain, Command
    <3>4. Agreed'
      BY <1>2, <1>8, <3>1, <3>2 DEF Agreed, Opened, Waiting
    <3> QED
      BY <3>3, <3>4
  <2> QED
    BY <1>3, <1>4, <1>6, <2>1, <2>2, <2>3, Assembled DEF InStep
<1> QED
  BY <1>7, <1>8

LEMMA OnLastRecipientKeeps ==
  ASSUME SessionInv, Running, NEW n, NEW b, Read(n, b), OnLastRecipient(Head(rx), b)
  PROVE  SessionInv'
<1>1. state = "SENDING_MAIL_OR_RCPT" /\ Head(rx) = 250 /\ left = 0 /\ OnBody(b)
  BY DEF OnLastRecipient
<1>2. /\ rx' \in Seq(Line) /\ inbox' \in Seq(Commands) /\ dirty' \in BOOLEAN
      /\ 250 \in Said
  BY <1>1, ReadTypes
<1>3. 354 \notin Said' /\ Asked' \cap {"DATA", "PAYLOAD"} = {}
  BY <1>1, ReadPaired
<1>4. ASSUME ~multiline
      PROVE  /\ inbox' = <<>> /\ dirty' = FALSE /\ Said' \cap Good = {}
             /\ Opened(Head(queue), 1 .. Recipients)
  <2>1. Head(rx) \in Good
    BY <1>1 DEF Good
  <2>2. inbox' = <<>> /\ dirty' = FALSE /\ Said' \cap Good = {} /\ Agreed
    BY <1>4, <2>1, ReadInStep
  <2>3. Opened(Head(queue), left + 1 .. Recipients)
    BY <1>1, <1>2, <2>2, SessionAssumption DEF Agreed
  <2>4. left + 1 = 1
    BY <1>1
  <2> QED
    BY <2>2, <2>3, <2>4
<1> QED
  BY <1>1, <1>2, <1>3, <1>4, BodyKeeps DEF Read

LEMMA OnDataKeeps ==
  ASSUME SessionInv, Running, NEW n, NEW b, Read(n, b), OnData(Head(rx), b)
  PROVE  SessionInv'
<1>1. /\ state = "SENDING_DATA" /\ Head(rx) = 354
      /\ state' = "SENDING_DATA_PAYLOAD" /\ request' = Command("PAYLOAD", Head(queue), 0)
      /\ unsent' = Pieces /\ body' = b /\ UNCHANGED <<queue, left, marked>>
  BY DEF OnData, Send, Keep
<1>2. queue # <<>> /\ queue \in Seq(1 .. Messages)
  BY <1>1 DEF SessionInv, Heads, Transferring, TypeOK
<1>3. request' \in Commands /\ unsent' \in 0 .. Pieces
  <2>1. Head(queue) \in 1 .. Messages
    BY <1>2, HeadFacts
  <2> QED
    BY <1>1, <2>1, SessionAssumption DEF Command, Commands, Names
<1>4. b \in [1 .. Messages -> MessageStates] /\ 354 \in Said
  BY <1>1, ReadTypes
<1>5. TypeOK'
  BY <1>1, <1>3, <1>4, ReadTypeOK DEF SessionInv, TypeOK, SessionStates
<1>6. Heads'
  BY <1>1, <1>2 DEF Heads, Transferring
<1>7. mode' = "data" /\ inbox' = <<>> /\ 250 \notin Said' /\ rcpts' # {}
  BY <1>1, ReadPaired
<1>8. Paired' /\ Running'
  <2>1. NeverAfter({250}, {354})'
    BY <1>7 DEF NeverAfter, Said
  <2> QED
    BY <1>1, <1>7, <2>1 DEF Paired, PayloadSent, Read, Running
<1>9. ASSUME ~multiline' PROVE OneAtATime' /\ Agreed'
  <2>1. ~multiline /\ Head(rx) \in Good /\ UNCHANGED <<mail, rcpts>>
    BY <1>1, <1>9 DEF Read, Good
  <2>2. inbox' = <<>> /\ dirty' = FALSE /\ Said' \cap Good = {} /\ NeverAfter(Good, Good)' /\ Agreed
    BY <2>1, ReadInStep
  <2>3. OneAtATime'
    BY <1>1, <2>2 DEF OneAtATime, Command
  <2>4. mail' = Head(queue') /\ rcpts' = 1 .. Recipients
    BY <1>1, <2>1, <2>2 DEF Agreed, Opened
  <2>5. Agreed'
    BY <1>1, <1>7, <2>4 DEF Agreed, Opened
  <2> QED
    BY <2>3, <2>5
<1>10. MarkedOnlyIfTaken' /\ MarkedOnlyIfTakenForAll'
  BY <1>1, MarkedStays DEF Read
<1> QED
  BY <1>5, <1>6, <1>8, <1>9, <1>10, Assembled DEF InStep

\* The head leaves the queue.
LEMMA NextTransferKeeps ==
  ASSUME SessionInv, Running, NEW n, NEW b, Read(n, b), Head(rx) = 250, queue # <<>>,
         state \in {"SENDING_DATA_PAYLOAD", "SENDING_RSET"}, Transfer(Tail(queue), b),
         marked' \subseteq 1 .. Messages,
         MarkedOnlyIfTaken', MarkedOnlyIfTakenForAll',
         ~multiline => Opened(0, {})
  PROVE  SessionInv'
<1>1. b \in [1 .. Messages -> MessageStates] /\ Tail(queue) \in Seq(1 .. Messages)
  BY ReadTypes, HeadFacts DEF SessionInv, TypeOK
<1>2. /\ queue' = Tail(queue) /\ unsent' = Pieces /\ request' \in Commands
      /\ left' \in 0 .. Recipients /\ body' \in [1 .. Messages -> MessageStates]
      /\ \/ Tail(queue) = <<>> /\ state' = "SENDING_QUIT" /\ request' = Plain("QUIT")
         \/ /\ Tail(queue) # <<>> /\ state' = "SENDING_MAIL_OR_RCPT"
            /\ request' = Command("MAIL", Head(Tail(queue)), 0) /\ left' = Recipients
  BY <1>1, TransferFacts DEF SessionInv
<1>3. TypeOK'
  <2>1. unsent' \in 0 .. Pieces
    BY <1>2, SessionAssumption
  <2>2. state' \in SessionStates /\ queue' \in Seq(1 .. Messages)
    BY <1>1, <1>2 DEF SessionStates
  <2> QED
    BY <1>2, <2>1, <2>2, ReadTypeOK
<1>4. Heads'
  BY <1>2 DEF Heads, Transferring
<1>5. Paired' /\ Running' /\ (~multiline' => OneAtATime' /\ Said' \cap Good = {})
  <2>1. /\ Head(rx) \in Good
        /\ \/ state \notin {"SENDING_DATA", "SENDING_DATA_PAYLOAD"}
           \/ state = "SENDING_DATA_PAYLOAD" /\ Head(rx) = 250
        /\ state' \notin {"SENDING_DATA", "SENDING_DATA_PAYLOAD", "CLOSED"}
        /\ request'.name \notin {"DATA", "PAYLOAD", "JUNK"}
    BY <1>2 DEF Good, Plain, Command
  <2> QED
    BY <2>1, Turned
<1>6. ASSUME ~multiline' PROVE Agreed'
  <2>1. ~multiline /\ UNCHANGED <<mail, rcpts>> /\ Head(rx) \in Good
    BY <1>6 DEF Read, Good
  <2>2. inbox' = <<>>
    BY <2>1, ReadInStep
  <2>3. mail' = 0 /\ rcpts' = {}
    BY <2>1 DEF Opened
  <2>4. \/ state' = "SENDING_QUIT"
        \/ /\ state' = "SENDING_MAIL_OR_RCPT"
           /\ request' = Command("MAIL", Head(queue'), 0) /\ left' = Recipients
    BY <1>2
  <2> QED
    BY <1>5, <1>6, <2>2, <2>3, <2>4, TransferAgreed
<1> QED
  BY <1>3, <1>4, <1>5, <1>6, Assembled DEF InStep

LEMMA OnPayloadKeeps ==
  ASSUME SessionInv, Running, NEW n, NEW b, Read(n, b), OnPayload(Head(rx), b)
  PROVE  SessionInv'
<1>1. /\ state = "SENDING_DATA_PAYLOAD" /\ Head(rx) = 250
      /\ marked' = marked \cup {Head(queue)} /\ Transfer(Tail(queue), b)
  BY DEF OnPayload
<1>2. queue # <<>> /\ Head(queue) \in 1 .. Messages /\ 250 \in Said
  <2>1. queue # <<>> /\ queue \in Seq(1 .. Messages)
    BY <1>1 DEF SessionInv, Heads, Transferring, TypeOK
  <2>2. Head(queue) \in 1 .. Messages
    BY <2>1, HeadFacts
  <2>3. 250 \in Said
    BY <1>1, ReadTypes
  <2> QED
    BY <2>1, <2>2, <2>3
<1>3. marked' \subseteq 1 .. Messages
  BY <1>1, <1>2 DEF SessionInv, TypeOK
<1>4. MarkedOnlyIfTaken'
  <2>1. \E r \in 1 .. Recipients : <<Head(queue), r>> \in taken
    BY <1>1, ReadPaired
  <2> QED
    BY <1>1, <2>1 DEF SessionInv, MarkedOnlyIfTaken, Read
<1>5. ASSUME ~multiline
      PROVE  /\ \A r \in 1 .. Recipients : <<Head(queue), r>> \in taken
             /\ Opened(0, {})
  <2>1. Head(rx) \in Good
    BY <1>1 DEF Good
  <2>2. Agreed
    BY <1>5, <2>1, ReadInStep
  <2>3. mode = "command"
    BY <1>1, ReadPaired DEF Read
  <2> QED
    BY <1>1, <1>2, <2>2, <2>3 DEF Agreed
<1>6. MarkedOnlyIfTakenForAll'
  BY <1>1, <1>5 DEF SessionInv, MarkedOnlyIfTakenForAll, Read
<1> QED
  BY <1>1, <1>2, <1>3, <1>4, <1>5, <1>6, NextTransferKeeps

LEMMA OnResetKeeps ==
  ASSUME SessionInv, Running, NEW n, NEW b, Read(n, b), OnReset(Head(rx), b)
  PROVE  SessionInv'
<1>1. state = "SENDING_RSET" /\ Head(rx) = 250 /\ Transfer(Tail(queue), b) /\ marked' = marked
  BY DEF OnReset
<1>2. queue # <<>> /\ 250 \in Said
  BY <1>1, ReadTypes DEF SessionInv, Heads, Transferring
<1>3. marked' \subseteq 1 .. Messages /\ MarkedOnlyIfTaken' /\ MarkedOnlyIfTakenForAll'
  BY <1>1, MarkedStays DEF SessionInv, TypeOK, Read
<1>4. ~multiline => Opened(0, {})
  BY <1>1, <1>2 DEF SessionInv, InStep, Agreed
<1> QED
  BY <1>1, <1>2, <1>3, <1>4, NextTransferKeeps

LEMMA OtherwiseKeeps ==
  ASSUME SessionInv, Running, NEW n, NEW b, Read(n, b), Otherwise(Head(rx), b)
  PROVE  SessionInv'
<1>1. /\ state' = "CLOSED" /\ request' = Plain("NONE") /\ unsent' = 0
      /\ body' = b /\ UNCHANGED <<queue, left, marked>>
  BY DEF Otherwise, Finalize, Keep
<1>2. b \in [1 .. Messages -> MessageStates]
  BY ReadTypes
<1>3. TypeOK'
  <2>1. /\ request' \in Commands /\ unsent' \in 0 .. Pieces /\ state' \in SessionStates
    BY <1>1, SessionAssumption DEF Plain, Command, Commands, Names, SessionStates
  <2> QED
    BY <1>1, <1>2, <2>1, ReadTypeOK DEF SessionInv, TypeOK
<1>4. Heads' /\ ~Running'
  BY <1>1 DEF Heads, Transferring, Running
<1> QED
  BY <1>1, <1>3, <1>4, ClosingKeeps DEF Read

LEMMA NotifyReplyKeeps == SessionInv /\ Running /\ NotifyReply => SessionInv'
<1> SUFFICES ASSUME SessionInv, Running, NotifyReply PROVE SessionInv'
  OBVIOUS
<1>1. PICK n \in 0 .. unsent, b \in HeadNotified : Read(n, b) /\ Dispatch(Head(rx), b)
  BY DEF NotifyReply, Read, server
<1> QED
  BY <1>1, OnGreetingKeeps, OnHeloKeeps, OnRecipientKeeps, OnLastRecipientKeeps,
     OnDataKeeps, OnPayloadKeeps, OnResetKeeps, OtherwiseKeeps DEF Dispatch

-----------------------------------------------------------------------------
(* session_notify without a reply. *)

LEMMA NotifyReplyThenBrokenKeeps == SessionInv /\ Running /\ NotifyReplyThenBroken => SessionInv'
<1> SUFFICES ASSUME SessionInv, Running, NotifyReplyThenBroken PROVE SessionInv'
  OBVIOUS
<1>1. /\ fate' \in {"aborted", "killed"} /\ rx' = <<>>
      /\ UNCHANGED <<state, queue, arrived, left, request, unsent, body, marked, conn,
                     dirty, inbox, mode, mail, rcpts, taken, multiline>>
  BY DEF NotifyReplyThenBroken, server
<1>2. TypeOK'
  BY <1>1 DEF SessionInv, TypeOK
<1>3. Heads' /\ ~Running'
  BY <1>1 DEF SessionInv, Heads, Running
<1>4. 0 \in 0 .. unsent
  BY SessionAssumption DEF SessionInv, TypeOK
<1> QED
  BY <1>1, <1>2, <1>3, <1>4, ClosingKeeps

LEMMA NotifyBrokenKeeps == SessionInv /\ Running /\ NotifyBroken => SessionInv'
<1> SUFFICES ASSUME SessionInv, Running, NotifyBroken PROVE SessionInv'
  OBVIOUS
<1>1. PICK b \in HeadNotified : body' = b
  BY DEF NotifyBroken
<1>2. /\ UNCHANGED <<queue, left, marked, arrived, rx, conn, dirty, inbox,
                     mode, mail, rcpts, taken, multiline>>
      /\ \/ state' = "CLOSED" /\ request' = Plain("NONE") /\ unsent' = 0 /\ fate' = fate
         \/ fate' = "killed" /\ UNCHANGED <<state, request, unsent>>
  BY DEF NotifyBroken, Finalize, Keep, server
<1>3. /\ b \in [1 .. Messages -> MessageStates]
      /\ \A m \in 1 .. Messages : body[m] = "LOADING_FAILED" => b[m] = "LOADING_FAILED"
      /\ queue # <<>> => Head(queue) \in 1 .. Messages
  BY NotifiedFacts DEF SessionInv
<1>4. TypeOK'
  <2>1. Plain("NONE") \in Commands /\ 0 \in 0 .. Pieces
    BY SessionAssumption DEF Plain, Command, Commands, Names
  <2> QED
    BY <1>1, <1>2, <1>3, <2>1 DEF SessionInv, TypeOK, SessionStates
<1>5. Heads'
  BY <1>1, <1>2, <1>3 DEF SessionInv, Heads, Transferring
<1>6. ~Running'
  BY <1>2 DEF Running
<1>7. 0 \in 0 .. unsent
  BY SessionAssumption DEF SessionInv, TypeOK
<1> QED
  BY <1>2, <1>4, <1>5, <1>6, <1>7, ClosingKeeps

LEMMA NotifyAwaitBodyKeeps == SessionInv /\ Running /\ NotifyAwaitBody => SessionInv'
<1> SUFFICES ASSUME SessionInv, Running, NotifyAwaitBody PROVE SessionInv'
  OBVIOUS
<1>1. PICK b \in HeadNotified : OnBody(b)
  BY DEF NotifyAwaitBody
<1>2. /\ state = "LOADING_MESSAGE_BODY"
      /\ UNCHANGED <<arrived, fate, rx, conn, dirty, inbox, mode, mail, rcpts, taken, multiline>>
  BY DEF NotifyAwaitBody, server
<1>3. rx' \in Seq(Line) /\ inbox' \in Seq(Commands) /\ dirty' \in BOOLEAN
  BY <1>2 DEF SessionInv, TypeOK, Line
<1>4. 354 \notin Said' /\ Asked' \cap {"DATA", "PAYLOAD"} = {}
  BY <1>2 DEF SessionInv, Paired, NoData, Said, Asked
<1>5. ASSUME ~multiline
      PROVE  /\ inbox' = <<>> /\ dirty' = FALSE /\ Said' \cap Good = {}
             /\ Opened(Head(queue), 1 .. Recipients)
  <2>1. OneAtATime /\ Agreed
    BY <1>5 DEF SessionInv, InStep
  <2>2. dirty = FALSE /\ ~Waiting /\ Said \cap Good = {} /\ Opened(Head(queue), 1 .. Recipients)
    BY <1>2, <2>1 DEF OneAtATime, Agreed
  <2> QED
    BY <1>2, <2>2 DEF Waiting, Said
<1>6. 0 \in 0 .. unsent
  BY SessionAssumption DEF SessionInv, TypeOK
<1> QED
  BY <1>1, <1>2, <1>3, <1>4, <1>5, <1>6, BodyKeeps

LEMMA FirstAppended == \A c : Append(<<>>, c) = <<c>> /\ <<c>> # <<>>
OBVIOUS

LEMMA NotifyWriteKeeps == SessionInv /\ Running /\ state \in Exchanging /\ NotifyWrite => SessionInv'
<1> SUFFICES ASSUME SessionInv, Running, state \in Exchanging, NotifyWrite PROVE SessionInv'
  OBVIOUS
<1>1. PICK n \in 0 .. unsent, b \in HeadNotified :
        /\ inbox' = Written(n) /\ unsent' = unsent - n
        /\ dirty' = (dirty /\ ~Delivered(n)) /\ body' = b
  BY DEF NotifyWrite
<1>2. UNCHANGED <<state, queue, arrived, left, request, marked, fate, rx, conn,
                  mode, mail, rcpts, taken, multiline>>
  BY DEF NotifyWrite, server
<1>3. /\ b \in [1 .. Messages -> MessageStates]
      /\ \A m \in 1 .. Messages : body[m] = "LOADING_FAILED" => b[m] = "LOADING_FAILED"
      /\ queue # <<>> => Head(queue) \in 1 .. Messages
  BY NotifiedFacts DEF SessionInv
<1>4. /\ inbox' \in Seq(Commands) /\ unsent \in Nat /\ unsent \in 0 .. Pieces
      /\ \/ inbox' = inbox
         \/ /\ unsent > 0 /\ n = unsent
            /\ \E c \in {request, Plain("JUNK")} :
                 inbox' = Append(inbox, c) /\ (dirty = FALSE => c = request)
      /\ unsent' \in 0 .. Pieces /\ (unsent' > 0 => unsent > 0)
  <2>1. unsent \in Nat /\ unsent \in 0 .. Pieces
    BY SessionAssumption DEF SessionInv, TypeOK
  <2>2. unsent' \in 0 .. Pieces /\ (unsent' > 0 => unsent > 0)
    BY <1>1, <2>1, SessionAssumption
  <2> QED
    BY <1>1, <2>1, <2>2, WrittenFacts DEF SessionInv
<1>5. TypeOK'
  <2>1. dirty' \in BOOLEAN
    BY <1>1
  <2> QED
    BY <1>1, <1>2, <1>3, <1>4, <2>1 DEF SessionInv, TypeOK
<1>6. Heads' /\ Running'
  BY <1>1, <1>2, <1>3 DEF SessionInv, Heads, Running, Transferring
<1>7. MarkedOnlyIfTaken' /\ MarkedOnlyIfTakenForAll'
  BY <1>2, MarkedStays
<1>8. CASE inbox' = inbox
  <2>1. /\ Said' = Said /\ Asked' = Asked
        /\ \A A, B : NeverAfter(A, B) => NeverAfter(A, B)'
    BY <1>2, <1>8 DEF Said, Asked, NeverAfter
  <2>2. Paired'
    BY <1>2, <1>4, <1>6, <1>8, <2>1 DEF SessionInv, Paired, NoData, DataSent, PayloadSent, Running
  <2>3. InStep'
    <3>1. ASSUME ~multiline' PROVE OneAtATime' /\ Agreed'
      <4>1. OneAtATime /\ Agreed
        BY <1>2, <3>1 DEF SessionInv, InStep
      <4>2. OneAtATime'
        BY <1>1, <1>2, <1>4, <1>8, <2>1, <4>1 DEF OneAtATime
      <4>3. Agreed'
        BY <1>2, <1>4, <1>8, <2>1, <4>1 DEF Agreed, Opened, Waiting
      <4> QED
        BY <4>2, <4>3
    <3> QED
      BY <3>1 DEF InStep
  <2> QED
    BY <1>5, <1>6, <1>7, <2>2, <2>3, Assembled
<1>9. CASE inbox' # inbox
  <2>1. /\ unsent > 0 /\ n = unsent /\ unsent' = 0
    BY <1>1, <1>4, <1>9
  <2>2. PICK c \in {request, Plain("JUNK")} :
          inbox' = Append(inbox, c) /\ (dirty = FALSE => c = request)
    BY <1>4, <1>9
  <2>3. c \in Commands /\ inbox \in Seq(Commands) /\ c.name \in {request.name, "JUNK"}
    BY <2>2, SessionAssumption DEF SessionInv, TypeOK, Plain, Command, Commands, Names
  <2>4. /\ Asked' = Asked \cup {c.name}
        /\ DOMAIN inbox' = 1 .. Len(inbox) + 1 /\ Len(inbox') = Len(inbox) + 1
        /\ inbox'[Len(inbox) + 1] = c
        /\ \A i \in DOMAIN inbox : i \in DOMAIN inbox' /\ inbox'[i] = inbox[i]
    BY <2>2, <2>3, AppendInbox
  <2>5. Said' = Said /\ \A A, B : NeverAfter(A, B) => NeverAfter(A, B)'
    BY <1>2 DEF Said, NeverAfter
  <2>6. Paired'
    <3>1. CASE state \notin {"SENDING_DATA", "SENDING_DATA_PAYLOAD"}
      BY <1>2, <1>6, <2>3, <2>4, <2>5, <3>1 DEF SessionInv, Paired, NoData
    <3>2. CASE state = "SENDING_DATA"
      <4>1. DataSent /\ mode = "command"
        BY <2>1, <3>2 DEF SessionInv, Paired, DataSent, TypeOK
      <4>2. \A i \in DOMAIN inbox' : inbox'[i].name = "DATA" => i = Len(inbox')
        <5>1. \A i \in DOMAIN inbox : inbox[i].name # "DATA"
          BY <2>1, <4>1 DEF DataSent, Asked
        <5>2. \A i \in DOMAIN inbox' : i \in DOMAIN inbox \/ i = Len(inbox) + 1
          BY <2>3, <2>4
        <5> QED
          BY <2>4, <5>1, <5>2
      <4> QED
        BY <1>2, <2>1, <2>3, <2>4, <2>5, <3>2, <4>1, <4>2 DEF Paired, DataSent
    <3>3. CASE state = "SENDING_DATA_PAYLOAD"
      <4>1. PayloadSent /\ mode = "data" /\ inbox = <<>>
        BY <2>1, <3>3 DEF SessionInv, Paired, PayloadSent
      <4>2. DOMAIN inbox' = 1 .. 1 /\ Len(inbox') = 1 /\ inbox'[1] = c
        BY <2>4, <4>1
      <4>3. c.name = "PAYLOAD" => c.msg = Head(queue)
        BY <2>2, <4>1 DEF PayloadSent, Plain, Command
      <4>4. PayloadSent'
        BY <1>2, <2>1, <2>5, <4>1, <4>2, <4>3 DEF PayloadSent
      <4> QED
        BY <1>2, <3>3, <4>4 DEF Paired
    <3> QED
      BY <3>1, <3>2, <3>3
  <2>7. InStep'
    <3>1. ASSUME ~multiline' PROVE OneAtATime' /\ Agreed'
      <4>1. OneAtATime /\ Agreed
        BY <1>2, <3>1 DEF SessionInv, InStep
      <4>2. inbox = <<>> /\ Said \cap Good = {} /\ c = request /\ dirty = FALSE
        BY <2>1, <2>2, <4>1 DEF OneAtATime
      <4>3. inbox' = <<request>> /\ inbox' # <<>>
        <5>1. inbox' = Append(<<>>, request)
          BY <2>2, <4>2
        <5> QED
          BY <5>1, FirstAppended
      <4>4. OneAtATime'
        <5>1. dirty' = FALSE
          BY <1>1, <4>2
        <5>2. request' = request /\ request.name # "JUNK"
          BY <1>2, <4>1 DEF OneAtATime
        <5>3. NeverAfter(Good, Good)
          BY <4>1 DEF OneAtATime
        <5>4. Said' \cap Good' = {} /\ NeverAfter(Good, Good)'
          BY <2>5, <4>2, <5>3 DEF Good
        <5>5. ~(unsent' > 0)
          BY <2>1
        <5> QED
          BY ONLY <4>3, <5>1, <5>2, <5>4, <5>5 DEF OneAtATime
      <4>5. Waiting
        BY <2>1 DEF Waiting
      <4>6. Agreed'
        BY <1>2, <2>5, <4>1, <4>5 DEF Agreed, Opened, Exchanging
      <4> QED
        BY <4>4, <4>6
    <3> QED
      BY <3>1 DEF InStep
  <2> QED
    BY <1>5, <1>6, <1>7, <2>6, <2>7, Assembled
<1> QED
  BY <1>8, <1>9

LEMMA NotifyKeeps == SessionInv /\ Notify => SessionInv'
BY NotifyReplyKeeps, NotifyReplyThenBrokenKeeps, NotifyWriteKeeps, NotifyBrokenKeeps,
   NotifyAwaitBodyKeeps DEF Notify

-----------------------------------------------------------------------------
(* The others. *)

LEMMA EnqueueKeeps == SessionInv /\ Enqueue => SessionInv'
<1> SUFFICES ASSUME SessionInv, Enqueue PROVE SessionInv'
  OBVIOUS
<1>1. /\ Running /\ arrived < Messages /\ arrived' = arrived + 1
      /\ queue' = Append(queue, arrived + 1)
      /\ UNCHANGED <<state, left, request, unsent, body, marked, fate, rx, conn, dirty,
                     inbox, mode, mail, rcpts, taken, multiline>>
  BY DEF Enqueue, server
<1>2. queue \in Seq(1 .. Messages) /\ arrived + 1 \in 1 .. Messages
  BY <1>1, SessionAssumption DEF SessionInv, TypeOK
<1>3. queue' \in Seq(1 .. Messages) /\ queue' # <<>> /\ (queue # <<>> => Head(queue') = Head(queue))
  <2> DEFINE S == 1 .. Messages
  <2>1. queue \in Seq(S) /\ arrived + 1 \in S
    BY <1>2
  <2> HIDE DEF S
  <2>2. /\ Append(queue, arrived + 1) \in Seq(S) /\ Append(queue, arrived + 1) # <<>>
        /\ queue # <<>> => Head(Append(queue, arrived + 1)) = Head(queue)
    BY <2>1
  <2> QED
    BY <1>1, <2>2 DEF S
<1>4. TypeOK'
  BY <1>1, <1>2, <1>3 DEF SessionInv, TypeOK
<1>5. Heads'
  BY <1>1, <1>3 DEF SessionInv, Heads, Transferring
<1>6. Running'
  BY <1>1 DEF Running
<1>7. state \in Transferring => Head(queue') = Head(queue)
  BY <1>3 DEF SessionInv, Heads
<1>8. Said' = Said /\ Asked' = Asked /\ \A A, B : NeverAfter(A, B) => NeverAfter(A, B)'
  BY <1>1 DEF Said, Asked, NeverAfter
<1>9. Paired'
  <2>1. CASE state = "SENDING_DATA_PAYLOAD"
    <3>1. PayloadSent /\ Head(queue') = Head(queue)
      BY <1>1, <1>7, <2>1 DEF SessionInv, Paired, Transferring
    <3>2. PayloadSent'
      BY <1>1, <1>8, <3>1 DEF PayloadSent
    <3> QED
      BY <1>1, <2>1, <3>2 DEF Paired
  <2>2. CASE state = "SENDING_DATA"
    <3>1. DataSent
      BY <1>1, <2>2 DEF SessionInv, Paired
    <3>2. DataSent'
      BY <1>1, <1>8, <3>1 DEF DataSent
    <3> QED
      BY <1>1, <2>2, <3>2 DEF Paired
  <2>3. CASE state \notin {"SENDING_DATA", "SENDING_DATA_PAYLOAD"}
    BY <1>1, <1>8, <2>3 DEF SessionInv, Paired, NoData
  <2> QED
    BY <2>1, <2>2, <2>3
<1>10. ASSUME ~multiline' PROVE OneAtATime' /\ Agreed'
  <2>1. OneAtATime /\ Agreed
    BY <1>1, <1>10 DEF SessionInv, InStep
  <2>2. OneAtATime'
    BY <1>1, <1>8, <2>1 DEF OneAtATime
  <2>3. Agreed'
    <3>1. Waiting' = Waiting
      BY <1>1 DEF Waiting
    <3>2. \A m, rs : Opened(m, rs)' = Opened(m, rs)
      BY <1>1 DEF Opened
    <3>3. CASE state \in Transferring
      BY <1>1, <1>7, <1>8, <2>1, <3>1, <3>3 DEF Agreed, Opened
    <3>4. CASE state \notin Transferring
      BY <1>1, <1>8, <2>1, <3>4 DEF Agreed, Opened, Transferring
    <3> QED
      BY <3>3, <3>4
  <2> QED
    BY <2>2, <2>3
<1>11. MarkedOnlyIfTaken' /\ MarkedOnlyIfTakenForAll'
  BY <1>1, MarkedStays
<1> QED
  BY <1>4, <1>5, <1>6, <1>9, <1>10, <1>11, Assembled DEF InStep

LEMMA LoadedElsewhereKeeps ==
  \A m \in 1 .. Messages : SessionInv /\ LoadedElsewhere(m) => SessionInv'
<1> SUFFICES ASSUME NEW m \in 1 .. Messages, SessionInv, LoadedElsewhere(m) PROVE SessionInv'
  OBVIOUS
<1>1. /\ body[m] \in {"HEADERS_LOADED", "LOADING_BODY"}
      /\ \E s \in MessageStates : body' = [body EXCEPT ![m] = s]
      /\ UNCHANGED <<state, queue, arrived, left, request, unsent, marked, fate, rx, conn,
                     dirty, inbox, mode, mail, rcpts, taken, multiline>>
  BY DEF LoadedElsewhere, client, server, MessageStates
<1>2. body' \in [1 .. Messages -> MessageStates]
      /\ \A k \in 1 .. Messages : body[k] = "LOADING_FAILED" => body'[k] = "LOADING_FAILED"
  BY <1>1 DEF SessionInv, TypeOK
<1>3. TypeOK'
  BY <1>1, <1>2 DEF SessionInv, TypeOK
<1>4. Heads'
  <2>1. queue # <<>> => Head(queue) \in 1 .. Messages
    BY HeadFacts DEF SessionInv, TypeOK
  <2> QED
    BY <1>1, <1>2, <2>1 DEF SessionInv, Heads, Transferring
<1>5. Paired'
  BY <1>1 DEF SessionInv, Paired, NoData, DataSent, PayloadSent, Said, Asked, NeverAfter, Running
<1>6. InStep'
  BY <1>1 DEF SessionInv, InStep, OneAtATime, Agreed, Opened, Waiting, Said, NeverAfter, Running
<1>7. MarkedOnlyIfTaken' /\ MarkedOnlyIfTakenForAll'
  BY <1>1, MarkedStays
<1>8. PayloadInItsTransaction' /\ NoCommandCutOff'
  BY <1>1 DEF SessionInv, PayloadInItsTransaction, NoCommandCutOff
<1> QED
  BY <1>3, <1>4, <1>5, <1>6, <1>7, <1>8 DEF SessionInv

-----------------------------------------------------------------------------
(* The server. *)

\* A command is taken from those with the server.
LEMMA ServedFacts ==
  ASSUME inbox \in Seq(Commands), inbox # <<>>, inbox' = Tail(inbox)
  PROVE  /\ inbox' \in Seq(Commands) /\ Asked' \subseteq Asked
         /\ Head(inbox) \in Commands /\ Head(inbox).name \in Asked
         /\ 1 \in DOMAIN inbox /\ Head(inbox) = inbox[1]
         /\ \A i \in DOMAIN inbox' : i + 1 \in DOMAIN inbox /\ inbox'[i] = inbox[i + 1]
         /\ \A i \in DOMAIN inbox : i \in Nat
         /\ \A i \in DOMAIN inbox' : i \in Nat
         /\ Len(inbox) = Len(inbox') + 1 /\ Len(inbox') \in Nat
         /\ 1 = Len(inbox) => inbox' = <<>>
<1>1. PICK m \in Nat : m = Len(inbox)
  OBVIOUS
<1>2. /\ DOMAIN inbox = 1 .. m /\ m # 0
      /\ inbox' \in Seq(Commands) /\ Len(inbox') = m - 1 /\ DOMAIN inbox' = 1 .. m - 1
      /\ \A i \in 1 .. m - 1 : inbox'[i] = inbox[i + 1]
      /\ Head(inbox) = inbox[1] /\ Head(inbox) \in Commands
  BY <1>1
<1>3. /\ 1 \in DOMAIN inbox
      /\ \A i \in DOMAIN inbox' : i + 1 \in DOMAIN inbox /\ inbox'[i] = inbox[i + 1]
      /\ \A i \in DOMAIN inbox : i \in Nat
      /\ \A i \in DOMAIN inbox' : i \in Nat
      /\ Len(inbox) = Len(inbox') + 1 /\ Len(inbox') \in Nat
  BY <1>1, <1>2
<1>4. Asked' \subseteq Asked /\ Head(inbox).name \in Asked
  BY <1>2, <1>3 DEF Asked
<1>5. 1 = Len(inbox) => inbox' = <<>>
  BY <1>1, <1>2
<1> QED
  BY <1>2, <1>3, <1>4, <1>5

LEMMA ReplyFacts ==
  ASSUME NEW c, NEW code \in Replies(c)
  PROVE  /\ code \in Line
         /\ code = 354 => c.name = "DATA" /\ rcpts # {}
         /\ code = 250 => c.name \in {"HELO", "MAIL", "RCPT", "RSET"}
BY DEF Replies, Line, Bad, Refused

\* The server replies to a command.
LEMMA ServeCommandKeeps == SessionInv /\ Running /\ Serve /\ ServeCommand => SessionInv'
<1> SUFFICES ASSUME SessionInv, Running, Serve, ServeCommand PROVE SessionInv'
  OBVIOUS
<1> DEFINE c == Head(inbox)
<1>1. /\ inbox # <<>> /\ inbox' = Tail(inbox) /\ mode = "command"
      /\ UNCHANGED <<state, queue, left, request, unsent, marked, fate, arrived, body,
                     conn, dirty, taken>>
  BY DEF Serve, ServeCommand, client
<1>2a. PICK code \in Replies(c) :
        /\ Say(code)
        /\ mode' = IF code = 354 THEN "data" ELSE mode
        /\ mail' = CASE c.name = "MAIL" /\ code = 250 -> c.msg
                     [] c.name = "RSET"               -> 0
                     [] OTHER                         -> mail
        /\ rcpts' = CASE c.name = "RCPT" /\ code = 250 -> rcpts \cup {c.rcpt}
                      [] c.name = "RSET"               -> {}
                      [] OTHER                         -> rcpts
  BY DEF ServeCommand
<1>2b. PICK n \in 1 .. MaxLines :
        /\ rx' = rx \o [i \in 1 .. n |-> code]
        /\ multiline' = (multiline \/ n > 1)
  BY <1>2a DEF Say
<1>2. /\ rx' = rx \o [i \in 1 .. n |-> code]
      /\ multiline' = (multiline \/ n > 1)
      /\ mode' = IF code = 354 THEN "data" ELSE mode
      /\ mail' = CASE c.name = "MAIL" /\ code = 250 -> c.msg
                   [] c.name = "RSET"               -> 0
                   [] OTHER                         -> mail
      /\ rcpts' = CASE c.name = "RCPT" /\ code = 250 -> rcpts \cup {c.rcpt}
                    [] c.name = "RSET"               -> {}
                    [] OTHER                         -> rcpts
  BY <1>2a, <1>2b
<1>3. /\ inbox' \in Seq(Commands) /\ Asked' \subseteq Asked
      /\ c \in Commands /\ c.name \in Asked
      /\ 1 \in DOMAIN inbox /\ c = inbox[1]
      /\ \A i \in DOMAIN inbox' : i + 1 \in DOMAIN inbox /\ inbox'[i] = inbox[i + 1]
      /\ \A i \in DOMAIN inbox' : i \in Nat
      /\ Len(inbox) = Len(inbox') + 1 /\ Len(inbox') \in Nat
      /\ 1 = Len(inbox) => inbox' = <<>>
  BY <1>1, ServedFacts DEF SessionInv, TypeOK
<1>4. /\ code \in Line
      /\ code = 354 => c.name = "DATA" /\ rcpts # {}
      /\ code = 250 => c.name \in {"HELO", "MAIL", "RCPT", "RSET"}
  BY <1>2, ReplyFacts
<1>5. /\ rx' \in Seq(Line) /\ Said' = Said \cup {code}
      /\ \A A, B : NeverAfter(A, B) /\ code \notin B => NeverAfter(A, B)'
      /\ \A A, B : Said \cap A = {} /\ n = 1 => NeverAfter(A, B)'
  <2>1. rx \in Seq(Line) /\ n \in Nat \ {0}
    BY SessionAssumption DEF SessionInv, TypeOK, Line
  <2> QED
    BY ONLY <1>2, <1>4, <2>1, SayFacts
<1>6. TypeOK'
  <2>1. mail \in 0 .. Messages /\ rcpts \subseteq 1 .. Recipients
    BY DEF SessionInv, TypeOK
  <2>2. c.msg \in 0 .. Messages /\ (c.name = "RCPT" => c.rcpt \in 1 .. Recipients)
    BY <1>3, SessionAssumption DEF Commands
  <2>3. mail' \in 0 .. Messages
    BY <1>2, <2>1, <2>2, SessionAssumption
  <2>4. rcpts' \subseteq 1 .. Recipients
    BY <1>2, <2>1, <2>2
  <2>5. mode' \in {"command", "data"} /\ multiline' \in BOOLEAN
    BY <1>1, <1>2 DEF SessionInv, TypeOK
  <2> HIDE DEF c
  <2>6. /\ rx' \in Seq(Line) /\ inbox' \in Seq(Commands)
    BY <1>3, <1>5
  <2> QED
    BY <1>1, <2>3, <2>4, <2>5, <2>6 DEF SessionInv, TypeOK, Line
<1>7. Heads' /\ Running'
  BY <1>1 DEF SessionInv, Heads, Running, Transferring
<1>8. MarkedOnlyIfTaken' /\ MarkedOnlyIfTakenForAll'
  BY <1>1, <1>2, MarkedStays
<1>9. state # "SENDING_DATA_PAYLOAD"
  BY <1>1 DEF SessionInv, Paired, PayloadSent
<1> HIDE DEF c
<1>10. Paired'
  <2>1. CASE state # "SENDING_DATA"
    <3>1. NoData /\ code # 354
      BY <1>3, <1>4, <1>9, <2>1 DEF SessionInv, Paired, NoData
    <3>2. NoData'
      BY <1>1, <1>2, <1>3, <1>5, <3>1 DEF NoData
    <3> QED
      BY <1>1, <1>9, <2>1, <3>2 DEF Paired
  <2>2. CASE state = "SENDING_DATA"
    <3>1. DataSent /\ 354 \notin Said
      BY <1>1, <2>2 DEF SessionInv, Paired, DataSent
    <3>2. \A i \in DOMAIN inbox' : inbox'[i].name = "DATA" => i = Len(inbox')
      <4>1. ASSUME NEW i \in DOMAIN inbox', inbox'[i].name = "DATA" PROVE i = Len(inbox')
        <5>1. i + 1 = Len(inbox)
          BY <1>3, <3>1, <4>1 DEF DataSent
        <5> QED
          BY <1>3, <5>1
      <4> QED
        BY <4>1
    <3>3. code = 354 => unsent = 0 /\ inbox' = <<>> /\ rcpts' # {}
      <4>1. SUFFICES ASSUME code = 354 PROVE unsent = 0 /\ inbox' = <<>> /\ rcpts' # {}
        OBVIOUS
      <4>2. c.name = "DATA" /\ rcpts # {}
        BY <1>4, <4>1
      <4>3. 1 = Len(inbox) /\ ~(unsent > 0)
        BY <1>3, <3>1, <4>2 DEF DataSent
      <4>4. unsent \in Nat
        BY SessionAssumption DEF SessionInv, TypeOK
      <4>5. rcpts' = rcpts
        BY <1>2, <4>2
      <4> QED
        BY <1>3, <4>2, <4>3, <4>4, <4>5
    <3>4. NeverAfter({354}, {250})'
      <4>1. CASE code = 354
        BY <1>5, <3>1, <4>1 DEF DataSent
      <4>2. CASE code # 354
        <5>1. 354 \notin Said'
          BY <1>5, <3>1, <4>2
        <5> QED
          BY <5>1 DEF NeverAfter, Said
      <4> QED
        BY <4>1, <4>2
    <3>5. mode' = "data" <=> code = 354
      BY <1>1, <1>2
    <3>6. DataSent'
      BY <1>1, <1>3, <1>5, <3>1, <3>2, <3>3, <3>4, <3>5 DEF DataSent
    <3> QED
      BY <1>1, <2>2, <3>6 DEF Paired
  <2> QED
    BY <2>1, <2>2
<1>11. ASSUME ~multiline' PROVE OneAtATime' /\ Agreed'
  <2>1. ~multiline /\ n = 1
    <3>1. ~multiline /\ ~(n > 1)
      BY <1>2, <1>11, Zenon
    <3>2. n \in Nat \ {0}
      BY SessionAssumption
    <3> QED
      BY <3>1, <3>2
  <2>2. OneAtATime /\ Agreed
    BY <2>1 DEF SessionInv, InStep
  <2>3. /\ inbox = <<request>> /\ Said \cap Good = {} /\ ~(unsent > 0) /\ dirty = FALSE
        /\ request.name # "JUNK"
    BY <1>1, <2>2 DEF OneAtATime
  <2>4. c = request /\ inbox' = <<>>
    <3>1. Len(inbox) = 1 /\ inbox[1] = request
      BY <2>3
    <3> QED
      BY <1>3, <3>1
  <2>5. OneAtATime'
    BY <1>1, <1>5, <2>1, <2>3, <2>4 DEF OneAtATime, Good
  <2>6. ~Waiting' /\ Waiting
    BY <1>1, <2>3, <2>4 DEF Waiting
  <2>7. 250 \in Said' => code = 250
    BY <1>5, <2>3 DEF Good
  <2>8. left \in Nat /\ Recipients \in Nat
    BY SessionAssumption DEF SessionInv, TypeOK
  <2>9. CASE state \in {"RECEIVING_GREETING", "SENDING_HELO"}
    <3>1. request.name \in {"NONE", "HELO"} /\ Opened(0, {})
      BY <2>2, <2>9 DEF Agreed
    <3>2. Opened(0, {})'
      BY <1>2, <2>4, <3>1 DEF Opened
    <3> QED
      BY <1>1, <2>5, <2>9, <3>1, <3>2 DEF Agreed
  <2>10. CASE state = "SENDING_MAIL_OR_RCPT"
    <3>1. CASE request = Command("MAIL", Head(queue), 0) /\ left = Recipients
      <4>1. Opened(0, {})
        <5>1. request.name = "MAIL"
          BY <3>1 DEF Command
        <5>2. \/ request = Command("MAIL", Head(queue), 0) /\ (Waiting => Opened(0, {}))
              \/ request = Command("RCPT", Head(queue), left + 1)
          BY <2>2, <2>10 DEF Agreed
        <5> QED
          BY <2>6, <5>1, <5>2 DEF Command
      <4>2. code = 250 => Opened(Head(queue), {})'
        BY <1>1, <1>2, <2>4, <3>1, <4>1 DEF Opened, Command
      <4> QED
        BY <1>1, <2>5, <2>6, <2>7, <2>10, <3>1, <4>2 DEF Agreed, Opened
    <3>2. CASE request = Command("RCPT", Head(queue), left + 1) /\ left < Recipients
      <4>1. Opened(Head(queue), left + 2 .. Recipients)
        <5>1. request.name = "RCPT"
          BY <3>2 DEF Command
        <5>2. \/ request = Command("MAIL", Head(queue), 0)
              \/ /\ request = Command("RCPT", Head(queue), left + 1)
                 /\ Waiting => Opened(Head(queue), left + 2 .. Recipients)
          BY <2>2, <2>10 DEF Agreed
        <5> QED
          BY <2>6, <5>1, <5>2 DEF Command
      <4>2. (left + 2 .. Recipients) \cup {left + 1} = left + 1 .. Recipients
        BY <2>8, <3>2
      <4>3. code = 250 => Opened(Head(queue), left + 1 .. Recipients)'
        <5>1. c.name = "RCPT" /\ c.rcpt = left + 1
          BY <2>4, <3>2 DEF Command
        <5>2. code = 250 => rcpts' = rcpts \cup {left + 1} /\ mail' = mail
          BY <1>2, <5>1
        <5> QED
          BY <1>1, <4>1, <4>2, <5>2 DEF Opened
      <4>4. request' = Command("RCPT", Head(queue'), left' + 1) /\ left' < Recipients
        BY <1>1, <3>2
      <4>5. 250 \in Said' => Opened(Head(queue), left + 1 .. Recipients)'
        BY <2>7, <4>3
      <4>6. state' = "SENDING_MAIL_OR_RCPT"
        BY <1>1, <2>10
      <4> HIDE <3>2
      <4> QED
        BY <2>5, <2>6, <4>4, <4>5, <4>6 DEF Agreed
    <3> QED
      BY <2>2, <2>10, <3>1, <3>2 DEF Agreed
  <2>11. CASE state = "LOADING_MESSAGE_BODY"
    BY <2>2, <2>6, <2>11 DEF Agreed
  <2>12. CASE state = "SENDING_DATA"
    <3>1. request = Command("DATA", Head(queue), 0) /\ Opened(Head(queue), 1 .. Recipients)
      BY <2>2, <2>12 DEF Agreed
    <3>2. Opened(Head(queue), 1 .. Recipients)'
      BY <1>1, <1>2, <2>4, <3>1 DEF Opened, Command
    <3> QED
      BY <1>1, <2>5, <2>12, <3>1, <3>2 DEF Agreed
  <2>13. CASE state = "SENDING_RSET"
    <3>1. request = Plain("RSET")
      BY <2>2, <2>13 DEF Agreed
    <3>2. Opened(0, {})'
      BY <1>2, <2>4, <3>1 DEF Opened, Plain, Command
    <3> QED
      BY <1>1, <2>5, <2>13, <3>1, <3>2 DEF Agreed
  <2>14. CASE state \notin {"RECEIVING_GREETING", "SENDING_HELO", "SENDING_MAIL_OR_RCPT",
                            "LOADING_MESSAGE_BODY", "SENDING_DATA", "SENDING_DATA_PAYLOAD",
                            "SENDING_RSET"}
    BY <1>1, <2>5, <2>14 DEF Agreed
  <2> QED
    BY <1>9, <2>9, <2>10, <2>11, <2>12, <2>13, <2>14
<1> QED
  BY <1>6, <1>7, <1>8, <1>10, <1>11, Assembled DEF InStep

\* The server has the data, or throws away what is none.
LEMMA ServeDataKeeps == SessionInv /\ Running /\ Serve /\ ServeData => SessionInv'
<1> SUFFICES ASSUME SessionInv, Running, Serve, ServeData PROVE SessionInv'
  OBVIOUS
<1> DEFINE c == Head(inbox)
<1>1. /\ inbox # <<>> /\ inbox' = Tail(inbox) /\ mode = "data"
      /\ UNCHANGED <<state, queue, left, request, unsent, marked, fate, arrived, body,
                     conn, dirty>>
  BY DEF Serve, ServeData, client
<1>2. state = "SENDING_DATA_PAYLOAD" /\ PayloadSent
  BY <1>1 DEF SessionInv, Paired, NoData, DataSent
<1>3. /\ inbox' \in Seq(Commands) /\ c \in Commands
      /\ 1 \in DOMAIN inbox /\ c = inbox[1] /\ (1 = Len(inbox) => inbox' = <<>>)
  BY <1>1, ServedFacts DEF SessionInv, TypeOK
<1>4. /\ inbox' = <<>> /\ ~(unsent > 0) /\ rcpts # {} /\ 250 \notin Said
      /\ c.name = "PAYLOAD" => c.msg = Head(queue)
  BY <1>1, <1>2, <1>3 DEF PayloadSent
<1>5. Heads' /\ Running'
  BY <1>1 DEF SessionInv, Heads, Running, Transferring
<1>6. Head(queue) \in 1 .. Messages /\ rcpts \subseteq 1 .. Recipients
      /\ taken \subseteq (1 .. Messages) \X (1 .. Recipients)
  BY <1>2, HeadFacts DEF SessionInv, Heads, TypeOK, Transferring
<1>7. ASSUME ~multiline
      PROVE  /\ dirty = FALSE /\ request.name # "JUNK" /\ Said \cap Good = {}
             /\ NeverAfter(Good, Good) /\ Opened(Head(queue), 1 .. Recipients)
  BY <1>1, <1>2, <1>7 DEF SessionInv, InStep, OneAtATime, Agreed
<1> HIDE DEF c
<1>8. CASE c.name = "PAYLOAD"
  <2>1. PICK code \in {250, Bad} :
          /\ Say(code)
          /\ taken' = IF code = 250 THEN taken \cup {<<c.msg, r>> : r \in rcpts} ELSE taken
    BY <1>8 DEF ServeData, c
  <2>2. mode' = "command" /\ mail' = 0 /\ rcpts' = {}
    BY <1>8 DEF ServeData, c
  <2>3. PICK n \in 1 .. MaxLines :
          /\ rx' = rx \o [i \in 1 .. n |-> code]
          /\ multiline' = (multiline \/ n > 1)
    BY <2>1 DEF Say
  <2>4. /\ rx' \in Seq(Line) /\ Said' = Said \cup {code}
        /\ \A A, B : NeverAfter(A, B) /\ code \notin B => NeverAfter(A, B)'
        /\ \A A, B : Said \cap A = {} /\ n = 1 => NeverAfter(A, B)'
    <3>1. rx \in Seq(Line) /\ n \in Nat \ {0}
      BY SessionAssumption DEF SessionInv, TypeOK, Line
    <3>2. code \in Line
      BY DEF Line
    <3> QED
      BY ONLY <2>3, <3>1, <3>2, SayFacts
  <2>5. /\ taken \subseteq taken' /\ taken' \subseteq (1 .. Messages) \X (1 .. Recipients)
        /\ code = 250 => \A r \in rcpts : <<Head(queue), r>> \in taken'
    BY <1>4, <1>6, <1>8, <2>1
  <2>6. TypeOK'
    <3>1. multiline' \in BOOLEAN /\ 0 \in 0 .. Messages
      BY <2>3, SessionAssumption
    <3>2. mail' \in 0 .. Messages /\ rcpts' \subseteq 1 .. Recipients /\ mode' \in {"command", "data"}
      BY <2>2, <3>1
    <3> QED
      BY <1>1, <1>3, <2>4, <2>5, <3>1, <3>2 DEF SessionInv, TypeOK, Line
  <2>7. MarkedOnlyIfTaken' /\ MarkedOnlyIfTakenForAll'
    <3>1. multiline => multiline'
      BY <2>3, Zenon
    <3> QED
      BY <1>1, <2>5, <3>1, MarkedStays
  <2>8. Paired'
    <3>1. 250 \in Said' => \E r \in 1 .. Recipients : <<Head(queue), r>> \in taken'
      BY <1>4, <1>6, <2>4, <2>5
    <3>2. NeverAfter({250}, {354})'
      <4>1. code \notin {354} /\ NeverAfter({250}, {354})
        BY <1>2 DEF Bad, PayloadSent
      <4> QED
        BY <2>4, <4>1
    <3>3. DOMAIN inbox' = {}
      BY <1>4
    <3>4. request = Command("PAYLOAD", Head(queue), 0)
      BY <1>2 DEF PayloadSent
    <3>5. PayloadSent'
      BY <1>1, <1>4, <2>2, <3>1, <3>2, <3>3, <3>4 DEF PayloadSent
    <3> QED
      BY <1>1, <1>2, <3>5 DEF Paired
  <2>9. ASSUME ~multiline' PROVE OneAtATime' /\ Agreed'
    <3>1. ~multiline /\ n = 1
      <4>1. ~multiline /\ ~(n > 1)
        BY <2>3, <2>9, Zenon
      <4>2. n \in Nat \ {0}
        BY SessionAssumption
      <4> QED
        BY <4>1, <4>2
    <3>2. OneAtATime'
      BY <1>1, <1>4, <1>7, <2>4, <3>1 DEF OneAtATime, Good
    <3>3. 250 \in Said' => \A r \in 1 .. Recipients : <<Head(queue), r>> \in taken'
      BY <1>4, <1>7, <2>4, <2>5, <3>1 DEF Opened
    <3>4. Agreed'
      BY <1>1, <1>2, <2>2, <3>3 DEF Agreed, Opened
    <3> QED
      BY <3>2, <3>4
  <2> QED
    BY <1>5, <2>6, <2>7, <2>8, <2>9, Assembled DEF InStep
<1>9. CASE c.name # "PAYLOAD"
  <2>1. UNCHANGED <<rx, mode, mail, rcpts, taken, multiline>>
    BY <1>9 DEF ServeData, server, c
  <2>2. TypeOK'
    BY <1>1, <1>3, <2>1 DEF SessionInv, TypeOK
  <2>3. MarkedOnlyIfTaken' /\ MarkedOnlyIfTakenForAll'
    BY <1>1, <2>1, MarkedStays
  <2>4. Said' = Said /\ \A A, B : NeverAfter(A, B) => NeverAfter(A, B)'
    BY <2>1 DEF Said, NeverAfter
  <2>5. Paired'
    <3>1. DOMAIN inbox' = {}
      BY <1>4
    <3>2. PayloadSent'
      BY <1>1, <1>2, <1>4, <2>1, <2>4, <3>1 DEF PayloadSent
    <3> QED
      BY <1>1, <1>2, <3>2 DEF Paired
  <2>6. ASSUME ~multiline' PROVE OneAtATime' /\ Agreed'
    <3>1. OneAtATime'
      BY <1>1, <1>4, <1>7, <2>1, <2>4, <2>6 DEF OneAtATime
    <3>2. Agreed'
      BY <1>1, <1>2, <1>4, <1>7, <2>1, <2>4, <2>6 DEF Agreed, Opened
    <3> QED
      BY <3>1, <3>2
  <2> QED
    BY <1>5, <2>2, <2>3, <2>5, <2>6, Assembled DEF InStep
<1> QED
  BY <1>8, <1>9

\* Replies that nothing asked for, and the loss of some that were, keep the
\* invariant: there is only less to be read that matters.
LEMMA RepliesKeep ==
  ASSUME SessionInv, Running, rx' \in Seq(Line), conn' \in {"open", "shut", "reset"},
         Said' \subseteq Said \cup {Bad},
         \A A, B : NeverAfter(A, B) /\ Bad \notin B => NeverAfter(A, B)',
         UNCHANGED <<client, arrived, body, dirty, inbox, server>>
  PROVE  SessionInv'
<1>1. UNCHANGED <<state, queue, left, request, unsent, marked, fate, arrived, body, dirty,
                  inbox, mode, mail, rcpts, taken, multiline>>
  BY DEF client, server
<1>2. Heads' /\ Running'
  BY <1>1 DEF SessionInv, Heads, Running, Transferring
<1>3. TypeOK'
  BY <1>1 DEF SessionInv, TypeOK, Line
<1>4. MarkedOnlyIfTaken' /\ MarkedOnlyIfTakenForAll'
  BY <1>1, MarkedStays
<1>5. /\ 354 \in Said' => 354 \in Said
      /\ 250 \in Said' => 250 \in Said
      /\ Said \cap Good = {} => Said' \cap Good = {}
      /\ NeverAfter({354}, {250}) => NeverAfter({354}, {250})'
      /\ NeverAfter({250}, {354}) => NeverAfter({250}, {354})'
      /\ NeverAfter(Good, Good) => NeverAfter(Good, Good)'
  BY DEF Bad, Good, Refused
<1>6. Asked' = Asked /\ Waiting' = Waiting
  BY <1>1 DEF Asked, Waiting
<1>7. Paired'
  BY <1>1, <1>2, <1>5, <1>6 DEF SessionInv, Paired, NoData, DataSent, PayloadSent
<1>8. ASSUME ~multiline' PROVE OneAtATime' /\ Agreed'
  <2>1. OneAtATime /\ Agreed
    BY <1>1, <1>8 DEF SessionInv, InStep
  <2>2. OneAtATime'
    BY <1>1, <1>5, <2>1 DEF OneAtATime, Good
  <2>3. Agreed'
    BY <1>1, <1>5, <1>6, <2>1 DEF Agreed, Opened, Good
  <2> QED
    BY <2>2, <2>3
<1> QED
  BY <1>2, <1>3, <1>4, <1>7, <1>8, Assembled DEF InStep

LEMMA ComplainKeeps == SessionInv /\ Running /\ Complain => SessionInv'
<1> SUFFICES ASSUME SessionInv, Running, Complain PROVE SessionInv'
  OBVIOUS
<1> DEFINE one == [i \in 1 .. 1 |-> Bad]
<1>1. rx \in Seq(Line) /\ Bad \in Line
  BY DEF SessionInv, TypeOK, Line
<1>2. rx' = rx \o one
  <2>1. one \in Seq(Line) /\ Len(one) = 1 /\ one[1] = Bad
    BY <1>1
  <2> HIDE DEF one
  <2>2. PICK m \in Nat : m = Len(rx)
    BY <1>1
  <2>3. /\ Append(rx, Bad) \in Seq(Line) /\ Len(Append(rx, Bad)) = m + 1
        /\ \A i \in 1 .. m : Append(rx, Bad)[i] = rx[i]
        /\ Append(rx, Bad)[m + 1] = Bad
    BY <1>1, <2>2
  <2>4. /\ rx \o one \in Seq(Line) /\ Len(rx \o one) = Len(rx) + Len(one)
        /\ \A i \in 1 .. Len(rx) + Len(one) :
             (rx \o one)[i] = IF i <= Len(rx) THEN rx[i] ELSE one[i - Len(rx)]
    BY <1>1, <2>1, ConcatProperties
  <2>5. Len(rx \o one) = m + 1 /\ \A i \in 1 .. m + 1 : (rx \o one)[i] = IF i <= m THEN rx[i] ELSE Bad
    <3>1. Len(rx) + Len(one) = m + 1
      BY <2>1, <2>2
    <3>2. ASSUME NEW i \in 1 .. m + 1, ~(i <= m) PROVE i - Len(rx) = 1
      BY <2>2, <3>2
    <3> QED
      BY <2>1, <2>2, <2>4, <3>1, <3>2
  <2>6. rx \o one = Append(rx, Bad)
    <3>1. \A i \in 1 .. m + 1 : (rx \o one)[i] = Append(rx, Bad)[i]
      BY <2>2, <2>3, <2>5
    <3> QED
      BY <2>3, <2>4, <2>5, <3>1, SeqEqual
  <2> QED
    BY <2>6 DEF Complain
<1>3. /\ rx' \in Seq(Line) /\ Said' = Said \cup {Bad}
      /\ \A A, B : NeverAfter(A, B) /\ Bad \notin B => NeverAfter(A, B)'
  <2>1. 1 \in Nat \ {0}
    OBVIOUS
  <2> QED
    BY ONLY <1>1, <1>2, <2>1, SayFacts
<1> QED
  BY <1>3, RepliesKeep DEF Complain

LEMMA ShutKeeps == SessionInv /\ Running /\ Shut => SessionInv'
<1> SUFFICES ASSUME SessionInv, Running, Shut PROVE SessionInv'
  OBVIOUS
<1>1. /\ rx' \in Seq(Line) /\ Said' \subseteq Said \cup {Bad}
      /\ \A A, B : NeverAfter(A, B) /\ Bad \notin B => NeverAfter(A, B)'
  BY DEF Shut, SessionInv, TypeOK, Line, Said, NeverAfter
<1> QED
  BY <1>1, RepliesKeep DEF Shut

LEMMA ResetKeeps == SessionInv /\ Running /\ Reset => SessionInv'
<1> SUFFICES ASSUME SessionInv, Running, Reset PROVE SessionInv'
  OBVIOUS
<1>1. /\ rx' \in Seq(Line) /\ Said' \subseteq Said \cup {Bad}
      /\ \A A, B : NeverAfter(A, B) /\ Bad \notin B => NeverAfter(A, B)'
  <2>1. CASE rx' = rx
    BY <2>1 DEF SessionInv, TypeOK, Line, Said, NeverAfter
  <2>2. CASE rx' = <<>>
    BY <2>2 DEF Said, NeverAfter
  <2> QED
    BY <2>1, <2>2 DEF Reset
<1> QED
  BY <1>1, RepliesKeep DEF Reset

-----------------------------------------------------------------------------
(* The theorems. *)

LEMMA SessionStart == Init => SessionInv
<1> SUFFICES ASSUME Init PROVE SessionInv
  OBVIOUS
<1>1. /\ state = "RECEIVING_GREETING" /\ queue = <<1>> /\ arrived = 1 /\ left = 0
      /\ request = Plain("NONE") /\ unsent = 0
      /\ body = [m \in 1 .. Messages |-> "HEADERS_LOADED"] /\ marked = {}
      /\ fate = "running" /\ rx = <<>> /\ conn = "open" /\ dirty = FALSE
      /\ inbox = <<Plain("NONE")>> /\ mode = "command" /\ mail = 0 /\ rcpts = {}
      /\ taken = {} /\ multiline = FALSE
  BY DEF Init
<1>2. Plain("NONE") \in Commands /\ Plain("NONE").name = "NONE"
  BY SessionAssumption DEF Plain, Command, Commands, Names
<1>3. /\ DOMAIN inbox = 1 .. 1 /\ Len(inbox) = 1 /\ inbox[1] = Plain("NONE")
      /\ inbox \in Seq(Commands)
  BY <1>1, <1>2
<1>4. TypeOK
  <2>1. queue \in Seq(1 .. Messages) /\ arrived \in 1 .. Messages /\ 0 \in 0 .. Messages
        /\ left \in 0 .. Recipients /\ unsent \in 0 .. Pieces
    BY <1>1, SessionAssumption
  <2>2. body \in [1 .. Messages -> MessageStates] /\ state \in SessionStates
    BY <1>1 DEF MessageStates, SessionStates
  <2>3. rx \in Seq({0, 220, 221, 250, 354, Refused, Bad})
    BY <1>1
  <2> QED
    BY <1>1, <1>2, <1>3, <2>1, <2>2, <2>3 DEF TypeOK
<1>5. Said = {} /\ Asked = {"NONE"} /\ \A A, B : NeverAfter(A, B)
  BY <1>1, <1>2, <1>3 DEF Said, Asked, NeverAfter
<1>6. Heads
  BY <1>1 DEF Heads, Transferring
<1>7. Paired
  BY <1>1, <1>2, <1>5 DEF Paired, NoData
<1>8. OneAtATime /\ Agreed
  BY <1>1, <1>2, <1>5 DEF OneAtATime, Agreed, Opened
<1>9. MarkedOnlyIfTaken /\ MarkedOnlyIfTakenForAll
  BY <1>1 DEF MarkedOnlyIfTaken, MarkedOnlyIfTakenForAll
<1>10. PayloadInItsTransaction /\ NoCommandCutOff
  BY <1>1, <1>2, <1>3 DEF PayloadInItsTransaction, NoCommandCutOff
<1> QED
  BY <1>4, <1>6, <1>7, <1>8, <1>9, <1>10 DEF SessionInv, InStep

LEMMA SessionRests == SessionInv /\ UNCHANGED vars => SessionInv'
<1> SUFFICES ASSUME SessionInv, UNCHANGED vars PROVE SessionInv'
  OBVIOUS
<1>1. TypeOK' /\ Heads'
  BY DEF SessionInv, vars, TypeOK, Heads
<1>2. /\ Said' = Said /\ Asked' = Asked /\ Running' = Running /\ Waiting' = Waiting
      /\ \A A, B : NeverAfter(A, B)' = NeverAfter(A, B)
  BY DEF vars, Said, Asked, Running, Waiting, NeverAfter
<1>3. Paired'
  BY <1>2 DEF SessionInv, vars, Paired, NoData, DataSent, PayloadSent
<1>4. OneAtATime' = OneAtATime /\ Agreed' = Agreed
  BY <1>2 DEF vars, OneAtATime, Agreed, Opened
<1>5. InStep'
  BY <1>2, <1>4 DEF SessionInv, vars, InStep
<1>6. MarkedOnlyIfTaken' /\ MarkedOnlyIfTakenForAll' /\ PayloadInItsTransaction' /\ NoCommandCutOff'
  BY DEF SessionInv, vars, MarkedOnlyIfTaken, MarkedOnlyIfTakenForAll, PayloadInItsTransaction,
         NoCommandCutOff
<1> QED
  BY <1>1, <1>3, <1>5, <1>6 DEF SessionInv

LEMMA SessionStep == SessionInv /\ [Next]_vars => SessionInv'
<1> SUFFICES ASSUME SessionInv, [Next]_vars PROVE SessionInv'
  OBVIOUS
<1>1. CASE Notify
  BY <1>1, NotifyKeeps
<1>2. CASE Enqueue
  BY <1>2, EnqueueKeeps
<1>3. CASE \E m \in 1 .. Messages : LoadedElsewhere(m)
  BY <1>3, LoadedElsewhereKeeps
<1>4. CASE Running /\ Serve
  BY <1>4, ServeCommandKeeps, ServeDataKeeps DEF Serve
<1>5. CASE Running /\ (Complain \/ Shut \/ Reset)
  BY <1>5, ComplainKeeps, ShutKeeps, ResetKeeps
<1>6. CASE UNCHANGED vars
  BY <1>6, SessionRests
<1> QED
  BY <1>1, <1>2, <1>3, <1>4, <1>5, <1>6 DEF Next

\* The invariant that the others are parts of: whatever the server says, and
\* whenever, session_notify pairs the reply that it takes for the one to a payload
\* with that payload, and is in step with servers whose replies have one line.
THEOREM SessionInvariant == Spec => []SessionInv
BY SessionStart, SessionStep, PTL DEF Spec

\* session_notify, dispatch and the server leave each variable in its range.
THEOREM SessionTypeOK == Spec => []TypeOK
BY SessionInvariant, PTL DEF SessionInv

\* dispatch marks a message as sent only when the server has taken it for one of
\* its recipients at least, with every server and any number of lines per reply.
THEOREM SessionMarkedOnlyIfTaken == Spec => []MarkedOnlyIfTaken
BY SessionInvariant, PTL DEF SessionInv

\* With servers whose replies have one line, dispatch marks a message as sent only
\* when the server has taken it for all of its recipients.
THEOREM SessionMarkedOnlyIfTakenForAll == Spec => []MarkedOnlyIfTakenForAll
BY SessionInvariant, PTL DEF SessionInv

\* With such servers, the payload that dispatch sends is the one of the message
\* that the server has opened the transaction for.
THEOREM SessionPayloadInItsTransaction == Spec => []PayloadInItsTransaction
BY SessionInvariant, PTL DEF SessionInv

\* With such servers, dispatch never replaces a request that try_send_request has
\* written in part.
THEOREM SessionNoCommandCutOff == Spec => []NoCommandCutOff
BY SessionInvariant, PTL DEF SessionInv

\* The queue in a step: it stays, it grows, or it loses a head that was marked or
\* could not be read.
LEMMA QueueStep ==
  ASSUME SessionInv, [Next]_vars
  PROVE  \/ queue' = queue
         \/ queue' = Append(queue, arrived + 1)
         \/ /\ queue # <<>> /\ queue' = Tail(queue)
            /\ Head(queue) \in marked' \/ body[Head(queue)] = "LOADING_FAILED"
<1>1. CASE ~(Notify /\ state \in Exchanging /\ NotifyReply)
  BY <1>1 DEF Next, Notify, NotifyReplyThenBroken, NotifyWrite, NotifyBroken,
              NotifyAwaitBody, OnBody, Keep, Enqueue, LoadedElsewhere, Serve, Complain, Shut,
              Reset, client, vars
<1>2. CASE Notify /\ state \in Exchanging /\ NotifyReply
  <2>1. PICK code, b : Dispatch(code, b)
    BY <1>2 DEF NotifyReply
  <2>2. CASE OnPayload(code, b)
    BY <2>2 DEF OnPayload, Transfer, SessionInv, Heads, Transferring
  <2>3. CASE OnReset(code, b)
    BY <2>3 DEF OnReset, Transfer, SessionInv, Heads, Transferring
  <2>4. CASE OnHelo(code, b)
    BY <2>4 DEF OnHelo, Transfer
  <2>5. CASE OnGreeting(code, b) \/ OnRecipient(code, b) \/ OnLastRecipient(code, b)
             \/ OnData(code, b) \/ Otherwise(code, b)
    BY <2>5 DEF OnGreeting, OnRecipient, OnLastRecipient, OnBody, OnData, Otherwise, Keep
  <2> QED
    BY <2>1, <2>2, <2>3, <2>4, <2>5 DEF Dispatch
<1> QED
  BY <1>1, <1>2

\* A message leaves the queue of a session that goes on only when dispatch has
\* marked it, or in reply to the RSET that an unreadable file led to.
THEOREM SessionDroppedOnlyForCause == Spec => DroppedOnlyForCause
<1> DEFINE A == \A i \in 1 .. Len(queue) :
                  state' # "CLOSED" =>
                    \/ \E j \in 1 .. Len(queue') : queue'[j] = queue[i]
                    \/ queue[i] \in marked'
                    \/ body[queue[i]] = "LOADING_FAILED"
<1>1. SessionInv /\ [Next]_vars => A
  <2> SUFFICES ASSUME SessionInv, [Next]_vars, NEW i \in 1 .. Len(queue)
               PROVE  \/ \E j \in 1 .. Len(queue') : queue'[j] = queue[i]
                      \/ queue[i] \in marked'
                      \/ body[queue[i]] = "LOADING_FAILED"
    OBVIOUS
  <2>1. queue \in Seq(1 .. Messages)
    BY DEF SessionInv, TypeOK
  <2>2. PICK n \in Nat : n = Len(queue)
    BY <2>1
  <2>3. CASE queue' = queue
    BY <2>3
  <2>4. CASE queue' = Append(queue, arrived + 1)
    <3>1. Len(queue') = n + 1 /\ \A j \in 1 .. n : queue'[j] = queue[j]
      BY <2>1, <2>2, <2>4
    <3> QED
      BY <2>2, <3>1
  <2>5. CASE /\ queue # <<>> /\ queue' = Tail(queue)
             /\ Head(queue) \in marked' \/ body[Head(queue)] = "LOADING_FAILED"
    <3>1. /\ Len(queue') = n - 1 /\ Head(queue) = queue[1]
          /\ \A j \in 1 .. n - 1 : queue'[j] = queue[j + 1]
      BY <2>1, <2>2, <2>5
    <3>2. CASE i = 1
      BY <2>5, <3>1, <3>2
    <3>3. CASE i # 1
      <4>1. i - 1 \in 1 .. n - 1 /\ (i - 1) + 1 = i
        BY <2>2, <3>3
      <4> QED
        BY <3>1, <4>1
    <3> QED
      BY <3>2, <3>3
  <2> QED
    BY <2>3, <2>4, <2>5, QueueStep
<1> QED
  BY <1>1, SessionInvariant, PTL DEF Spec, DroppedOnlyForCause
=============================================================================
