----------------------------- MODULE MaildirProofs -----------------------------
(***************************************************************************)
(* Theorems about Maildir, for any files, sizes of reads and number of runs, *)
(* among them that it implements Reports.                                   *)
(***************************************************************************)
EXTENDS Maildir, WellFoundedInduction, SequenceTheorems, TLAPS

Distinct(s) == \A i, j \in DOMAIN s : s[i] = s[j] => i = j

-----------------------------------------------------------------------------
(* Sequences and their elements. *)

\* Induction, for a set of numbers.
LEMMA SetInduction ==
  ASSUME NEW S, 0 \in S, \A n \in S : n \in Nat => n + 1 \in S
  PROVE  Nat \subseteq S
<1> DEFINE T == Nat \ S
           R == OpToRel(<, Nat)
<1>1. IsWellFoundedOn(R, Nat)
  BY NatLessThanWellFounded
<1>2. \A x, y \in Nat : x < y => <<x, y>> \in R
  BY DEF OpToRel
<1> HIDE DEF R
<1>3. ASSUME T # {} PROVE FALSE
  <2>1. T \subseteq Nat
    OBVIOUS
  <2>2. PICK x \in T : \A y \in T : ~(<<y, x>> \in R)
    BY <1>1, <1>3, <2>1, WFMin
  <2>3. x # 0
    BY <2>2
  <2>4. x - 1 \in Nat /\ <<x - 1, x>> \in R
    BY <1>2, <2>2, <2>3
  <2>5. x - 1 \in S
    BY <2>2, <2>4
  <2>6. (x - 1) + 1 \in S
    BY <2>4, <2>5
  <2>7. (x - 1) + 1 = x
    BY <2>1, <2>2
  <2> QED
    BY <2>2, <2>6, <2>7
<1> QED
  BY <1>3

LEMMA AppendElements ==
  ASSUME NEW S, NEW s \in Seq(S), NEW e \in S
  PROVE  /\ Append(s, e) \in Seq(S)
         /\ Elements(Append(s, e)) = Elements(s) \cup {e}
         /\ Distinct(s) /\ e \notin Elements(s) => Distinct(Append(s, e))
<1>1. /\ Append(s, e) \in Seq(S) /\ Len(s) \in Nat
      /\ DOMAIN s = 1 .. Len(s) /\ DOMAIN Append(s, e) = 1 .. Len(s) + 1
      /\ Append(s, e)[Len(s) + 1] = e
      /\ \A i \in 1 .. Len(s) : Append(s, e)[i] = s[i]
  OBVIOUS
<1>2. Elements(Append(s, e)) = Elements(s) \cup {e}
  BY <1>1 DEF Elements
<1>3. ASSUME Distinct(s), e \notin Elements(s) PROVE Distinct(Append(s, e))
  BY <1>1, <1>3 DEF Distinct, Elements
<1> QED
  BY <1>1, <1>2, <1>3

LEMMA TailElements ==
  ASSUME NEW S, NEW s \in Seq(S), s # <<>>
  PROVE  /\ Head(s) \in S /\ Tail(s) \in Seq(S)
         /\ Elements(s) = Elements(Tail(s)) \cup {Head(s)}
         /\ Distinct(s) => Distinct(Tail(s)) /\ Head(s) \notin Elements(Tail(s))
<1>1. /\ Head(s) = s[1] /\ Head(s) \in S /\ Tail(s) \in Seq(S)
      /\ Len(s) \in Nat \ {0} /\ DOMAIN s = 1 .. Len(s)
      /\ DOMAIN Tail(s) = 1 .. Len(s) - 1
      /\ \A i \in 1 .. Len(s) - 1 : Tail(s)[i] = s[i + 1]
  OBVIOUS
<1>2. Elements(s) = Elements(Tail(s)) \cup {Head(s)}
  <2>1. ASSUME NEW i \in DOMAIN s PROVE s[i] \in Elements(Tail(s)) \cup {Head(s)}
    <3>1. CASE i = 1
      BY <1>1, <3>1
    <3>2. CASE i # 1
      <4>1. i - 1 \in 1 .. Len(s) - 1 /\ (i - 1) + 1 = i
        BY <1>1, <3>2
      <4>2. Tail(s)[i - 1] = s[i] /\ i - 1 \in DOMAIN Tail(s)
        BY <1>1, <4>1
      <4> QED
        BY <4>2 DEF Elements
    <3> QED
      BY <3>1, <3>2
  <2>2. ASSUME NEW i \in DOMAIN Tail(s) PROVE Tail(s)[i] \in Elements(s)
    BY <1>1 DEF Elements
  <2>3. Head(s) \in Elements(s)
    BY <1>1 DEF Elements
  <2> QED
    BY <2>1, <2>2, <2>3 DEF Elements
<1>3. ASSUME Distinct(s) PROVE Distinct(Tail(s)) /\ Head(s) \notin Elements(Tail(s))
  BY <1>1, <1>3 DEF Distinct, Elements
<1> QED
  BY <1>1, <1>2, <1>3

\* The first n elements of s and the others.
LEMMA RestElements ==
  ASSUME NEW S, NEW s \in Seq(S), NEW n \in Nat, n <= Len(s)
  PROVE  LET rest  == SubSeq(s, n + 1, Len(s))
             first == {s[i] : i \in 1 .. n}
         IN  /\ rest \in Seq(S) /\ first \subseteq S
             /\ Elements(s) = first \cup Elements(rest)
             /\ Distinct(s) => Distinct(rest) /\ first \cap Elements(rest) = {}
<1> DEFINE rest  == SubSeq(s, n + 1, Len(s))
           first == {s[i] : i \in 1 .. n}
<1>1. /\ rest \in Seq(S) /\ Len(s) \in Nat /\ DOMAIN s = 1 .. Len(s)
      /\ Len(rest) = Len(s) - n /\ DOMAIN rest = 1 .. Len(s) - n
      /\ \A i \in 1 .. Len(s) - n : rest[i] = s[n + i]
  <2>1. PICK m \in Nat : m = Len(s)
    OBVIOUS
  <2>2. DOMAIN s = 1 .. m
    BY <2>1
  <2>3. /\ rest \in Seq(S)
        /\ Len(rest) = IF n + 1 <= m THEN m - (n + 1) + 1 ELSE 0
        /\ \A i \in 1 .. m - (n + 1) + 1 : rest[i] = s[(n + 1) + i - 1]
    BY <2>1, <2>2, SubSeqProperties
  <2> HIDE DEF rest
  <2>4. n <= m
    BY <2>1
  <2>5. Len(rest) = m - n
    BY <2>3, <2>4
  <2>6. ASSUME NEW i \in 1 .. m - n PROVE rest[i] = s[n + i]
    <3>1. i \in 1 .. m - (n + 1) + 1 /\ (n + 1) + i - 1 = n + i
      BY <2>4
    <3> QED
      BY <2>3, <3>1
  <2>7. DOMAIN rest = 1 .. m - n
    BY <2>3, <2>5
  <2> QED
    BY <2>1, <2>2, <2>3, <2>5, <2>6, <2>7
<1> HIDE DEF rest
<1>2. first \subseteq S
  BY <1>1
<1>3. Elements(s) = first \cup Elements(rest)
  <2>1. ASSUME NEW i \in 1 .. Len(s), i > n PROVE s[i] \in Elements(rest)
    <3>1. i - n \in 1 .. Len(s) - n /\ n + (i - n) = i
      BY <1>1, <2>1
    <3> QED
      BY <1>1, <3>1 DEF Elements
  <2>2. ASSUME NEW i \in 1 .. Len(s), ~(i > n) PROVE s[i] \in first
    BY <1>1, <2>2
  <2>3. first \subseteq Elements(s)
    BY <1>1 DEF Elements
  <2>4. Elements(rest) \subseteq Elements(s)
    BY <1>1 DEF Elements
  <2> QED
    BY <1>1, <2>1, <2>2, <2>3, <2>4 DEF Elements
<1>4. ASSUME Distinct(s) PROVE Distinct(rest) /\ first \cap Elements(rest) = {}
  <2>1. ASSUME NEW i \in 1 .. Len(s) - n, NEW j \in 1 .. Len(s) - n, rest[i] = rest[j]
        PROVE  i = j
    <3>1. s[n + i] = s[n + j] /\ n + i \in 1 .. Len(s) /\ n + j \in 1 .. Len(s)
      BY <1>1, <2>1
    <3>2. n + i = n + j
      BY <1>1, <1>4, <3>1 DEF Distinct
    <3> QED
      BY <1>1, <3>2
  <2>2. ASSUME NEW i \in 1 .. n, NEW j \in 1 .. Len(s) - n PROVE s[i] # rest[j]
    <3>1. rest[j] = s[n + j] /\ i \in 1 .. Len(s) /\ n + j \in 1 .. Len(s) /\ i # n + j
      BY <1>1
    <3> QED
      BY <1>1, <1>4, <3>1 DEF Distinct
  <2>3. DOMAIN rest = 1 .. Len(s) - n
    BY <1>1
  <2> HIDE DEF rest
  <2>4. Distinct(rest)
    BY <2>1, <2>3, Zenon DEF Distinct
  <2>5. \A e \in Elements(rest) : e \notin first
    BY <2>2, <2>3, Zenon DEF Elements
  <2> QED
    BY <2>4, <2>5, Zenon
<1> QED
  BY <1>1, <1>2, <1>3, <1>4 DEF rest

-----------------------------------------------------------------------------
(* The queue of names after some events have been read into it. *)

LEMMA EnqueueElements ==
  ASSUME NEW q \in Seq(Files), NEW f \in Files
  PROVE  /\ Enqueue(q, f) \in Seq(Files)
         /\ Elements(Enqueue(q, f)) = Elements(q) \cup {f}
         /\ Distinct(q) => Distinct(Enqueue(q, f))
BY AppendElements DEF Enqueue

\* q[i] is the queue after i of the n events.
Queues(n, q) ==
  q = [i \in 0 .. n |-> IF i = 0 THEN queue ELSE Enqueue(q[i - 1], events[i])]

LEMMA QueuesExist ==
  ASSUME queue \in Seq(Files), events \in Seq(Files), NEW m \in Nat
  PROVE  \E q : Queues(m, q)
<1> DEFINE S == {n \in Nat : \E q : Queues(n, q)}
<1>1. 0 \in S
  <2> DEFINE q == [i \in 0 .. 0 |-> queue]
  <2>1. Queues(0, q)
    BY DEF Queues
  <2> QED
    BY <2>1
<1>2. ASSUME NEW n \in S, n \in Nat PROVE n + 1 \in S
  <2>1. PICK q : Queues(n, q)
    OBVIOUS
  <2> DEFINE r == [i \in 0 .. n + 1 |-> IF i <= n THEN q[i] ELSE Enqueue(q[n], events[n + 1])]
  <2>2. ASSUME NEW i \in 0 .. n + 1
        PROVE  r[i] = IF i = 0 THEN queue ELSE Enqueue(r[i - 1], events[i])
    <3>1. CASE i = 0
      BY <1>2, <2>1, <3>1 DEF Queues
    <3>2. CASE i \in 1 .. n
      <4>1. i - 1 \in 0 .. n /\ r[i] = q[i] /\ r[i - 1] = q[i - 1]
        BY <1>2, <3>2
      <4> QED
        BY <1>2, <2>1, <3>2, <4>1 DEF Queues
    <3>3. CASE i = n + 1
      <4>1. r[i] = Enqueue(q[n], events[n + 1]) /\ r[n] = q[n] /\ i - 1 = n /\ i # 0
        BY <1>2, <3>3
      <4> QED
        BY <3>3, <4>1
    <3> QED
      BY <1>2, <3>1, <3>2, <3>3
  <2>3. r = [i \in 0 .. n + 1 |-> IF i = 0 THEN queue ELSE Enqueue(r[i - 1], events[i])]
    BY <2>2
  <2>4. Queues(n + 1, r)
    BY <2>3 DEF Queues
  <2> QED
    BY <1>2, <2>4
<1>3. Nat \subseteq S
  BY <1>1, <1>2, SetInduction
<1> QED
  BY <1>3

LEMMA AbsorbedIsLast ==
  ASSUME queue \in Seq(Files), events \in Seq(Files), NEW n \in Nat
  PROVE  \E q : Queues(n, q) /\ Absorbed(n) = q[n]
<1> DEFINE q == CHOOSE q : Queues(n, q)
<1>1. Queues(n, q)
  BY QueuesExist
<1>2. Absorbed(n) = q[n]
  BY DEF Absorbed, Queues
<1> QED
  BY <1>1, <1>2

LEMMA AbsorbedElements ==
  ASSUME queue \in Seq(Files), events \in Seq(Files), NEW n \in Nat, n <= Len(events)
  PROVE  /\ Absorbed(n) \in Seq(Files)
         /\ Elements(Absorbed(n)) = Elements(queue) \cup {events[i] : i \in 1 .. n}
         /\ Distinct(queue) => Distinct(Absorbed(n))
<1>1. PICK q : Queues(n, q) /\ Absorbed(n) = q[n]
  BY AbsorbedIsLast
<1> DEFINE Good(i) == /\ q[i] \in Seq(Files)
                      /\ Elements(q[i]) = Elements(queue) \cup {events[j] : j \in 1 .. i}
                      /\ Distinct(queue) => Distinct(q[i])
           S == {i \in Nat : i <= n => Good(i)}
<1>2. 0 \in S
  <2>1. q[0] = queue
    BY <1>1 DEF Queues
  <2>2. {events[j] : j \in 1 .. 0} = {}
    OBVIOUS
  <2> QED
    BY <2>1, <2>2
<1>3. ASSUME NEW i \in S, i \in Nat PROVE i + 1 \in S
  <2> SUFFICES ASSUME i + 1 <= n PROVE Good(i + 1)
    BY <1>3
  <2>1. Good(i) /\ i + 1 \in 1 .. n
    BY <1>3
  <2>2. q[i + 1] = Enqueue(q[i], events[i + 1])
    <3>1. i + 1 \in 0 .. n /\ i + 1 # 0 /\ (i + 1) - 1 = i
      BY <1>3
    <3> QED
      BY <1>1, <3>1 DEF Queues
  <2>3. events[i + 1] \in Files
    BY <2>1
  <2>4. {events[j] : j \in 1 .. i + 1} = {events[j] : j \in 1 .. i} \cup {events[i + 1]}
    BY <1>3
  <2>5. /\ q[i + 1] \in Seq(Files)
        /\ Elements(q[i + 1]) = Elements(q[i]) \cup {events[i + 1]}
        /\ Distinct(q[i]) => Distinct(q[i + 1])
    <3>1. q[i] \in Seq(Files)
      BY <2>1
    <3> HIDE DEF Good
    <3> QED
      BY <2>2, <2>3, <3>1, EnqueueElements
  <2> QED
    BY <2>1, <2>4, <2>5
<1> HIDE DEF Good
<1>4. Nat \subseteq S
  BY <1>2, <1>3, SetInduction
<1>5. Good(n)
  BY <1>4
<1> QED
  BY <1>1, <1>5 DEF Good

-----------------------------------------------------------------------------
(* The invariant. *)

\* A name is queued once and has one event, and both are of files that came.
Once ==
  /\ Distinct(queue) /\ Distinct(events)
  /\ Elements(queue) \cup Elements(events) \cup unread \cup late \subseteq moved
  /\ \A f \in Files : told[f] > 0 => f \in moved

\* What there is in each phase.
InPhase ==
  /\ phase = "down" => events = <<>>
  /\ phase \in {"down", "watching"} => queue = <<>> /\ unread = {} /\ late = {}
  /\ phase = "watching" => Elements(events) \subseteq out
  /\ phase = "scanned" => unread = {} /\ late = {}
  /\ phase # "scanned" => told = [f \in Files |-> 0]
  /\ late \subseteq Elements(events) \cup Elements(queue)

MaildirInv == TypeOK /\ Once /\ InPhase /\ NoFileMissed /\ ToldAtMostTwice

LEMMA EmptyElements == Elements(<<>>) = {} /\ Distinct(<<>>)
BY DEF Elements, Distinct

LEMMA MaildirStart == Init => MaildirInv
<1> SUFFICES ASSUME Init PROVE MaildirInv
  OBVIOUS
<1>1. /\ out = {} /\ moved = {} /\ phase = "down" /\ events = <<>> /\ unread = {}
      /\ late = {} /\ queue = <<>> /\ told = [f \in Files |-> 0] /\ run = 0
  BY DEF Init
<1>2. TypeOK
  BY <1>1 DEF TypeOK, Phases
<1>3. Once /\ InPhase
  BY <1>1, EmptyElements DEF Once, InPhase
<1>4. NoFileMissed /\ ToldAtMostTwice
  BY <1>1, EmptyElements DEF NoFileMissed, ToldAtMostTwice
<1> QED
  BY <1>2, <1>3, <1>4 DEF MaildirInv

\* What the scan and the events are to the properties: sets.
LEMMA NotifyFacts ==
  ASSUME MaildirInv, NEW n \in 0 .. MaxRead, ReadEvents(n),
         NoEntry(n) \/ Entry(n) \/ LastEntry(n)
  PROVE  LET read == {events[i] : i \in 1 .. n}
         IN  /\ read \subseteq Files
             /\ queue' \in Seq(Files) /\ events' \in Seq(Files)
             /\ Distinct(queue') /\ Distinct(events')
             /\ Elements(events) = read \cup Elements(events')
             /\ read \cap Elements(events') = {}
             /\ Elements(queue) \cup read \subseteq Elements(queue')
             /\ unread \subseteq Elements(queue') \cup unread'
             /\ Elements(queue') \subseteq Elements(queue) \cup read \cup unread \cup late
             /\ unread' \subseteq unread /\ late' \subseteq late
             /\ phase \in {"scanning", "scanned"}
             /\ phase' = phase \/ (phase = "scanning" /\ phase' = "scanned")
             /\ phase' = "scanned" => unread' = {} /\ late' = {}
<1> DEFINE read == {events[i] : i \in 1 .. n}
<1>1. /\ queue \in Seq(Files) /\ events \in Seq(Files) /\ unread \subseteq Files
      /\ late \subseteq Files /\ Distinct(queue) /\ Distinct(events)
      /\ phase = "scanned" => unread = {} /\ late = {}
  BY DEF MaildirInv, TypeOK, Once, InPhase
<1>2. n \in Nat /\ n <= Len(events) /\ events' = SubSeq(events, n + 1, Len(events))
  BY MaildirAssumption DEF ReadEvents
<1>3. /\ events' \in Seq(Files) /\ read \subseteq Files
      /\ Elements(events) = read \cup Elements(events')
      /\ Distinct(events') /\ read \cap Elements(events') = {}
  BY <1>1, <1>2, RestElements
<1>4. /\ Absorbed(n) \in Seq(Files) /\ Distinct(Absorbed(n))
      /\ Elements(Absorbed(n)) = Elements(queue) \cup read
  BY <1>1, <1>2, AbsorbedElements
<1> HIDE DEF read
<1>5. CASE NoEntry(n)
  BY <1>1, <1>3, <1>4, <1>5 DEF NoEntry, read
<1>6. CASE Entry(n)
  <2>1. PICK f \in unread \cup late :
          queue' = Enqueue(Absorbed(n), f) /\ unread' = unread \ {f} /\ late' = late \ {f}
    BY <1>6 DEF Entry
  <2>2. phase = "scanning" /\ phase' = phase
    BY <1>6 DEF Entry
  <2>3. /\ queue' \in Seq(Files) /\ Distinct(queue')
        /\ Elements(queue') = Elements(queue) \cup read \cup {f}
    BY <1>1, <1>4, <2>1, EnqueueElements
  <2> QED
    BY <1>1, <1>3, <2>1, <2>2, <2>3 DEF read
<1>7. CASE LastEntry(n)
  BY <1>1, <1>3, <1>4, <1>7 DEF LastEntry, read
<1> QED
  BY <1>5, <1>6, <1>7

-----------------------------------------------------------------------------
(* Each action keeps the invariant. *)

LEMMA AddWatchKeeps == MaildirInv /\ AddWatch => MaildirInv'
<1> SUFFICES ASSUME MaildirInv, AddWatch PROVE MaildirInv'
  OBVIOUS
<1>1. phase = "down" /\ phase' = "watching" /\ run' = run + 1
      /\ UNCHANGED <<out, moved, events, unread, late, queue, told>>
  BY DEF AddWatch
<1>2. TypeOK' /\ Once'
  BY <1>1 DEF MaildirInv, TypeOK, Phases, Once
<1>3. InPhase'
  BY <1>1, EmptyElements DEF MaildirInv, InPhase
<1>4. NoFileMissed' /\ ToldAtMostTwice'
  BY <1>1 DEF MaildirInv, NoFileMissed, Noticed, ToldAtMostTwice
<1> QED
  BY <1>2, <1>3, <1>4 DEF MaildirInv

LEMMA OpenDirKeeps == MaildirInv /\ OpenDir => MaildirInv'
<1> SUFFICES ASSUME MaildirInv, OpenDir PROVE MaildirInv'
  OBVIOUS
<1>1. phase = "watching" /\ phase' = "scanning" /\ unread' = out
      /\ UNCHANGED <<out, moved, events, late, queue, told, run>>
  BY DEF OpenDir
<1>2. TypeOK' /\ Once'
  BY <1>1 DEF MaildirInv, TypeOK, Phases, Once
<1>3. InPhase'
  BY <1>1 DEF MaildirInv, InPhase
<1>4. NoFileMissed' /\ ToldAtMostTwice'
  BY <1>1 DEF MaildirInv, NoFileMissed, Noticed, ToldAtMostTwice
<1> QED
  BY <1>2, <1>3, <1>4 DEF MaildirInv

LEMMA NotifyKeeps == MaildirInv /\ Notify => MaildirInv'
<1> SUFFICES ASSUME MaildirInv,
                    NEW n \in 0 .. MaxRead, ReadEvents(n),
                    NoEntry(n) \/ Entry(n) \/ LastEntry(n),
                    UNCHANGED <<out, moved, told, run>>
             PROVE  MaildirInv'
  BY DEF Notify
<1> DEFINE read == {events[i] : i \in 1 .. n}
<1>1. /\ read \subseteq Files
      /\ queue' \in Seq(Files) /\ events' \in Seq(Files)
      /\ Distinct(queue') /\ Distinct(events')
      /\ Elements(events) = read \cup Elements(events')
      /\ read \cap Elements(events') = {}
      /\ Elements(queue) \cup read \subseteq Elements(queue')
      /\ unread \subseteq Elements(queue') \cup unread'
      /\ Elements(queue') \subseteq Elements(queue) \cup read \cup unread \cup late
      /\ unread' \subseteq unread /\ late' \subseteq late
      /\ phase \in {"scanning", "scanned"}
      /\ phase' = phase \/ (phase = "scanning" /\ phase' = "scanned")
      /\ phase' = "scanned" => unread' = {} /\ late' = {}
  BY NotifyFacts
<1> HIDE DEF read
<1>2. TypeOK'
  BY <1>1 DEF MaildirInv, TypeOK, Phases
<1>3. Once'
  BY <1>1 DEF MaildirInv, Once
<1>4. InPhase'
  BY <1>1 DEF MaildirInv, InPhase
<1>5. NoFileMissed'
  BY <1>1 DEF MaildirInv, NoFileMissed, Noticed
<1>6. ToldAtMostTwice'
  <2> SUFFICES ASSUME NEW f \in Files
               PROVE  (told[f] + (IF f \in Elements(queue) THEN 1 ELSE 0)
                               + (IF f \in Elements(events) THEN 1 ELSE 0) <= 2)'
    BY DEF ToldAtMostTwice
  <2>1. told' = told /\ told[f] \in Nat
    BY DEF MaildirInv, TypeOK
  <2>2. told[f] + (IF f \in Elements(queue) THEN 1 ELSE 0)
                + (IF f \in Elements(events) THEN 1 ELSE 0) <= 2
    BY DEF MaildirInv, ToldAtMostTwice
  <2>3. CASE phase = "scanning"
    BY <2>1, <2>3 DEF MaildirInv, InPhase
  <2>4. CASE phase = "scanned"
    <3>1. Elements(queue') \subseteq Elements(queue) \cup read
      BY <1>1, <2>4 DEF MaildirInv, InPhase
    <3> QED
      BY <1>1, <2>1, <2>2, <3>1
  <2> QED
    BY <1>1, <2>3, <2>4
<1> QED
  BY <1>2, <1>3, <1>4, <1>5, <1>6 DEF MaildirInv

LEMMA DiscoverKeeps == MaildirInv /\ Discover => MaildirInv'
<1> SUFFICES ASSUME MaildirInv, Discover PROVE MaildirInv'
  OBVIOUS
<1> DEFINE g == Head(queue)
<1>1. /\ phase = "scanned" /\ queue # <<>> /\ queue' = Tail(queue)
      /\ told' = [told EXCEPT ![g] = @ + 1]
      /\ UNCHANGED <<out, moved, phase, events, unread, late, run>>
  BY DEF Discover
<1>2. queue \in Seq(Files) /\ Distinct(queue) /\ told \in [Files -> Nat]
  BY DEF MaildirInv, TypeOK, Once
<1>3. /\ g \in Files /\ queue' \in Seq(Files)
      /\ Elements(queue) = Elements(queue') \cup {g}
      /\ Distinct(queue') /\ g \notin Elements(queue')
  BY <1>1, <1>2, TailElements
<1> HIDE DEF g
<1>4. /\ told' \in [Files -> Nat] /\ told'[g] = told[g] + 1
      /\ \A f \in Files : f # g => told'[f] = told[f]
  BY <1>1, <1>2, <1>3
<1>5. TypeOK'
  BY <1>1, <1>3, <1>4 DEF MaildirInv, TypeOK
<1>6. Once'
  <2>1. \A f \in Files : told'[f] > 0 => f \in moved
    BY <1>3, <1>4 DEF MaildirInv, Once
  <2> QED
    BY <1>1, <1>3, <2>1 DEF MaildirInv, Once
<1>7. InPhase'
  BY <1>1 DEF MaildirInv, InPhase
<1>8. NoFileMissed'
  <2> SUFFICES ASSUME NEW f \in out PROVE told'[f] > 0 \/ Noticed(f)'
    BY <1>1 DEF NoFileMissed
  <2>1. f \in Files /\ (told[f] > 0 \/ Noticed(f))
    BY <1>1 DEF MaildirInv, NoFileMissed, TypeOK
  <2>2. told[f] \in Nat /\ told[g] \in Nat
    BY <1>2, <1>3, <2>1
  <2> QED
    BY <1>1, <1>3, <1>4, <2>1, <2>2 DEF Noticed
<1>9. ToldAtMostTwice'
  <2> SUFFICES ASSUME NEW f \in Files
               PROVE  (told[f] + (IF f \in Elements(queue) THEN 1 ELSE 0)
                               + (IF f \in Elements(events) THEN 1 ELSE 0) <= 2)'
    BY DEF ToldAtMostTwice
  <2>1. told[f] + (IF f \in Elements(queue) THEN 1 ELSE 0)
                + (IF f \in Elements(events) THEN 1 ELSE 0) <= 2
    BY DEF MaildirInv, ToldAtMostTwice
  <2>2. told[f] \in Nat /\ events' = events
    BY <1>1, <1>2
  <2>3. CASE f = g
    <3>1. told'[f] = told[f] + 1 /\ f \in Elements(queue) /\ f \notin Elements(queue')
      BY <1>3, <1>4, <2>3
    <3> QED
      BY <2>1, <2>2, <3>1
  <2>4. CASE f # g
    <3>1. told'[f] = told[f] /\ (f \in Elements(queue') <=> f \in Elements(queue))
      BY <1>3, <1>4, <2>4
    <3> QED
      BY <2>1, <2>2, <3>1
  <2> QED
    BY <2>3, <2>4
<1> QED
  BY <1>5, <1>6, <1>7, <1>8, <1>9 DEF MaildirInv

LEMMA MoveInKeeps == \A f \in Files : MaildirInv /\ MoveIn(f) => MaildirInv'
<1> SUFFICES ASSUME NEW f \in Files, MaildirInv, MoveIn(f) PROVE MaildirInv'
  OBVIOUS
<1>1. /\ f \notin moved /\ moved' = moved \cup {f} /\ out' = out \cup {f}
      /\ events' = (IF phase = "down" THEN events ELSE Append(events, f))
      /\ late' = (IF phase = "scanning" THEN late \cup {f} ELSE late)
      /\ UNCHANGED <<phase, unread, queue, told, run>>
  BY DEF MoveIn
<1>2. f \notin Elements(queue) /\ f \notin Elements(events) /\ ~(told[f] > 0)
  BY <1>1 DEF MaildirInv, Once
<1>3. events \in Seq(Files) /\ Distinct(events)
  BY DEF MaildirInv, TypeOK, Once
<1>4. /\ events' \in Seq(Files) /\ Distinct(events')
      /\ Elements(events') = (IF phase = "down" THEN Elements(events)
                              ELSE Elements(events) \cup {f})
  BY <1>1, <1>2, <1>3, AppendElements
<1>5. TypeOK'
  BY <1>1, <1>4 DEF MaildirInv, TypeOK
<1>6. Once'
  BY <1>1, <1>4 DEF MaildirInv, Once
<1>7. InPhase'
  BY <1>1, <1>4 DEF MaildirInv, InPhase
<1>8. NoFileMissed'
  BY <1>1, <1>4 DEF MaildirInv, NoFileMissed, Noticed
<1>9. ToldAtMostTwice'
  <2> SUFFICES ASSUME NEW g \in Files
               PROVE  (told[g] + (IF g \in Elements(queue) THEN 1 ELSE 0)
                               + (IF g \in Elements(events) THEN 1 ELSE 0) <= 2)'
    BY DEF ToldAtMostTwice
  <2>1. told[g] + (IF g \in Elements(queue) THEN 1 ELSE 0)
                + (IF g \in Elements(events) THEN 1 ELSE 0) <= 2
    BY DEF MaildirInv, ToldAtMostTwice
  <2>2. told[g] \in Nat /\ told' = told /\ queue' = queue
    BY <1>1 DEF MaildirInv, TypeOK
  <2>3. CASE g = f
    BY <1>2, <2>2, <2>3
  <2>4. CASE g # f
    BY <1>4, <2>1, <2>2, <2>4
  <2> QED
    BY <2>3, <2>4
<1> QED
  BY <1>5, <1>6, <1>7, <1>8, <1>9 DEF MaildirInv

LEMMA UnlinkKeeps == \A f \in Files : MaildirInv /\ Unlink(f) => MaildirInv'
<1> SUFFICES ASSUME NEW f \in Files, MaildirInv, Unlink(f) PROVE MaildirInv'
  OBVIOUS
<1>1. /\ phase = "scanned" /\ out' = out \ {f}
      /\ UNCHANGED <<moved, phase, events, unread, late, queue, told, run>>
  BY DEF Unlink
<1> QED
  BY <1>1 DEF MaildirInv, TypeOK, Once, InPhase, NoFileMissed, Noticed, ToldAtMostTwice

LEMMA StopKeeps == MaildirInv /\ Stop => MaildirInv'
<1> SUFFICES ASSUME MaildirInv, Stop PROVE MaildirInv'
  OBVIOUS
<1>1. /\ phase' = "down" /\ events' = <<>> /\ unread' = {} /\ late' = {}
      /\ queue' = <<>> /\ told' = [f \in Files |-> 0]
      /\ UNCHANGED <<out, moved, run>>
  BY DEF Stop
<1>2. TypeOK'
  BY <1>1 DEF MaildirInv, TypeOK, Phases
<1>3. Once' /\ InPhase'
  BY <1>1, EmptyElements DEF MaildirInv, Once, InPhase
<1>4. NoFileMissed' /\ ToldAtMostTwice'
  BY <1>1, EmptyElements DEF NoFileMissed, ToldAtMostTwice
<1> QED
  BY <1>2, <1>3, <1>4 DEF MaildirInv

LEMMA MaildirStep == MaildirInv /\ [Next]_vars => MaildirInv'
<1> SUFFICES ASSUME MaildirInv, [Next]_vars PROVE MaildirInv'
  OBVIOUS
<1>1. CASE UNCHANGED vars
  BY <1>1 DEF vars, MaildirInv, TypeOK, Once, InPhase, NoFileMissed, Noticed, ToldAtMostTwice
<1> QED
  BY <1>1, AddWatchKeeps, OpenDirKeeps, NotifyKeeps, DiscoverKeeps, MoveInKeeps,
     UnlinkKeeps, StopKeeps DEF Next

THEOREM MaildirInvariant == Spec => []MaildirInv
BY MaildirStart, MaildirStep, PTL DEF Spec

\* The types of the watch, the scan and their queues.
THEOREM MaildirTypeOK == Spec => []TypeOK
BY MaildirInvariant, PTL DEF MaildirInv

\* maildir_initialize, maildir_notify: with the watch added before the scan
\* begins, no file that is in the directory is overlooked by both.
THEOREM MaildirNoFileMissed == Spec => []NoFileMissed
BY MaildirInvariant, PTL DEF MaildirInv

\* enqueue, maildir_discover_message: whatever the scan and the events have in
\* common, the client is told of a file at most twice in a run.
THEOREM MaildirToldAtMostTwice == Spec => []ToldAtMostTwice
BY MaildirInvariant, PTL DEF MaildirInv

-----------------------------------------------------------------------------
(* Maildir implements Reports: each of its actions is one of the other's. *)

Mapped == <<out, up, due, again, told>>

LEMMA AddWatchStarts == MaildirInv /\ AddWatch => Promise!ReportsNext
<1> SUFFICES ASSUME MaildirInv, AddWatch PROVE Promise!ReportsNext
  OBVIOUS
<1>1. phase = "down" /\ phase' = "watching"
      /\ UNCHANGED <<out, moved, events, unread, late, queue, told>>
  BY DEF AddWatch
<1>2. events = <<>> /\ told = [f \in Files |-> 0]
  BY <1>1 DEF MaildirInv, InPhase
<1>3. up = FALSE /\ up' = TRUE /\ due' = out /\ again' = {}
  BY <1>1, <1>2, EmptyElements DEF up, due, again
<1>4. Promise!Start /\ told' = Promise!None
  BY <1>1, <1>2, <1>3 DEF Promise!Start, Promise!Begin, Promise!None
<1> QED
  BY <1>4 DEF Promise!ReportsNext

LEMMA OpenDirStutters == MaildirInv /\ OpenDir => UNCHANGED Mapped
<1> SUFFICES ASSUME MaildirInv, OpenDir PROVE UNCHANGED Mapped
  OBVIOUS
<1>1. phase = "watching" /\ phase' = "scanning" /\ unread' = out
      /\ UNCHANGED <<out, moved, events, late, queue, told, run>>
  BY DEF OpenDir
<1>2. Elements(events) \subseteq out /\ Elements(queue) = {} /\ late = {}
  BY <1>1, EmptyElements DEF MaildirInv, InPhase
<1>3. UNCHANGED up
  BY <1>1 DEF up
<1>4. UNCHANGED due
  BY <1>1, <1>2 DEF due
<1>5. UNCHANGED again
  BY <1>1, <1>2 DEF again
<1> QED
  BY <1>1, <1>3, <1>4, <1>5 DEF Mapped

LEMMA NotifyMerges == MaildirInv /\ Notify => Promise!ReportsNext
<1> SUFFICES ASSUME MaildirInv,
                    NEW n \in 0 .. MaxRead, ReadEvents(n),
                    NoEntry(n) \/ Entry(n) \/ LastEntry(n),
                    UNCHANGED <<out, moved, told, run>>
             PROVE  Promise!ReportsNext
  BY DEF Notify
<1> DEFINE read == {events[i] : i \in 1 .. n}
<1>1. /\ Elements(events) = read \cup Elements(events')
      /\ read \cap Elements(events') = {}
      /\ Elements(queue) \cup read \subseteq Elements(queue')
      /\ unread \subseteq Elements(queue') \cup unread'
      /\ Elements(queue') \subseteq Elements(queue) \cup read \cup unread \cup late
      /\ unread' \subseteq unread /\ late' \subseteq late
      /\ phase \in {"scanning", "scanned"} /\ phase' \in {"scanning", "scanned"}
  BY NotifyFacts
<1> HIDE DEF read
<1>2. late \subseteq Elements(events) \cup Elements(queue)
  BY DEF MaildirInv, InPhase
<1>3. UNCHANGED up
  BY <1>1 DEF up
<1>4. UNCHANGED due
  <2>1. due = Elements(queue) \cup Elements(events) \cup unread
    BY <1>1 DEF due
  <2>2. due' = Elements(queue') \cup Elements(events') \cup unread'
    BY <1>1 DEF due
  <2> QED
    BY <1>1, <1>2, <2>1, <2>2
<1>5. again' \subseteq again
  BY <1>1 DEF again
<1>6. again \subseteq Files
  BY TailElements DEF MaildirInv, TypeOK, again, Elements
<1>7. Promise!Merge(again \ again')
  BY <1>3, <1>4, <1>5 DEF Promise!Merge
<1>8. again \ again' \in SUBSET Files
  BY <1>6
<1> QED
  BY <1>7, <1>8 DEF Promise!ReportsNext

LEMMA DiscoverTells == MaildirInv /\ Discover => Promise!ReportsNext
<1> SUFFICES ASSUME MaildirInv, Discover PROVE Promise!ReportsNext
  OBVIOUS
<1> DEFINE g == Head(queue)
<1>1. /\ phase = "scanned" /\ queue # <<>> /\ queue' = Tail(queue)
      /\ told' = [told EXCEPT ![g] = @ + 1]
      /\ UNCHANGED <<out, moved, phase, events, unread, late, run>>
  BY DEF Discover
<1>2. /\ g \in Files
      /\ Elements(queue) = Elements(queue') \cup {g} /\ g \notin Elements(queue')
  BY <1>1, TailElements DEF MaildirInv, TypeOK, Once
<1> HIDE DEF g
<1>3. unread = {} /\ late = {}
  BY <1>1 DEF MaildirInv, InPhase
<1>4. up = TRUE /\ up' = TRUE
  BY <1>1 DEF up
<1>5. /\ due = Elements(queue) \cup Elements(events)
      /\ due' = Elements(queue') \cup Elements(events)
  BY <1>1, <1>3 DEF due
<1>6. /\ again = Elements(events) \cap Elements(queue)
      /\ again' = Elements(events) \cap Elements(queue')
  BY <1>1, <1>3 DEF again
<1>7. g \in due /\ due' = (IF g \in again THEN due ELSE due \ {g}) /\ again' = again \ {g}
  BY <1>2, <1>5, <1>6
<1>8. Promise!Tell(g)
  BY <1>1, <1>4, <1>7 DEF Promise!Tell, Promise!Discover, Promise!Report
<1> QED
  BY <1>2, <1>8 DEF Promise!ReportsNext

LEMMA MoveInMovesIn == \A f \in Files : MaildirInv /\ MoveIn(f) => Promise!ReportsNext
<1> SUFFICES ASSUME NEW f \in Files, MaildirInv, MoveIn(f) PROVE Promise!ReportsNext
  OBVIOUS
<1>1. /\ f \notin moved /\ out' = out \cup {f}
      /\ events' = (IF phase = "down" THEN events ELSE Append(events, f))
      /\ late' = (IF phase = "scanning" THEN late \cup {f} ELSE late)
      /\ UNCHANGED <<phase, unread, queue, told, run>>
  BY DEF MoveIn
<1>2. /\ f \notin out /\ f \notin Elements(queue) /\ events \in Seq(Files)
      /\ phase \in Phases
  BY <1>1 DEF MaildirInv, Once, TypeOK
<1>3. phase # "down" => Elements(events') = Elements(events) \cup {f}
  BY <1>1, <1>2, AppendElements
<1>4. up' = up
  BY <1>1 DEF up
<1>5. due' = IF up THEN due \cup {f} ELSE due
  BY <1>1, <1>2, <1>3 DEF due, up
<1>6. again' \in IF up THEN {again, again \cup {f}} ELSE {again}
  <2>1. CASE phase = "down"
    <3>1. events = <<>> /\ events' = <<>>
      BY <1>1, <2>1 DEF MaildirInv, InPhase
    <3> QED
      BY <2>1, <3>1, <1>1, EmptyElements DEF again, up
  <2>2. CASE phase = "watching"
    BY <1>1, <1>3, <2>2 DEF again, up
  <2>3. CASE phase = "scanning"
    <3>1. again' = again \cup {f}
      <4>1. late \cup Elements(queue) \cup unread \subseteq moved
        BY DEF MaildirInv, Once
      <4> QED
        BY <1>1, <1>3, <2>3, <4>1 DEF again
    <3> QED
      BY <2>3, <3>1 DEF up
  <2>4. CASE phase = "scanned"
    <3>1. unread = {} /\ late = {}
      BY <2>4 DEF MaildirInv, InPhase
    <3>2. again' = again
      BY <1>1, <1>2, <1>3, <2>4, <3>1 DEF again
    <3> QED
      BY <2>4, <3>2 DEF up
  <2> QED
    BY <1>2, <2>1, <2>2, <2>3, <2>4 DEF Phases
<1>7. Promise!MoveIn(f) /\ UNCHANGED told
  BY <1>1, <1>2, <1>4, <1>5, <1>6 DEF Promise!MoveIn
<1> QED
  BY <1>7 DEF Promise!ReportsNext

LEMMA UnlinkUnlinks == \A f \in Files : MaildirInv /\ Unlink(f) => Promise!ReportsNext
<1> SUFFICES ASSUME NEW f \in Files, MaildirInv, Unlink(f) PROVE Promise!ReportsNext
  OBVIOUS
<1>1. /\ phase = "scanned" /\ f \in out /\ out' = out \ {f}
      /\ UNCHANGED <<moved, phase, events, unread, late, queue, told, run>>
  BY DEF Unlink
<1>2. up = TRUE /\ UNCHANGED <<up, due, again>>
  BY <1>1 DEF up, due, again
<1>3. Promise!Unlink(f) /\ UNCHANGED told
  BY <1>1, <1>2 DEF Promise!Unlink
<1> QED
  BY <1>3 DEF Promise!ReportsNext

LEMMA StopStops == MaildirInv /\ Stop => Promise!ReportsNext
<1> SUFFICES ASSUME MaildirInv, Stop PROVE Promise!ReportsNext
  OBVIOUS
<1>1. /\ phase # "down" /\ phase' = "down" /\ events' = <<>> /\ unread' = {}
      /\ queue' = <<>> /\ told' = [f \in Files |-> 0] /\ UNCHANGED out
  BY DEF Stop
<1>2. up = TRUE /\ up' = FALSE /\ due' = {} /\ again' = {}
  BY <1>1, EmptyElements DEF up, due, again
<1>3. Promise!Stop /\ told' = Promise!None
  BY <1>1, <1>2 DEF Promise!Stop, Promise!End, Promise!None
<1> QED
  BY <1>3 DEF Promise!ReportsNext

\* maildir.c keeps what the client counts on: every file that is or comes to be
\* in the directory is due, and reported once, or twice if it came in the scan.
THEOREM MaildirImplementsSpool == Spec => ImplementsSpool
<1>1. Init => Promise!SpoolInit /\ told = Promise!None
  <2> SUFFICES ASSUME Init PROVE Promise!SpoolInit /\ told = Promise!None
    OBVIOUS
  <2>1. /\ out = {} /\ phase = "down" /\ events = <<>> /\ unread = {}
        /\ queue = <<>> /\ told = [f \in Files |-> 0]
    BY DEF Init
  <2>2. up = FALSE /\ due = {} /\ again = {}
    BY <2>1, EmptyElements DEF up, due, again
  <2> QED
    BY <2>1, <2>2 DEF Promise!SpoolInit, Promise!None
<1>2. MaildirInv /\ [Next]_vars => [Promise!ReportsNext]_<<Promise!spoolVars, told>>
  <2> SUFFICES ASSUME MaildirInv, [Next]_vars
               PROVE  Promise!ReportsNext \/ UNCHANGED Mapped
    BY DEF Mapped, Promise!spoolVars
  <2>1. CASE UNCHANGED vars
    BY <2>1 DEF vars, Mapped, up, due, again, Elements
  <2> QED
    BY <2>1, AddWatchStarts, OpenDirStutters, NotifyMerges, DiscoverTells,
       MoveInMovesIn, UnlinkUnlinks, StopStops DEF Next
<1> QED
  BY <1>1, <1>2, MaildirInvariant, PTL DEF Spec, ImplementsSpool, Promise!ReportsSpec
=============================================================================
