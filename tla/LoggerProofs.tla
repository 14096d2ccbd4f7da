----------------------------- MODULE LoggerProofs -----------------------------
(* Theorems about Logger, for any number of lines. *)
EXTENDS Logger, SequenceTheorems, TLAPS

\* A print that was begun still has a number to print.
Room == pcMain \in {"print", "insert"} => printed < Lines

\* What is empty at the end: once the thread has seen the request to join,
\* nothing is printed any more, and it leaves with its own queues empty.
Drained ==
  /\ join_requested => pcMain \in {"signalEnd", "unlockEnd", "join", "done", "dead"}
  /\ joining => join_requested /\ messages = <<>>
  /\ pcLogger = "flush" => batch = <<>>
  /\ pcLogger = "done" => joining /\ batch = <<>> /\ buffer = <<>>
  /\ pcMain = "done" => pcLogger = "done"

\* Appending to the second of two sequences is appending to the whole.
LEMMA AppendConcat ==
  ASSUME NEW S, NEW s \in Seq(S), NEW t \in Seq(S), NEW e \in S
  PROVE  s \o Append(t, e) = Append(s \o t, e)
<1>1. /\ s \o Append(t, e) \in Seq(S)
      /\ Append(s \o t, e) \in Seq(S)
      /\ Len(s \o Append(t, e)) = Len(Append(s \o t, e))
  BY ConcatProperties
<1>2. /\ Append(t, e) \in Seq(S) /\ Len(Append(t, e)) = Len(t) + 1
      /\ s \o t \in Seq(S) /\ Len(s \o t) = Len(s) + Len(t)
  BY ConcatProperties
<1>3. ASSUME NEW i \in 1 .. Len(s \o Append(t, e))
      PROVE  (s \o Append(t, e))[i] = Append(s \o t, e)[i]
  <2>1. i \in 1 .. Len(s) + Len(Append(t, e))
    BY <1>2, ConcatProperties
  <2>2. (s \o Append(t, e))[i] = IF i <= Len(s) THEN s[i] ELSE Append(t, e)[i - Len(s)]
    BY <1>2, <2>1, ConcatProperties
  <2>3. CASE i = Len(s) + Len(t) + 1
    BY <2>2, <2>3, <1>2
  <2>4. CASE i # Len(s) + Len(t) + 1
    <3>1. i \in 1 .. Len(s) + Len(t)
      BY <2>1, <2>4, <1>2
    <3>2. (s \o t)[i] = IF i <= Len(s) THEN s[i] ELSE t[i - Len(s)]
      BY <3>1, ConcatProperties
    <3> QED
      BY <2>2, <3>1, <3>2, <1>2
  <2> QED
    BY <2>3, <2>4
<1> QED
  BY <1>1, <1>3, SeqEqual

\* The first line of a queue can be moved to the end of what comes before it.
LEMMA MoveHead ==
  ASSUME NEW S, NEW s \in Seq(S), NEW t \in Seq(S), t # <<>>
  PROVE  Append(s, Head(t)) \o Tail(t) = s \o t
<1>1. Head(t) \in S /\ Tail(t) \in Seq(S) /\ Len(Tail(t)) = Len(t) - 1
  BY HeadTailProperties
<1>2. Append(s, Head(t)) \in Seq(S) /\ Len(Append(s, Head(t))) = Len(s) + 1
  BY <1>1
<1>3. /\ Append(s, Head(t)) \o Tail(t) \in Seq(S)
      /\ s \o t \in Seq(S)
      /\ Len(Append(s, Head(t)) \o Tail(t)) = Len(s \o t)
  BY <1>1, <1>2, ConcatProperties
<1>4. ASSUME NEW i \in 1 .. Len(Append(s, Head(t)) \o Tail(t))
      PROVE  (Append(s, Head(t)) \o Tail(t))[i] = (s \o t)[i]
  <2>1. CASE i <= Len(s)
    BY <2>1, <1>1, <1>2, <1>3, ConcatProperties
  <2>2. CASE i = Len(s) + 1
    BY <2>2, <1>1, <1>2, <1>3, ConcatProperties
  <2>3. CASE i > Len(s) + 1
    BY <2>3, <1>1, <1>2, <1>3, ConcatProperties, HeadTailProperties
  <2> QED
    BY <2>1, <2>2, <2>3, <1>2
<1> QED
  BY <1>3, <1>4, SeqEqual

\* The beginning of a sequence.
LEMMA Beginning ==
  ASSUME NEW S, NEW s \in Seq(S), NEW n \in 0 .. Len(s)
  PROVE  /\ SubSeq(s, 1, n) \in Seq(S)
         /\ Len(SubSeq(s, 1, n)) = n
         /\ \A i \in 1 .. n : SubSeq(s, 1, n)[i] = s[i]
<1>1. Len(s) \in Nat
  BY LenProperties
<1>2. \A i \in 1 .. n : s[i] \in S
  BY <1>1, ElementOfSeq
<1> QED
  BY <1>1, <1>2, SubSeqProperties

\* Where the elements of two sequences are when they are joined.
LEMMA TwoParts ==
  ASSUME NEW S, NEW a \in Seq(S), NEW b \in Seq(S)
  PROVE  /\ a \o b \in Seq(S)
         /\ Len(a \o b) = Len(a) + Len(b)
         /\ \A i \in 1 .. Len(a) : (a \o b)[i] = a[i]
         /\ \A i \in 1 .. Len(b) : (a \o b)[Len(a) + i] = b[i]
<1>1. Len(a) \in Nat /\ Len(b) \in Nat
  BY LenProperties
<1>2. /\ a \o b \in Seq(S) /\ Len(a \o b) = Len(a) + Len(b)
      /\ \A i \in 1 .. Len(a) + Len(b) :
           (a \o b)[i] = IF i <= Len(a) THEN a[i] ELSE b[i - Len(a)]
  BY ConcatProperties
<1>3. ASSUME NEW i \in 1 .. Len(b) PROVE (a \o b)[Len(a) + i] = b[i]
  <2>1. Len(a) + i \in 1 .. Len(a) + Len(b) /\ ~(Len(a) + i <= Len(a)) /\ Len(a) + i - Len(a) = i
    BY <1>1
  <2> QED
    BY <2>1, <1>2
<1>4. ASSUME NEW i \in 1 .. Len(a) PROVE (a \o b)[i] = a[i]
  <2>1. i \in 1 .. Len(a) + Len(b) /\ i <= Len(a)
    BY <1>1
  <2> QED
    BY <2>1, <1>2
<1> QED
  BY <1>2, <1>3, <1>4

\* The same for four: where the elements of a, b, c and d are in s.
AreParts(s, a, b, c, d) ==
  /\ Len(s) = Len(a) + Len(b) + Len(c) + Len(d)
  /\ \A i \in 1 .. Len(a) : s[i] = a[i]
  /\ \A i \in 1 .. Len(b) : s[Len(a) + i] = b[i]
  /\ \A i \in 1 .. Len(c) : s[Len(a) + Len(b) + i] = c[i]
  /\ \A i \in 1 .. Len(d) : s[Len(a) + Len(b) + Len(c) + i] = d[i]

LEMMA FourParts ==
  ASSUME NEW S, NEW a \in Seq(S), NEW b \in Seq(S), NEW c \in Seq(S), NEW d \in Seq(S)
  PROVE  /\ a \o b \o c \o d \in Seq(S)
         /\ AreParts(a \o b \o c \o d, a, b, c, d)
<1> DEFINE ab == a \o b
           abc == ab \o c
           all == abc \o d
<1>0. Len(a) \in Nat /\ Len(b) \in Nat /\ Len(c) \in Nat /\ Len(d) \in Nat
  BY LenProperties
<1>1. /\ ab \in Seq(S) /\ Len(ab) = Len(a) + Len(b)
      /\ \A i \in 1 .. Len(a) : ab[i] = a[i]
      /\ \A i \in 1 .. Len(b) : ab[Len(a) + i] = b[i]
  BY TwoParts
<1>a. ab \in Seq(S)
  BY <1>1
<1> HIDE DEF ab
<1>2. /\ abc \in Seq(S) /\ Len(abc) = Len(ab) + Len(c)
      /\ \A i \in 1 .. Len(ab) : abc[i] = ab[i]
      /\ \A i \in 1 .. Len(c) : abc[Len(ab) + i] = c[i]
  BY <1>a, TwoParts
<1>b. abc \in Seq(S)
  BY <1>2
<1> HIDE DEF abc
<1>3. /\ all \in Seq(S) /\ Len(all) = Len(abc) + Len(d)
      /\ \A i \in 1 .. Len(abc) : all[i] = abc[i]
      /\ \A i \in 1 .. Len(d) : all[Len(abc) + i] = d[i]
  BY <1>b, TwoParts
<1> HIDE DEF all
<1>4. ASSUME NEW i \in 1 .. Len(a) PROVE all[i] = a[i]
  <2>1. i \in 1 .. Len(ab) /\ i \in 1 .. Len(abc)
    BY <1>0, <1>1, <1>2
  <2> QED
    BY <2>1, <1>1, <1>2, <1>3
<1>5. ASSUME NEW i \in 1 .. Len(b) PROVE all[Len(a) + i] = b[i]
  <2>1. Len(a) + i \in 1 .. Len(ab) /\ Len(a) + i \in 1 .. Len(abc)
    BY <1>0, <1>1, <1>2
  <2> QED
    BY <2>1, <1>1, <1>2, <1>3
<1>6. ASSUME NEW i \in 1 .. Len(c) PROVE all[Len(a) + Len(b) + i] = c[i]
  <2>1. Len(ab) + i \in 1 .. Len(abc) /\ Len(ab) + i = Len(a) + Len(b) + i
    BY <1>0, <1>1, <1>2
  <2>2. all[Len(ab) + i] = c[i]
    BY <2>1, <1>2, <1>3
  <2> QED
    BY <2>1, <2>2
<1>7. ASSUME NEW i \in 1 .. Len(d) PROVE all[Len(a) + Len(b) + Len(c) + i] = d[i]
  <2>1. Len(abc) + i = Len(a) + Len(b) + Len(c) + i
    BY <1>0, <1>1, <1>2
  <2> QED
    BY <2>1, <1>3
<1>8. Len(all) = Len(a) + Len(b) + Len(c) + Len(d)
  BY <1>0, <1>1, <1>2, <1>3
<1>9. all = a \o b \o c \o d
  BY DEF all, abc, ab
<1> QED
  BY <1>3, <1>4, <1>5, <1>6, <1>7, <1>8, <1>9 DEF AreParts

\* t is what is left of s without its elements from p + 1 to p + k.
IsCut(s, t, p, k) ==
  /\ Len(s) = Len(t) + k
  /\ p <= Len(t)
  /\ \A i \in 1 .. Len(t) : t[i] = IF i <= p THEN s[i] ELSE s[i + k]

Stretch(s, p, k) == {s[i] : i \in p + 1 .. p + k}

\* What is left of an increasing sequence is increasing and has the elements
\* that were not cut out.
LEMMA CutOut ==
  ASSUME NEW s \in Seq(Nat), NEW t \in Seq(Nat), NEW p \in Nat, NEW k \in Nat,
         Increasing(s), IsCut(s, t, p, k)
  PROVE  /\ Increasing(t)
         /\ Range(t) = Range(s) \ Stretch(s, p, k)
<1> DEFINE At(i) == IF i <= p THEN i ELSE i + k
           cut == Stretch(s, p, k)
<1> USE DEF Stretch
<1>0. /\ Len(s) \in Nat /\ Len(t) \in Nat
      /\ DOMAIN s = 1 .. Len(s) /\ DOMAIN t = 1 .. Len(t)
      /\ \A i \in 1 .. Len(s) : s[i] \in Nat
  BY LenProperties, ElementOfSeq
<1>c. /\ Len(s) = Len(t) + k /\ p <= Len(t)
      /\ \A i \in 1 .. Len(t) : t[i] = IF i <= p THEN s[i] ELSE s[i + k]
  BY DEF IsCut
<1>1. ASSUME NEW i \in 1 .. Len(t) PROVE At(i) \in 1 .. Len(s) /\ t[i] = s[At(i)]
  <2>1. CASE i <= p
    BY <2>1, <1>0, <1>c
  <2>2. CASE ~(i <= p)
    <3>1. i + k \in 1 .. Len(s) /\ t[i] = s[i + k] /\ At(i) = i + k
      BY <2>2, <1>0, <1>c
    <3> QED
      BY <3>1
  <2> QED
    BY <2>1, <2>2
<1>2. \A i, j \in 1 .. Len(t) : i < j => At(i) < At(j)
  BY <1>0
<1>3. \A i, j \in 1 .. Len(s) : i < j => s[i] < s[j]
  BY <1>0 DEF Increasing
<1>4. Increasing(t)
  <2> HIDE DEF At
  <2> QED
    BY <1>0, <1>1, <1>2, <1>3 DEF Increasing
<1>5. \A i, j \in 1 .. Len(s) : s[i] = s[j] => i = j
  <2> SUFFICES ASSUME NEW i \in 1 .. Len(s), NEW j \in 1 .. Len(s), i # j PROVE s[i] # s[j]
    OBVIOUS
  <2>1. s[i] \in Nat /\ s[j] \in Nat /\ (i < j \/ j < i)
    BY <1>0
  <2> QED
    BY <2>1, <1>3
<1>6. \A x : x \in Range(t) <=> \E i \in 1 .. Len(t) : x = s[At(i)]
  <2>1. \A x : x \in Range(t) <=> \E i \in DOMAIN t : x = t[i]
    BY DEF Range
  <2>2. \A x : x \in Range(t) <=> \E i \in 1 .. Len(t) : x = t[i]
    BY <2>1, <1>0
  <2> HIDE DEF At
  <2> QED
    BY <2>2, <1>1
<1>7. \A j \in 1 .. Len(s) : (\E i \in 1 .. Len(t) : j = At(i)) <=> j \notin p + 1 .. p + k
  <2> SUFFICES ASSUME NEW j \in 1 .. Len(s)
               PROVE  (\E i \in 1 .. Len(t) : j = At(i)) <=> j \notin p + 1 .. p + k
    OBVIOUS
  <2>1. CASE j <= p
    <3>1. j \in 1 .. Len(t) /\ At(j) = j /\ j \notin p + 1 .. p + k
      BY <2>1, <1>0, <1>c
    <3> QED
      BY <3>1
  <2>2. CASE j > p + k
    <3>1. j - k \in 1 .. Len(t) /\ At(j - k) = j /\ j \notin p + 1 .. p + k
      BY <2>2, <1>0, <1>c
    <3> QED
      BY <3>1
  <2>3. CASE p < j /\ j <= p + k
    BY <2>3, <1>0
  <2> QED
    BY <1>0, <2>1, <2>2, <2>3
<1>8. p + k <= Len(s)
  BY <1>0, <1>c
<1>9. Range(t) \subseteq Range(s) \ cut
  <2> SUFFICES ASSUME NEW x \in Range(t) PROVE x \in Range(s) /\ x \notin cut
    OBVIOUS
  <2>1. PICK i \in 1 .. Len(t) : x = s[At(i)]
    BY <1>6
  <2>2. At(i) \in 1 .. Len(s) /\ At(i) \notin p + 1 .. p + k
    BY <1>0, <1>1
  <2> HIDE DEF At
  <2>3. x \in Range(s)
    BY <2>1, <2>2, <1>0 DEF Range
  <2>4. ASSUME NEW j \in p + 1 .. p + k, x = s[j] PROVE FALSE
    <3>1. j \in 1 .. Len(s)
      BY <1>0, <1>8
    <3> QED
      BY <3>1, <2>1, <2>2, <2>4, <1>5
  <2> QED
    BY <2>3, <2>4
<1>10. Range(s) \ cut \subseteq Range(t)
  <2> SUFFICES ASSUME NEW x \in Range(s), x \notin cut PROVE x \in Range(t)
    OBVIOUS
  <2>1. PICK j \in 1 .. Len(s) : x = s[j]
    BY <1>0 DEF Range
  <2>2. j \notin p + 1 .. p + k
    BY <2>1
  <2> HIDE DEF At
  <2>3. \E i \in 1 .. Len(t) : j = At(i)
    BY <2>2, <1>7
  <2> QED
    BY <2>1, <2>3, <1>6
<1> QED
  BY <1>4, <1>9, <1>10

-----------------------------------------------------------------------------
\* Every variable keeps to its type, and there is room for each line printed.
THEOREM LoggerTypeOK == Spec => [](TypeOK /\ Room)
<1> DEFINE Inv == TypeOK /\ Room
<1>1. Init => Inv
  <2>1. <<>> \in Seq(1 .. Lines) /\ 0 \in 0 .. Lines
    BY EmptySeq, LoggerAssumption DEF LoggerAssumption
  <2> QED
    BY <2>1 DEF Init, TypeOK, Room, MainPlaces, LoggerPlaces
<1>2. Inv /\ [Next]_vars => Inv'
  <2> SUFFICES ASSUME TypeOK, Room, [Next]_vars PROVE Inv'
    OBVIOUS
  <2> USE DEF TypeOK, Room, MainPlaces, LoggerPlaces, shared, local
  <2>1. CASE StartPrint
    BY <2>1 DEF StartPrint, MainGoes
  <2>2. CASE Insert
    <3>1. printed + 1 \in 1 .. Lines
      BY <2>2, LoggerAssumption DEF Insert, MainGoes, LoggerAssumption
    <3> QED
      BY <2>2, <3>1 DEF Insert, MainGoes
  <2>3. CASE Finalize \/ RequestJoin \/ Joined
    BY <2>3 DEF Finalize, RequestJoin, Joined, MainGoes
  <2>4. CASE MainLocks("print", "insert") \/ MainLocks("finalize", "request")
    BY <2>4 DEF MainLocks, MainGoes
  <2>5. CASE MainUnlocks("unlock", "idle") \/ MainUnlocks("unlockEnd", "join")
    BY <2>5 DEF MainUnlocks, MainGoes
  <2>6. CASE MainSignals("signal", "unlock") \/ MainSignals("signalEnd", "unlockEnd")
    BY <2>6 DEF MainSignals, MainGoes, Signalled
  <2>7. CASE Die \/ Flush
    <3>1. file \o buffer \in Seq(1 .. Lines) /\ <<>> \in Seq(1 .. Lines)
      BY EmptySeq, ConcatProperties
    <3>2. file' = file \o buffer /\ buffer' = <<>>
      BY <2>7 DEF Die, Flush
    <3> QED
      BY <2>7, <3>1, <3>2 DEF Die, Flush
  <2>8. CASE LoggerLocks("lock") \/ LoggerLocks("relock")
    BY <2>8 DEF LoggerLocks, LoggerGoes
  <2>9. CASE Wait \/ StopWaiting \/ SpuriousWakeup \/ LoggerUnlocks \/ LoggerDies
    BY <2>9 DEF Wait, StopWaiting, SpuriousWakeup, LoggerUnlocks, LoggerDies, LoggerGoes
  <2>10. CASE Take
    BY <2>10 DEF Take, LoggerGoes
  <2>11. CASE WriteLine
    <3>1. batch # <<>> /\ batch' = Tail(batch) /\ (Written \/ WriteFails)
      BY <2>11 DEF WriteLine
    <3>a. batch \in Seq(1 .. Lines) /\ buffer \in Seq(1 .. Lines) /\ file \in Seq(1 .. Lines)
      OBVIOUS
    <3>b. Head(batch) \in 1 .. Lines /\ Tail(batch) \in Seq(1 .. Lines)
      BY <3>1, <3>a, HeadTailProperties
    <3>2. /\ buffer' \in Seq(1 .. Lines) /\ file' \in Seq(1 .. Lines)
          /\ lost' \in SUBSET (1 .. Lines)
      <4>1. CASE Written
        BY <4>1, <3>a, <3>b DEF Written
      <4>2. CASE WriteFails
        <5>1. PICK out \in 0 .. Len(buffer) :
                /\ file' = file \o SubSeq(buffer, 1, out)
                /\ buffer' = <<>>
                /\ lost' = lost \union {Head(batch)}
                             \union {buffer[i] : i \in out + 1 .. Len(buffer)}
          BY <4>2 DEF WriteFails
        <5>2. SubSeq(buffer, 1, out) \in Seq(1 .. Lines)
          BY <3>a, Beginning
        <5>3. {buffer[i] : i \in out + 1 .. Len(buffer)} \subseteq 1 .. Lines
          <6>1. Len(buffer) \in Nat /\ \A i \in 1 .. Len(buffer) : buffer[i] \in 1 .. Lines
            BY <3>a, LenProperties, ElementOfSeq
          <6>2. \A i \in out + 1 .. Len(buffer) : i \in 1 .. Len(buffer)
            BY <6>1
          <6> QED
            BY <6>1, <6>2
        <5> QED
          BY <5>1, <5>2, <5>3, <3>a, <3>b, ConcatProperties, EmptySeq
      <4> QED
        BY <3>1, <4>1, <4>2
    <3> QED
      BY <2>11, <3>1, <3>b, <3>2 DEF WriteLine, LoggerGoes
  <2>13. CASE WrittenAll
    BY <2>13 DEF WrittenAll, LoggerGoes
  <2>12. CASE Ended \/ UNCHANGED vars
    <3>1. UNCHANGED vars
      BY <2>12 DEF Ended
    <3>2. TypeOK'
      BY <3>1 DEF vars
    <3>3. Room'
      BY <3>1 DEF vars
    <3> QED
      BY <3>2, <3>3
  <2> QED
    BY <2>1, <2>2, <2>3, <2>4, <2>5, <2>6, <2>7, <2>8, <2>9, <2>10, <2>11, <2>12,
       <2>13
       DEF Next, Main, LoggerThread
<1> QED
  BY <1>1, <1>2, PTL DEF Spec

\* The mutex is held by whoever is between its lock and its unlock, and by
\* nobody else: the shared queue and flag are never touched by both threads.
THEOREM LoggerMutualExclusion == Spec => []MutualExclusion
<1>1. Init => MutualExclusion
  BY DEF Init, MutualExclusion, MainInside, LoggerInside
<1>2. MutualExclusion /\ [Next]_vars => MutualExclusion'
  <2> SUFFICES ASSUME MutualExclusion, [Next]_vars PROVE MutualExclusion'
    OBVIOUS
  <2> USE DEF MutualExclusion, MainInside, LoggerInside
  <2>1. CASE Main
    BY <2>1 DEF Main, StartPrint, Insert, Finalize, RequestJoin, Joined, MainLocks,
                MainUnlocks, MainSignals, MainGoes, Signalled
  <2>2. CASE LoggerThread
    BY <2>2 DEF LoggerThread, LoggerLocks, Wait, StopWaiting, Take, LoggerUnlocks,
                WriteLine, Written, WriteFails, WrittenAll, Flush, LoggerGoes
  <2>3. CASE Die \/ SpuriousWakeup \/ LoggerDies
    BY <2>3 DEF Die, SpuriousWakeup, LoggerDies, LoggerGoes
  <2>4. CASE Ended \/ UNCHANGED vars
    BY <2>4 DEF Ended, vars
  <2> QED
    BY <2>1, <2>2, <2>3, <2>4 DEF Next
<1> QED
  BY <1>1, <1>2, PTL DEF Spec

\* pthread_cond_signal is never lost on a thread that goes to sleep with work:
\* while it waits and there is work, the signal is still to come.
THEOREM LoggerNoLostWakeup == Spec => []NoLostWakeup
<1>1. Init => NoLostWakeup
  BY DEF Init, NoLostWakeup
<1>2. NoLostWakeup /\ [Next]_vars => NoLostWakeup'
  <2> SUFFICES ASSUME NoLostWakeup, [Next]_vars PROVE NoLostWakeup'
    OBVIOUS
  <2> USE DEF NoLostWakeup, NothingToDo, shared
  <2>1. CASE Main
    BY <2>1 DEF Main, StartPrint, Insert, Finalize, RequestJoin, Joined, MainLocks,
                MainUnlocks, MainSignals, MainGoes, Signalled
  <2>2. CASE LoggerThread
    BY <2>2 DEF LoggerThread, LoggerLocks, Wait, StopWaiting, Take, LoggerUnlocks,
                WriteLine, Written, WriteFails, WrittenAll, Flush, LoggerGoes
  <2>3. CASE Die \/ SpuriousWakeup \/ LoggerDies
    BY <2>3 DEF Die, SpuriousWakeup, LoggerDies, LoggerGoes
  <2>4. CASE Ended \/ UNCHANGED vars
    BY <2>4 DEF Ended, vars
  <2> QED
    BY <2>1, <2>2, <2>3, <2>4 DEF Next
<1> QED
  BY <1>1, <1>2, PTL DEF Spec

-----------------------------------------------------------------------------
\* What was lost had been printed: a line that is still to come is not lost.
LostPrinted == lost \subseteq 1 .. printed

\* On its way from logger_printf to the log file no line is doubled or
\* overtaken, and none lost but by an fwrite that fails, whatever the two
\* threads do.
THEOREM LoggerInOrder == Spec => []InOrder
<1>1. Init => InOrder /\ LostPrinted
  <2> SUFFICES ASSUME Init PROVE InOrder /\ LostPrinted
    OBVIOUS
  <2>1. Way = <<>> /\ Kept = {} /\ LostPrinted
    BY DEF Init, Way, Kept, LostPrinted
  <2>2. DOMAIN <<>> = {}
    OBVIOUS
  <2> QED
    BY <2>1, <2>2 DEF InOrder, Increasing, Range
<1>2. TypeOK /\ Room /\ InOrder /\ LostPrinted /\ [Next]_vars => InOrder' /\ LostPrinted'
  <2> SUFFICES ASSUME TypeOK, Room, InOrder, LostPrinted, [Next]_vars
               PROVE  InOrder' /\ LostPrinted'
    OBVIOUS
  <2>t. /\ messages \in Seq(1 .. Lines) /\ batch \in Seq(1 .. Lines)
        /\ buffer \in Seq(1 .. Lines) /\ file \in Seq(1 .. Lines)
        /\ lost \in SUBSET (1 .. Lines) /\ printed \in 0 .. Lines
    BY DEF TypeOK
  <2>i. Increasing(Way) /\ Range(Way) = Kept
    BY DEF InOrder
  <2>w. Way \in Seq(1 .. Lines)
    BY <2>t, FourParts DEF Way
  <2>p. /\ \A e \in 1 .. Lines : file \o buffer \o batch \o Append(messages, e) = Append(Way, e)
        /\ file \o buffer \o (batch \o messages) \o <<>> = Way
        /\ batch # <<>> => file \o Append(buffer, Head(batch)) \o Tail(batch) \o messages = Way
        /\ (file \o buffer) \o <<>> \o batch \o messages = Way
    <3> DEFINE L == Seq(1 .. Lines)
               a == file \o buffer
    <3>0. /\ a \in L /\ a \o batch \in L /\ batch \o messages \in L
          /\ a \o (batch \o messages) \in L
      BY <2>t, ConcatProperties
    <3>1. \A e \in 1 .. Lines : a \o batch \o Append(messages, e) = Append(a \o batch \o messages, e)
      BY <2>t, <3>0, AppendConcat, SMTT(30)
    <3>2. a \o (batch \o messages) \o <<>> = a \o batch \o messages
      <4>1. a \o (batch \o messages) = (a \o batch) \o messages
        <5> DEFINE S == 1 .. Lines
        <5>1. a \in Seq(S) /\ batch \in Seq(S) /\ messages \in Seq(S)
          BY <2>t, <3>0
        <5> HIDE DEF a, S
        <5>2. (a \o batch) \o messages = a \o (batch \o messages)
          BY <5>1, ConcatAssociative
        <5> QED
          BY <5>2
      <4> QED
        BY <3>0, <4>1, ConcatEmptySeq
    <3>3. batch # <<>> => file \o Append(buffer, Head(batch)) \o Tail(batch) \o messages
                         = file \o buffer \o batch \o messages
      <4> DEFINE S == 1 .. Lines
                 h == Head(batch)
      <4> SUFFICES ASSUME batch # <<>>
                   PROVE  file \o Append(buffer, h) \o Tail(batch) = a \o batch
        OBVIOUS
      <4>1. /\ a \in Seq(S) /\ batch \in Seq(S)
            /\ file \in Seq(S) /\ buffer \in Seq(S)
        BY <2>t, <3>0
      <4> HIDE DEF S
      <4>2. h \in S
        BY <4>1, HeadTailProperties
      <4>3. Append(a, h) \o Tail(batch) = a \o batch
        <5> HIDE DEF a
        <5> QED
          BY <4>1, MoveHead
      <4> HIDE DEF h
      <4>4. file \o Append(buffer, h) = Append(a, h)
        BY <4>1, <4>2, AppendConcat
      <4> QED
        BY <4>3, <4>4
    <3>4. a \o <<>> \o batch \o messages = a \o batch \o messages
      BY <3>0, ConcatEmptySeq
    <3> QED
      BY <3>1, <3>2, <3>3, <3>4 DEF Way
  <2>s. ASSUME Way' = Way, UNCHANGED <<printed, lost>> PROVE InOrder' /\ LostPrinted'
    BY <2>s, <2>i DEF InOrder, Kept, LostPrinted
  <2>u. ASSUME UNCHANGED <<messages, batch, buffer, file, printed, lost>>
        PROVE  InOrder' /\ LostPrinted'
    BY <2>u, <2>s DEF Way
  <2>1. CASE Insert
    <3> DEFINE e == printed + 1
    <3>1. e \in 1 .. Lines
      BY <2>1, <2>t, LoggerAssumption DEF Insert, MainGoes, Room, LoggerAssumption
    <3>2. Way' = Append(Way, e) /\ printed' = e /\ lost' = lost
      BY <2>1, <2>p, <3>1 DEF Insert, Way, local
    <3>3. /\ Len(Way) \in Nat /\ DOMAIN Way = 1 .. Len(Way)
          /\ DOMAIN Append(Way, e) = 1 .. Len(Way) + 1
          /\ \A i \in 1 .. Len(Way) : Append(Way, e)[i] = Way[i] /\ Way[i] \in Range(Way)
          /\ Append(Way, e)[Len(Way) + 1] = e
      BY <2>w, <3>1, LenProperties, AppendProperties DEF Range
    <3>4. \A i \in 1 .. Len(Way) : Way[i] \in Nat /\ Way[i] < e
      BY <3>3, <2>i, <2>t DEF Kept
    <3>5. Increasing(Append(Way, e))
      <4> SUFFICES ASSUME NEW i \in 1 .. Len(Way) + 1, NEW j \in 1 .. Len(Way) + 1, i < j
                   PROVE  Append(Way, e)[i] < Append(Way, e)[j]
        BY <3>3 DEF Increasing
      <4>1. i \in 1 .. Len(Way) /\ (j \in 1 .. Len(Way) \/ j = Len(Way) + 1)
        BY <3>3
      <4>2. CASE j \in 1 .. Len(Way)
        BY <4>1, <4>2, <3>3, <2>i DEF Increasing
      <4>3. CASE j = Len(Way) + 1
        BY <4>1, <4>3, <3>3, <3>4
      <4> QED
        BY <4>1, <4>2, <4>3
    <3>6. Range(Append(Way, e)) = Range(Way) \union {e}
      <4>1. 1 .. Len(Way) + 1 = (1 .. Len(Way)) \union {Len(Way) + 1}
        BY <3>3
      <4> HIDE DEF e
      <4> QED
        BY <3>3, <4>1 DEF Range
    <3>7. ((1 .. e) \ lost) = Kept \union {e}
      BY <2>t DEF Kept, LostPrinted
    <3>8. LostPrinted'
      BY <3>2, <2>t DEF LostPrinted
    <3>9. Kept' = Kept \union {e}
      BY <3>2, <3>7 DEF Kept
    <3> HIDE DEF e
    <3> QED
      BY <3>2, <3>5, <3>6, <3>8, <3>9, <2>i DEF InOrder
  <2>2. CASE Main /\ ~Insert
    BY <2>2, <2>u DEF Main, StartPrint, Finalize, RequestJoin, Joined, MainLocks,
                      MainUnlocks, MainSignals, shared, local
  <2>3. CASE Take
    BY <2>3, <2>p, <2>s DEF Take, Way
  <2>4. CASE WriteLine /\ Written
    BY <2>4, <2>p, <2>s DEF WriteLine, Written, Way, shared
  <2>9. CASE WriteLine /\ WriteFails
    <3>1. PICK out \in 0 .. Len(buffer) :
            /\ file' = file \o SubSeq(buffer, 1, out)
            /\ buffer' = <<>>
            /\ lost' = lost \union {Head(batch)}
                         \union {buffer[i] : i \in out + 1 .. Len(buffer)}
      BY <2>9 DEF WriteFails
    <3>2. batch # <<>> /\ batch' = Tail(batch) /\ messages' = messages /\ printed' = printed
      BY <2>9 DEF WriteLine, shared
    <3> DEFINE head == SubSeq(buffer, 1, out)
               rest == Tail(batch)
               p == Len(file) + out
               k == Len(buffer) - out + 1
               new == file \o head \o rest \o messages
               gone == {Head(batch)} \union {buffer[i] : i \in out + 1 .. Len(buffer)}
    <3>3. /\ Len(file) \in Nat /\ Len(buffer) \in Nat /\ Len(batch) \in Nat \ {0}
          /\ Len(messages) \in Nat
      BY <2>t, <3>2, LenProperties, EmptySeq
    <3>4. /\ head \in Seq(1 .. Lines) /\ Len(head) = out
          /\ \A i \in 1 .. out : head[i] = buffer[i]
      BY <2>t, Beginning
    <3>5. /\ rest \in Seq(1 .. Lines) /\ Len(rest) = Len(batch) - 1
          /\ \A i \in 1 .. Len(rest) : rest[i] = batch[i + 1]
          /\ Head(batch) = batch[1]
      BY <2>t, <3>2, HeadTailProperties
    <3>6. Way' = new
      <4>1. file \o head \in Seq(1 .. Lines)
        BY <2>t, <3>4, ConcatProperties
      <4>2. (file \o head) \o <<>> = file \o head
        BY <4>1, ConcatEmptySeq
      <4> QED
        BY <3>1, <3>2, <4>2 DEF Way
    <3>7. AreParts(Way, file, buffer, batch, messages)
      <4> DEFINE S == 1 .. Lines
      <4>1. file \in Seq(S) /\ buffer \in Seq(S) /\ batch \in Seq(S) /\ messages \in Seq(S)
        BY <2>t
      <4> HIDE DEF S, head, rest, p, k, new, gone
      <4> QED
        BY <4>1, FourParts DEF Way
    <3> HIDE DEF head, rest
    <3>8. new \in Seq(1 .. Lines) /\ AreParts(new, file, head, rest, messages)
      <4> DEFINE S == 1 .. Lines
      <4>1. file \in Seq(S) /\ head \in Seq(S) /\ rest \in Seq(S) /\ messages \in Seq(S)
        BY <2>t, <3>4, <3>5
      <4>2. S = 1 .. Lines
        OBVIOUS
      <4> HIDE DEF S, p, k, gone
      <4>3. new \in Seq(S) /\ AreParts(new, file, head, rest, messages)
        BY <4>1, FourParts
      <4> QED
        BY <4>2, <4>3
    <3> USE DEF AreParts
    <3> HIDE DEF new
    <3>9. Len(Way) = Len(new) + k /\ p <= Len(new) /\ p \in Nat /\ k \in Nat
      BY <3>3, <3>4, <3>5, <3>7, <3>8
    <3>10. ASSUME NEW i \in 1 .. Len(new) PROVE new[i] = IF i <= p THEN Way[i] ELSE Way[i + k]
      <4>1. CASE i \in 1 .. Len(file)
        BY <4>1, <3>3, <3>7, <3>8
      <4>2. CASE i \in Len(file) + 1 .. p
        <5>1. i - Len(file) \in 1 .. out /\ i - Len(file) \in 1 .. Len(buffer)
              /\ i = Len(file) + (i - Len(file)) /\ i <= p
          BY <4>2, <3>3
        <5>2. new[i] = head[i - Len(file)] /\ Way[i] = buffer[i - Len(file)]
          BY <5>1, <3>4, <3>7, <3>8
        <5> QED
          BY <5>1, <5>2, <3>4
      <4>3. CASE i \in p + 1 .. p + Len(rest)
        <5>1. /\ i - p \in 1 .. Len(rest) /\ i - p + 1 \in 1 .. Len(batch) /\ ~(i <= p)
              /\ i = Len(file) + Len(head) + (i - p)
              /\ i + k = Len(file) + Len(buffer) + (i - p + 1)
          BY <4>3, <3>3, <3>4, <3>5, SMTT(30)
        <5>2. new[i] = rest[i - p] /\ Way[i + k] = batch[i - p + 1]
          BY <5>1, <3>7, <3>8
        <5> QED
          BY <5>1, <5>2, <3>5
      <4>4. CASE i > p + Len(rest)
        <5> DEFINE j == i - (p + Len(rest))
        <5>1. /\ j \in 1 .. Len(messages) /\ ~(i <= p)
              /\ i = Len(file) + Len(head) + Len(rest) + j
              /\ i + k = Len(file) + Len(buffer) + Len(batch) + j
          BY <4>4, <3>3, <3>4, <3>5, <3>8
        <5> HIDE DEF j
        <5> QED
          BY <5>1, <3>7, <3>8
      <4> QED
        BY <4>1, <4>2, <4>3, <4>4, <3>3, <3>4, <3>5, <3>8
    <3>11. Stretch(Way, p, k) = gone
      <4>1. /\ \A i \in p + 1 .. p + k : i = p + k \/ i - Len(file) \in out + 1 .. Len(buffer)
            /\ \A i \in out + 1 .. Len(buffer) : Len(file) + i \in p + 1 .. p + k
            /\ p + k \in p + 1 .. p + k
        BY <3>3
      <4>2. Way[p + k] = Head(batch)
        <5>1. p + k = Len(file) + Len(buffer) + 1 /\ 1 \in 1 .. Len(batch)
          BY <3>3
        <5> QED
          BY <5>1, <3>5, <3>7
      <4>3. \A i \in out + 1 .. Len(buffer) : Way[Len(file) + i] = buffer[i]
        BY <3>3, <3>7
      <4>4. ASSUME NEW i \in p + 1 .. p + k PROVE Way[i] \in gone
        <5>1. i = Len(file) + (i - Len(file))
          BY <3>3
        <5> QED
          BY <4>1, <4>2, <4>3, <5>1
      <4>5. \A x \in gone : \E i \in p + 1 .. p + k : x = Way[i]
        <5> HIDE DEF p, k
        <5> QED
          BY <4>1, <4>2, <4>3
      <4> HIDE DEF p, k, gone
      <4> QED
        BY <4>4, <4>5 DEF Stretch
    <3> HIDE DEF AreParts
    <3>12. Way \in Seq(Nat) /\ new \in Seq(Nat)
      <4>1. 1 .. Lines \subseteq Nat
        BY LoggerAssumption DEF LoggerAssumption
      <4> QED
        BY <2>w, <3>8, <4>1, SeqMonotonic
    <3> HIDE DEF p, k, gone
    <3>13. Increasing(new) /\ Range(new) = Range(Way) \ gone
      <4>1. IsCut(Way, new, p, k)
        BY <3>9, <3>10 DEF IsCut
      <4>2. p \in Nat /\ k \in Nat
        BY <3>9
      <4>3. Increasing(new) /\ Range(new) = Range(Way) \ Stretch(Way, p, k)
        BY <4>1, <4>2, <3>12, <2>i, CutOut
      <4> QED
        BY <4>3, <3>11
    <3>14. lost' = lost \union gone /\ Kept' = Kept \ gone
      BY <3>1, <3>2 DEF Kept, gone
    <3>15. gone \subseteq Range(Way)
      <4>1. \A i \in p + 1 .. p + k : i \in 1 .. Len(Way)
        BY <3>9
      <4>2. DOMAIN Way = 1 .. Len(Way)
        BY <2>w, LenProperties
      <4> QED
        BY <4>1, <4>2, <3>11 DEF Range, Stretch
    <3> QED
      BY <3>2, <3>6, <3>13, <3>14, <3>15, <2>i DEF InOrder, LostPrinted, Kept
  <2>5. CASE Flush \/ Die
    BY <2>5, <2>p, <2>s DEF Flush, Die, Way, shared
  <2>6. CASE LoggerThread /\ ~Take /\ ~WriteLine /\ ~Flush
    BY <2>6, <2>u DEF LoggerThread, LoggerLocks, Wait, StopWaiting, LoggerUnlocks,
                      WrittenAll, shared, local
  <2>7. CASE SpuriousWakeup \/ LoggerDies
    BY <2>7, <2>u DEF SpuriousWakeup, LoggerDies, shared, local
  <2>8. CASE Ended \/ UNCHANGED vars
    BY <2>8, <2>u DEF Ended, vars
  <2>10. WriteLine => (WriteLine /\ Written) \/ (WriteLine /\ WriteFails)
    BY DEF WriteLine
  <2> QED
    BY <2>1, <2>2, <2>3, <2>4, <2>5, <2>6, <2>7, <2>8, <2>9, <2>10 DEF Next
<1> QED
  BY <1>1, <1>2, LoggerTypeOK, PTL DEF Spec

\* When logger_finalize has returned, the log file has every line printed but
\* those that a failed fwrite took with it.
THEOREM LoggerComplete == Spec => []CompleteWhenJoined
<1>1. Init => Drained
  BY DEF Init, Drained
<1>2. Drained /\ [Next]_vars => Drained'
  <2> SUFFICES ASSUME Drained, [Next]_vars PROVE Drained'
    OBVIOUS
  <2> USE DEF Drained, shared, local
  <2>1. CASE Main
    BY <2>1 DEF Main, StartPrint, Insert, Finalize, RequestJoin, Joined, MainLocks,
                MainUnlocks, MainSignals, MainGoes, Signalled
  <2>2. CASE LoggerLocks("lock") \/ LoggerLocks("relock") \/ Wait \/ StopWaiting
             \/ LoggerUnlocks \/ WriteLine \/ WrittenAll
    BY <2>2 DEF LoggerLocks, Wait, StopWaiting, LoggerUnlocks,
                WriteLine, Written, WriteFails, WrittenAll, LoggerGoes
  <2>3. CASE Die \/ SpuriousWakeup \/ LoggerDies
    BY <2>3 DEF Die, SpuriousWakeup, LoggerDies, LoggerGoes
  <2>4. CASE Ended \/ UNCHANGED vars
    BY <2>4 DEF Ended, vars
  <2>5. CASE Take
    <3>1. /\ pcLogger = "take" /\ pcLogger' = "unlock" /\ messages' = <<>>
          /\ UNCHANGED <<join_requested, buffer, pcMain>>
          /\ joining' => joining \/ join_requested
      BY <2>5 DEF Take, LoggerGoes
    <3> QED
      BY <3>1
  <2>6. CASE Flush
    BY <2>6 DEF Flush
  <2> QED
    BY <2>1, <2>2, <2>3, <2>4, <2>5, <2>6 DEF Next, LoggerThread
<1>3. TypeOK /\ InOrder /\ Drained => CompleteWhenJoined
  <2> SUFFICES ASSUME TypeOK, InOrder, Drained, pcMain = "done"
               PROVE  Range(file) = Kept
    BY DEF CompleteWhenJoined
  <2>1. batch = <<>> /\ buffer = <<>> /\ messages = <<>>
    BY DEF Drained
  <2>2. file \in Seq(1 .. Lines) /\ file \o <<>> = file
    BY ConcatEmptySeq DEF TypeOK
  <2>3. Way = file
    BY <2>1, <2>2 DEF Way
  <2> QED
    BY <2>3 DEF InOrder
<1> QED
  BY <1>1, <1>2, <1>3, LoggerTypeOK, LoggerInOrder, PTL DEF Spec
=============================================================================
