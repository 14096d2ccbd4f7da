----------------------------- MODULE ClientProofs -----------------------------
(***************************************************************************)
(* Theorems about Client and EventLoop, for any files, hosts, heap and       *)
(* number of runs.                                                         *)
(*                                                                         *)
(* The parts of the inductive invariant are operators of the state, so that *)
(* the lemmas can speak of states between those of a behaviour: a handler   *)
(* reads the head's file first, then changes a session, then releases.      *)
(***************************************************************************)
EXTENDS EventLoop, FiniteSetTheorems, SequenceTheorems, TLAPS

\* The queue of h in ss and the sessions of ss that hold o.
QueueIn(ss, h) == IF ss[h] # NoSession THEN Elements(ss[h].queue) ELSE {}
HoldersIn(ss, o) == {h \in Hosts : o \in QueueIn(ss, h)}

Typed(mm, ss, ll) ==
  /\ mm \in [Objects -> Message \cup {NoMessage}]
  /\ ss \in [Hosts -> Session \cup {NoSession}]
  /\ ll \subseteq Objects

\* Objects are alive while something holds them, and the count is exact.
Counted(mm, ss, ll) ==
  \A o \in Objects :
    /\ mm[o] # NoMessage <=> (o \in ll \/ HoldersIn(ss, o) # {})
    /\ mm[o] # NoMessage =>
         mm[o].ref = Cardinality(HoldersIn(ss, o)) + (IF o \in ll THEN 1 ELSE 0)

Distinct(s) == \A i, j \in DOMAIN s : s[i] = s[j] => i = j

QueuedOnce(ss) == \A h \in Hosts : ss[h] # NoSession => Distinct(ss[h].queue)

\* What the messages on the list and in the queues are like.
Fit(mm, ss, ll) ==
  /\ \A o \in ll : /\ HoldersIn(ss, o) = {}
                   /\ mm[o].state \in {"LOADING_HEADERS", "LOADING_FAILED"}
  /\ \A h \in Hosts : \A o \in QueueIn(ss, h) :
       h \in mm[o].dests /\ mm[o].state # "LOADING_HEADERS"
  /\ \A o \in Objects : mm[o] # NoMessage =>
       /\ mm[o].dests \subseteq Dests[mm[o].path]
       /\ mm[o].open => mm[o].state \in Loading

\* The head of a queue is as far as its session takes it to be.
Talking(mm, ss) ==
  \A h \in Hosts : ss[h] # NoSession =>
    /\ ss[h].state \in Transferring => ss[h].queue # <<>>
    /\ ss[h].state \in {"SENDING_DATA", "SENDING_DATA_PAYLOAD"} =>
         mm[Head(ss[h].queue)].state = "BODY_LOADED"

\* What has been marked as sent, or is about to be, has been accepted.
Marked(mm, acc) ==
  \A o \in Objects :
    mm[o] # NoMessage /\ mm[o].state \in {"HEADERS_LOADED", "LOADING_BODY", "BODY_LOADED"} =>
      \A h \in Dests[mm[o].path] \ mm[o].dests : <<mm[o].path, h>> \in acc

Taken250(ss, lk, h) ==
  ss[h].state = "SENDING_DATA_PAYLOAD" /\ lk[h] = [phase |-> "answered", code |-> 250]

Replied(mm, ss, lk, acc) ==
  \A h \in Hosts : ss[h] # NoSession /\ Taken250(ss, lk, h) =>
    <<mm[Head(ss[h].queue)].path, h>> \in acc

\* A file that the client has or is going to hear of is there or delivered.
Served(f, acc) == Dests[f] # {} /\ \A h \in Dests[f] : <<f, h>> \in acc

Kept(mm, fs, ds, acc) ==
  /\ \A o \in Objects : mm[o] # NoMessage => mm[o].path \in fs \/ Served(mm[o].path, acc)
  /\ \A f \in ds : f \in fs \/ Served(f, acc)

\* A message that h's server has taken leaves h's queue before it is sent again.
TakenOnce(ss, ll, lk, tk) ==
  /\ \A o \in ll : tk[o] = {}
  /\ \A h \in Hosts : \A o \in QueueIn(ss, h) : h \in tk[o] =>
       /\ o = Head(ss[h].queue)
       /\ ss[h].state = "SENDING_DATA_PAYLOAD"
       /\ lk[h].phase = "lost" \/ Taken250(ss, lk, h)

\* The invariant of the messages and their holders, and all of it.
HeapOK(mm, ss, ll) ==
  /\ Typed(mm, ss, ll)
  /\ Counted(mm, ss, ll)
  /\ QueuedOnce(ss)
  /\ Fit(mm, ss, ll)

\* The invariant, and the same of a heap mm with sessions ss and links lk that
\* a handler has come to half way.
Sound(mm, ss, lk) ==
  /\ HeapOK(mm, ss, listed)
  /\ Talking(mm, ss)
  /\ Marked(mm, accepted)
  /\ Replied(mm, ss, lk, accepted)
  /\ Kept(mm, out, due, accepted)
  /\ TakenOnce(ss, listed, lk, taken)

IInv == TypeOK /\ Sound(msg, sess, link)

-----------------------------------------------------------------------------
(* Sequences and counting. *)

\* The elements of a queue.
LEMMA ElementsProperties ==
  ASSUME NEW S, NEW s \in Seq(S)
  PROVE  /\ Elements(s) \subseteq S
         /\ Elements(s) = {} <=> s = <<>>
         /\ s # <<>> => Head(s) \in Elements(s)
<1>1. DOMAIN s = 1 .. Len(s) /\ Len(s) \in Nat /\ \A i \in 1 .. Len(s) : s[i] \in S
  BY LenProperties, ElementOfSeq
<1>2. s # <<>> => 1 \in DOMAIN s /\ Head(s) = s[1]
  BY <1>1, EmptySeq
<1>3. s = <<>> => DOMAIN s = {}
  BY <1>1, EmptySeq
<1> QED
  BY <1>1, <1>2, <1>3 DEF Elements

\* Without its head a queue that has nothing twice has all but the head.
LEMMA TailElements ==
  ASSUME NEW S, NEW s \in Seq(S), s # <<>>, Distinct(s)
  PROVE  /\ Elements(Tail(s)) = Elements(s) \ {Head(s)}
         /\ Distinct(Tail(s))
<1>1. /\ Tail(s) \in Seq(S) /\ Len(Tail(s)) = Len(s) - 1
      /\ \A i \in 1 .. Len(Tail(s)) : Tail(s)[i] = s[i + 1]
      /\ Head(s) = s[1]
  BY HeadTailProperties
<1>2. DOMAIN s = 1 .. Len(s) /\ DOMAIN Tail(s) = 1 .. Len(Tail(s)) /\ Len(s) \in Nat \ {0}
  BY <1>1, LenProperties, EmptySeq
<1> DEFINE t == Tail(s)
<1> HIDE DEF t
<1>3. /\ DOMAIN t = 1 .. Len(s) - 1
      /\ \A i \in 1 .. Len(s) - 1 : t[i] = s[i + 1]
  BY <1>1, <1>2 DEF t
<1>4. Distinct(t)
  BY <1>2, <1>3 DEF Distinct
<1>5. \A i \in DOMAIN t : t[i] \in Elements(s) \ {s[1]}
  BY <1>2, <1>3 DEF Distinct, Elements
<1>6. ASSUME NEW i \in DOMAIN s, s[i] # s[1] PROVE s[i] \in Elements(t)
  <2>1. i - 1 \in DOMAIN t /\ t[i - 1] = s[i]
    BY <1>2, <1>3, <1>6
  <2> QED
    BY <2>1 DEF Elements
<1> QED
  BY <1>1, <1>4, <1>5, <1>6 DEF t, Elements

\* A message that is not in a queue can be appended to it.
LEMMA AppendElements ==
  ASSUME NEW S, NEW s \in Seq(S), NEW e \in S, e \notin Elements(s), Distinct(s)
  PROVE  /\ Append(s, e) \in Seq(S)
         /\ Elements(Append(s, e)) = Elements(s) \cup {e}
         /\ Distinct(Append(s, e))
         /\ Append(s, e) # <<>>
         /\ s # <<>> => Head(Append(s, e)) = Head(s)
<1> DEFINE t == Append(s, e)
<1>1. /\ t \in Seq(S) /\ Len(t) = Len(s) + 1 /\ Len(s) \in Nat
      /\ \A i \in 1 .. Len(s) : t[i] = s[i]
      /\ t[Len(s) + 1] = e
  BY LenProperties
<1> HIDE DEF t
<1>2. DOMAIN s = 1 .. Len(s) /\ DOMAIN t = 1 .. Len(s) + 1
  BY <1>1, LenProperties
<1>3. Elements(t) = Elements(s) \cup {e}
  <2>1. \A i \in DOMAIN t : t[i] \in Elements(s) \cup {e}
    BY <1>1, <1>2 DEF Elements
  <2>2. \A i \in DOMAIN s : s[i] \in Elements(t)
    BY <1>1, <1>2 DEF Elements
  <2>3. e \in Elements(t)
    BY <1>1, <1>2 DEF Elements
  <2> QED
    BY <2>1, <2>2, <2>3 DEF Elements
<1>4. Distinct(t)
  <2>1. \A i \in DOMAIN s : s[i] # e
    BY DEF Elements
  <2> QED
    BY <1>1, <1>2, <2>1 DEF Distinct
<1>5. t # <<>>
  BY <1>1, EmptySeq
<1>6. s # <<>> => Head(t) = Head(s)
  <2> SUFFICES ASSUME s # <<>> PROVE Head(t) = Head(s)
    OBVIOUS
  <2>1. Len(s) \in Nat \ {0}
    BY EmptySeq
  <2>2. Head(t) = t[1] /\ Head(s) = s[1]
    BY <1>1, <1>5, HeadTailProperties
  <2> QED
    BY <1>1, <2>1, <2>2
<1> QED
  BY <1>1, <1>3, <1>4, <1>5, <1>6 DEF t

\* The holders of a message can be counted.
LEMMA HoldersFinite ==
  ASSUME NEW ss, NEW o
  PROVE  /\ HoldersIn(ss, o) \in SUBSET Hosts
         /\ IsFiniteSet(HoldersIn(ss, o))
         /\ Cardinality(HoldersIn(ss, o)) \in Nat
         /\ Cardinality(HoldersIn(ss, o)) = 0 <=> HoldersIn(ss, o) = {}
<1>1. HoldersIn(ss, o) \in SUBSET Hosts
  BY DEF HoldersIn
<1>2. IsFiniteSet(HoldersIn(ss, o))
  BY <1>1, FS_Subset, ClientAssumption
<1> QED
  BY <1>1, <1>2, FS_CardinalityType, FS_EmptySet

-----------------------------------------------------------------------------
(* Giving references up and taking them. *)

\* n is m with another count.
Recounted(m, n) ==
  /\ n # NoMessage => /\ m # NoMessage
                      /\ n.path = m.path /\ n.state = m.state
                      /\ n.open = m.open /\ n.dests = m.dests

\* message_release takes one off a count, or frees.
LEMMA ReleasedProperties ==
  ASSUME NEW mm \in [Objects -> Message \cup {NoMessage}], NEW os,
         \A o \in os : mm[o] # NoMessage
  PROVE  /\ Released(mm, os) \in [Objects -> Message \cup {NoMessage}]
         /\ \A o \in Objects : Recounted(mm[o], Released(mm, os)[o])
         /\ \A o \in Objects \ os : Released(mm, os)[o] = mm[o]
         /\ \A o \in Objects \cap os :
              IF mm[o].ref > 1 THEN /\ Released(mm, os)[o] # NoMessage
                                    /\ Released(mm, os)[o].ref = mm[o].ref - 1
                               ELSE Released(mm, os)[o] = NoMessage
<1> DEFINE nn == Released(mm, os)
<1>1. \A o \in Objects \ os : nn[o] = mm[o]
  BY DEF Released
<1>2. ASSUME NEW o \in Objects \cap os, mm[o].ref > 1
      PROVE  /\ nn[o] \in Message /\ nn[o].ref = mm[o].ref - 1
             /\ Recounted(mm[o], nn[o])
  <2>1. mm[o] \in Message /\ mm[o] # NoMessage
    OBVIOUS
  <2>2. nn[o] = [mm[o] EXCEPT !.ref = @ - 1]
    BY <1>2 DEF Released
  <2>3. mm[o].ref - 1 \in Nat
    BY <2>1, <1>2 DEF Message
  <2> QED
    BY <2>1, <2>2, <2>3 DEF Message, Recounted
<1>3. ASSUME NEW o \in Objects \cap os, ~(mm[o].ref > 1)
      PROVE  nn[o] = NoMessage
  BY <1>3 DEF Released
<1>4. nn = [o \in Objects |-> nn[o]]
  BY DEF Released
<1> HIDE DEF nn
<1>5. \A o \in Objects : nn[o] \in Message \cup {NoMessage}
  BY <1>1, <1>2, <1>3
<1>6. nn \in [Objects -> Message \cup {NoMessage}]
  BY <1>4, <1>5
<1>7. \A o \in Objects : Recounted(mm[o], nn[o])
  BY <1>1, <1>2, <1>3 DEF Recounted
<1>8. \A o \in Objects \cap os : mm[o].ref > 1 => nn[o] # NoMessage
  BY <1>2, NothingAssumption
<1> QED
  BY <1>1, <1>2, <1>3, <1>6, <1>7, <1>8 DEF nn

\* A session that lets go of the messages os, whose file and destinations fit
\* what remains, leaves the heap in order.
LEMMA ReleaseHeap ==
  ASSUME NEW mm, NEW ss, NEW tt, NEW ll, NEW h \in Hosts, NEW os,
         Typed(mm, ss, ll), Counted(mm, ss, ll),
         Typed(mm, tt, ll), QueuedOnce(tt), Fit(mm, tt, ll),
         os \subseteq QueueIn(ss, h),
         QueueIn(tt, h) = QueueIn(ss, h) \ os,
         \A g \in Hosts \ {h} : QueueIn(tt, g) = QueueIn(ss, g),
         os \subseteq Objects, os \cap ll = {}
  PROVE  HeapOK(Released(mm, os), tt, ll)
<1> DEFINE nn == Released(mm, os)
<1>1. \A o \in os : mm[o] # NoMessage /\ h \in HoldersIn(ss, o)
  BY DEF Counted, HoldersIn
<1>2. /\ nn \in [Objects -> Message \cup {NoMessage}]
      /\ \A o \in Objects : Recounted(mm[o], nn[o])
      /\ \A o \in Objects \ os : nn[o] = mm[o]
      /\ \A o \in Objects \cap os :
           IF mm[o].ref > 1 THEN nn[o] # NoMessage /\ nn[o].ref = mm[o].ref - 1
                            ELSE nn[o] = NoMessage
  BY <1>1, ReleasedProperties DEF Typed
<1> HIDE DEF nn
<1>3. Typed(nn, tt, ll)
  BY <1>2 DEF Typed
<1>4. \A o \in Objects : HoldersIn(tt, o) = IF o \in os THEN HoldersIn(ss, o) \ {h}
                                                       ELSE HoldersIn(ss, o)
  BY DEF HoldersIn
<1>5. Counted(nn, tt, ll)
  <2> SUFFICES ASSUME NEW o \in Objects
               PROVE  /\ nn[o] # NoMessage <=> (o \in ll \/ HoldersIn(tt, o) # {})
                      /\ nn[o] # NoMessage =>
                           nn[o].ref = Cardinality(HoldersIn(tt, o)) + (IF o \in ll THEN 1 ELSE 0)
    BY DEF Counted
  <2>1. CASE o \notin os
    BY <2>1, <1>2, <1>4 DEF Counted
  <2>2. CASE o \in os
    <3>1. /\ HoldersIn(tt, o) = HoldersIn(ss, o) \ {h} /\ h \in HoldersIn(ss, o)
          /\ mm[o].ref = Cardinality(HoldersIn(ss, o)) /\ o \notin ll
      <4>1. Cardinality(HoldersIn(ss, o)) \in Nat
        BY HoldersFinite
      <4> QED
        BY <2>2, <1>1, <1>4, <4>1 DEF Counted
    <3>2. Cardinality(HoldersIn(tt, o)) = Cardinality(HoldersIn(ss, o)) - 1
      <4>1. IsFiniteSet(HoldersIn(ss, o))
        BY HoldersFinite
      <4>2. Cardinality(HoldersIn(ss, o) \ {h}) = Cardinality(HoldersIn(ss, o)) - 1
        BY <3>1, <4>1, FS_RemoveElement
      <4> QED
        BY <3>1, <4>2
    <3>3. /\ Cardinality(HoldersIn(tt, o)) \in Nat
          /\ Cardinality(HoldersIn(ss, o)) \in Nat
          /\ Cardinality(HoldersIn(tt, o)) = 0 <=> HoldersIn(tt, o) = {}
      BY HoldersFinite
    <3> QED
      BY <2>2, <3>1, <3>2, <3>3, <1>2
  <2> QED
    BY <2>1, <2>2
<1>6. Fit(nn, tt, ll)
  <2>1. \A o \in ll : HoldersIn(tt, o) = {} /\ nn[o].state \in {"LOADING_HEADERS", "LOADING_FAILED"}
    BY <1>2 DEF Fit, Typed
  <2>2. \A g \in Hosts : \A o \in QueueIn(tt, g) : o \in Objects /\ nn[o] # NoMessage
    <3>1. \A g \in Hosts : \A o \in QueueIn(tt, g) : o \in Objects
      BY ElementsProperties DEF Typed, QueueIn, Session
    <3> QED
      BY <3>1, <1>5 DEF Counted, HoldersIn
  <2>3. \A g \in Hosts : \A o \in QueueIn(tt, g) :
          g \in nn[o].dests /\ nn[o].state # "LOADING_HEADERS"
    BY <1>2, <2>2 DEF Fit, Recounted
  <2>4. \A o \in Objects : nn[o] # NoMessage =>
          /\ nn[o].dests \subseteq Dests[nn[o].path]
          /\ nn[o].open => nn[o].state \in Loading
    BY <1>2 DEF Fit, Recounted
  <2> QED
    BY <2>1, <2>3, <2>4 DEF Fit
<1> QED
  BY <1>3, <1>5, <1>6 DEF HeapOK, nn

-----------------------------------------------------------------------------
(* Steps that change neither a queue nor a count. *)

\* n is m with more of its file read, asked for or found to be unreadable.
Later(m, n) ==
  \/ n = m
  \/ /\ m \in Message /\ n \in Message
     /\ n.path = m.path /\ n.ref = m.ref /\ n.dests = m.dests
     /\ n.open => n.state \in Loading
     /\ \/ /\ m.state = "LOADING_HEADERS"
           /\ n.state \in {"LOADING_HEADERS", "LOADING_FAILED"}
        \/ /\ m.state \in {"HEADERS_LOADED", "LOADING_BODY"}
           /\ n.state \in {"LOADING_BODY", "BODY_LOADED", "LOADING_FAILED"}

LaterHeap(mm, nn) ==
  /\ nn \in [Objects -> Message \cup {NoMessage}]
  /\ \A o \in Objects : Later(mm[o], nn[o])

SameQueues(ss, tt) ==
  /\ tt \in [Hosts -> Session \cup {NoSession}]
  /\ \A h \in Hosts : tt[h] = NoSession <=> ss[h] = NoSession
  /\ \A h \in Hosts : tt[h] # NoSession => tt[h].queue = ss[h].queue

\* What is in a queue is alive and not on the list.
LEMMA QueuedAlive ==
  ASSUME NEW mm, NEW ss, NEW ll, HeapOK(mm, ss, ll), NEW h \in Hosts
  PROVE  /\ \A o \in QueueIn(ss, h) : o \in Objects /\ o \notin ll /\ mm[o] \in Message
         /\ ss[h] # NoSession /\ ss[h].queue # <<>> => Head(ss[h].queue) \in QueueIn(ss, h)
<1>1. ss[h] # NoSession => ss[h].queue \in Seq(Objects)
  BY DEF HeapOK, Typed, Session
<1>2. \A o \in QueueIn(ss, h) : o \in Objects
  BY <1>1, ElementsProperties DEF QueueIn
<1>3. \A o \in QueueIn(ss, h) : mm[o] # NoMessage /\ o \notin ll
  BY <1>2 DEF HeapOK, Counted, Fit, HoldersIn
<1> QED
  BY <1>1, <1>2, <1>3, ElementsProperties DEF QueueIn, HeapOK, Typed

\* Reading, asking for or giving up a file disturbs nobody.
LEMMA LaterKeeps ==
  ASSUME NEW mm, NEW nn, NEW ss, NEW ll, HeapOK(mm, ss, ll), LaterHeap(mm, nn)
  PROVE  /\ HeapOK(nn, ss, ll)
         /\ Talking(mm, ss) => Talking(nn, ss)
         /\ \A acc : Marked(mm, acc) => Marked(nn, acc)
         /\ \A lk, acc : Talking(mm, ss) /\ Replied(mm, ss, lk, acc) => Replied(nn, ss, lk, acc)
         /\ \A fs, ds, acc : Kept(mm, fs, ds, acc) => Kept(nn, fs, ds, acc)
<1>1. \A o \in Objects :
        /\ mm[o] = NoMessage <=> nn[o] = NoMessage
        /\ mm[o] # NoMessage => /\ nn[o].path = mm[o].path
                                /\ nn[o].ref = mm[o].ref
                                /\ nn[o].dests = mm[o].dests
                                /\ mm[o].state = "BODY_LOADED" => nn[o] = mm[o]
                                /\ nn[o] # mm[o] /\ nn[o].open => nn[o].state \in Loading
                                /\ mm[o].state # "LOADING_HEADERS" => nn[o].state # "LOADING_HEADERS"
  BY NothingAssumption DEF LaterHeap, Later
<1>2. \A o \in Objects : mm[o] # NoMessage =>
        /\ mm[o].state \in {"LOADING_HEADERS", "LOADING_FAILED"}
             => nn[o].state \in {"LOADING_HEADERS", "LOADING_FAILED"}
        /\ nn[o].state \in {"HEADERS_LOADED", "LOADING_BODY", "BODY_LOADED"}
             => mm[o].state \in {"HEADERS_LOADED", "LOADING_BODY", "BODY_LOADED"}
  BY DEF LaterHeap, Later
<1>3. Typed(nn, ss, ll)
  BY DEF HeapOK, Typed, LaterHeap
<1>4. Counted(nn, ss, ll)
  BY <1>1 DEF HeapOK, Counted
<1>5. Fit(nn, ss, ll)
  <2>1. \A o \in ll : /\ HoldersIn(ss, o) = {}
                      /\ nn[o].state \in {"LOADING_HEADERS", "LOADING_FAILED"}
    BY <1>2 DEF HeapOK, Fit, Typed, Counted
  <2>2. ASSUME NEW h \in Hosts, NEW o \in QueueIn(ss, h)
        PROVE  h \in nn[o].dests /\ nn[o].state # "LOADING_HEADERS"
    <3>1. o \in Objects /\ mm[o] # NoMessage
      BY QueuedAlive, NothingAssumption
    <3> QED
      BY <3>1, <1>1 DEF HeapOK, Fit
  <2>3. \A o \in Objects : nn[o] # NoMessage =>
          /\ nn[o].dests \subseteq Dests[nn[o].path]
          /\ nn[o].open => nn[o].state \in Loading
    BY <1>1 DEF HeapOK, Fit
  <2> QED
    BY <2>1, <2>2, <2>3 DEF Fit
<1>6. Talking(mm, ss) => Talking(nn, ss)
  <2> SUFFICES ASSUME Talking(mm, ss), NEW h \in Hosts, ss[h] # NoSession
               PROVE  /\ ss[h].state \in Transferring => ss[h].queue # <<>>
                      /\ ss[h].state \in {"SENDING_DATA", "SENDING_DATA_PAYLOAD"} =>
                           nn[Head(ss[h].queue)].state = "BODY_LOADED"
    BY DEF Talking
  <2>1. ss[h].state \in Transferring => ss[h].queue # <<>>
    BY DEF Talking
  <2>2. ASSUME ss[h].state \in {"SENDING_DATA", "SENDING_DATA_PAYLOAD"}
        PROVE  nn[Head(ss[h].queue)].state = "BODY_LOADED"
    <3>1. Head(ss[h].queue) \in Objects /\ mm[Head(ss[h].queue)] \in Message
      BY <2>1, <2>2, QueuedAlive DEF Transferring
    <3>2. mm[Head(ss[h].queue)].state = "BODY_LOADED"
      BY <2>2 DEF Talking
    <3> QED
      BY <1>1, <3>1, <3>2, NothingAssumption
  <2> QED
    BY <2>1, <2>2
<1>7. ASSUME NEW acc, Marked(mm, acc) PROVE Marked(nn, acc)
  BY <1>1, <1>2, <1>7 DEF Marked
<1>8. ASSUME NEW lk, NEW acc, Talking(mm, ss), Replied(mm, ss, lk, acc)
      PROVE  Replied(nn, ss, lk, acc)
  <2> SUFFICES ASSUME NEW h \in Hosts, ss[h] # NoSession, Taken250(ss, lk, h)
               PROVE  <<nn[Head(ss[h].queue)].path, h>> \in acc
    BY DEF Replied
  <2>1. Head(ss[h].queue) \in Objects /\ mm[Head(ss[h].queue)] \in Message
    BY <1>8, QueuedAlive DEF Talking, Taken250, Transferring
  <2>2. nn[Head(ss[h].queue)].path = mm[Head(ss[h].queue)].path
    BY <1>1, <2>1, NothingAssumption
  <2> QED
    BY <1>8, <2>2 DEF Replied
<1>9. ASSUME NEW fs, NEW ds, NEW acc, Kept(mm, fs, ds, acc) PROVE Kept(nn, fs, ds, acc)
  BY <1>1, <1>9 DEF Kept
<1> QED
  BY <1>3, <1>4, <1>5, <1>6, <1>7, <1>8, <1>9 DEF HeapOK

\* The heap looks at nothing of a session but its queue.
LEMMA SameQueuesKeeps ==
  ASSUME NEW mm, NEW ss, NEW tt, NEW ll, HeapOK(mm, ss, ll), SameQueues(ss, tt)
  PROVE  /\ HeapOK(mm, tt, ll)
         /\ \A h \in Hosts : QueueIn(tt, h) = QueueIn(ss, h)
<1>1. \A h \in Hosts : QueueIn(tt, h) = QueueIn(ss, h)
  BY DEF SameQueues, QueueIn
<1>2. \A o : HoldersIn(tt, o) = HoldersIn(ss, o)
  BY <1>1 DEF HoldersIn
<1>3. Typed(mm, tt, ll)
  BY DEF HeapOK, Typed, SameQueues
<1>4. Counted(mm, tt, ll)
  BY <1>2 DEF HeapOK, Counted
<1>5. QueuedOnce(tt)
  BY DEF HeapOK, QueuedOnce, SameQueues
<1>6. Fit(mm, tt, ll)
  BY <1>1, <1>2 DEF HeapOK, Fit
<1> QED
  BY <1>1, <1>3, <1>4, <1>5, <1>6 DEF HeapOK

\* message_notify of a message that is queued.
LEMMA NotifiedLater ==
  ASSUME NEW m \in Message, m.state # "LOADING_HEADERS", NEW n \in Notified(m)
  PROVE  n \in Message /\ Later(m, n)
<1>1. CASE n = m
  BY <1>1 DEF Later
<1>2. CASE n # m /\ n = Failed(m)
  BY <1>2 DEF Notified, Failed, Message, MessageStates, Loading, Later
<1>3. CASE n # m /\ n # Failed(m)
  <2>1. m.state = "LOADING_BODY" /\ n = [m EXCEPT !.state = "BODY_LOADED", !.open = FALSE]
    BY <1>3 DEF Notified, Loading
  <2> QED
    BY <2>1 DEF Message, MessageStates, Later
<1> QED
  BY <1>1, <1>2, <1>3

\* message_start_loading_body of a message that is queued.
LEMMA BodyRequestedLater ==
  ASSUME NEW m \in Message, m.open => m.state \in Loading
  PROVE  BodyRequested(m) \in Message /\ Later(m, BodyRequested(m))
BY DEF BodyRequested, Message, MessageStates, Loading, Later

-----------------------------------------------------------------------------
(* The handlers of a session. *)

\* Each message that is still there is the same file, as loaded as it was.
Follows(mm, nn) ==
  \A o \in Objects : nn[o] # NoMessage =>
    /\ mm[o] # NoMessage
    /\ nn[o].path = mm[o].path
    /\ mm[o].state = "BODY_LOADED" => nn[o].state = "BODY_LOADED"

\* A step of session h, and what it has to be careful of.
OnlyChanged(h, ss, tt, lk, kk) ==
  \A g \in Hosts \ {h} : tt[g] = ss[g] /\ kk[g] = lk[g]

GoesOnWell(h, nn, tt, kk, tk) ==
  /\ tt[h] # NoSession =>
       /\ tt[h].state \in Transferring => tt[h].queue # <<>>
       /\ tt[h].state \in {"SENDING_DATA", "SENDING_DATA_PAYLOAD"} =>
            nn[Head(tt[h].queue)].state = "BODY_LOADED"
       /\ ~Taken250(tt, kk, h)
  /\ \A o \in QueueIn(tt, h) : h \notin tk[o]

\* A step of session h that goes on well leaves the other sessions' dialogues,
\* the replies they have had and what their servers took as they were.
LEMMA OthersKeep ==
  ASSUME NEW mm, NEW nn, NEW ss, NEW tt, NEW ll, NEW lk, NEW kk, NEW acc, NEW tk,
         HeapOK(nn, tt, ll), Follows(mm, nn),
         Talking(mm, ss), Replied(mm, ss, lk, acc), TakenOnce(ss, ll, lk, tk),
         NEW h \in Hosts, OnlyChanged(h, ss, tt, lk, kk), GoesOnWell(h, nn, tt, kk, tk)
  PROVE  /\ Talking(nn, tt)
         /\ Replied(nn, tt, kk, acc)
         /\ TakenOnce(tt, ll, kk, tk)
<1>1. ASSUME NEW g \in Hosts \ {h}, tt[g] # NoSession
      PROVE  /\ tt[g].state \in Transferring => tt[g].queue # <<>>
             /\ tt[g].state \in {"SENDING_DATA", "SENDING_DATA_PAYLOAD"} =>
                  nn[Head(tt[g].queue)].state = "BODY_LOADED"
             /\ Taken250(tt, kk, g) => <<nn[Head(tt[g].queue)].path, g>> \in acc
  <2>1. tt[g].state \in Transferring => tt[g].queue # <<>>
    BY <1>1 DEF Talking, OnlyChanged
  <2>2. tt[g].state \in Transferring =>
          Head(tt[g].queue) \in Objects /\ nn[Head(tt[g].queue)] # NoMessage
    BY <1>1, <2>1, QueuedAlive, NothingAssumption
  <2>3. tt[g].state \in {"SENDING_DATA", "SENDING_DATA_PAYLOAD"} =>
          mm[Head(tt[g].queue)].state = "BODY_LOADED"
    BY <1>1 DEF Talking, OnlyChanged
  <2>4. Taken250(tt, kk, g) => <<mm[Head(tt[g].queue)].path, g>> \in acc
    BY <1>1 DEF Replied, Taken250, OnlyChanged
  <2> QED
    BY <2>1, <2>2, <2>3, <2>4 DEF Follows, Transferring, Taken250
<1>2. Talking(nn, tt)
  BY <1>1 DEF Talking, GoesOnWell
<1>3. Replied(nn, tt, kk, acc)
  BY <1>1 DEF Replied, GoesOnWell
<1>4. TakenOnce(tt, ll, kk, tk)
  BY DEF TakenOnce, QueueIn, Taken250, OnlyChanged, GoesOnWell
<1> QED
  BY <1>2, <1>3, <1>4

\* What was accepted is not affected by losing or recounting a message.
LEMMA RecountedKeeps ==
  ASSUME NEW mm, NEW nn, \A o \in Objects : Recounted(mm[o], nn[o])
  PROVE  /\ Follows(mm, nn)
         /\ \A acc : Marked(mm, acc) => Marked(nn, acc)
         /\ \A fs, ds, acc : Kept(mm, fs, ds, acc) => Kept(nn, fs, ds, acc)
BY DEF Recounted, Follows, Marked, Kept

\* A message that has been read further is the same message.
LEMMA LaterFollows ==
  ASSUME NEW mm, NEW nn, LaterHeap(mm, nn)
  PROVE  Follows(mm, nn)
BY NothingAssumption DEF LaterHeap, Later, Follows

\* The message_notify of its head with which session_notify begins.
LEMMA HeadNotifiedKeeps ==
  ASSUME IInv, NEW h \in Hosts, Open(h), NEW m \in HeadNotified(h)
  PROVE  Sound(m, sess, link)
<1>1. CASE ~Busy(h)
  BY <1>1 DEF HeadNotified, IInv
<1>2. CASE Busy(h)
  <2> DEFINE o == HeadOf(h)
  <2>1. /\ o \in Objects /\ msg[o] \in Message
        /\ o \in QueueIn(sess, h)
    BY <1>2, QueuedAlive DEF IInv, Sound, Busy, Open, HeadOf
  <2>2. msg[o].state # "LOADING_HEADERS"
    BY <2>1 DEF IInv, Sound, HeapOK, Fit
  <2>3. PICK n \in Notified(msg[o]) : m = [msg EXCEPT ![o] = n]
    BY <1>2 DEF HeadNotified
  <2>4. n \in Message /\ Later(msg[o], n)
    BY <2>1, <2>2, <2>3, NotifiedLater
  <2>5. LaterHeap(msg, m)
    <3>1. msg \in [Objects -> Message \cup {NoMessage}]
      BY DEF IInv, TypeOK
    <3> QED
      BY <2>1, <2>3, <2>4, <3>1 DEF LaterHeap, Later
  <2> QED
    BY <2>5, LaterKeeps DEF IInv, Sound
<1> QED
  BY <1>1, <1>2

\* A request that goes out leaves no reply to be dispatched.
LEMMA RequestProperties ==
  ASSUME link \in [Hosts -> Link], NEW h \in Hosts, Request(h)
  PROVE  /\ link' \in [Hosts -> Link]
         /\ \A g \in Hosts \ {h} : link'[g] = link[g]
         /\ link'[h].phase # "answered"
<1>1. Phase("asked") \in Link /\ Phase("asked").phase = "asked"
  BY DEF Phase, Link
<1> QED
  BY <1>1 DEF Request, Link

\* A session goes on with another state or another recipient.
LEMMA SessionGoesOn ==
  ASSUME IInv, NEW m, Sound(m, sess, link), NEW h \in Hosts, Open(h),
         sess[h].state # "SENDING_DATA_PAYLOAD",
         UNCHANGED <<spool, run, listed, accepted, taken>>, msg' = m,
         link' \in [Hosts -> Link], sess' \in [Hosts -> Session \cup {NoSession}],
         \A g \in Hosts \ {h} : sess'[g] = sess[g] /\ link'[g] = link[g],
         sess'[h] # NoSession, sess'[h].queue = sess[h].queue,
         sess'[h].state \in Transferring => sess[h].queue # <<>>,
         sess'[h].state \in {"SENDING_DATA", "SENDING_DATA_PAYLOAD"} =>
           m[HeadOf(h)].state = "BODY_LOADED",
         sess'[h].state = "SENDING_DATA_PAYLOAD" => link'[h].phase # "answered"
  PROVE  IInv'
<1>1. SameQueues(sess, sess')
  BY DEF SameQueues, Open
<1>2. /\ HeapOK(m, sess', listed)
      /\ \A g \in Hosts : QueueIn(sess', g) = QueueIn(sess, g)
  <2>1. HeapOK(m, sess, listed)
    BY DEF Sound
  <2> QED
    BY <1>1, <2>1, SameQueuesKeeps
<1>3. \A o \in QueueIn(sess', h) : h \notin taken[o]
  BY <1>2 DEF Sound, TakenOnce
<1>4. ~Taken250(sess', link', h)
  BY DEF Taken250
<1>5. /\ Talking(m, sess')
      /\ Replied(m, sess', link', accepted)
      /\ TakenOnce(sess', listed, link', taken)
  <2>1. Follows(m, m)
    BY DEF Follows
  <2>2. /\ HeapOK(m, sess', listed)
        /\ Talking(m, sess)
        /\ Replied(m, sess, link, accepted)
        /\ TakenOnce(sess, listed, link, taken)
    BY <1>2 DEF Sound
  <2>3. OnlyChanged(h, sess, sess', link, link')
    BY DEF OnlyChanged
  <2>4. GoesOnWell(h, m, sess', link', taken)
    BY <1>3, <1>4 DEF HeadOf, GoesOnWell
  <2> QED
    BY <2>1, <2>2, <2>3, <2>4, OthersKeep
<1>6. Sound(msg, sess, link)'
  BY <1>2, <1>5 DEF Sound, spool
<1>7. TypeOK'
  BY <1>2 DEF IInv, TypeOK, HeapOK, Typed, spool, Spool!SpoolTypeOK
<1> QED
  BY <1>6, <1>7 DEF IInv

\* dispatch goes on to another state of the dialogue.
LEMMA GoToKeeps ==
  ASSUME IInv, NEW m, Sound(m, sess, link), NEW h \in Hosts, Open(h),
         NEW st \in SessionStates, GoTo(h, st, m),
         UNCHANGED <<run, listed, accepted, taken>>,
         sess[h].state # "SENDING_DATA_PAYLOAD",
         st \in Transferring => sess[h].queue # <<>>,
         st \in {"SENDING_DATA", "SENDING_DATA_PAYLOAD"} =>
           m[HeadOf(h)].state = "BODY_LOADED"
  PROVE  IInv'
<1> DEFINE s == [sess[h] EXCEPT !.state = st]
<1>1. sess[h] \in Session
  BY DEF IInv, TypeOK, Open
<1>2. s \in Session /\ s.queue = sess[h].queue /\ s.state = st
  BY <1>1 DEF Session
<1> HIDE DEF s
<1>3. /\ sess' \in [Hosts -> Session \cup {NoSession}]
      /\ \A g \in Hosts \ {h} : sess'[g] = sess[g]
      /\ sess'[h] = s /\ s # NoSession
      /\ msg' = m /\ UNCHANGED spool
  <2>1. sess' = [sess EXCEPT ![h] = s] /\ msg' = m /\ UNCHANGED spool
    BY DEF GoTo, s
  <2> QED
    BY <1>2, <2>1, NothingAssumption DEF IInv, TypeOK
<1>4. /\ link' \in [Hosts -> Link]
      /\ \A g \in Hosts \ {h} : link'[g] = link[g]
      /\ link'[h].phase # "answered"
  BY RequestProperties DEF GoTo, IInv, TypeOK
<1> QED
  BY <1>2, <1>3, <1>4, SessionGoesOn

\* message_notify of the head is all that happens.
LEMMA OnlyHeadNotified ==
  ASSUME IInv, NEW m, Sound(m, sess, link), msg' = m,
         UNCHANGED <<spool, run, listed, sess, link, accepted, taken>>
  PROVE  IInv'
<1>1. Sound(msg, sess, link)'
  BY DEF Sound, spool
<1> QED
  BY <1>1 DEF IInv, Sound, HeapOK, Typed, TypeOK, spool, Spool!SpoolTypeOK

\* A session that closes lets go of its queue, and deletes nothing: none of
\* its messages has been sent to its host.
LEMMA CloseKeeps ==
  ASSUME IInv, NEW m, Sound(m, sess, link), NEW h \in Hosts, Open(h), Close(h, m),
         UNCHANGED <<run, listed, accepted, taken>>
  PROVE  IInv' /\ out' = out
<1> DEFINE os == Queued(h)
<1>1. /\ sess \in [Hosts -> Session \cup {NoSession}]
      /\ os = QueueIn(sess, h)
  BY DEF IInv, TypeOK, Queued, QueueIn, Open
<1>2. /\ \A g \in Hosts \ {h} : sess'[g] = sess[g] /\ link'[g] = link[g]
      /\ sess'[h] = NoSession
      /\ sess' \in [Hosts -> Session \cup {NoSession}]
      /\ link' \in [Hosts -> Link]
  BY <1>1 DEF Close, IInv, TypeOK, Phase, Link
<1>3. /\ QueueIn(sess', h) = {}
      /\ \A g \in Hosts \ {h} : QueueIn(sess', g) = QueueIn(sess, g)
  BY <1>2 DEF QueueIn
<1> HIDE DEF os
<1>4. \A o \in os : o \in Objects /\ o \notin listed /\ m[o] \in Message
  BY <1>1, QueuedAlive DEF Sound
<1>5. HeapOK(Released(m, os), sess', listed)
  <2>1. Typed(m, sess', listed) /\ Typed(m, sess, listed) /\ Counted(m, sess, listed)
    BY <1>2 DEF Sound, HeapOK, Typed
  <2>2. QueuedOnce(sess')
    BY <1>2 DEF Sound, HeapOK, QueuedOnce
  <2>3. Fit(m, sess', listed)
    <3>1. \A g \in Hosts : QueueIn(sess', g) \subseteq QueueIn(sess, g)
      BY <1>3
    <3>2. \A o : HoldersIn(sess', o) \subseteq HoldersIn(sess, o)
      BY <3>1 DEF HoldersIn
    <3> QED
      BY <3>1, <3>2 DEF Sound, HeapOK, Fit
  <2>4. os \subseteq Objects /\ os \cap listed = {} /\ os \subseteq QueueIn(sess, h)
    BY <1>1, <1>4
  <2>5. QueueIn(sess', h) = QueueIn(sess, h) \ os
    BY <1>1, <1>3
  <2> QED
    BY <1>3, <2>1, <2>2, <2>3, <2>4, <2>5, ReleaseHeap
<1>6. \A o \in Objects : Recounted(m[o], Released(m, os)[o])
  BY <1>4, ReleasedProperties, NothingAssumption DEF Sound, HeapOK, Typed
<1>7. msg' = Released(m, os)
  BY DEF Close, os
<1>8. Unlinked(m, os) = {}
  BY <1>1 DEF Unlinked, MayUnlink, Sound, HeapOK, Fit
<1>9. out' = out /\ UNCHANGED <<up, due, again>>
  BY <1>8 DEF Close, Release, os
<1>10. /\ Talking(msg', sess')
       /\ Replied(msg', sess', link', accepted)
       /\ TakenOnce(sess', listed, link', taken)
  <2>1. Follows(m, msg') /\ HeapOK(msg', sess', listed)
    BY <1>5, <1>6, <1>7, RecountedKeeps
  <2>2. OnlyChanged(h, sess, sess', link, link')
    BY <1>2 DEF OnlyChanged
  <2>3. GoesOnWell(h, msg', sess', link', taken)
    BY <1>2, <1>3 DEF GoesOnWell
  <2> QED
    BY <2>1, <2>2, <2>3, OthersKeep DEF Sound
<1>11. Marked(msg', accepted) /\ Kept(msg', out, due, accepted)
  BY <1>6, <1>7, RecountedKeeps DEF Sound
<1>12. Sound(msg, sess, link)'
  BY <1>5, <1>7, <1>9, <1>10, <1>11 DEF Sound
<1>13. TypeOK'
  BY <1>2, <1>5, <1>7, <1>9 DEF IInv, TypeOK, HeapOK, Typed, Spool!SpoolTypeOK
<1> QED
  BY <1>9, <1>12, <1>13 DEF IInv

\* start_message_transfer, once the queue is q and the heap mm.
LEMMA TransferKeeps ==
  ASSUME IInv, NEW m, Sound(m, sess, link), NEW h \in Hosts, Open(h),
         NEW mm, NEW tt, NEW q \in Seq(Objects),
         Follows(m, mm), HeapOK(mm, tt, listed), Marked(mm, accepted),
         \A g \in Hosts \ {h} : tt[g] = sess[g],
         tt[h] # NoSession, tt[h].queue = q,
         \A o \in Elements(q) : h \notin taken[o],
         Transfer(h, q, mm), Kept(mm, out', due, accepted), out' \subseteq out,
         UNCHANGED <<up, due, again, run, listed, accepted, taken>>
  PROVE  IInv'
<1>1. /\ sess' \in [Hosts -> Session \cup {NoSession}]
      /\ \A g \in Hosts \ {h} : sess'[g] = sess[g]
      /\ sess'[h] # NoSession
      /\ sess'[h].queue = q
      /\ sess'[h].state = IF q = <<>> THEN "SENDING_QUIT" ELSE "SENDING_MAIL_OR_RCPT"
  <2>1. sess \in [Hosts -> Session \cup {NoSession}] /\ sess[h] \in Session
    BY DEF IInv, TypeOK, Open
  <2>2. CASE q = <<>>
    <3> DEFINE s == [sess[h] EXCEPT !.state = "SENDING_QUIT", !.queue = q]
    <3>1. s \in Session /\ s.queue = q /\ s.state = "SENDING_QUIT"
      BY <2>1 DEF Session, SessionStates
    <3>2. sess' = [sess EXCEPT ![h] = s]
      BY <2>1, <2>2 DEF Transfer
    <3> HIDE DEF s
    <3> QED
      BY <2>1, <2>2, <3>1, <3>2, NothingAssumption
  <2>3. CASE q # <<>>
    <3> DEFINE s == [sess[h] EXCEPT !.state = "SENDING_MAIL_OR_RCPT", !.queue = q,
                                    !.left = Recipients]
    <3>1. s \in Session /\ s.queue = q /\ s.state = "SENDING_MAIL_OR_RCPT"
      BY <2>1, ClientAssumption DEF Session, SessionStates
    <3>2. sess' = [sess EXCEPT ![h] = s]
      BY <2>1, <2>3 DEF Transfer
    <3> HIDE DEF s
    <3> QED
      BY <2>1, <2>3, <3>1, <3>2, NothingAssumption
  <2> QED
    BY <2>2, <2>3
<1>2. SameQueues(tt, sess')
  BY <1>1 DEF SameQueues
<1>3. LaterHeap(mm, msg')
  <2>1. mm \in [Objects -> Message \cup {NoMessage}]
    BY DEF HeapOK, Typed
  <2>2. CASE q = <<>>
    BY <2>1, <2>2 DEF Transfer, LaterHeap, Later
  <2>3. CASE q # <<>>
    <3>1. Head(q) \in Objects /\ mm[Head(q)] \in Message
      BY <2>3, QueuedAlive
    <3>2. mm[Head(q)].open => mm[Head(q)].state \in Loading
      BY <3>1, NothingAssumption DEF HeapOK, Fit
    <3>3. /\ BodyRequested(mm[Head(q)]) \in Message
          /\ Later(mm[Head(q)], BodyRequested(mm[Head(q)]))
      BY <3>1, <3>2, BodyRequestedLater
    <3>4. msg' = [mm EXCEPT ![Head(q)] = BodyRequested(mm[Head(q)])]
      BY <2>3 DEF Transfer
    <3> QED
      BY <2>1, <3>1, <3>3, <3>4 DEF LaterHeap, Later
  <2> QED
    BY <2>2, <2>3
<1>4. /\ HeapOK(msg', tt, listed)
      /\ Marked(msg', accepted)
      /\ Kept(msg', out', due, accepted)
  BY <1>3, LaterKeeps
<1>5. HeapOK(msg', sess', listed)
  BY <1>2, <1>4, SameQueuesKeeps
<1>6. Follows(m, msg')
  BY <1>3, LaterFollows DEF Follows
<1>7. /\ link' \in [Hosts -> Link]
      /\ \A g \in Hosts \ {h} : link'[g] = link[g]
  BY RequestProperties DEF Transfer, IInv, TypeOK
<1>8. \A o \in QueueIn(sess', h) : h \notin taken[o]
  BY <1>1 DEF QueueIn
<1>9. /\ sess'[h].state \in Transferring => sess'[h].queue # <<>>
      /\ sess'[h].state \notin {"SENDING_DATA", "SENDING_DATA_PAYLOAD"}
      /\ ~Taken250(sess', link', h)
  BY <1>1 DEF Transferring, Taken250
<1>10. /\ Talking(msg', sess')
       /\ Replied(msg', sess', link', accepted)
       /\ TakenOnce(sess', listed, link', taken)
  <2>1. /\ Talking(m, sess)
        /\ Replied(m, sess, link, accepted)
        /\ TakenOnce(sess, listed, link, taken)
    BY DEF Sound
  <2>2. OnlyChanged(h, sess, sess', link, link')
    BY <1>1, <1>7 DEF OnlyChanged
  <2>3. GoesOnWell(h, msg', sess', link', taken)
    BY <1>8, <1>9 DEF GoesOnWell
  <2> QED
    BY <1>5, <1>6, <2>1, <2>2, <2>3, OthersKeep
<1>11. Sound(msg, sess, link)'
  BY <1>4, <1>5, <1>10 DEF Sound
<1>12. TypeOK'
  BY <1>5, <1>7 DEF IInv, TypeOK, HeapOK, Typed, Spool!SpoolTypeOK
<1> QED
  BY <1>11, <1>12 DEF IInv

\* The first message of a dialogue begins.
LEMMA HeloAcceptedKeeps ==
  ASSUME IInv, NEW m, Sound(m, sess, link), NEW h \in Hosts, Open(h), HeloAccepted(h, m),
         UNCHANGED <<run, listed, accepted, taken>>
  PROVE  IInv'
<1>1. /\ sess[h] # NoSession /\ sess[h].queue \in Seq(Objects)
      /\ sess[h].state = "SENDING_HELO"
      /\ Transfer(h, sess[h].queue, m)
      /\ out' = out /\ UNCHANGED <<up, due, again>>
  BY DEF HeloAccepted, Got, Open, IInv, TypeOK, Session, spool
<1>2. \A o \in Elements(sess[h].queue) : h \notin taken[o]
  BY <1>1 DEF Sound, TakenOnce, QueueIn
<1>3. /\ HeapOK(m, sess, listed) /\ Marked(m, accepted)
      /\ Kept(m, out', due, accepted) /\ Follows(m, m) /\ out' \subseteq out
  BY <1>1 DEF Sound, Follows
<1> QED
  BY <1>1, <1>2, <1>3, TransferKeeps

\* The file that a step deletes has been accepted by all its hosts.
DeletesServed ==
  \/ out' = out
  \/ \E f \in out : out' = out \ {f} /\ Served(f, accepted)

\* mm is m, or m with its message o marked for h.
MarkedHeap(m, mm, o, h) ==
  /\ mm \in [Objects -> Message \cup {NoMessage}]
  /\ \A p \in Objects \ {o} : mm[p] = m[p]
  /\ mm[o] \in Message
  /\ mm[o].path = m[o].path /\ mm[o].state = m[o].state
  /\ mm[o].open = m[o].open /\ mm[o].ref = m[o].ref
  /\ mm[o].dests \in {m[o].dests, m[o].dests \ {h}}

\* dequeue_message: the head is released, the next one begins, and a file that
\* is deleted has been accepted by all its hosts.
LEMMA DequeueKeeps ==
  ASSUME IInv, NEW m, Sound(m, sess, link), NEW h \in Hosts, Open(h),
         sess[h].queue # <<>>, NEW mm, MarkedHeap(m, mm, HeadOf(h), h),
         Marked(mm, accepted), Dequeue(h, mm),
         UNCHANGED <<run, listed, accepted, taken>>
  PROVE  IInv' /\ DeletesServed
<1> DEFINE o == HeadOf(h)
           q == Tail(sess[h].queue)
           tt == [sess EXCEPT ![h] = [sess[h] EXCEPT !.queue = q]]
           nn == Released(mm, {o})
<1>1. /\ sess \in [Hosts -> Session \cup {NoSession}]
      /\ sess[h] \in Session /\ sess[h].queue \in Seq(Objects)
      /\ HeapOK(m, sess, listed)
  BY DEF IInv, TypeOK, Sound, Open, Session
<1>2. /\ o \in Objects /\ m[o] \in Message /\ o \notin listed
      /\ o \in QueueIn(sess, h)
  BY <1>1, QueuedAlive DEF Open, HeadOf
<1>3. h \in m[o].dests /\ m[o].dests \subseteq Dests[m[o].path]
  BY <1>1, <1>2, NothingAssumption DEF HeapOK, Fit
<1>4. /\ q \in Seq(Objects)
      /\ Elements(q) = Elements(sess[h].queue) \ {o}
      /\ Distinct(q)
  BY <1>1, TailElements, HeadTailProperties DEF HeapOK, QueuedOnce, Open, HeadOf
<1>5. Transfer(h, q, nn) /\ Release(mm, {o})
  BY DEF Dequeue
<1> HIDE DEF o, q
<1>6. /\ tt \in [Hosts -> Session \cup {NoSession}]
      /\ \A g \in Hosts \ {h} : tt[g] = sess[g]
      /\ tt[h] # NoSession /\ tt[h].queue = q
  <2>1. [sess[h] EXCEPT !.queue = q] \in Session
    BY <1>1, <1>4 DEF Session
  <2> QED
    BY <1>1, <2>1, NothingAssumption
<1> HIDE DEF tt, nn
<1>7. /\ QueueIn(tt, h) = QueueIn(sess, h) \ {o}
      /\ \A g \in Hosts \ {h} : QueueIn(tt, g) = QueueIn(sess, g)
  BY <1>4, <1>6 DEF QueueIn, Open
<1>8. MarkedHeap(m, mm, o, h)
  BY DEF o
<1>9. Typed(mm, sess, listed) /\ Typed(mm, tt, listed)
  BY <1>1, <1>6, <1>8 DEF HeapOK, Typed, MarkedHeap
<1>10. \A p \in Objects : mm[p] # NoMessage <=> m[p] # NoMessage
  BY <1>2, <1>8, NothingAssumption DEF MarkedHeap
<1>11. Counted(mm, sess, listed)
  <2>1. \A p \in Objects : mm[p] # NoMessage => mm[p].ref = m[p].ref
    BY <1>8 DEF MarkedHeap
  <2> QED
    BY <1>1, <1>10, <2>1 DEF HeapOK, Counted
<1>12. QueuedOnce(tt)
  BY <1>1, <1>4, <1>6 DEF HeapOK, QueuedOnce
<1>13. Fit(mm, tt, listed)
  <2>1. \A p \in listed : HoldersIn(tt, p) = {}
    BY <1>1, <1>7 DEF HoldersIn, HeapOK, Fit
  <2>2. \A p \in listed : mm[p] = m[p]
    BY <1>1, <1>2, <1>8 DEF MarkedHeap, HeapOK, Typed
  <2>3. ASSUME NEW g \in Hosts, NEW p \in QueueIn(tt, g)
        PROVE  g \in mm[p].dests /\ mm[p].state # "LOADING_HEADERS"
    <3>1. p \in QueueIn(sess, g) /\ (g = h => p # o)
      BY <1>7, <2>3
    <3>2. p \in Objects /\ g \in m[p].dests /\ m[p].state # "LOADING_HEADERS"
      BY <1>1, <3>1, QueuedAlive DEF HeapOK, Fit
    <3> QED
      BY <1>8, <3>1, <3>2 DEF MarkedHeap
  <2>4. ASSUME NEW p \in Objects, mm[p] # NoMessage
        PROVE  /\ mm[p].dests \subseteq Dests[mm[p].path]
               /\ mm[p].open => mm[p].state \in Loading
    BY <1>1, <1>8, <1>10, <2>4 DEF MarkedHeap, HeapOK, Fit
  <2> QED
    BY <1>1, <2>1, <2>2, <2>3, <2>4 DEF Fit, HeapOK
<1>14. HeapOK(nn, tt, listed)
  <2>1. /\ {o} \subseteq QueueIn(sess, h) /\ {o} \subseteq Objects
        /\ {o} \cap listed = {}
    BY <1>2
  <2> QED
    BY <1>7, <1>9, <1>11, <1>12, <1>13, <2>1, ReleaseHeap DEF nn
<1>15. \A p \in Objects : Recounted(mm[p], nn[p])
  BY <1>2, <1>8, <1>9, <1>10, ReleasedProperties, NothingAssumption DEF nn, Typed
<1>16. Follows(m, nn)
  <2>1. Follows(mm, nn)
    BY <1>15, RecountedKeeps
  <2> QED
    BY <1>8, <1>10, <2>1 DEF Follows, MarkedHeap
<1>17. Marked(nn, accepted)
  BY <1>15, RecountedKeeps
<1>18. \/ Unlinked(mm, {o}) = {}
       \/ Unlinked(mm, {o}) = {mm[o].path} /\ MayUnlink(mm[o])
  BY DEF Unlinked
<1>19. MayUnlink(mm[o]) => Served(mm[o].path, accepted)
  <2> SUFFICES ASSUME MayUnlink(mm[o]) PROVE Served(mm[o].path, accepted)
    OBVIOUS
  <2>1. mm[o] # NoMessage /\ mm[o].state = "BODY_LOADED" /\ mm[o].dests = {}
    BY <1>2, <1>10, NothingAssumption DEF MayUnlink
  <2>2. \A g \in Dests[mm[o].path] : <<mm[o].path, g>> \in accepted
    BY <1>2, <2>1 DEF Marked
  <2>3. Dests[mm[o].path] # {}
    BY <1>3, <1>8 DEF MarkedHeap
  <2> QED
    BY <2>2, <2>3 DEF Served
<1>20. /\ out' = out \ Unlinked(mm, {o}) /\ Unlinked(mm, {o}) \subseteq out
       /\ UNCHANGED <<up, due, again>>
  BY <1>5 DEF Release
<1>21. DeletesServed
  BY <1>18, <1>19, <1>20 DEF DeletesServed
<1>22. Kept(nn, out', due, accepted)
  <2>1. Kept(m, out, due, accepted)
    BY DEF Sound
  <2>2. \A p \in Objects : nn[p] # NoMessage => m[p] # NoMessage /\ nn[p].path = m[p].path
    BY <1>16 DEF Follows
  <2> QED
    BY <1>21, <2>1, <2>2 DEF Kept, DeletesServed
<1>23. \A p \in Elements(q) : h \notin taken[p]
  <2>1. \A p \in Elements(q) : p \in QueueIn(sess, h) /\ p # o
    BY <1>4 DEF QueueIn, Open
  <2> QED
    BY <2>1 DEF Sound, TakenOnce, o, HeadOf
<1>24. out' \subseteq out
  BY <1>20
<1>25. IInv'
  BY <1>4, <1>5, <1>6, <1>14, <1>16, <1>17, <1>20, <1>22, <1>23, <1>24, TransferKeeps
<1> QED
  BY <1>21, <1>25

\* The head has been sent: it is marked, then dequeued.
LEMMA PayloadAcceptedKeeps ==
  ASSUME IInv, NEW m, Sound(m, sess, link), NEW h \in Hosts, Open(h), PayloadAccepted(h, m),
         UNCHANGED <<run, listed, accepted, taken>>
  PROVE  IInv' /\ DeletesServed
<1> DEFINE o == HeadOf(h)
           mm == [m EXCEPT ![o] = MarkedAsSent(m[o], h)]
<1>1. /\ sess[h] # NoSession /\ sess[h].state = "SENDING_DATA_PAYLOAD"
      /\ Taken250(sess, link, h)
  BY DEF PayloadAccepted, Got, Open, Taken250
<1>2. sess[h].queue # <<>>
  BY <1>1 DEF Sound, Talking, Transferring
<1>3. o \in Objects /\ m[o] \in Message
  BY <1>1, <1>2, QueuedAlive DEF Sound, HeadOf
<1>4. <<m[o].path, h>> \in accepted
  BY <1>1 DEF Sound, Replied, HeadOf
<1>5. Dequeue(h, mm)
  BY DEF PayloadAccepted
<1> HIDE DEF o
<1>6. /\ m \in [Objects -> Message \cup {NoMessage}]
      /\ mm[o] = [m[o] EXCEPT !.dests = @ \ {h}]
      /\ mm[o] \in Message
  <2>1. m \in [Objects -> Message \cup {NoMessage}]
    BY DEF Sound, HeapOK, Typed
  <2>2. [m[o] EXCEPT !.dests = @ \ {h}] \in Message
    BY <1>3 DEF Message
  <2> QED
    BY <1>3, <2>1, <2>2 DEF MarkedAsSent
<1>7. MarkedHeap(m, mm, o, h)
  BY <1>3, <1>6 DEF MarkedHeap, Message
<1> HIDE DEF mm
<1>8. Marked(mm, accepted)
  BY <1>3, <1>4, <1>7, NothingAssumption DEF Marked, MarkedHeap, Sound
<1> QED
  BY <1>2, <1>5, <1>7, <1>8, DequeueKeeps DEF o

\* The head could not be read: it is dequeued as it is.
LEMMA ResetAcceptedKeeps ==
  ASSUME IInv, NEW m, Sound(m, sess, link), NEW h \in Hosts, Open(h), ResetAccepted(h, m),
         UNCHANGED <<run, listed, accepted, taken>>
  PROVE  IInv' /\ DeletesServed
<1>1. sess[h] # NoSession /\ sess[h].state = "SENDING_RSET" /\ Dequeue(h, m)
  BY DEF ResetAccepted, Got, Open
<1>2. sess[h].queue # <<>>
  BY <1>1 DEF Sound, Talking, Transferring
<1>3. HeadOf(h) \in Objects /\ m[HeadOf(h)] \in Message
  BY <1>1, <1>2, QueuedAlive DEF Sound, HeadOf
<1>4. MarkedHeap(m, m, HeadOf(h), h) /\ Marked(m, accepted)
  BY <1>3 DEF MarkedHeap, Sound, HeapOK, Typed
<1> QED
  BY <1>1, <1>2, <1>4, DequeueKeeps

\* What replacing one session means.
LEMMA SessionReplaced ==
  ASSUME IInv, NEW h \in Hosts, Open(h), NEW s \in Session, sess' = [sess EXCEPT ![h] = s]
  PROVE  /\ sess' \in [Hosts -> Session \cup {NoSession}]
         /\ \A g \in Hosts \ {h} : sess'[g] = sess[g]
         /\ sess'[h] = s /\ sess'[h] # NoSession
BY NothingAssumption DEF IInv, TypeOK

\* The body has come, or never will.
LEMMA BodyLoadingDoneKeeps ==
  ASSUME IInv, NEW m, Sound(m, sess, link), NEW h \in Hosts, Open(h), BodyLoadingDone(h, m),
         sess[h].state \in {"SENDING_MAIL_OR_RCPT", "LOADING_MESSAGE_BODY"},
         UNCHANGED <<run, listed, accepted, taken>>
  PROVE  IInv' /\ out' = out
<1> DEFINE next == AfterBody(m[HeadOf(h)].state)
<1>1. /\ next \in {"SENDING_RSET", "SENDING_DATA", "CLOSED"}
      /\ next = "SENDING_DATA" => m[HeadOf(h)].state = "BODY_LOADED"
  BY DEF AfterBody
<1>2. next = "CLOSED" => Close(h, m)
  BY DEF BodyLoadingDone
<1>3. next # "CLOSED" => GoTo(h, next, m)
  BY DEF BodyLoadingDone
<1>4. sess[h].queue # <<>>
  BY DEF Sound, Talking, Open, Transferring
<1> HIDE DEF next
<1>5. CASE next = "CLOSED"
  BY <1>2, <1>5, CloseKeeps
<1>6. CASE next # "CLOSED"
  <2>1. next \in SessionStates /\ sess[h].state # "SENDING_DATA_PAYLOAD"
        /\ (next \in {"SENDING_DATA", "SENDING_DATA_PAYLOAD"} => m[HeadOf(h)].state = "BODY_LOADED")
    BY <1>1, <1>6 DEF SessionStates
  <2>2. IInv'
    BY <1>3, <1>4, <1>6, <2>1, GoToKeeps
  <2> QED
    BY <1>3, <1>6, <2>2 DEF GoTo, spool
<1> QED
  BY <1>5, <1>6

\* session_notify and what follows it, by the action that dispatch takes.
LEMMA SessionNotifyKeeps ==
  ASSUME IInv, NEW h \in Hosts, SessionNotify(h)
  PROVE  IInv' /\ DeletesServed
<1>1. PICK m \in HeadNotified(h) :
        \/ Resolve(h, m) \/ Connected(h, m) \/ OutOfAddresses(h, m)
        \/ Reap(h, m) \/ Wait(h, m) \/ ConnectionLost(h, m)
        \/ Greeted(h, m) \/ HeloAccepted(h, m)
        \/ NextRecipient(h, m) \/ RecipientsAccepted(h, m) \/ AwaitBody(h, m)
        \/ DataAccepted(h, m) \/ PayloadAccepted(h, m)
        \/ ResetAccepted(h, m) \/ QuitAccepted(h, m) \/ Unexpected(h, m)
  BY DEF SessionNotify, SessionActs
<1>2. Open(h) /\ UNCHANGED <<run, listed, accepted, taken>>
  BY DEF SessionNotify
<1>3. Sound(m, sess, link)
  BY <1>1, <1>2, HeadNotifiedKeeps
<1>4. sess[h] \in Session /\ link \in [Hosts -> Link]
  BY <1>2 DEF IInv, TypeOK, Open
<1>5. ASSUME Close(h, m) PROVE IInv' /\ DeletesServed
  BY <1>2, <1>3, <1>5, CloseKeeps DEF DeletesServed
<1>6. ASSUME NEW st \in {"RECEIVING_GREETING", "SENDING_HELO", "SENDING_QUIT"}, GoTo(h, st, m),
             sess[h].state # "SENDING_DATA_PAYLOAD"
      PROVE  IInv' /\ DeletesServed
  <2>1. st \in SessionStates /\ st \notin Transferring
        /\ st \notin {"SENDING_DATA", "SENDING_DATA_PAYLOAD"}
    BY DEF SessionStates, Transferring
  <2>2. IInv'
    BY <1>2, <1>3, <1>6, <2>1, GoToKeeps
  <2> QED
    BY <1>6, <2>2 DEF GoTo, spool, DeletesServed
<1>7. ASSUME msg' = m, UNCHANGED <<spool, sess, link>> PROVE IInv' /\ DeletesServed
  <2>1. IInv'
    BY <1>2, <1>3, <1>7, OnlyHeadNotified
  <2> QED
    BY <1>7, <2>1 DEF spool, DeletesServed
<1>8. CASE Resolve(h, m)
  <2>1. PICK st \in {"RESOLVING_DNS", "CONNECTING"} : sess' = [sess EXCEPT ![h].state = st]
    BY <1>8 DEF Resolve
  <2> DEFINE s == [sess[h] EXCEPT !.state = st]
  <2>2. s \in Session /\ s.queue = sess[h].queue /\ s.state = st
    BY <1>4 DEF Session, SessionStates
  <2>3. sess' = [sess EXCEPT ![h] = s]
    BY <2>1
  <2> HIDE DEF s
  <2>4. /\ sess' \in [Hosts -> Session \cup {NoSession}]
        /\ \A g \in Hosts \ {h} : sess'[g] = sess[g]
        /\ sess'[h] = s /\ sess'[h] # NoSession
    BY <1>2, <2>2, <2>3, SessionReplaced
  <2>5. msg' = m /\ UNCHANGED <<spool, link>> /\ sess[h].state # "SENDING_DATA_PAYLOAD"
    BY <1>8 DEF Resolve
  <2>6. /\ sess'[h].state \notin Transferring
        /\ sess'[h].state \notin {"SENDING_DATA", "SENDING_DATA_PAYLOAD"}
    BY <2>2, <2>4 DEF Transferring
  <2>7. IInv'
    BY <1>2, <1>3, <1>4, <2>2, <2>4, <2>5, <2>6, SessionGoesOn
  <2> QED
    BY <2>5, <2>7 DEF spool, DeletesServed
<1>9. CASE Connected(h, m)
  BY <1>6, <1>9 DEF Connected
<1>10. CASE OutOfAddresses(h, m) \/ Reap(h, m) \/ ConnectionLost(h, m)
            \/ QuitAccepted(h, m) \/ Unexpected(h, m)
  BY <1>5, <1>10 DEF OutOfAddresses, Reap, ConnectionLost, QuitAccepted, Unexpected
<1>11. CASE Wait(h, m)
  BY <1>7, <1>11 DEF Wait
<1>12. CASE Greeted(h, m)
  BY <1>6, <1>12 DEF Greeted, Got
<1>13. CASE HeloAccepted(h, m)
  <2>1. IInv'
    BY <1>2, <1>3, <1>13, HeloAcceptedKeeps
  <2> QED
    BY <1>13, <2>1 DEF HeloAccepted, spool, DeletesServed
<1>14. CASE NextRecipient(h, m)
  <2> DEFINE s == [sess[h] EXCEPT !.left = @ - 1]
  <2>1. /\ sess[h].state = "SENDING_MAIL_OR_RCPT" /\ sess[h].left > 0
        /\ sess' = [sess EXCEPT ![h] = s]
        /\ msg' = m /\ Request(h) /\ UNCHANGED spool
    BY <1>14 DEF NextRecipient, Got
  <2>2. s \in Session /\ s.queue = sess[h].queue /\ s.state = sess[h].state
    BY <1>4, <2>1 DEF Session
  <2> HIDE DEF s
  <2>3. /\ sess' \in [Hosts -> Session \cup {NoSession}]
        /\ \A g \in Hosts \ {h} : sess'[g] = sess[g]
        /\ sess'[h] = s /\ sess'[h] # NoSession
    BY <1>2, <2>1, <2>2, SessionReplaced
  <2>4. sess[h].queue # <<>>
    BY <1>2, <1>3, <2>1 DEF Sound, Talking, Open, Transferring
  <2>5. /\ link' \in [Hosts -> Link]
        /\ \A g \in Hosts \ {h} : link'[g] = link[g]
    BY <1>4, <2>1, RequestProperties
  <2>6. sess'[h].state = "SENDING_MAIL_OR_RCPT" /\ sess'[h].queue = sess[h].queue
    BY <2>1, <2>2, <2>3
  <2>7. IInv'
    BY <1>2, <1>3, <2>1, <2>3, <2>4, <2>5, <2>6, SessionGoesOn
  <2> QED
    BY <2>1, <2>7 DEF spool, DeletesServed
<1>15. CASE RecipientsAccepted(h, m)
  <2>1. sess[h].state = "SENDING_MAIL_OR_RCPT"
    BY <1>15 DEF RecipientsAccepted, Got
  <2>2. CASE m[HeadOf(h)].state = "LOADING_BODY"
    <3> DEFINE s == [sess[h] EXCEPT !.state = "LOADING_MESSAGE_BODY"]
    <3>1. /\ sess' = [sess EXCEPT ![h] = s]
          /\ link' = [link EXCEPT ![h] = Phase("idle")]
          /\ msg' = m /\ UNCHANGED spool
      BY <1>15, <2>2 DEF RecipientsAccepted
    <3>2. s \in Session /\ s.queue = sess[h].queue /\ s.state = "LOADING_MESSAGE_BODY"
      BY <1>4 DEF Session, SessionStates
    <3> HIDE DEF s
    <3>3. /\ sess' \in [Hosts -> Session \cup {NoSession}]
          /\ \A g \in Hosts \ {h} : sess'[g] = sess[g]
          /\ sess'[h] = s /\ sess'[h] # NoSession
      BY <1>2, <3>1, <3>2, SessionReplaced
    <3>4. sess[h].queue # <<>>
      BY <1>2, <1>3, <2>1 DEF Sound, Talking, Open, Transferring
    <3>5. /\ link' \in [Hosts -> Link]
          /\ \A g \in Hosts \ {h} : link'[g] = link[g]
      BY <1>4, <3>1 DEF Link, Phase
    <3>6. IInv'
      BY <1>2, <1>3, <2>1, <3>1, <3>2, <3>3, <3>4, <3>5, SessionGoesOn
    <3> QED
      BY <3>1, <3>6 DEF spool, DeletesServed
  <2>3. CASE m[HeadOf(h)].state # "LOADING_BODY"
    <3>1. BodyLoadingDone(h, m)
      BY <1>15, <2>3 DEF RecipientsAccepted
    <3> QED
      BY <1>2, <1>3, <2>1, <3>1, BodyLoadingDoneKeeps DEF DeletesServed
  <2> QED
    BY <2>2, <2>3
<1>16. CASE AwaitBody(h, m)
  <2>1. CASE m[HeadOf(h)].state = "LOADING_BODY"
    BY <1>7, <1>16, <2>1 DEF AwaitBody
  <2>2. CASE m[HeadOf(h)].state # "LOADING_BODY"
    <3>1. BodyLoadingDone(h, m) /\ sess[h].state = "LOADING_MESSAGE_BODY"
      BY <1>16, <2>2 DEF AwaitBody
    <3> QED
      BY <1>2, <1>3, <3>1, BodyLoadingDoneKeeps DEF DeletesServed
  <2> QED
    BY <2>1, <2>2
<1>17. CASE DataAccepted(h, m)
  <2>1. /\ sess[h].state = "SENDING_DATA" /\ GoTo(h, "SENDING_DATA_PAYLOAD", m)
        /\ "SENDING_DATA_PAYLOAD" \in SessionStates
    BY <1>17 DEF DataAccepted, Got, SessionStates
  <2>2. sess[h].queue # <<>> /\ m[HeadOf(h)].state = "BODY_LOADED"
    BY <1>2, <1>3, <2>1 DEF Sound, Talking, Open, Transferring, HeadOf
  <2>3. IInv'
    BY <1>2, <1>3, <2>1, <2>2, GoToKeeps
  <2> QED
    BY <2>1, <2>3 DEF GoTo, spool, DeletesServed
<1>18. CASE PayloadAccepted(h, m)
  BY <1>2, <1>3, <1>18, PayloadAcceptedKeeps
<1>19. CASE ResetAccepted(h, m)
  BY <1>2, <1>3, <1>19, ResetAcceptedKeeps
<1> QED
  BY <1>1, <1>8, <1>9, <1>10, <1>11, <1>12, <1>13, <1>14, <1>15, <1>16, <1>17, <1>18, <1>19

-----------------------------------------------------------------------------
(* The list of messages. *)

\* A new name becomes a message on the list.
LEMMA DiscoverKeeps ==
  ASSUME IInv, NEW f \in Files, Discover(f)
  PROVE  IInv'
<1>1. PICK o \in Objects : /\ ~Alive(o)
                           /\ msg' = [msg EXCEPT ![o] = Created(f)]
                           /\ listed' = listed \cup {o}
                           /\ taken' = [taken EXCEPT ![o] = {}]
  BY DEF Discover
<1>2. /\ UNCHANGED <<run, sess, link, accepted, out, up>>
      /\ f \in due /\ due' \subseteq due
      /\ again' \subseteq due' /\ due' \subseteq Files
  <2>1. /\ UNCHANGED <<run, sess, link, accepted, out, up>>
        /\ f \in due /\ again' = again \ {f}
        /\ due' = IF f \in again THEN due ELSE due \ {f}
    BY DEF Discover, Spool!Discover, Spool!Report
  <2>2. due \subseteq Files /\ again \subseteq due
    BY DEF IInv, TypeOK, Spool!SpoolTypeOK
  <2> QED
    BY <2>1, <2>2
<1>3. Created(f) \in Message /\ Created(f) # NoMessage
  <2>1. Created(f) \in Message
    BY DEF Created, Message, MessageStates
  <2> QED
    BY <2>1, NothingAssumption
<1>4. /\ msg' \in [Objects -> Message \cup {NoMessage}]
      /\ taken' \in [Objects -> SUBSET Hosts]
      /\ msg'[o] = Created(f) /\ taken'[o] = {}
      /\ \A p \in Objects \ {o} : msg'[p] = msg[p] /\ taken'[p] = taken[p]
  BY <1>1, <1>3 DEF IInv, TypeOK
<1>5. o \notin listed /\ HoldersIn(sess, o) = {}
  BY <1>1 DEF Alive, IInv, Sound, HeapOK, Counted
<1>6. \A h \in Hosts : \A p \in QueueIn(sess, h) : p \in Objects \ {o} /\ p \notin listed'
  BY <1>1, <1>5, QueuedAlive DEF HoldersIn, IInv, Sound
<1>7. HeapOK(msg', sess, listed')
  <2>1. Typed(msg', sess, listed')
    BY <1>1, <1>4 DEF IInv, TypeOK, Typed
  <2>2. Counted(msg', sess, listed')
    <3>1. Created(f).ref = 1
      BY DEF Created
    <3>2. Cardinality(HoldersIn(sess, o)) = 0
      BY <1>5, HoldersFinite
    <3>3. Counted(msg, sess, listed)
      BY DEF IInv, Sound, HeapOK
    <3>4. ASSUME NEW p \in Objects \ {o}
          PROVE  msg'[p] = msg[p] /\ (p \in listed' <=> p \in listed)
      BY <1>1, <1>4
    <3>5. msg'[o] # NoMessage /\ msg'[o].ref = 1 /\ o \in listed'
      BY <1>1, <1>3, <1>4, <3>1
    <3> QED
      BY <1>5, <3>2, <3>3, <3>4, <3>5 DEF Counted
  <2>3. Fit(msg', sess, listed')
    <3>1. \A p \in listed' : /\ HoldersIn(sess, p) = {}
                             /\ msg'[p].state \in {"LOADING_HEADERS", "LOADING_FAILED"}
      BY <1>1, <1>4, <1>5 DEF Created, IInv, TypeOK, Sound, HeapOK, Fit
    <3>2. \A h \in Hosts : \A p \in QueueIn(sess, h) :
            h \in msg'[p].dests /\ msg'[p].state # "LOADING_HEADERS"
      BY <1>4, <1>6 DEF IInv, Sound, HeapOK, Fit
    <3>3. ASSUME NEW p \in Objects, msg'[p] # NoMessage
          PROVE  /\ msg'[p].dests \subseteq Dests[msg'[p].path]
                 /\ msg'[p].open => msg'[p].state \in Loading
      BY <1>4, <3>3 DEF Created, IInv, Sound, HeapOK, Fit
    <3> QED
      BY <3>1, <3>2, <3>3 DEF Fit
  <2> QED
    BY <2>1, <2>2, <2>3 DEF HeapOK, IInv, Sound
<1>8. Talking(msg', sess)
  <2>1. ASSUME NEW h \in Hosts, sess[h] # NoSession, sess[h].queue # <<>>
        PROVE  msg'[Head(sess[h].queue)] = msg[Head(sess[h].queue)]
    BY <1>4, <1>6, <2>1, QueuedAlive DEF IInv, Sound
  <2> QED
    BY <2>1 DEF IInv, Sound, Talking, Transferring
<1>9. Replied(msg', sess, link, accepted)
  <2>1. ASSUME NEW h \in Hosts, sess[h] # NoSession, Taken250(sess, link, h)
        PROVE  msg'[Head(sess[h].queue)] = msg[Head(sess[h].queue)]
    BY <1>4, <1>6, <2>1, QueuedAlive DEF IInv, Sound, Talking, Taken250, Transferring
  <2> QED
    BY <2>1 DEF IInv, Sound, Replied
<1>10. Marked(msg', accepted)
  BY <1>4 DEF Created, IInv, Sound, Marked
<1>11. Kept(msg', out, due', accepted)
  BY <1>2, <1>4 DEF Created, IInv, Sound, Kept
<1>12. TakenOnce(sess, listed', link, taken')
  <2>1. \A p \in listed' : taken'[p] = {}
    BY <1>1, <1>4 DEF IInv, TypeOK, Sound, TakenOnce
  <2>2. \A h \in Hosts : \A p \in QueueIn(sess, h) : taken'[p] = taken[p]
    BY <1>4, <1>6
  <2> QED
    BY <2>1, <2>2 DEF IInv, Sound, TakenOnce
<1>13. Sound(msg, sess, link)'
  BY <1>2, <1>7, <1>8, <1>9, <1>10, <1>11, <1>12 DEF Sound
<1>14. TypeOK'
  BY <1>1, <1>2, <1>4 DEF IInv, TypeOK, Spool!SpoolTypeOK
<1> QED
  BY <1>13, <1>14 DEF IInv

\* The file of a message that is being loaded is opened, or cannot be.
LEMMA MessageSubscribeKeeps ==
  ASSUME IInv, NEW o \in Objects, MessageSubscribe(o)
  PROVE  IInv'
<1>1. msg[o] \in Message
  <2>1. CASE o \in listed
    BY <2>1 DEF IInv, TypeOK, Sound, HeapOK, Counted
  <2>2. CASE \E h \in Hosts : Busy(h) /\ o = HeadOf(h)
    BY <2>2, QueuedAlive DEF IInv, Sound, Busy, Open, HeadOf
  <2> QED
    BY <2>1, <2>2 DEF MessageSubscribe
<1>2. /\ msg[o].state \in Loading /\ ~msg[o].open
      /\ \/ msg' = [msg EXCEPT ![o] = [msg[o] EXCEPT !.open = TRUE]]
         \/ msg' = [msg EXCEPT ![o] = [msg[o] EXCEPT !.state = "LOADING_FAILED"]]
      /\ UNCHANGED <<spool, run, listed, sess, link, accepted, taken>>
  BY DEF MessageSubscribe
<1>3. PICK n \in {[msg[o] EXCEPT !.open = TRUE], [msg[o] EXCEPT !.state = "LOADING_FAILED"]} :
        msg' = [msg EXCEPT ![o] = n]
  BY <1>2
<1>4. n \in Message /\ Later(msg[o], n)
  BY <1>1, <1>2 DEF Message, MessageStates, Loading, Later
<1>5. LaterHeap(msg, msg')
  <2>1. msg \in [Objects -> Message \cup {NoMessage}]
    BY DEF IInv, TypeOK
  <2> QED
    BY <1>3, <1>4, <2>1 DEF LaterHeap, Later
<1>6. /\ HeapOK(msg', sess, listed) /\ Talking(msg', sess)
      /\ Marked(msg', accepted) /\ Replied(msg', sess, link, accepted)
      /\ Kept(msg', out, due, accepted) /\ TakenOnce(sess, listed, link, taken)
  BY <1>5, LaterKeeps DEF IInv, Sound
<1>7. Sound(msg, sess, link)'
  BY <1>2, <1>6 DEF Sound, spool
<1>8. TypeOK'
  BY <1>2, <1>6 DEF IInv, TypeOK, HeapOK, Typed, spool, Spool!SpoolTypeOK
<1> QED
  BY <1>7, <1>8 DEF IInv

\* client_notify drops a message whose headers cannot be read.
LEMMA DropKeeps ==
  ASSUME IInv, NEW o \in listed, NEW m \in Notified(msg[o]), Drop(o, m),
         UNCHANGED <<spool, run, link, accepted, taken>>
  PROVE  IInv'
<1>1. /\ o \in Objects /\ msg[o] \in Message
      /\ HoldersIn(sess, o) = {}
      /\ msg[o].ref = 1
  <2>1. o \in Objects /\ msg[o] \in Message
    BY DEF IInv, TypeOK, Sound, HeapOK, Counted
  <2>2. HoldersIn(sess, o) = {}
    BY DEF IInv, Sound, HeapOK, Fit
  <2>3. Cardinality(HoldersIn(sess, o)) = 0
    BY <2>2, HoldersFinite
  <2>4. msg[o].ref = Cardinality(HoldersIn(sess, o)) + 1
    BY <2>1, NothingAssumption DEF IInv, Sound, HeapOK, Counted
  <2> QED
    BY <2>1, <2>2, <2>3, <2>4
<1>2. m.ref = 1
  BY <1>1 DEF Notified, Failed, Message
<1>3. /\ msg' \in [Objects -> Message \cup {NoMessage}]
      /\ msg'[o] = NoMessage
      /\ \A p \in Objects \ {o} : msg'[p] = msg[p]
  <2>1. msg \in [Objects -> Message \cup {NoMessage}]
    BY DEF IInv, TypeOK
  <2>2. msg' = [p \in Objects |-> IF p \notin {o} THEN msg[p] ELSE NoMessage]
    BY <1>1, <1>2, <2>1 DEF Drop, Released
  <2> QED
    BY <1>1, <2>1, <2>2
<1>4. listed' = listed \ {o} /\ sess' = sess
  BY DEF Drop
<1>5. HeapOK(msg', sess, listed')
  <2>1. Typed(msg', sess, listed')
    BY <1>3, <1>4 DEF IInv, TypeOK, Typed
  <2>2. Counted(msg', sess, listed')
    BY <1>1, <1>3, <1>4 DEF IInv, Sound, HeapOK, Counted
  <2>3. Fit(msg', sess, listed')
    <3>1. \A h \in Hosts : \A p \in QueueIn(sess, h) : p \in Objects \ {o}
      BY <1>1, QueuedAlive DEF HoldersIn, IInv, Sound
    <3>2. \A p \in listed' : p \in Objects \ {o}
      BY <1>4 DEF IInv, TypeOK
    <3> QED
      BY <1>3, <1>4, <3>1, <3>2 DEF IInv, Sound, HeapOK, Fit
  <2> QED
    BY <2>1, <2>2, <2>3 DEF HeapOK, IInv, Sound
<1>6. ASSUME NEW h \in Hosts, sess[h] # NoSession, sess[h].queue # <<>>
      PROVE  msg'[Head(sess[h].queue)] = msg[Head(sess[h].queue)]
  <2>1. Head(sess[h].queue) \in Objects \ {o}
    BY <1>1, <1>6, QueuedAlive DEF HoldersIn, IInv, Sound
  <2> QED
    BY <1>3, <2>1
<1>7. Talking(msg', sess)
  BY <1>6 DEF IInv, Sound, Talking, Transferring
<1>8. Replied(msg', sess, link, accepted)
  BY <1>6 DEF IInv, Sound, Talking, Replied, Taken250, Transferring
<1>9. Marked(msg', accepted) /\ Kept(msg', out, due, accepted)
  BY <1>3 DEF IInv, Sound, Marked, Kept
<1>10. TakenOnce(sess, listed', link, taken)
  BY <1>4 DEF IInv, Sound, TakenOnce
<1>11. Sound(msg, sess, link)'
  BY <1>4, <1>5, <1>7, <1>8, <1>9, <1>10 DEF Sound, spool
<1>12. TypeOK'
  BY <1>4, <1>5 DEF IInv, TypeOK, HeapOK, Typed, spool, Spool!SpoolTypeOK
<1> QED
  BY <1>11, <1>12 DEF IInv

\* The sessions after client_notify has given the message o to those of its
\* destinations ds, as they are computed and as they turn out to be.
Given(ss, o, ds, failed) == ss = Enqueued(WithSessions(ds, failed), ds, o)

Shares(ss, o, ds) ==
  /\ ss \in [Hosts -> Session \cup {NoSession}]
  /\ QueuedOnce(ss)
  /\ \A h \in Hosts \ ds : ss[h] = sess[h]
  /\ \A h \in ds :
       /\ ss[h] # NoSession
       /\ QueueIn(ss, h) = QueueIn(sess, h) \cup {o}
       /\ ss[h].queue # <<>>
       /\ IF Open(h)
          THEN /\ ss[h].state = sess[h].state
               /\ sess[h].queue # <<>> => Head(ss[h].queue) = Head(sess[h].queue)
          ELSE ss[h].state \in {"CLOSED", "RESOLVING_DNS"}

\* Each session of a destination has the message as the last of its queue.
LEMMA SessionsGiven ==
  ASSUME sess \in [Hosts -> Session \cup {NoSession}], QueuedOnce(sess),
         NEW o \in Objects, HoldersIn(sess, o) = {},
         NEW ds \in SUBSET Hosts, NEW failed,
         NEW ss, Given(ss, o, ds, failed)
  PROVE  Shares(ss, o, ds)
<1> DEFINE b(h) == IF Open(h) THEN sess[h] ELSE NewSession(h \in failed)
<1>1. ASSUME NEW h \in ds
      PROVE  /\ b(h) \in Session
             /\ QueueIn(sess, h) = Elements(b(h).queue)
             /\ o \notin Elements(b(h).queue)
             /\ Distinct(b(h).queue)
             /\ Open(h) => b(h) = sess[h]
             /\ ~Open(h) => b(h).state \in {"CLOSED", "RESOLVING_DNS"}
  <2>1. CASE Open(h)
    BY <2>1 DEF Open, QueueIn, HoldersIn, QueuedOnce
  <2>2. CASE ~Open(h)
    <3> DEFINE s == NewSession(h \in failed)
    <3>1. \E st \in {"CLOSED", "RESOLVING_DNS"} :
            s = [state |-> st, queue |-> <<>>, left |-> 0]
      BY DEF NewSession
    <3> HIDE DEF s
    <3>2. <<>> \in Seq(Objects) /\ Elements(<<>>) = {} /\ Distinct(<<>>)
      BY EmptySeq DEF Elements, Distinct
    <3>3. PICK st \in {"CLOSED", "RESOLVING_DNS"} :
            s = [state |-> st, queue |-> <<>>, left |-> 0]
      BY <3>1
    <3>4. s \in Session /\ s.queue = <<>> /\ s.state = st
      BY <3>2, <3>3 DEF Session, SessionStates
    <3>5. b(h) = s
      BY <2>2 DEF s
    <3>6. QueueIn(sess, h) = {}
      BY <2>2 DEF Open, QueueIn
    <3> QED
      BY <2>2, <3>2, <3>3, <3>5, <3>6, <3>4
  <2> QED
    BY <2>1, <2>2
<1>2. \A h \in ds : WithSessions(ds, failed)[h] = b(h)
  BY DEF WithSessions
<1>3. \A h \in Hosts \ ds : ss[h] = sess[h]
  BY DEF Given, Enqueued, WithSessions
<1>4. \A h \in ds : ss[h] = [b(h) EXCEPT !.queue = Append(b(h).queue, o)]
  BY <1>2 DEF Given, Enqueued
<1> HIDE DEF b
<1>5. ASSUME NEW h \in ds
      PROVE  /\ ss[h] \in Session /\ ss[h] # NoSession
             /\ ss[h].state = b(h).state
             /\ QueueIn(ss, h) = QueueIn(sess, h) \cup {o}
             /\ ss[h].queue # <<>> /\ Distinct(ss[h].queue)
             /\ b(h).queue # <<>> => Head(ss[h].queue) = Head(b(h).queue)
  <2> DEFINE q == b(h).queue
             r == Append(q, o)
  <2>1. q \in Seq(Objects) /\ o \notin Elements(q) /\ Distinct(q)
    BY <1>1 DEF Session
  <2>2. /\ r \in Seq(Objects) /\ Elements(r) = Elements(q) \cup {o}
        /\ Distinct(r) /\ r # <<>> /\ (q # <<>> => Head(r) = Head(q))
    BY <2>1, AppendElements
  <2>3. QueueIn(sess, h) = Elements(q)
    BY <1>1
  <2>4. ss[h] = [b(h) EXCEPT !.queue = r]
    BY <1>4
  <2> HIDE DEF r
  <2>5. /\ ss[h] \in Session
        /\ ss[h].queue = r /\ ss[h].state = b(h).state
    BY <1>1, <2>2, <2>4 DEF Session
  <2>6. ss[h] # NoSession
    BY <2>5, NothingAssumption
  <2> QED
    BY <2>2, <2>3, <2>5, <2>6 DEF QueueIn
<1>6. ss \in [Hosts -> Session \cup {NoSession}]
  <2>1. ss = [h \in Hosts |-> ss[h]]
    BY DEF Given, Enqueued
  <2>2. \A h \in Hosts : ss[h] \in Session \cup {NoSession}
    BY <1>3, <1>5
  <2> QED
    BY <2>1, <2>2
<1>7. QueuedOnce(ss)
  BY <1>3, <1>5 DEF QueuedOnce
<1> QED
  BY <1>1, <1>3, <1>5, <1>6, <1>7 DEF Shares

\* client_notify gives a message whose headers have come to the sessions.
LEMMA DistributeKeeps ==
  ASSUME IInv, NEW o \in listed, NEW m \in Notified(msg[o]), Distribute(o, m),
         UNCHANGED <<spool, run, link, accepted, taken>>
  PROVE  IInv'
<1> DEFINE ds == m.dests
<1>1. /\ o \in Objects /\ msg[o] \in Message
      /\ HoldersIn(sess, o) = {} /\ taken[o] = {}
      /\ msg[o].ref = 1
      /\ msg[o].state \in {"LOADING_HEADERS", "LOADING_FAILED"}
  <2>1. o \in Objects /\ msg[o] \in Message
    BY DEF IInv, TypeOK, Sound, HeapOK, Counted
  <2>2. /\ HoldersIn(sess, o) = {} /\ taken[o] = {}
        /\ msg[o].state \in {"LOADING_HEADERS", "LOADING_FAILED"}
    BY DEF IInv, Sound, HeapOK, Fit, TakenOnce
  <2>3. Cardinality(HoldersIn(sess, o)) = 0
    BY <2>2, HoldersFinite
  <2>4. msg[o].ref = Cardinality(HoldersIn(sess, o)) + 1
    BY <2>1, NothingAssumption DEF IInv, Sound, HeapOK, Counted
  <2> QED
    BY <2>1, <2>2, <2>3, <2>4
<1>2. /\ m \in Message /\ m.state = "HEADERS_LOADED" /\ ~m.open
      /\ m.ref = 1 /\ m.path = msg[o].path
      /\ ds = Dests[m.path] /\ ds \in SUBSET Hosts
  <2>1. m.state = "HEADERS_LOADED"
    BY DEF Distribute
  <2>2. m = [msg[o] EXCEPT !.state = "HEADERS_LOADED", !.open = FALSE,
                           !.dests = Dests[msg[o].path]]
    <3> DEFINE x == msg[o]
    <3>1. x \in Message /\ x.state # "HEADERS_LOADED" /\ m \in Notified(x)
      BY <1>1
    <3> HIDE DEF x
    <3>2. m # x /\ m # Failed(x)
      BY <2>1, <3>1 DEF Failed, Message
    <3>3. m # [x EXCEPT !.state = "BODY_LOADED", !.open = FALSE]
      BY <2>1, <3>1 DEF Message
    <3>4. m = [x EXCEPT !.state = "HEADERS_LOADED", !.open = FALSE, !.dests = Dests[x.path]]
      BY <3>1, <3>2, <3>3 DEF Notified
    <3> QED
      BY <3>4 DEF x
  <2>3. Dests[msg[o].path] \in SUBSET Hosts
    BY <1>1, ClientAssumption DEF Message
  <2> QED
    BY <1>1, <2>2, <2>3 DEF Message, MessageStates
<1>3. IsFiniteSet(ds) /\ Cardinality(ds) \in Nat /\ (Cardinality(ds) = 0 <=> ds = {})
  <2>1. IsFiniteSet(ds)
    BY <1>2, ClientAssumption, FS_Subset
  <2> QED
    BY <2>1, FS_CardinalityType, FS_EmptySet
<1>4. PICK failed : Given(sess', o, ds, failed)
  BY DEF Distribute, Given
<1>5. listed' = listed \ {o}
  BY DEF Distribute
<1>6. /\ msg' \in [Objects -> Message \cup {NoMessage}]
      /\ \A p \in Objects \ {o} : msg'[p] = msg[p]
      /\ ds = {} => msg'[o] = NoMessage
      /\ ds # {} => msg'[o] = [m EXCEPT !.ref = Cardinality(ds)]
  <2>1. msg \in [Objects -> Message \cup {NoMessage}]
    BY DEF IInv, TypeOK
  <2> DEFINE n == [m EXCEPT !.ref = 1 + Cardinality(ds)]
             mm == [msg EXCEPT ![o] = n]
  <2>2. Shared(m) = n
    BY <1>2 DEF Shared
  <2>3. msg' = Released(mm, {o})
    BY <2>2 DEF Distribute
  <2>4. n \in Message /\ n.ref = 1 + Cardinality(ds)
    BY <1>2, <1>3 DEF Message
  <2> DEFINE r == [n EXCEPT !.ref = @ - 1]
  <2>5. r = [m EXCEPT !.ref = Cardinality(ds)] /\ r \in Message
    <3> DEFINE c == Cardinality(ds)
    <3>1. c \in Nat /\ (1 + c) - 1 = c
      BY <1>3
    <3> HIDE DEF c
    <3>2. n = [m EXCEPT !.ref = 1 + c]
      BY DEF c
    <3>3. m \in Message
      BY <1>2
    <3> HIDE DEF n, ds
    <3>4. n.ref = 1 + c
      BY <3>2, <3>3 DEF Message
    <3>5. r = [m EXCEPT !.ref = (1 + c) - 1]
      BY <3>2, <3>3, <3>4 DEF Message
    <3>6. r = [m EXCEPT !.ref = c]
      BY <3>1, <3>5
    <3>7. r \in Message
      BY <3>1, <3>3, <3>6 DEF Message
    <3> QED
      BY <3>6, <3>7 DEF c
  <2> HIDE DEF n
  <2>6. mm[o] = n /\ \A p \in Objects \ {o} : mm[p] = msg[p]
    BY <1>1, <2>1
  <2> HIDE DEF mm
  <2>7. \A p \in Objects \ {o} : msg'[p] = msg[p]
    BY <2>3, <2>6 DEF Released
  <2>8. msg'[o] = IF n.ref > 1 THEN r ELSE NoMessage
    BY <1>1, <2>3, <2>6 DEF Released
  <2>9. n.ref > 1 <=> ds # {}
    BY <1>3, <2>4
  <2>10. msg' = [p \in Objects |-> msg'[p]]
    BY <2>3 DEF Released
  <2>11. \A p \in Objects : msg'[p] \in Message \cup {NoMessage}
    BY <2>1, <2>5, <2>7, <2>8
  <2>12. msg' \in [Objects -> Message \cup {NoMessage}]
    BY <2>10, <2>11
  <2> QED
    BY <2>5, <2>7, <2>8, <2>9, <2>12
<1> HIDE DEF ds
<1>7. /\ sess' \in [Hosts -> Session \cup {NoSession}]
      /\ QueuedOnce(sess')
      /\ \A h \in Hosts \ ds : sess'[h] = sess[h]
      /\ \A h \in ds :
           /\ sess'[h] # NoSession
           /\ QueueIn(sess', h) = QueueIn(sess, h) \cup {o}
           /\ sess'[h].queue # <<>>
           /\ IF Open(h)
              THEN /\ sess'[h].state = sess[h].state
                   /\ sess[h].queue # <<>> => Head(sess'[h].queue) = Head(sess[h].queue)
              ELSE sess'[h].state \in {"CLOSED", "RESOLVING_DNS"}
  <2>1. sess \in [Hosts -> Session \cup {NoSession}] /\ QueuedOnce(sess)
    BY DEF IInv, TypeOK, Sound, HeapOK
  <2>2. Shares(sess', o, ds)
    BY <1>1, <1>2, <1>4, <2>1, SessionsGiven
  <2> QED
    BY <2>2 DEF Shares
<1>8. \A h \in Hosts : QueueIn(sess', h) = IF h \in ds THEN QueueIn(sess, h) \cup {o}
                                                       ELSE QueueIn(sess, h)
  BY <1>7 DEF QueueIn
<1>9. /\ HoldersIn(sess', o) = ds
      /\ \A p \in Objects \ {o} : HoldersIn(sess', p) = HoldersIn(sess, p)
  BY <1>1, <1>2, <1>8 DEF HoldersIn
<1>10. \A h \in Hosts : \A p \in QueueIn(sess, h) : p \in Objects \ {o} /\ msg'[p] = msg[p]
  BY <1>1, <1>6, QueuedAlive DEF HoldersIn, IInv, Sound
<1>11. msg'[o] # NoMessage =>
         /\ ds # {} /\ msg'[o].ref = Cardinality(ds)
         /\ msg'[o].state = "HEADERS_LOADED" /\ ~msg'[o].open
         /\ msg'[o].path = msg[o].path /\ msg'[o].dests = ds
         /\ ds = Dests[msg[o].path]
  BY <1>2, <1>6 DEF Message, ds
<1>12. ds # {} => msg'[o] # NoMessage
  <2>1. Cardinality(ds) \in Nat => [m EXCEPT !.ref = Cardinality(ds)] \in Message
    BY <1>2 DEF Message
  <2> QED
    BY <1>3, <1>6, <2>1, NothingAssumption DEF ds
<1>13. HeapOK(msg', sess', listed')
  <2>1. Typed(msg', sess', listed')
    BY <1>5, <1>6, <1>7 DEF IInv, TypeOK, Typed
  <2>2. Counted(msg', sess', listed')
    BY <1>1, <1>3, <1>5, <1>6, <1>9, <1>11, <1>12 DEF IInv, Sound, HeapOK, Counted, ds
  <2>3. Fit(msg', sess', listed')
    <3>1. \A p \in listed' : /\ HoldersIn(sess', p) = {}
                             /\ msg'[p].state \in {"LOADING_HEADERS", "LOADING_FAILED"}
      <4>1. \A p \in listed' : p \in listed /\ p \in Objects \ {o}
        BY <1>5 DEF IInv, TypeOK
      <4> QED
        BY <1>6, <1>9, <4>1 DEF IInv, Sound, HeapOK, Fit
    <3>2. ASSUME NEW h \in Hosts, NEW p \in QueueIn(sess', h)
          PROVE  h \in msg'[p].dests /\ msg'[p].state # "LOADING_HEADERS"
      <4>1. CASE p \in QueueIn(sess, h)
        BY <1>10, <4>1 DEF IInv, Sound, HeapOK, Fit
      <4>2. CASE p \notin QueueIn(sess, h)
        BY <1>8, <1>11, <1>12, <4>2
      <4> QED
        BY <4>1, <4>2
    <3>3. ASSUME NEW p \in Objects, msg'[p] # NoMessage
          PROVE  /\ msg'[p].dests \subseteq Dests[msg'[p].path]
                 /\ msg'[p].open => msg'[p].state \in Loading
      BY <1>6, <1>11, <3>3 DEF IInv, Sound, HeapOK, Fit
    <3> QED
      BY <3>1, <3>2, <3>3 DEF Fit
  <2> QED
    BY <1>7, <2>1, <2>2, <2>3 DEF HeapOK
<1>14. ASSUME NEW h \in Hosts, sess'[h] # NoSession, sess'[h].state \in Transferring
       PROVE  /\ Open(h) /\ sess[h].state = sess'[h].state
              /\ sess[h].queue # <<>> /\ sess'[h].queue # <<>>
              /\ Head(sess'[h].queue) = Head(sess[h].queue)
              /\ Head(sess[h].queue) \in QueueIn(sess, h)
  <2>1. Open(h) /\ sess[h].state = sess'[h].state
    BY <1>7, <1>14 DEF Open, Transferring
  <2>2. sess[h].queue # <<>>
    BY <1>14, <2>1 DEF IInv, Sound, Talking, Open
  <2>3. Head(sess[h].queue) \in QueueIn(sess, h)
    BY <2>1, <2>2, QueuedAlive DEF IInv, Sound, Open
  <2> QED
    BY <1>7, <2>1, <2>2, <2>3
<1>15. Talking(msg', sess')
  BY <1>10, <1>14 DEF IInv, Sound, Talking, Open, Transferring
<1>16. Replied(msg', sess', link, accepted)
  BY <1>10, <1>14 DEF IInv, Sound, Replied, Taken250, Open, Transferring
<1>17. Marked(msg', accepted)
  BY <1>6, <1>11 DEF IInv, Sound, Marked
<1>18. Kept(msg', out, due, accepted)
  BY <1>1, <1>6, <1>11, NothingAssumption DEF IInv, Sound, Kept
<1>19. TakenOnce(sess', listed', link, taken)
  <2>1. \A p \in listed' : taken[p] = {}
    BY <1>5 DEF IInv, Sound, TakenOnce
  <2>2. ASSUME NEW h \in Hosts, NEW p \in QueueIn(sess', h), h \in taken[p]
        PROVE  /\ p = Head(sess'[h].queue)
               /\ sess'[h].state = "SENDING_DATA_PAYLOAD"
               /\ link[h].phase = "lost" \/ Taken250(sess', link, h)
    <3>1. p \in QueueIn(sess, h)
      BY <1>1, <1>8, <2>2
    <3>2. /\ p = Head(sess[h].queue) /\ Open(h)
          /\ sess[h].state = "SENDING_DATA_PAYLOAD"
          /\ link[h].phase = "lost" \/ Taken250(sess, link, h)
      BY <2>2, <3>1 DEF IInv, Sound, TakenOnce, QueueIn, Open
    <3>3. sess'[h] # NoSession /\ sess'[h].state = "SENDING_DATA_PAYLOAD"
      BY <1>7, <3>2 DEF Open
    <3> QED
      BY <1>14, <3>2, <3>3 DEF Taken250, Transferring
  <2> QED
    BY <2>1, <2>2 DEF TakenOnce
<1>20. Sound(msg, sess, link)'
  BY <1>13, <1>15, <1>16, <1>17, <1>18, <1>19 DEF Sound, spool
<1>21. TypeOK'
  BY <1>13 DEF IInv, TypeOK, HeapOK, Typed, spool, Spool!SpoolTypeOK
<1> QED
  BY <1>20, <1>21 DEF IInv

\* client_notify's loop over the messages of the list.
LEMMA MessageNotifyKeeps ==
  ASSUME IInv, NEW o \in Objects, MessageNotify(o)
  PROVE  IInv'
<1>1. PICK m \in Notified(msg[o]) : Distribute(o, m) \/ Drop(o, m)
  BY DEF MessageNotify
<1>2. o \in listed /\ UNCHANGED <<spool, run, link, accepted, taken>>
  BY DEF MessageNotify
<1> QED
  BY <1>1, <1>2, DistributeKeeps, DropKeeps

-----------------------------------------------------------------------------
(* The servers and the process. *)

\* A payload in flight is the head of its queue.
LEMMA InFlightHead ==
  ASSUME IInv, NEW h \in Hosts, InFlight(h)
  PROVE  /\ HeadOf(h) \in Objects /\ HeadOf(h) \notin listed
         /\ msg[HeadOf(h)] \in Message /\ msg[HeadOf(h)] # NoMessage
         /\ h \in Dests[msg[HeadOf(h)].path]
<1>1. /\ HeadOf(h) \in QueueIn(sess, h)
      /\ \A o \in QueueIn(sess, h) : o \in Objects /\ o \notin listed /\ msg[o] \in Message
  BY QueuedAlive DEF IInv, Sound, InFlight, Busy, Open, HeadOf
<1> QED
  BY <1>1, NothingAssumption DEF IInv, Sound, HeapOK, Fit

\* Servers take files for hosts.
LEMMA CopiesTyped ==
  ASSUME IInv, NEW hs \in SUBSET {h \in Hosts : InFlight(h)}
  PROVE  Copies(hs) \subseteq Files \X Hosts
BY InFlightHead DEF Copies, Message

\* What servers accept takes nothing away from what had been accepted.
LEMMA AcceptedGrows ==
  ASSUME NEW mm, NEW ss, NEW lk, NEW fs, NEW ds, NEW acc, NEW bcc, acc \subseteq bcc
  PROVE  /\ Marked(mm, acc) => Marked(mm, bcc)
         /\ Replied(mm, ss, lk, acc) => Replied(mm, ss, lk, bcc)
         /\ Kept(mm, fs, ds, acc) => Kept(mm, fs, ds, bcc)
BY DEF Marked, Replied, Kept, Served

\* h's server replies, or the connection goes, with the payload taken or not.
LEMMA ServerKeeps ==
  ASSUME IInv, NEW h \in Hosts, sess[h] # NoSession,
         NEW hs \in SUBSET {x \in {h} : InFlight(x)}, Take(hs),
         NEW l \in Link, link' = [link EXCEPT ![h] = l],
         l.phase = "lost" \/ (l.phase = "answered" /\ link[h].phase = "asked"),
         sess[h].state = "SENDING_DATA_PAYLOAD" /\ l = [phase |-> "answered", code |-> 250]
           => hs = {h},
         hs # {} /\ l.phase # "lost" => l = [phase |-> "answered", code |-> 250],
         UNCHANGED <<spool, run, msg, listed, sess>>
  PROVE  IInv'
<1>1. /\ link' \in [Hosts -> Link] /\ link'[h] = l
      /\ \A g \in Hosts \ {h} : link'[g] = link[g]
  BY DEF IInv, TypeOK
<1>2. /\ accepted' = accepted \cup Copies(hs)
      /\ \A o \in Objects : taken'[o] = taken[o] \cup {g \in hs : HeadOf(g) = o}
      /\ taken' = [o \in Objects |-> taken'[o]]
  BY DEF Take
<1>3. hs \in SUBSET {g \in Hosts : InFlight(g)} /\ hs \subseteq {h}
  OBVIOUS
<1>4. accepted' \subseteq Files \X Hosts /\ accepted \subseteq accepted'
  BY <1>2, <1>3, CopiesTyped DEF IInv, TypeOK
<1>5. taken' \in [Objects -> SUBSET Hosts]
  <2>1. \A o \in Objects : taken'[o] \in SUBSET Hosts
    BY <1>2, <1>3 DEF IInv, TypeOK
  <2> QED
    BY <1>2, <2>1
<1>6. Marked(msg, accepted') /\ Kept(msg, out, due, accepted')
  BY <1>4, AcceptedGrows DEF IInv, Sound
<1>7. Replied(msg, sess, link', accepted')
  <2> SUFFICES ASSUME NEW g \in Hosts, sess[g] # NoSession, Taken250(sess, link', g)
               PROVE  <<msg[Head(sess[g].queue)].path, g>> \in accepted'
    BY DEF Replied
  <2>1. CASE g = h
    <3>1. hs = {h}
      BY <1>1, <2>1 DEF Taken250
    <3> QED
      BY <1>2, <2>1, <3>1 DEF Copies, HeadOf
  <2>2. CASE g # h
    BY <1>1, <1>4, <2>2 DEF IInv, Sound, Replied, Taken250
  <2> QED
    BY <2>1, <2>2
<1>8. TakenOnce(sess, listed, link', taken')
  <2>1. ASSUME NEW o \in listed PROVE taken'[o] = {}
    <3>1. o \in Objects /\ taken[o] = {}
      BY DEF IInv, TypeOK, Sound, TakenOnce
    <3>2. \A g \in hs : HeadOf(g) # o
      BY <1>3, InFlightHead
    <3> QED
      BY <1>2, <3>1, <3>2
  <2>2. ASSUME NEW g \in Hosts, NEW o \in QueueIn(sess, g), g \in taken'[o]
        PROVE  /\ o = Head(sess[g].queue)
               /\ sess[g].state = "SENDING_DATA_PAYLOAD"
               /\ link'[g].phase = "lost" \/ Taken250(sess, link', g)
    <3>1. o \in Objects /\ sess[g] # NoSession
      BY QueuedAlive DEF IInv, Sound, QueueIn
    <3>2. CASE g \in hs /\ HeadOf(g) = o
      <4>1. g = h /\ hs # {} /\ InFlight(h)
        BY <1>3, <3>2
      <4>2. sess[h].state = "SENDING_DATA_PAYLOAD"
        BY <4>1 DEF InFlight
      <4>3. l.phase = "lost" \/ l = [phase |-> "answered", code |-> 250]
        BY <4>1
      <4> QED
        BY <1>1, <3>2, <4>1, <4>2, <4>3 DEF HeadOf, Taken250
    <3>3. CASE g \in taken[o]
      <4>1. /\ o = Head(sess[g].queue)
            /\ sess[g].state = "SENDING_DATA_PAYLOAD"
            /\ link[g].phase = "lost" \/ Taken250(sess, link, g)
        BY <3>3 DEF IInv, Sound, TakenOnce
      <4>2. CASE g = h
        <5>1. link[h].phase # "asked"
          BY <4>1, <4>2 DEF Taken250
        <5> QED
          BY <1>1, <4>1, <4>2, <5>1
      <4>3. CASE g # h
        BY <1>1, <4>1, <4>3 DEF Taken250
      <4> QED
        BY <4>2, <4>3
    <3> QED
      BY <1>2, <2>2, <3>1, <3>2, <3>3
  <2> QED
    BY <2>1, <2>2 DEF TakenOnce
<1>9. Sound(msg, sess, link)'
  BY <1>6, <1>7, <1>8 DEF IInv, Sound, spool
<1>10. TypeOK'
  BY <1>1, <1>4, <1>5 DEF IInv, TypeOK, spool, Spool!SpoolTypeOK
<1> QED
  BY <1>9, <1>10 DEF IInv

\* A server replies.
LEMMA ReplyKeeps ==
  ASSUME IInv, NEW h \in Hosts, NEW code \in Codes, Reply(h, code)
  PROVE  IInv'
<1> DEFINE l == [phase |-> "answered", code |-> code]
           hs == IF InFlight(h) /\ code = 250 THEN {h} ELSE {}
<1>1. l \in Link /\ l.phase = "answered" /\ l.code = code
  BY DEF Link
<1>2. /\ sess[h] # NoSession /\ link[h].phase = "asked"
      /\ link' = [link EXCEPT ![h] = l] /\ Take(hs)
      /\ UNCHANGED <<spool, run, msg, listed, sess>>
  BY DEF Reply, Open
<1>3. hs \in SUBSET {x \in {h} : InFlight(x)}
  OBVIOUS
<1>4. sess[h].state = "SENDING_DATA_PAYLOAD" => InFlight(h)
  BY <1>2 DEF IInv, Sound, Talking, InFlight, Busy, Open, Transferring
<1>5. sess[h].state = "SENDING_DATA_PAYLOAD" /\ l = [phase |-> "answered", code |-> 250]
        => hs = {h}
  BY <1>1, <1>4
<1>6. hs # {} /\ l.phase # "lost" => l = [phase |-> "answered", code |-> 250]
  OBVIOUS
<1> HIDE DEF l, hs
<1> QED
  BY <1>1, <1>2, <1>3, <1>5, <1>6, ServerKeeps

\* A connection goes.
LEMMA DisconnectKeeps ==
  ASSUME IInv, NEW h \in Hosts, Disconnect(h)
  PROVE  IInv'
<1> DEFINE l == Phase("lost")
<1>1. l \in Link /\ l.phase = "lost" /\ l # [phase |-> "answered", code |-> 250]
  BY DEF Link, Phase
<1>2. PICK hs \in SUBSET {x \in {h} : InFlight(x)} : Take(hs)
  BY DEF Disconnect
<1>3. /\ sess[h] # NoSession
      /\ link' = [link EXCEPT ![h] = l]
      /\ UNCHANGED <<spool, run, msg, listed, sess>>
  BY DEF Disconnect, Open
<1>4. /\ l.phase = "lost" \/ (l.phase = "answered" /\ link[h].phase = "asked")
      /\ sess[h].state = "SENDING_DATA_PAYLOAD" /\ l = [phase |-> "answered", code |-> 250]
           => hs = {h}
      /\ hs # {} /\ l.phase # "lost" => l = [phase |-> "answered", code |-> 250]
  BY <1>1
<1>5. l \in Link
  BY <1>1
<1> HIDE DEF l
<1> QED
  BY <1>2, <1>3, <1>4, <1>5, ServerKeeps

\* With no message and no session nothing can be wrong.
LEMMA NothingHeld ==
  ASSUME NEW acc, NEW fs, NEW ds, \A f \in ds : f \in fs
  PROVE  LET mm == [o \in Objects |-> NoMessage]
             ss == [h \in Hosts |-> NoSession]
             lk == [h \in Hosts |-> Phase("idle")]
             tk == [o \in Objects |-> {}]
         IN  /\ HeapOK(mm, ss, {}) /\ Talking(mm, ss) /\ Marked(mm, acc)
             /\ Replied(mm, ss, lk, acc) /\ Kept(mm, fs, ds, acc)
             /\ TakenOnce(ss, {}, lk, tk)
<1> DEFINE mm == [o \in Objects |-> NoMessage]
           ss == [h \in Hosts |-> NoSession]
<1>1. \A h \in Hosts : QueueIn(ss, h) = {}
  BY DEF QueueIn
<1>2. \A o : HoldersIn(ss, o) = {}
  BY <1>1 DEF HoldersIn
<1>3. Typed(mm, ss, {}) /\ Counted(mm, ss, {}) /\ QueuedOnce(ss)
  BY <1>2 DEF Typed, Counted, QueuedOnce
<1>4. Fit(mm, ss, {})
  BY <1>1 DEF Fit
<1> QED
  BY <1>1, <1>3, <1>4 DEF HeapOK, Talking, Marked, Replied, Kept, TakenOnce

\* The process ends.
LEMMA VanishKeeps ==
  ASSUME IInv, Vanish, out' \subseteq out, up' = FALSE, due' = {}, again' = {}
  PROVE  IInv'
<1>1. /\ msg' = [o \in Objects |-> NoMessage]
      /\ sess' = [h \in Hosts |-> NoSession]
      /\ link' = [h \in Hosts |-> Phase("idle")]
      /\ taken' = [o \in Objects |-> {}]
      /\ listed' = {} /\ run' = run
  BY DEF Vanish
<1>2. accepted' \subseteq Files \X Hosts
  BY CopiesTyped DEF Vanish, IInv, TypeOK
<1>3. Sound(msg, sess, link)'
  <2>1. \A f \in due' : f \in out'
    OBVIOUS
  <2> QED
    BY <1>1, <2>1, NothingHeld DEF Sound
<1>4. Phase("idle") \in Link
  BY DEF Phase, Link
<1>5. TypeOK'
  BY <1>1, <1>2, <1>4 DEF IInv, TypeOK, Spool!SpoolTypeOK
<1> QED
  BY <1>3, <1>5 DEF IInv

\* Only client_finalize could delete anything, and nothing is left for it to:
\* a message that is still held has not been sent to all.
LEMMA NothingToUnlink ==
  ASSUME IInv
  PROVE  {msg[o].path : o \in {p \in Objects : Alive(p) /\ MayUnlink(msg[p])}} = {}
<1> SUFFICES ASSUME NEW o \in Objects, Alive(o), MayUnlink(msg[o]) PROVE FALSE
  OBVIOUS
<1>1. CASE o \in listed
  BY <1>1 DEF IInv, Sound, HeapOK, Fit, MayUnlink
<1>2. CASE HoldersIn(sess, o) # {}
  BY <1>2 DEF IInv, Sound, HeapOK, Fit, HoldersIn, MayUnlink
<1> QED
  BY <1>1, <1>2 DEF IInv, Sound, HeapOK, Counted, Alive

\* The program starts.
LEMMA StartKeeps ==
  ASSUME IInv, Start
  PROVE  IInv'
<1>1. /\ due' = out /\ again' = {} /\ up' = TRUE /\ out' = out
      /\ run' = run + 1
      /\ UNCHANGED <<msg, listed, sess, link, accepted, taken>>
  BY DEF Start, Spool!Start, Spool!Begin
<1>2. Kept(msg, out, due', accepted)
  BY <1>1 DEF IInv, Sound, Kept
<1>3. Sound(msg, sess, link)'
  BY <1>1, <1>2 DEF IInv, Sound
<1>4. TypeOK'
  BY <1>1 DEF IInv, TypeOK, Spool!SpoolTypeOK
<1> QED
  BY <1>3, <1>4 DEF IInv

\* The other program moves a file in; two reports of a file become one.
LEMMA SpoolKeeps ==
  ASSUME IInv, NEW f \in Files, MoveIn(f) \/ Merge({f})
  PROVE  IInv'
<1>1. UNCHANGED <<run, msg, listed, sess, link, accepted, taken>>
  BY DEF MoveIn, Merge
<1>2. /\ out \subseteq out' /\ due' \subseteq due \cup out'
      /\ Spool!SpoolTypeOK'
  <2>1. CASE MoveIn(f)
    <3>1. /\ out' = out \cup {f} /\ up' = up
          /\ due' = IF up THEN due \cup {f} ELSE due
          /\ again' \in IF up THEN {again, again \cup {f}} ELSE {again}
      BY <2>1 DEF MoveIn, Spool!MoveIn
    <3>2. again' \subseteq due'
      BY <3>1 DEF IInv, TypeOK, Spool!SpoolTypeOK
    <3> QED
      BY <3>1, <3>2 DEF IInv, TypeOK, Spool!SpoolTypeOK
  <2>2. CASE Merge({f})
    <3>1. again' = again \ {f} /\ out' = out /\ up' = up /\ due' = due
      BY <2>2 DEF Merge, Spool!Merge
    <3> QED
      BY <3>1 DEF IInv, TypeOK, Spool!SpoolTypeOK
  <2> QED
    BY <2>1, <2>2
<1>3. Kept(msg, out', due', accepted)
  BY <1>2 DEF IInv, Sound, Kept
<1>4. Sound(msg, sess, link)'
  BY <1>1, <1>3 DEF IInv, Sound
<1>5. TypeOK'
  BY <1>1, <1>2 DEF IInv, TypeOK
<1> QED
  BY <1>4, <1>5 DEF IInv

-----------------------------------------------------------------------------
(* The theorems. *)

\* The invariant holds at the start ...
LEMMA ClientStart == Init => IInv
<1> SUFFICES ASSUME Init PROVE IInv
  OBVIOUS
<1>1. /\ out = {} /\ up = FALSE /\ due = {} /\ again = {} /\ run = 0
      /\ msg = [o \in Objects |-> NoMessage] /\ listed = {}
      /\ sess = [h \in Hosts |-> NoSession]
      /\ link = [h \in Hosts |-> Phase("idle")]
      /\ accepted = {} /\ taken = [o \in Objects |-> {}]
  BY DEF Init, Spool!SpoolInit
<1>2. Sound(msg, sess, link)
  BY <1>1, NothingHeld DEF Sound
<1>3. Phase("idle") \in Link
  BY DEF Phase, Link
<1>4. TypeOK
  BY <1>1, <1>3 DEF TypeOK, Spool!SpoolTypeOK
<1> QED
  BY <1>2, <1>4 DEF IInv

\* ... and every step keeps it.
LEMMA ClientStep == IInv /\ [Next]_vars => IInv'
<1> SUFFICES ASSUME IInv, [Next]_vars PROVE IInv'
  OBVIOUS
<1>1. CASE \E f \in Files : MoveIn(f) \/ Discover(f) \/ Merge({f})
  BY <1>1, SpoolKeeps, DiscoverKeeps
<1>2. CASE \E o \in Objects : MessageSubscribe(o) \/ MessageNotify(o)
  BY <1>2, MessageSubscribeKeeps, MessageNotifyKeeps
<1>3. CASE \E h \in Hosts : SessionNotify(h) \/ Disconnect(h)
  BY <1>3, SessionNotifyKeeps, DisconnectKeeps
<1>4. CASE \E h \in Hosts, code \in Codes : Reply(h, code)
  BY <1>4, ReplyKeeps
<1>5. CASE Start
  BY <1>5, StartKeeps
<1>6. CASE Crash \/ \E h \in Hosts : UnlinkDies(h)
  <2>1. Spool!Stop /\ Vanish
    BY <1>6 DEF Crash, UnlinkDies
  <2> QED
    BY <2>1, VanishKeeps DEF Spool!Stop, Spool!End
<1>7. CASE Terminate
  BY <1>7, VanishKeeps DEF Terminate, Spool!End
<1>8. CASE UNCHANGED vars
  <2>1. UNCHANGED <<out, up, due, again, run, msg, listed, sess, link, accepted, taken>>
    BY <1>8 DEF vars
  <2>2. Sound(msg, sess, link)'
    BY <2>1 DEF IInv, Sound
  <2> QED
    BY <2>1, <2>2 DEF IInv, TypeOK, Spool!SpoolTypeOK
<1> QED
  BY <1>1, <1>2, <1>3, <1>4, <1>5, <1>6, <1>7, <1>8 DEF Next

\* The invariant holds in every state.
THEOREM ClientInvariant == Spec => []IInv
  BY ClientStart, ClientStep, PTL DEF Spec

\* No step puts anything but a message, a session and a reply where they belong.
THEOREM ClientTypeOK == Spec => []TypeOK
<1>1. IInv => TypeOK
  BY DEF IInv
<1> QED
  BY <1>1, ClientInvariant, PTL

\* The count of a live message is the number of its holders, what is held is
\* alive, and no queue has a message twice: message_release frees a message
\* when, and only when, the last holder lets go.
THEOREM ClientRefCountExact == Spec => []RefCountExact
<1>1. IInv => RefCountExact
  <2> SUFFICES ASSUME IInv PROVE RefCountExact
    OBVIOUS
  <2>1. \A o : Holders(o) = HoldersIn(sess, o)
    BY DEF Holders, HoldersIn, Queued, QueueIn, Open
  <2>2. Counted(msg, sess, listed) /\ QueuedOnce(sess)
    BY DEF IInv, Sound, HeapOK
  <2> QED
    BY <2>1, <2>2 DEF Counted, QueuedOnce, Distinct, RefCountExact, Alive, Open
<1> QED
  BY <1>1, ClientInvariant, PTL

\* Every queued message still has the destination that the session's search in
\* start_message_transfer has to find.
THEOREM ClientQueuedHasDestination == Spec => []QueuedHasDestination
<1>1. IInv => QueuedHasDestination
  BY DEF IInv, Sound, HeapOK, Fit, QueuedHasDestination, Queued, QueueIn, Open
<1> QED
  BY <1>1, ClientInvariant, PTL

\* The assertions about listed messages and about the head of a queue hold.
THEOREM ClientAssertionsHold == Spec => []AssertionsHold
<1>1. IInv => AssertionsHold
  <2> SUFFICES ASSUME IInv PROVE AssertionsHold
    OBVIOUS
  <2>1. /\ QueuedHasDestination
        /\ \A o \in listed : msg[o].state \in {"LOADING_HEADERS", "LOADING_FAILED"}
    BY DEF IInv, Sound, HeapOK, Fit, QueuedHasDestination, Queued, QueueIn, Open
  <2>2. ASSUME NEW h \in Hosts, Open(h)
        PROVE  /\ \A o \in Queued(h) : msg[o].state # "LOADING_HEADERS"
               /\ sess[h].state \in Transferring => sess[h].queue # <<>>
               /\ sess[h].state = "SENDING_DATA_PAYLOAD" =>
                    msg[HeadOf(h)].state = "BODY_LOADED"
    <3>1. \A o \in Queued(h) : msg[o].state # "LOADING_HEADERS"
      BY DEF IInv, Sound, HeapOK, Fit, Queued, QueueIn, Open
    <3> QED
      BY <2>2, <3>1 DEF IInv, Sound, Talking, Open, HeadOf
  <2> QED
    BY <2>1, <2>2 DEF AssertionsHold
<1> QED
  BY <1>1, ClientInvariant, PTL

\* A destination is marked as sent only after its server accepted the file.
THEOREM ClientMarkedOnlyIfAccepted == Spec => []MarkedOnlyIfAccepted
<1>1. IInv => MarkedOnlyIfAccepted
  BY DEF IInv, Sound, Marked, MarkedOnlyIfAccepted, Alive
<1> QED
  BY <1>1, ClientInvariant, PTL

\* A file is open only in the states in which message_notify reads it.
THEOREM ClientOpenOnlyWhileLoading == Spec => []OpenOnlyWhileLoading
<1>1. IInv => OpenOnlyWhileLoading
  BY DEF IInv, Sound, HeapOK, Fit, OpenOnlyWhileLoading, Alive
<1> QED
  BY <1>1, ClientInvariant, PTL

\* A payload in flight has not been taken by its server before in this run.
THEOREM ClientNoSecondCopy == Spec => []NoSecondCopy
<1>1. IInv => NoSecondCopy
  <2> SUFFICES ASSUME IInv, NEW h \in Hosts, InFlight(h), h \in taken[HeadOf(h)] PROVE FALSE
    BY DEF NoSecondCopy
  <2>1. HeadOf(h) \in QueueIn(sess, h) /\ link[h].phase = "asked"
    BY QueuedAlive DEF IInv, Sound, InFlight, Busy, Open, HeadOf
  <2>2. link[h].phase = "lost" \/ Taken250(sess, link, h)
    BY <2>1 DEF IInv, Sound, TakenOnce
  <2> QED
    BY <2>1, <2>2 DEF Taken250
<1> QED
  BY <1>1, ClientInvariant, PTL

-----------------------------------------------------------------------------
(* The refinement of Delivery. *)

\* What the servers take in one step is of files that are still there, or has
\* been taken before.
LEMMA AcceptStep ==
  ASSUME IInv, NEW hs \in SUBSET {h \in Hosts : InFlight(h)},
         accepted' = accepted \cup Copies(hs), out' = out
  PROVE  Abstract!Next
<1> DEFINE S == {p \in Copies(hs) : p[1] \in out}
<1>1. ASSUME NEW h \in hs
      PROVE  /\ msg[HeadOf(h)].path \in Files
             /\ h \in Hosts /\ h \in Dests[msg[HeadOf(h)].path]
             /\ msg[HeadOf(h)].path \notin out => <<msg[HeadOf(h)].path, h>> \in accepted
  <2>1. /\ HeadOf(h) \in Objects /\ msg[HeadOf(h)] \in Message
        /\ msg[HeadOf(h)] # NoMessage
        /\ h \in Dests[msg[HeadOf(h)].path]
    BY InFlightHead
  <2>2. msg[HeadOf(h)].path \in out \/ Served(msg[HeadOf(h)].path, accepted)
    BY <2>1 DEF IInv, Sound, Kept
  <2> QED
    BY <2>1, <2>2 DEF Served, Message
<1>2. \A p \in Copies(hs) : \E h \in hs : p = <<msg[HeadOf(h)].path, h>>
  BY DEF Copies
<1>3. accepted' = accepted \cup S
  BY <1>1, <1>2
<1>4. S \in SUBSET (Files \X Hosts)
  BY <1>1, <1>2
<1>5. S \subseteq {p \in out \X Hosts : p[2] \in Dests[p[1]]}
  BY <1>1, <1>2
<1> HIDE DEF S
<1>6. Abstract!Accept(S)
  BY <1>3, <1>5 DEF Abstract!Accept
<1> QED
  BY <1>4, <1>6 DEF Abstract!Next

\* A file leaves the directory only when the servers of all its hosts have
\* accepted it: the relay implements Delivery, whatever is lost, repeated or
\* killed on the way.
THEOREM ClientNothingLost == Spec => NothingLost
<1>1. Init => Abstract!Init
  BY DEF Init, Spool!SpoolInit, Abstract!Init
<1>2. IInv /\ [Next]_vars => [Abstract!Next]_Abstract!vars
  <2> SUFFICES ASSUME IInv, [Next]_vars PROVE [Abstract!Next]_Abstract!vars
    OBVIOUS
  <2>1. ASSUME NEW f \in Files, MoveIn(f) PROVE Abstract!Next
    <3>1. Abstract!Submit(f)
      BY <2>1 DEF MoveIn, Spool!MoveIn, Abstract!Submit
    <3> QED
      BY <3>1 DEF Abstract!Next
  <2>2. ASSUME NEW h \in Hosts, SessionNotify(h) PROVE [Abstract!Next]_Abstract!vars
    <3>1. DeletesServed /\ accepted' = accepted
      BY <2>2, SessionNotifyKeeps DEF SessionNotify
    <3>2. ASSUME NEW f \in out, out' = out \ {f}, Served(f, accepted) PROVE Abstract!Next
      <4>1. f \in Files
        BY DEF IInv, TypeOK, Spool!SpoolTypeOK
      <4>2. Abstract!Remove(f)
        BY <3>1, <3>2 DEF Abstract!Remove, Abstract!Delivered, Served
      <4> QED
        BY <4>1, <4>2 DEF Abstract!Next
    <3> QED
      BY <3>1, <3>2 DEF DeletesServed, Abstract!vars
  <2>3. ASSUME NEW h \in Hosts, Disconnect(h) PROVE Abstract!Next
    <3>1. PICK hs \in SUBSET {x \in {h} : InFlight(x)} : Take(hs)
      BY <2>3 DEF Disconnect
    <3>2. /\ hs \in SUBSET {x \in Hosts : InFlight(x)}
          /\ accepted' = accepted \cup Copies(hs) /\ out' = out
      BY <2>3, <3>1 DEF Disconnect, Take, spool
    <3> QED
      BY <3>2, AcceptStep
  <2>4. ASSUME NEW h \in Hosts, NEW code \in Codes, Reply(h, code) PROVE Abstract!Next
    <3> DEFINE hs == IF InFlight(h) /\ code = 250 THEN {h} ELSE {}
    <3>1. /\ hs \in SUBSET {x \in Hosts : InFlight(x)}
          /\ accepted' = accepted \cup Copies(hs) /\ out' = out
      BY <2>4 DEF Reply, Take, spool
    <3> QED
      BY <3>1, AcceptStep
  <2>5. ASSUME Vanish, out' = out PROVE Abstract!Next
    <3>1. PICK hs \in SUBSET {h \in Hosts : InFlight(h)} : accepted' = accepted \cup Copies(hs)
      BY <2>5 DEF Vanish
    <3> QED
      BY <2>5, <3>1, AcceptStep
  <2>6. CASE Crash \/ \E h \in Hosts : UnlinkDies(h)
    BY <2>5, <2>6 DEF Crash, UnlinkDies, Spool!Stop
  <2>7. CASE Terminate
    <3>1. out' = out
      BY <2>7, NothingToUnlink DEF Terminate
    <3> QED
      BY <2>5, <2>7, <3>1 DEF Terminate
  <2>8. CASE \/ \E f \in Files : Discover(f) \/ Merge({f})
             \/ \E o \in Objects : MessageSubscribe(o) \/ MessageNotify(o)
             \/ Start \/ UNCHANGED vars
    BY <2>8 DEF Discover, Merge, Spool!Discover, Spool!Merge, MessageSubscribe, MessageNotify,
                Start, Spool!Start, vars, spool, Abstract!vars
  <2> QED
    BY <2>1, <2>2, <2>3, <2>4, <2>6, <2>7, <2>8 DEF Next
<1> QED
  BY <1>1, <1>2, ClientInvariant, PTL DEF Spec, NothingLost, Abstract!Spec

-----------------------------------------------------------------------------
(* The loop (EventLoop): main.c's loop takes no step that Client does not     *)
(* allow, so that all that has been proved of Client is so of the loop; and   *)
(* what the loop's order adds to it.                                        *)

\* The loop is somewhere while the process is up, and what is left to visit is
\* there to be visited: only a visit takes a message or a session away.
Places ==
  /\ phase \in {"off", "subscribe", "signals", "discover", "messages", "sessions"}
  /\ phase = "off" <=> ~up
  /\ phase = "messages" => todo \subseteq listed
  /\ phase = "sessions" => todo \subseteq Visited

-----------------------------------------------------------------------------
(* The loop implements Client. *)

\* A visit to a message is a run of its handler, or nothing.
LEMMA VisitMessageIsStep ==
  ASSUME Places, NEW o \in Objects, VisitMessage(o)
  PROVE  [MessageNotify(o)]_vars
<1>1. up /\ o \in listed
  BY DEF Places, VisitMessage
<1>2. PICK m \in Seen(o) :
        \/ Distribute(o, m)
        \/ Drop(o, m)
        \/ m = msg[o] /\ m.state = "LOADING_HEADERS" /\ UNCHANGED <<msg, sess, listed>>
  BY DEF VisitMessage
<1>3. m \in Notified(msg[o])
  BY DEF Seen, Notified
<1>4. UNCHANGED <<spool, run, link, accepted, taken>>
  BY DEF VisitMessage
<1>5. CASE Distribute(o, m) \/ Drop(o, m)
  BY <1>1, <1>3, <1>4, <1>5 DEF MessageNotify
<1>6. CASE UNCHANGED <<msg, sess, listed>>
  BY <1>4, <1>6 DEF vars, spool
<1> QED
  BY <1>2, <1>5, <1>6

\* A visit to a session is a run of its handler, or its death by unlink.
LEMMA VisitSessionIsStep ==
  ASSUME Places, NEW h \in Hosts, VisitSession(h)
  PROVE  SessionNotify(h) \/ UnlinkDies(h)
<1>1. up /\ Open(h)
  BY DEF Places, VisitSession, Visited
<1>2. ASSUME NEW m \in HeadSeen(h), SessionActs(h, m),
             UNCHANGED <<run, listed, accepted, taken>>
      PROVE  SessionNotify(h)
  <2>1. m \in HeadNotified(h)
    BY DEF HeadSeen, HeadNotified, Seen, Notified
  <2> QED
    BY <1>1, <1>2, <2>1 DEF SessionNotify
<1> QED
  BY <1>2 DEF VisitSession

\* Every step of the loop is a step of Client or leaves its variables alone.
LEMMA LoopStep ==
  ASSUME Places, [LoopNext]_loopVars
  PROVE  [Next]_vars
<1>1. CASE Subscribe
  BY <1>1 DEF Subscribe, Next
<1>2. CASE SignalNotify \/ NextLoop \/ Poll \/ Signal
  BY <1>2 DEF SignalNotify, NextLoop, Poll, Signal
<1>3. CASE DiscoverAll
  BY <1>3 DEF DiscoverAll, Next, vars, GoOn
<1>4. CASE \E o \in Objects : VisitMessage(o)
  BY <1>4, VisitMessageIsStep DEF Next
<1>5. CASE \E h \in Hosts : VisitSession(h)
  BY <1>5, VisitSessionIsStep DEF Next
<1>6. CASE LoopTerminate \/ LoopStart \/ LoopCrash
  BY <1>6 DEF LoopTerminate, LoopStart, LoopCrash, Next
<1>7. CASE Around
  BY <1>7 DEF Around, Next
<1>8. CASE UNCHANGED loopVars
  BY <1>8 DEF loopVars
<1> QED
  BY <1>1, <1>2, <1>3, <1>4, <1>5, <1>6, <1>7, <1>8 DEF LoopNext, Handlers

-----------------------------------------------------------------------------
(* What the loop depends on in a session's step. *)

\* What can become of a message that stays: its body is asked for, no more.
Moved(mm, nn) ==
  \A o \in Objects : nn[o] # NoMessage =>
    /\ mm[o] # NoMessage
    /\ \/ nn[o].state = mm[o].state /\ nn[o].open = mm[o].open
       \/ mm[o].state = "HEADERS_LOADED" /\ nn[o].state = "LOADING_BODY"

\* A session changes itself only, does not stay when it is closed, waits for a
\* body only when it has just been told that the recipients are accepted, and
\* begins no transfer without asking for the body.
Moves(h, m) ==
  /\ \A g \in Hosts \ {h} : sess'[g] = sess[g]
  /\ Moved(m, msg')
  /\ sess'[h] # NoSession =>
       /\ sess'[h].state # "CLOSED"
       /\ sess'[h].state = "LOADING_MESSAGE_BODY" =>
            \/ sess[h].state = "LOADING_MESSAGE_BODY"
            \/ /\ sess[h].state = "SENDING_MAIL_OR_RCPT"
               /\ m[HeadOf(h)].state = "LOADING_BODY"
               /\ link' # link
       /\ sess'[h].state = "SENDING_MAIL_OR_RCPT" =>
            \/ /\ sess[h].state = "SENDING_MAIL_OR_RCPT"
               /\ sess'[h].queue = sess[h].queue
               /\ msg' = m
            \/ msg'[Head(sess'[h].queue)].state # "HEADERS_LOADED"

\* A session that closes.
LEMMA CloseMoves ==
  ASSUME IInv, NEW m, Sound(m, sess, link), NEW h \in Hosts, Open(h), Close(h, m)
  PROVE  Moves(h, m)
<1>1. \A g \in Hosts \ {h} : sess'[g] = sess[g]
  BY DEF Close, IInv, TypeOK
<1>2. sess'[h] = NoSession
  BY DEF Close, IInv, TypeOK
<1>3. \A o \in Queued(h) : m[o] # NoMessage
  <2>1. Queued(h) = QueueIn(sess, h)
    BY DEF Queued, QueueIn, Open
  <2> QED
    BY <2>1, QueuedAlive, NothingAssumption DEF Sound
<1>4. \A o \in Objects : Recounted(m[o], Released(m, Queued(h))[o])
  BY <1>3, ReleasedProperties DEF Sound, HeapOK, Typed
<1>5. Moved(m, msg')
  BY <1>4 DEF Close, Moved, Recounted
<1> QED
  BY <1>1, <1>2, <1>5 DEF Moves

\* A session that goes on with another state and the same queue.
LEMMA StateMoves ==
  ASSUME IInv, NEW m, NEW h \in Hosts, Open(h), NEW st \in SessionStates,
         sess' = [sess EXCEPT ![h].state = st], msg' = m,
         st \notin {"CLOSED", "SENDING_MAIL_OR_RCPT"},
         st = "LOADING_MESSAGE_BODY" =>
           /\ sess[h].state = "SENDING_MAIL_OR_RCPT"
           /\ m[HeadOf(h)].state = "LOADING_BODY"
           /\ link' # link
  PROVE  Moves(h, m)
<1>1. sess[h] \in Session /\ [sess[h] EXCEPT !.state = st] \in Session
  BY DEF IInv, TypeOK, Open, Session
<1>2. /\ \A g \in Hosts \ {h} : sess'[g] = sess[g]
      /\ sess'[h].state = st
  BY <1>1 DEF IInv, TypeOK, Session
<1>3. Moved(m, msg')
  BY DEF Moved
<1> QED
  BY <1>2, <1>3 DEF Moves

\* A session that stays as it is.
LEMMA NothingMoves ==
  ASSUME IInv, NEW m, NEW h \in Hosts, Open(h), sess' = sess, msg' = m,
         sess[h].state # "CLOSED"
  PROVE  Moves(h, m)
BY DEF Moves, Moved

\* start_message_transfer asks for the body of the message it begins with.
LEMMA TransferMoves ==
  ASSUME IInv, NEW m, NEW mm \in [Objects -> Message \cup {NoMessage}],
         NEW h \in Hosts, Open(h), NEW q \in Seq(Objects), Transfer(h, q, mm),
         Moved(m, mm), q # <<>> => Head(q) \in Objects /\ mm[Head(q)] \in Message
  PROVE  Moves(h, m)
<1>1. sess[h] \in Session /\ sess \in [Hosts -> Session \cup {NoSession}]
  BY DEF IInv, TypeOK, Open
<1>2. CASE q = <<>>
  <2>1. /\ sess' = [sess EXCEPT ![h].state = "SENDING_QUIT", ![h].queue = q]
        /\ msg' = mm
    BY <1>2 DEF Transfer
  <2>2. (\A g \in Hosts \ {h} : sess'[g] = sess[g]) /\ sess'[h].state = "SENDING_QUIT"
    BY <1>1, <2>1 DEF Session
  <2> QED
    BY <2>1, <2>2 DEF Moves
<1>3. CASE q # <<>>
  <2> DEFINE n == BodyRequested(mm[Head(q)])
  <2>1. /\ sess' = [sess EXCEPT ![h].state = "SENDING_MAIL_OR_RCPT",
                                ![h].queue = q, ![h].left = Recipients]
        /\ msg' = [mm EXCEPT ![Head(q)] = n]
    BY <1>3 DEF Transfer
  <2>2. /\ \A g \in Hosts \ {h} : sess'[g] = sess[g]
        /\ sess'[h].state = "SENDING_MAIL_OR_RCPT" /\ sess'[h].queue = q
    BY <1>1, <2>1 DEF Session
  <2>3. /\ n.state # "HEADERS_LOADED"
        /\ \/ n = mm[Head(q)]
           \/ mm[Head(q)].state = "HEADERS_LOADED" /\ n.state = "LOADING_BODY"
    BY <1>3 DEF BodyRequested, Message
  <2> HIDE DEF n
  <2>4. /\ \A o \in Objects \ {Head(q)} : msg'[o] = mm[o]
        /\ msg'[Head(q)] = n /\ mm[Head(q)] # NoMessage
    BY <1>3, <2>1, NothingAssumption
  <2>5. Moved(m, msg')
    BY <1>3, <2>3, <2>4 DEF Moved
  <2> QED
    BY <2>2, <2>3, <2>4, <2>5 DEF Moves
<1> QED
  BY <1>2, <1>3

\* dequeue_message begins with the message after the head.
LEMMA DequeueMoves ==
  ASSUME IInv, NEW m, Sound(m, sess, link), NEW h \in Hosts, Open(h),
         sess[h].queue # <<>>, NEW mm, MarkedHeap(m, mm, HeadOf(h), h), Dequeue(h, mm)
  PROVE  Moves(h, m)
<1> DEFINE o == HeadOf(h)
           q == Tail(sess[h].queue)
           nn == Released(mm, {o})
<1>1. /\ sess[h].queue \in Seq(Objects) /\ Distinct(sess[h].queue)
      /\ m \in [Objects -> Message \cup {NoMessage}]
      /\ \A p \in QueueIn(sess, h) : p \in Objects /\ m[p] \in Message
      /\ QueueIn(sess, h) = Elements(sess[h].queue)
      /\ o \in QueueIn(sess, h)
  BY QueuedAlive DEF IInv, TypeOK, Open, Session, Sound, HeapOK, Typed, QueuedOnce,
                     QueueIn, HeadOf
<1>2. /\ q \in Seq(Objects)
      /\ Elements(q) = Elements(sess[h].queue) \ {o}
  BY <1>1, TailElements, HeadTailProperties DEF HeadOf
<1>3. q # <<>> => Head(q) \in Elements(q)
  BY <1>2, ElementsProperties
<1>4. /\ mm \in [Objects -> Message \cup {NoMessage}]
      /\ \A p \in Objects \ {o} : mm[p] = m[p]
      /\ mm[o] \in Message /\ mm[o].state = m[o].state /\ mm[o].open = m[o].open
  BY DEF MarkedHeap
<1>5. Transfer(h, q, nn)
  BY DEF Dequeue
<1> HIDE DEF o, q
<1>6. /\ nn \in [Objects -> Message \cup {NoMessage}]
      /\ \A p \in Objects : Recounted(mm[p], nn[p])
      /\ \A p \in Objects \ {o} : nn[p] = mm[p]
  BY <1>4, ReleasedProperties, NothingAssumption
<1> HIDE DEF nn
<1>7. Moved(m, nn)
  <2> SUFFICES ASSUME NEW p \in Objects, nn[p] # NoMessage
               PROVE  m[p] # NoMessage /\ nn[p].state = m[p].state /\ nn[p].open = m[p].open
    BY DEF Moved
  <2>1. mm[p] # NoMessage /\ nn[p].state = mm[p].state /\ nn[p].open = mm[p].open
    BY <1>6 DEF Recounted
  <2> QED
    BY <1>1, <1>4, <2>1, NothingAssumption
<1>8. q # <<>> => Head(q) \in Objects /\ nn[Head(q)] \in Message
  BY <1>1, <1>2, <1>3, <1>4, <1>6
<1> QED
  BY <1>2, <1>5, <1>6, <1>7, <1>8, TransferMoves

\* The body has come, or never will.
LEMMA BodyLoadingDoneMoves ==
  ASSUME IInv, NEW m, Sound(m, sess, link), NEW h \in Hosts, Open(h), BodyLoadingDone(h, m)
  PROVE  Moves(h, m)
<1> DEFINE next == AfterBody(m[HeadOf(h)].state)
<1>1. next \in {"SENDING_RSET", "SENDING_DATA", "CLOSED"}
  BY DEF AfterBody
<1>2. IF next = "CLOSED" THEN Close(h, m) ELSE GoTo(h, next, m)
  BY DEF BodyLoadingDone
<1> HIDE DEF next
<1>3. CASE next = "CLOSED"
  BY <1>2, <1>3, CloseMoves
<1>4. CASE next \in {"SENDING_RSET", "SENDING_DATA"}
  <2>1. next \in SessionStates
    BY <1>4 DEF SessionStates
  <2> QED
    BY <1>2, <1>4, <2>1, StateMoves DEF GoTo
<1> QED
  BY <1>1, <1>3, <1>4

\* session_notify and what follows it, by the action that dispatch takes.
LEMMA SessionMoves ==
  ASSUME IInv, NEW h \in Hosts, Open(h), NEW m \in HeadNotified(h), SessionActs(h, m)
  PROVE  Moves(h, m)
<1>1. Sound(m, sess, link)
  BY HeadNotifiedKeeps
<1>2. ASSUME Close(h, m) PROVE Moves(h, m)
  BY <1>1, <1>2, CloseMoves
<1>3. ASSUME NEW st \in {"RECEIVING_GREETING", "SENDING_HELO", "SENDING_QUIT",
                         "SENDING_DATA_PAYLOAD"}, GoTo(h, st, m)
      PROVE  Moves(h, m)
  BY <1>3, StateMoves DEF GoTo, SessionStates
<1>4. CASE Resolve(h, m)
  <2>1. PICK st \in {"RESOLVING_DNS", "CONNECTING"} : sess' = [sess EXCEPT ![h].state = st]
    BY <1>4 DEF Resolve
  <2>2. st \in SessionStates /\ msg' = m
    BY <1>4 DEF Resolve, SessionStates
  <2> QED
    BY <2>1, <2>2, StateMoves
<1>5. CASE Connected(h, m) \/ Greeted(h, m) \/ DataAccepted(h, m)
  BY <1>3, <1>5 DEF Connected, Greeted, DataAccepted
<1>6. CASE \/ OutOfAddresses(h, m) \/ Reap(h, m) \/ ConnectionLost(h, m)
           \/ QuitAccepted(h, m) \/ Unexpected(h, m)
  BY <1>2, <1>6 DEF OutOfAddresses, Reap, ConnectionLost, QuitAccepted, Unexpected
<1>7. CASE Wait(h, m)
  BY <1>7, NothingMoves DEF Wait, Exchanging
<1>8. CASE HeloAccepted(h, m)
  <2>1. /\ sess[h].queue \in Seq(Objects) /\ Transfer(h, sess[h].queue, m)
        /\ m \in [Objects -> Message \cup {NoMessage}]
    BY <1>1, <1>8 DEF HeloAccepted, IInv, TypeOK, Open, Session, Sound, HeapOK, Typed
  <2>2. sess[h].queue # <<>> =>
          Head(sess[h].queue) \in Objects /\ m[Head(sess[h].queue)] \in Message
    BY <1>1, QueuedAlive DEF Sound, Open
  <2>3. Moved(m, m)
    BY DEF Moved
  <2> QED
    BY <2>1, <2>2, <2>3, TransferMoves
<1>9. CASE NextRecipient(h, m)
  <2>1. /\ sess' = [sess EXCEPT ![h].left = @ - 1] /\ msg' = m
        /\ sess[h].state = "SENDING_MAIL_OR_RCPT"
    BY <1>9 DEF NextRecipient, Got
  <2>2. sess[h] \in Session /\ sess \in [Hosts -> Session \cup {NoSession}]
    BY DEF IInv, TypeOK, Open
  <2>3. /\ \A g \in Hosts \ {h} : sess'[g] = sess[g]
        /\ sess'[h].state = sess[h].state /\ sess'[h].queue = sess[h].queue
    BY <2>1, <2>2 DEF Session
  <2> QED
    BY <2>1, <2>3 DEF Moves, Moved
<1>10. CASE RecipientsAccepted(h, m)
  <2>1. CASE m[HeadOf(h)].state = "LOADING_BODY"
    <3>1. /\ sess' = [sess EXCEPT ![h].state = "LOADING_MESSAGE_BODY"] /\ msg' = m
          /\ sess[h].state = "SENDING_MAIL_OR_RCPT"
          /\ link[h].phase = "answered"
          /\ link' = [link EXCEPT ![h] = Phase("idle")]
      BY <1>10, <2>1 DEF RecipientsAccepted, Got
    <3>2. link' # link
      BY <3>1 DEF Phase, IInv, TypeOK
    <3>3. "LOADING_MESSAGE_BODY" \in SessionStates
      BY DEF SessionStates
    <3> QED
      BY <2>1, <3>1, <3>2, <3>3, StateMoves
  <2>2. CASE m[HeadOf(h)].state # "LOADING_BODY"
    BY <1>1, <1>10, <2>2, BodyLoadingDoneMoves DEF RecipientsAccepted
  <2> QED
    BY <2>1, <2>2
<1>11. CASE AwaitBody(h, m)
  <2>1. CASE m[HeadOf(h)].state = "LOADING_BODY"
    BY <1>11, <2>1, NothingMoves DEF AwaitBody
  <2>2. CASE m[HeadOf(h)].state # "LOADING_BODY"
    BY <1>1, <1>11, <2>2, BodyLoadingDoneMoves DEF AwaitBody
  <2> QED
    BY <2>1, <2>2
<1>12. CASE PayloadAccepted(h, m) \/ ResetAccepted(h, m)
  <2> DEFINE o == HeadOf(h)
  <2>1. sess[h].queue # <<>>
    BY <1>1, <1>12 DEF PayloadAccepted, ResetAccepted, Got, Sound, Talking, Open, Transferring
  <2>2. /\ m \in [Objects -> Message \cup {NoMessage}]
        /\ o \in Objects /\ m[o] \in Message
    BY <1>1, <2>1, QueuedAlive DEF Sound, HeapOK, Typed, Open, HeadOf
  <2>3. PICK mm \in {m, [m EXCEPT ![o] = MarkedAsSent(@, h)]} : Dequeue(h, mm)
    BY <1>12 DEF PayloadAccepted, ResetAccepted
  <2>4. MarkedHeap(m, mm, o, h)
    BY <2>2 DEF MarkedHeap, MarkedAsSent, Message
  <2> QED
    BY <1>1, <2>1, <2>3, <2>4, DequeueMoves
<1> QED
  BY <1>4, <1>5, <1>6, <1>7, <1>8, <1>9, <1>10, <1>11, <1>12 DEF SessionActs

-----------------------------------------------------------------------------
(* The invariant of the loop. *)

\* A closed session is gone by the end of the round that made it.
Reaped ==
  \A h \in Hosts : Open(h) /\ sess[h].state = "CLOSED" =>
    phase = "messages" \/ (phase = "sessions" /\ h \in todo)

\* start_message_transfer has asked for the body of the head.
Requested ==
  \A h \in Hosts : Open(h) /\ sess[h].state = "SENDING_MAIL_OR_RCPT" =>
    msg[HeadOf(h)].state # "HEADERS_LOADED"

\* Where a reply and the head's body are both awaited, poll() reports both.
BodyComes ==
  \A h \in Hosts :
    /\ Open(h) /\ sess[h].state = "SENDING_MAIL_OR_RCPT"
    /\ ToCome(h) /\ Socket(h) \in ready
    /\ msg[HeadOf(h)].state = "LOADING_BODY"
    => msg[HeadOf(h)].open /\ File(HeadOf(h)) \in ready

LoopIInv ==
  /\ IInv
  /\ Places
  /\ Reaped
  /\ Requested
  /\ Regular => BodyInTime /\ BodyComes

\* The transfers are where they were, and so are their messages.
TransfersSame ==
  \A h \in Hosts : sess'[h] # NoSession =>
    /\ sess'[h].state = "LOADING_MESSAGE_BODY" =>
         Open(h) /\ sess[h].state = "LOADING_MESSAGE_BODY"
    /\ sess'[h].state = "SENDING_MAIL_OR_RCPT" =>
         /\ Open(h) /\ sess[h].state = "SENDING_MAIL_OR_RCPT"
         /\ Head(sess'[h].queue) = HeadOf(h)
         /\ msg'[HeadOf(h)] = msg[HeadOf(h)]

LEMMA TransfersKeep ==
  ASSUME LoopIInv, TransfersSame, ready' = ready, \A h \in Hosts : ToCome(h)' => ToCome(h)
  PROVE  Requested' /\ (Regular => BodyInTime' /\ BodyComes')
<1>1. Requested'
  BY DEF LoopIInv, TransfersSame, Requested, Open, HeadOf
<1>2. Regular => BodyInTime'
  BY DEF LoopIInv, TransfersSame, BodyInTime, Open
<1>3. Regular => BodyComes'
  <2> SUFFICES ASSUME Regular, NEW h \in Hosts,
                      sess'[h] # NoSession, sess'[h].state = "SENDING_MAIL_OR_RCPT",
                      ToCome(h)', Socket(h) \in ready',
                      msg'[Head(sess'[h].queue)].state = "LOADING_BODY"
               PROVE  /\ msg'[Head(sess'[h].queue)].open
                      /\ File(Head(sess'[h].queue)) \in ready'
    BY DEF BodyComes, Open, HeadOf, Socket, File
  <2>1. /\ Open(h) /\ sess[h].state = "SENDING_MAIL_OR_RCPT"
        /\ Head(sess'[h].queue) = HeadOf(h) /\ msg'[HeadOf(h)] = msg[HeadOf(h)]
    BY DEF TransfersSame
  <2>2. ToCome(h) /\ Socket(h) \in ready /\ BodyComes
    BY DEF LoopIInv
  <2> QED
    BY <2>1, <2>2 DEF BodyComes
<1> QED
  BY <1>1, <1>2, <1>3

\* The head of a session that is transferring is queued, so nothing that
\* happens to the messages on the list or to those to come concerns it.
LEMMA TransferHead ==
  ASSUME IInv, NEW h \in Hosts, Open(h), sess[h].state \in Transferring
  PROVE  /\ sess[h].queue # <<>> /\ HeadOf(h) \in Objects /\ HeadOf(h) \in QueueIn(sess, h)
         /\ HeadOf(h) \notin listed /\ msg[HeadOf(h)] \in Message /\ Alive(HeadOf(h))
         /\ msg[HeadOf(h)].state # "LOADING_HEADERS"
<1>1. sess[h].queue # <<>>
  BY DEF IInv, Sound, Talking, Open
<1>2. HeadOf(h) \in QueueIn(sess, h)
  BY <1>1, QueuedAlive DEF IInv, Sound, Open, HeadOf
<1> QED
  BY <1>1, <1>2, QueuedAlive, NothingAssumption DEF IInv, Sound, HeapOK, Fit, Alive

\* Where no session is changed, the transfers are the same when their messages
\* are.
LEMMA SessionsSame ==
  ASSUME IInv, UNCHANGED sess,
         \A p \in Objects : Alive(p) /\ p \notin listed => msg'[p] = msg[p]
  PROVE  TransfersSame
BY TransferHead DEF TransfersSame, Transferring, Open, HeadOf

-----------------------------------------------------------------------------
(* Every step of the loop keeps it. *)

LEMMA SubscribeKeeps ==
  ASSUME LoopIInv, IInv', Subscribe
  PROVE  LoopIInv'
<1>1. PICK o \in Objects : MessageSubscribe(o)
  BY DEF Subscribe
<1>2. /\ UNCHANGED <<sess, listed, up>> /\ UNCHANGED loop
      /\ phase = "subscribe"
      /\ \/ msg' = [msg EXCEPT ![o].open = TRUE]
         \/ msg' = [msg EXCEPT ![o].state = "LOADING_FAILED"]
  BY <1>1 DEF Subscribe, MessageSubscribe, spool
<1>3. Places' /\ Reaped'
  BY <1>2 DEF LoopIInv, Places, Reaped, Visited, Open, loop
<1>4. Requested'
  <2> SUFFICES ASSUME NEW h \in Hosts, Open(h), sess[h].state = "SENDING_MAIL_OR_RCPT"
               PROVE  msg'[HeadOf(h)].state # "HEADERS_LOADED"
    BY <1>2 DEF Requested, Open, HeadOf
  <2>1. /\ HeadOf(h) \in Objects /\ msg[HeadOf(h)] \in Message
        /\ msg[HeadOf(h)].state # "HEADERS_LOADED"
    BY TransferHead DEF LoopIInv, Requested, Transferring
  <2>2. msg \in [Objects -> Message \cup {NoMessage}]
    BY DEF LoopIInv, IInv, TypeOK
  <2> QED
    BY <1>2, <2>1, <2>2 DEF Message
<1>5. Regular => BodyInTime' /\ BodyComes'
  BY <1>2 DEF LoopIInv, BodyInTime, BodyComes, ToCome, Open, loop
<1> QED
  BY <1>3, <1>4, <1>5 DEF LoopIInv

\* poll() has the file of every head that is being loaded in its set, and a
\* regular file is ready.
LEMMA PollKeeps ==
  ASSUME LoopIInv, IInv', Poll
  PROVE  LoopIInv'
<1>1. /\ phase = "subscribe" /\ phase' = "signals" /\ up /\ todo' = {}
      /\ UNCHANGED <<msg, sess, listed, up>>
  BY DEF Poll, GoOn, vars
<1>2. Places' /\ Reaped' /\ Requested'
  BY <1>1 DEF LoopIInv, Places, Reaped, Requested, Open, HeadOf
<1>3. Regular => BodyInTime'
  BY <1>1 DEF LoopIInv, BodyInTime, Open
<1>4. Regular => BodyComes'
  <2> SUFFICES ASSUME Regular, NEW h \in Hosts, Open(h),
                      sess[h].state = "SENDING_MAIL_OR_RCPT",
                      msg[HeadOf(h)].state = "LOADING_BODY"
               PROVE  msg[HeadOf(h)].open /\ File(HeadOf(h)) \in ready'
    BY <1>1 DEF BodyComes, Open, HeadOf
  <2>1. HeadOf(h) \in Objects /\ HeadOf(h) \in Heads
    BY TransferHead DEF LoopIInv, Transferring, Heads, Busy
  <2>2. msg[HeadOf(h)].open
    BY <2>1 DEF Poll, Unopened, Loading
  <2>3. File(HeadOf(h)) \in Watched \cap SurelyReady
    BY <2>1, <2>2 DEF Watched, WatchedByClient, SurelyReady, Loading
  <2>4. Watched \cap SurelyReady \subseteq ready'
    BY DEF Poll
  <2> QED
    BY <2>2, <2>3, <2>4
<1> QED
  BY <1>2, <1>3, <1>4 DEF LoopIInv

LEMMA SignalNotifyKeeps ==
  ASSUME LoopIInv, IInv', SignalNotify
  PROVE  LoopIInv'
<1>1. /\ phase = "signals" /\ phase' = "discover"
      /\ UNCHANGED <<msg, sess, listed, up, ready, todo>>
  BY DEF SignalNotify, vars
<1>2. Places' /\ Reaped'
  BY <1>1 DEF LoopIInv, Places, Reaped, Open
<1>3. TransfersSame
  BY <1>1, SessionsSame DEF LoopIInv
<1>4. \A h \in Hosts : ToCome(h)' => ToCome(h)
  BY <1>1 DEF ToCome
<1> QED
  BY <1>1, <1>2, <1>3, <1>4, TransfersKeep DEF LoopIInv

LEMMA DiscoverAllKeeps ==
  ASSUME LoopIInv, IInv', DiscoverAll
  PROVE  LoopIInv'
<1>1. CASE UNCHANGED loop
  <2>1. PICK f \in Files : Discover(f)
    BY <1>1 DEF DiscoverAll, GoOn, loop, After
  <2>2. PICK o \in Objects : /\ ~Alive(o)
                             /\ msg' = [msg EXCEPT ![o] = Created(f)]
                             /\ listed' = listed \cup {o}
    BY <2>1 DEF Discover
  <2>3. UNCHANGED <<sess, up, phase, ready, todo>>
    BY <1>1, <2>1 DEF Discover, Spool!Discover, loop
  <2>4. Places' /\ Reaped'
    BY <2>2, <2>3 DEF LoopIInv, Places, Reaped, Visited, Open
  <2>5. TransfersSame
    <3>1. \A p \in Objects : Alive(p) => msg'[p] = msg[p]
      BY <2>2 DEF LoopIInv, IInv, TypeOK
    <3> QED
      BY <2>3, <3>1, SessionsSame DEF LoopIInv
  <2>6. \A h \in Hosts : ToCome(h)' => ToCome(h)
    BY <2>3 DEF ToCome
  <2> QED
    BY <2>3, <2>4, <2>5, <2>6, TransfersKeep DEF LoopIInv
<1>2. CASE ~UNCHANGED loop
  <2>1. /\ phase = "discover" /\ phase' = "messages" /\ todo' = listed
        /\ UNCHANGED <<msg, sess, listed, up, ready>>
    BY <1>2 DEF DiscoverAll, GoOn, After, ToVisit, vars
  <2>2. Places' /\ Reaped'
    BY <2>1 DEF LoopIInv, Places, Reaped, Open
  <2>3. TransfersSame
    BY <2>1, SessionsSame DEF LoopIInv
  <2>4. \A h \in Hosts : ToCome(h)' => ToCome(h)
    BY <2>1 DEF ToCome
  <2> QED
    BY <2>1, <2>2, <2>3, <2>4, TransfersKeep DEF LoopIInv
<1> QED
  BY <1>1, <1>2

LEMMA NextLoopKeeps ==
  ASSUME LoopIInv, IInv', NextLoop
  PROVE  LoopIInv'
<1>1. UNCHANGED <<msg, sess, listed, up>> /\ todo = {}
  BY DEF NextLoop, vars
<1>2. TransfersSame
  BY <1>1, SessionsSame DEF LoopIInv
<1>3. CASE phase = "messages"
  <2>1. phase' = "sessions" /\ todo' = Visited /\ ready' = ready
    BY <1>3 DEF NextLoop, GoOn, After, ToVisit
  <2>2. Places' /\ Reaped'
    BY <1>1, <1>3, <2>1 DEF LoopIInv, Places, Reaped, Visited, Open
  <2>3. \A h \in Hosts : ToCome(h)' => ToCome(h)
    BY <1>3 DEF ToCome
  <2> QED
    BY <1>2, <2>1, <2>2, <2>3, TransfersKeep DEF LoopIInv
<1>4. CASE phase = "sessions"
  <2>1. phase' = "subscribe"
    BY <1>4 DEF NextLoop, GoOn, After
  <2>2. Places' /\ Reaped'
    BY <1>1, <1>4, <2>1 DEF LoopIInv, Places, Reaped, Open
  <2>3. Requested' /\ (Regular => BodyInTime')
    BY <1>1 DEF LoopIInv, Requested, BodyInTime, Open, HeadOf
  <2>4. BodyComes'
    BY <2>1 DEF BodyComes, ToCome
  <2> QED
    BY <2>2, <2>3, <2>4 DEF LoopIInv
<1> QED
  BY <1>3, <1>4 DEF NextLoop

\* What the round for a listed message does to the others and to the sessions.
LEMMA DistributeShares ==
  ASSUME IInv, NEW o \in listed, NEW m \in Notified(msg[o]), Distribute(o, m)
  PROVE  /\ Shares(sess', o, m.dests) /\ m.dests \in SUBSET Hosts
         /\ \A p \in Objects \ {o} : msg'[p] = msg[p]
<1>1. /\ o \in Objects /\ msg[o] \in Message /\ msg \in [Objects -> Message \cup {NoMessage}]
      /\ HoldersIn(sess, o) = {} /\ QueuedOnce(sess)
      /\ sess \in [Hosts -> Session \cup {NoSession}]
  BY DEF IInv, TypeOK, Sound, HeapOK, Fit, Counted
<1>2. m.dests \in SUBSET Hosts
  <2> DEFINE x == msg[o]
  <2>1. x \in Message /\ m \in Notified(x)
    BY <1>1
  <2> HIDE DEF x
  <2>2. Dests[x.path] \in SUBSET Hosts /\ x.dests \in SUBSET Hosts
    BY <2>1, ClientAssumption DEF Message
  <2> QED
    BY <2>1, <2>2 DEF Notified, Failed, Message
<1>3. PICK failed : Given(sess', o, m.dests, failed)
  BY DEF Distribute, Given
<1>4. Shares(sess', o, m.dests)
  BY <1>1, <1>2, <1>3, SessionsGiven
<1>5. \A p \in Objects \ {o} : msg'[p] = msg[p]
  BY <1>1 DEF Distribute, Released
<1> QED
  BY <1>2, <1>4, <1>5

LEMMA VisitMessageKeeps ==
  ASSUME LoopIInv, IInv', NEW o \in Objects, VisitMessage(o)
  PROVE  LoopIInv'
<1>1. PICK m \in Seen(o) :
        \/ Distribute(o, m)
        \/ Drop(o, m)
        \/ m = msg[o] /\ m.state = "LOADING_HEADERS" /\ UNCHANGED <<msg, sess, listed>>
  BY DEF VisitMessage
<1>2. /\ phase = "messages" /\ phase' = "messages" /\ o \in todo /\ todo' = todo \ {o}
      /\ ready' = ready /\ up' = up
  BY DEF VisitMessage, GoOn, spool
<1>3. o \in listed /\ m \in Notified(msg[o])
  BY <1>2 DEF LoopIInv, Places, Seen, Notified
<1>4. listed' \in {listed, listed \ {o}}
  BY <1>1 DEF Distribute, Drop
<1>5. Places' /\ Reaped'
  BY <1>2, <1>4 DEF LoopIInv, Places, Reaped
<1>6. \A h \in Hosts : ToCome(h)' => ToCome(h)
  BY <1>2 DEF ToCome
<1>7. TransfersSame
  <2>1. CASE Distribute(o, m)
    <3>1. /\ Shares(sess', o, m.dests) /\ m.dests \in SUBSET Hosts
          /\ \A p \in Objects \ {o} : msg'[p] = msg[p]
      BY <1>3, <2>1, DistributeShares DEF LoopIInv
    <3>2. ASSUME NEW h \in Hosts, sess'[h] # NoSession,
                 sess'[h].state \in {"LOADING_MESSAGE_BODY", "SENDING_MAIL_OR_RCPT"}
          PROVE  /\ Open(h) /\ sess[h].state = sess'[h].state
                 /\ Head(sess'[h].queue) = HeadOf(h)
                 /\ msg'[HeadOf(h)] = msg[HeadOf(h)]
      <4>1. Open(h) /\ sess[h].state = sess'[h].state
        BY <3>1, <3>2 DEF Shares, Open
      <4>2. /\ sess[h].queue # <<>> /\ HeadOf(h) \in Objects
            /\ HeadOf(h) \notin listed
        BY <3>2, <4>1, TransferHead DEF LoopIInv, Transferring
      <4>3. Head(sess'[h].queue) = HeadOf(h)
        BY <3>1, <4>1, <4>2 DEF Shares, HeadOf
      <4> QED
        BY <1>3, <3>1, <4>1, <4>2, <4>3
    <3> QED
      BY <3>2 DEF TransfersSame
  <2>2. CASE Drop(o, m)
    <3>1. sess' = sess /\ \A p \in Objects \ {o} : msg'[p] = msg[p]
      BY <2>2 DEF Drop, Released, LoopIInv, IInv, TypeOK
    <3>2. \A p \in Objects : Alive(p) /\ p \notin listed => msg'[p] = msg[p]
      BY <1>3, <3>1
    <3> QED
      BY <3>1, <3>2, SessionsSame DEF LoopIInv
  <2>3. CASE UNCHANGED <<msg, sess, listed>>
    BY <2>3, SessionsSame DEF LoopIInv
  <2> QED
    BY <1>1, <2>1, <2>2, <2>3
<1> QED
  BY <1>2, <1>5, <1>6, <1>7, TransfersKeep DEF LoopIInv

\* What is read of a head in a visit: nothing changes but the head, which goes
\* on, and a head that is queued has had its headers.
LEMMA HeadSeenProperties ==
  ASSUME IInv, NEW h \in Hosts, Open(h), NEW m \in HeadSeen(h)
  PROVE  /\ m \in HeadNotified(h)
         /\ \A o \in Objects : msg[o] # NoMessage /\ m[o] # msg[o] =>
              /\ sess[h].queue # <<>> /\ o = HeadOf(h) /\ m[o] \in Notified(msg[o])
              /\ m[o].state \in {"BODY_LOADED", "LOADING_FAILED"}
         /\ \A o \in Objects : m[o] # NoMessage => msg[o] # NoMessage
         /\ Regular /\ sess[h].queue # <<>> /\ File(HeadOf(h)) \in ready
              /\ msg[HeadOf(h)].open => m[HeadOf(h)].state # "LOADING_BODY"
<1>1. m \in HeadNotified(h)
  BY DEF HeadSeen, HeadNotified, Seen, Notified
<1>2. CASE ~Busy(h)
  BY <1>1, <1>2 DEF HeadSeen, Busy
<1>3. CASE Busy(h)
  <2> DEFINE o == HeadOf(h)
             x == msg[o]
  <2>1. /\ o \in Objects /\ x \in Message /\ x.state # "LOADING_HEADERS"
        /\ x # NoMessage /\ sess[h].queue # <<>>
    <3>1. o \in QueueIn(sess, h) /\ o \in Objects /\ x \in Message
      BY <1>3, QueuedAlive DEF IInv, Sound, Busy, Open, HeadOf
    <3> QED
      BY <1>3, <3>1, NothingAssumption DEF IInv, Sound, HeapOK, Fit, Busy
  <2>2. PICK n \in Seen(o) : m = [msg EXCEPT ![o] = n]
    BY <1>3 DEF HeadSeen
  <2>3. n \in Notified(x)
    BY <2>2 DEF Seen, Notified
  <2>4. File(o) \in ready /\ Regular /\ x.state = "LOADING_BODY" /\ x.open => n # x
    BY <2>2 DEF Seen, Loading
  <2>5. msg \in [Objects -> Message \cup {NoMessage}]
    BY DEF IInv, TypeOK
  <2>6. m[o] = n /\ \A p \in Objects \ {o} : m[p] = msg[p]
    BY <2>1, <2>2, <2>5
  <2> HIDE DEF x
  <2>7. n = x \/ n.state \in {"BODY_LOADED", "LOADING_FAILED"}
    BY <2>1, <2>3 DEF Notified, Failed, Message
  <2>8. n # NoMessage
    BY <2>1, <2>3, NotifiedLater, NothingAssumption
  <2>9. x.state # "LOADING_BODY" /\ n = x => n.state # "LOADING_BODY"
    OBVIOUS
  <2> QED
    BY <1>1, <2>1, <2>3, <2>4, <2>6, <2>7, <2>8, <2>9 DEF x
<1> QED
  BY <1>2, <1>3

\* Only a stop, a crash or a failed unlink ends the process.
LEMMA ActsStaysUp ==
  ASSUME NEW h \in Hosts, NEW m, SessionActs(h, m)
  PROVE  up' = up
<1>1. ASSUME Close(h, m) PROVE up' = up
  BY <1>1 DEF Close, Release
<1>2. ASSUME UNCHANGED spool PROVE up' = up
  BY <1>2 DEF spool
<1>3. ASSUME NEW st, GoTo(h, st, m) PROVE up' = up
  BY <1>2, <1>3 DEF GoTo
<1>4. ASSUME BodyLoadingDone(h, m) PROVE up' = up
  BY <1>1, <1>3, <1>4 DEF BodyLoadingDone
<1>5. ASSUME NEW mm, Dequeue(h, mm) PROVE up' = up
  BY <1>5 DEF Dequeue, Release
<1>6. CASE Resolve(h, m) \/ Wait(h, m) \/ HeloAccepted(h, m) \/ NextRecipient(h, m)
  BY <1>2, <1>6 DEF Resolve, Wait, HeloAccepted, NextRecipient
<1>7. CASE Connected(h, m) \/ Greeted(h, m) \/ DataAccepted(h, m)
  BY <1>3, <1>7 DEF Connected, Greeted, DataAccepted
<1>8. CASE \/ OutOfAddresses(h, m) \/ Reap(h, m) \/ ConnectionLost(h, m)
           \/ QuitAccepted(h, m) \/ Unexpected(h, m)
  BY <1>1, <1>8 DEF OutOfAddresses, Reap, ConnectionLost, QuitAccepted, Unexpected
<1>9. CASE RecipientsAccepted(h, m)
  BY <1>2, <1>4, <1>9 DEF RecipientsAccepted
<1>10. CASE AwaitBody(h, m)
  BY <1>2, <1>4, <1>10 DEF AwaitBody
<1>11. CASE PayloadAccepted(h, m) \/ ResetAccepted(h, m)
  BY <1>5, <1>11 DEF PayloadAccepted, ResetAccepted
<1> QED
  BY <1>6, <1>7, <1>8, <1>9, <1>10, <1>11 DEF SessionActs

\* With every session gone there is nothing that the invariant speaks of.
LEMMA NobodyLeft ==
  ASSUME LoopIInv, IInv', Vanish, up' = FALSE, phase' = "off"
  PROVE  LoopIInv'
<1>1. \A h \in Hosts : sess'[h] = NoSession
  BY DEF Vanish
<1>2. Places' /\ Reaped' /\ Requested' /\ BodyInTime' /\ BodyComes'
  BY <1>1 DEF Places, Reaped, Requested, BodyInTime, BodyComes, Open
<1> QED
  BY <1>2 DEF LoopIInv

\* The visit to a session: no other session in this round loses a body that
\* poll() has reported to it, and the session finds its own loaded.
LEMMA VisitSessionKeeps ==
  ASSUME LoopIInv, IInv', NEW h \in Hosts, VisitSession(h)
  PROVE  LoopIInv'
<1>1. phase = "sessions" /\ h \in todo /\ up /\ Open(h) /\ ready' = ready
  BY DEF LoopIInv, Places, VisitSession, Visited
<1>2. CASE UnlinkDies(h) /\ GoOn("off", {})
  BY <1>2, NobodyLeft DEF UnlinkDies, GoOn, Spool!Stop, Spool!End
<1>3. ASSUME NEW m \in HeadSeen(h), SessionActs(h, m),
             sess[h].state \in Exchanging => (Socket(h) \in ready <=> link' # link),
             GoOn("sessions", todo \ {h}), listed' = listed
      PROVE  LoopIInv'
  <2>1. /\ m \in HeadNotified(h)
        /\ \A o \in Objects : msg[o] # NoMessage /\ m[o] # msg[o] =>
             /\ sess[h].queue # <<>> /\ o = HeadOf(h) /\ m[o] \in Notified(msg[o])
             /\ m[o].state \in {"BODY_LOADED", "LOADING_FAILED"}
        /\ Regular /\ sess[h].queue # <<>> /\ File(HeadOf(h)) \in ready
             /\ msg[HeadOf(h)].open => m[HeadOf(h)].state # "LOADING_BODY"
    BY <1>1, HeadSeenProperties DEF LoopIInv
  <2>2. Moves(h, m) /\ up' = up
    BY <1>1, <1>3, <2>1, SessionMoves, ActsStaysUp DEF LoopIInv
  <2>3. phase' = "sessions" /\ todo' = todo \ {h}
    BY <1>3 DEF GoOn
  <2>4. \A g \in Hosts \ {h} : sess'[g] = sess[g]
    BY <2>2 DEF Moves
  <2>5. Places'
    BY <1>1, <2>2, <2>3, <2>4 DEF LoopIInv, Places, Visited, Open
  <2>6. Reaped'
    BY <1>1, <2>2, <2>3, <2>4 DEF LoopIInv, Reaped, Moves, Open
  <2>7. ASSUME NEW g \in Hosts \ {h}, Open(g), sess[g].state = "SENDING_MAIL_OR_RCPT"
        PROVE  LET o == HeadOf(g) IN
               /\ o \in Objects
               /\ msg'[o].state # "HEADERS_LOADED"
               /\ msg'[o].state = "LOADING_BODY" =>
                    msg[o].state = "LOADING_BODY" /\ msg'[o].open = msg[o].open
    <3> DEFINE o == HeadOf(g)
    <3>1. o \in Objects /\ msg[o] # NoMessage /\ msg[o].state # "HEADERS_LOADED"
      BY <2>7, TransferHead DEF LoopIInv, Requested, Transferring, Alive
    <3>2. msg'[o] # NoMessage
      <4>1. o \in QueueIn(sess', g)
        BY <2>4, <2>7, TransferHead DEF LoopIInv, Transferring, QueueIn
      <4> QED
        BY <4>1, QueuedAlive, NothingAssumption DEF IInv, Sound
    <3> HIDE DEF o
    <3>3. \/ msg'[o].state = m[o].state /\ msg'[o].open = m[o].open
          \/ m[o].state = "HEADERS_LOADED" /\ msg'[o].state = "LOADING_BODY"
      BY <2>2, <3>1, <3>2 DEF Moves, Moved
    <3>4. m[o] = msg[o] \/ m[o].state \in {"BODY_LOADED", "LOADING_FAILED"}
      BY <2>1, <3>1
    <3> QED
      BY <3>1, <3>3, <3>4 DEF o
  <2>8. Requested'
    <3> SUFFICES ASSUME NEW g \in Hosts, sess'[g] # NoSession,
                        sess'[g].state = "SENDING_MAIL_OR_RCPT"
                 PROVE  msg'[Head(sess'[g].queue)].state # "HEADERS_LOADED"
      BY DEF Requested, Open, HeadOf
    <3>1. CASE g # h
      BY <2>4, <2>7, <3>1 DEF Open, HeadOf
    <3>2. CASE g = h
      <4> SUFFICES ASSUME sess[h].state = "SENDING_MAIL_OR_RCPT",
                          sess'[h].queue = sess[h].queue, msg' = m
                   PROVE  m[HeadOf(h)].state # "HEADERS_LOADED"
        BY <2>2, <3>2 DEF Moves, HeadOf
      <4>1. /\ HeadOf(h) \in Objects /\ msg[HeadOf(h)] # NoMessage
            /\ msg[HeadOf(h)].state # "HEADERS_LOADED"
        BY <1>1, TransferHead DEF LoopIInv, Requested, Transferring, Alive
      <4> QED
        BY <2>1, <4>1
    <3> QED
      BY <3>1, <3>2
  <2>9. Regular => BodyInTime'
    <3> SUFFICES ASSUME Regular, NEW g \in Hosts, sess'[g] # NoSession,
                        sess'[g].state = "LOADING_MESSAGE_BODY"
                 PROVE  FALSE
      BY DEF BodyInTime, Open
    <3>1. g = h
      BY <2>4 DEF LoopIInv, BodyInTime, Open
    <3>2. /\ sess[h].state = "SENDING_MAIL_OR_RCPT"
          /\ m[HeadOf(h)].state = "LOADING_BODY" /\ link' # link
      BY <1>1, <2>2, <3>1 DEF LoopIInv, BodyInTime, Moves
    <3>3. Socket(h) \in ready
      BY <1>3, <3>2 DEF Exchanging
    <3>4. /\ HeadOf(h) \in Objects /\ msg[HeadOf(h)] # NoMessage /\ sess[h].queue # <<>>
      BY <1>1, <3>2, TransferHead DEF LoopIInv, Transferring, Alive
    <3>5. msg[HeadOf(h)].state = "LOADING_BODY"
      BY <2>1, <3>2, <3>4
    <3>6. msg[HeadOf(h)].open /\ File(HeadOf(h)) \in ready
      BY <1>1, <3>2, <3>3, <3>5 DEF LoopIInv, BodyComes, ToCome
    <3> QED
      BY <2>1, <3>2, <3>4, <3>6
  <2>10. Regular => BodyComes'
    <3> SUFFICES ASSUME Regular, NEW g \in Hosts, sess'[g] # NoSession,
                        sess'[g].state = "SENDING_MAIL_OR_RCPT",
                        ToCome(g)', Socket(g) \in ready,
                        msg'[Head(sess'[g].queue)].state = "LOADING_BODY"
                 PROVE  /\ msg'[Head(sess'[g].queue)].open
                        /\ File(Head(sess'[g].queue)) \in ready
      BY <1>1 DEF BodyComes, Open, HeadOf, Socket, File
    <3>1. g # h /\ g \in todo
      BY <2>3 DEF ToCome
    <3>2. /\ Open(g) /\ sess[g].state = "SENDING_MAIL_OR_RCPT"
          /\ Head(sess'[g].queue) = HeadOf(g)
      BY <2>4, <3>1 DEF Open, HeadOf
    <3>3. msg[HeadOf(g)].state = "LOADING_BODY" /\ msg'[HeadOf(g)].open = msg[HeadOf(g)].open
      BY <2>7, <3>1, <3>2
    <3> QED
      BY <1>1, <3>1, <3>2, <3>3 DEF LoopIInv, BodyComes, ToCome
  <2> QED
    BY <2>5, <2>6, <2>8, <2>9, <2>10 DEF LoopIInv
<1> QED
  BY <1>2, <1>3 DEF VisitSession

\* The process, and what is around it.
LEMMA ProcessKeeps ==
  ASSUME LoopIInv, IInv', LoopStart \/ LoopTerminate \/ LoopCrash \/ Signal \/ Around
  PROVE  LoopIInv'
<1>1. CASE LoopTerminate \/ LoopCrash
  BY <1>1, NobodyLeft
     DEF LoopTerminate, LoopCrash, Terminate, Crash, GoOn, Spool!Stop, Spool!End
<1>2. CASE LoopStart
  <2>1. /\ phase = "off" /\ phase' = "subscribe" /\ up'
        /\ UNCHANGED <<msg, sess, listed>>
    BY <1>2 DEF LoopStart, Start, Spool!Start, Spool!Begin, LoopIInv, Places
  <2>2. Places' /\ Reaped' /\ Requested' /\ (Regular => BodyInTime')
    BY <2>1 DEF LoopIInv, Places, Reaped, Requested, BodyInTime, Open, HeadOf
  <2>3. BodyComes'
    BY <2>1 DEF BodyComes, ToCome
  <2> QED
    BY <2>2, <2>3 DEF LoopIInv
<1>3. CASE Signal \/ Around
  <2>1. UNCHANGED <<msg, sess, listed, up, phase, ready, todo>>
    <3>1. CASE Signal
      BY <3>1 DEF Signal, vars
    <3>2. CASE Around
      BY <3>2 DEF Around, loop, MoveIn, Spool!MoveIn, Merge, Spool!Merge, Disconnect, Reply, spool
    <3> QED
      BY <1>3, <3>1, <3>2
  <2>2. Places' /\ Reaped'
    BY <2>1 DEF LoopIInv, Places, Reaped, Visited, Open
  <2>3. TransfersSame /\ \A h \in Hosts : ToCome(h)' => ToCome(h)
    BY <2>1, SessionsSame DEF LoopIInv, ToCome
  <2> QED
    BY <2>1, <2>2, <2>3, TransfersKeep DEF LoopIInv
<1> QED
  BY <1>1, <1>2, <1>3

-----------------------------------------------------------------------------
(* The theorems. *)

\* The loop is never anywhere else, and takes only Client's steps.
THEOREM LoopInvariant == LoopSpec => []LoopIInv
<1>1. LoopInit => LoopIInv
  <2> SUFFICES ASSUME LoopInit PROVE LoopIInv
    OBVIOUS
  <2>1. IInv /\ phase = "off" /\ ~up /\ \A h \in Hosts : ~Open(h)
    BY ClientStart DEF LoopInit, Init, Spool!SpoolInit, Open
  <2> QED
    BY <2>1 DEF LoopIInv, Places, Reaped, Requested, BodyInTime, BodyComes
<1>2. LoopIInv /\ [LoopNext]_loopVars => LoopIInv'
  <2> SUFFICES ASSUME LoopIInv, [LoopNext]_loopVars PROVE LoopIInv'
    OBVIOUS
  <2>1. IInv'
    BY LoopStep, ClientStep DEF LoopIInv
  <2>2. CASE Handlers
    BY <2>1, <2>2, SubscribeKeeps, SignalNotifyKeeps, DiscoverAllKeeps, NextLoopKeeps,
       VisitMessageKeeps, VisitSessionKeeps DEF Handlers
  <2>3. CASE Poll
    BY <2>1, <2>3, PollKeeps
  <2>4. CASE LoopTerminate \/ LoopStart \/ LoopCrash \/ Signal \/ Around
    BY <2>1, <2>4, ProcessKeeps
  <2>5. CASE UNCHANGED loopVars
    <3>1. UNCHANGED <<msg, sess, listed, up, phase, ready, todo>>
      BY <2>5 DEF loopVars, loop, vars
    <3>2. Places' /\ Reaped'
      BY <3>1 DEF LoopIInv, Places, Reaped, Visited, Open
    <3>3. TransfersSame /\ \A h \in Hosts : ToCome(h)' => ToCome(h)
      BY <3>1, SessionsSame DEF LoopIInv, ToCome
    <3> QED
      BY <2>1, <3>1, <3>2, <3>3, TransfersKeep DEF LoopIInv
  <2> QED
    BY <2>2, <2>3, <2>4, <2>5 DEF LoopNext
<1> QED
  BY <1>1, <1>2, PTL DEF LoopSpec

\* The loop has still to visit only messages that are on the list and sessions
\* that are open: none goes away but in its own visit.
THEOREM LoopTypeCorrect == LoopSpec => []LoopTypeOK
<1>1. LoopInit => LoopTypeOK
  BY DEF LoopInit, LoopTypeOK, Init, Spool!SpoolInit
<1>2. LoopIInv /\ LoopIInv' /\ LoopTypeOK /\ [LoopNext]_loopVars => LoopTypeOK'
  <2> SUFFICES ASSUME LoopIInv, LoopIInv', LoopTypeOK, [LoopNext]_loopVars PROVE LoopTypeOK'
    OBVIOUS
  <2>2. /\ phase' \in {"off", "subscribe", "signals", "discover", "messages", "sessions"}
        /\ phase' = "off" <=> ~up'
        /\ phase' = "messages" => todo' \subseteq listed'
        /\ phase' = "sessions" => todo' \subseteq Visited'
    BY DEF LoopIInv, Places
  <2>1. CASE UNCHANGED <<phase, ready, todo, signalled, requested>>
    <3>1. Descriptors' = Descriptors
      BY DEF Descriptors, File, Socket, Search, Maildir, Signals
    <3>2. phase' \notin {"messages", "sessions"} => todo' = {}
      BY <2>1 DEF LoopTypeOK
    <3> HIDE DEF Descriptors, Visited
    <3> QED
      BY <2>1, <2>2, <3>1, <3>2 DEF LoopTypeOK
  <2> SUFFICES ASSUME ~UNCHANGED <<phase, ready, todo, signalled, requested>>
               PROVE  /\ ready' \subseteq Descriptors
                      /\ phase' \notin {"messages", "sessions"} => todo' = {}
                      /\ signalled' \in BOOLEAN /\ requested' \in BOOLEAN
                      /\ phase' = "subscribe" => ready' = {}
    <3>1. Descriptors' = Descriptors
      BY DEF Descriptors, File, Socket, Search, Maildir, Signals
    <3> HIDE DEF Descriptors, Visited
    <3> QED
      BY <2>1, <2>2, <3>1 DEF LoopTypeOK
  <2>3. CASE Poll
    <3>1. Heads \subseteq Objects
      <4>1. ASSUME NEW h \in Hosts, Busy(h) PROVE HeadOf(h) \in Objects
        BY <4>1, QueuedAlive DEF LoopIInv, IInv, Sound, Busy, Open, HeadOf
      <4> QED
        BY <4>1 DEF Heads
    <3>2. listed \subseteq Objects
      BY DEF LoopIInv, IInv, TypeOK
    <3>3. Watched \subseteq Descriptors
      BY <3>1, <3>2 DEF Watched, WatchedByClient, Descriptors
    <3>4. ready' \subseteq Watched /\ phase' = "signals" /\ todo' = {}
          /\ UNCHANGED <<signalled, requested>>
      BY <2>3 DEF Poll, GoOn
    <3> QED
      BY <3>3, <3>4 DEF LoopTypeOK
  <2>4. CASE Subscribe \/ Signal \/ Around
    <3>1. UNCHANGED <<listed, up, phase, ready, todo, requested>>
      <4>1. CASE Subscribe
        BY <4>1 DEF Subscribe, MessageSubscribe, spool, loop
      <4>2. CASE Signal
        BY <4>2 DEF Signal, vars
      <4>3. CASE Around
        BY <4>3 DEF Around, loop, MoveIn, Spool!MoveIn, Merge, Spool!Merge, Disconnect, Reply,
                    spool
      <4> QED
        BY <2>4, <4>1, <4>2, <4>3
    <3>2. signalled' \in {signalled, TRUE}
      BY <2>4 DEF Subscribe, Signal, Around, loop
    <3> QED
      BY <3>1, <3>2 DEF LoopTypeOK
  <2>5. CASE SignalNotify
    BY <2>5 DEF SignalNotify, LoopTypeOK
  <2>6. CASE DiscoverAll
    <3>1. CASE UNCHANGED loop
      BY <2>6, <3>1 DEF DiscoverAll, LoopTypeOK, loop
    <3>2. CASE GoOn("messages", listed) /\ UNCHANGED <<vars, ready>>
      BY <2>6, <3>2 DEF DiscoverAll, GoOn, LoopTypeOK, vars
    <3> QED
      BY <2>6, <3>1, <3>2 DEF DiscoverAll, After, ToVisit
  <2>7. CASE NextLoop
    BY <2>7 DEF NextLoop, GoOn, After, ToVisit, Visited, LoopTypeOK, vars
  <2>8. CASE \E o \in Objects : VisitMessage(o)
    <3>1. PICK o \in Objects : VisitMessage(o)
      BY <2>8
    <3>2. /\ phase = "messages" /\ phase' = "messages" /\ todo' = todo \ {o}
          /\ UNCHANGED <<ready, signalled, requested>>
      BY <3>1 DEF VisitMessage, GoOn
    <3>3. listed' \in {listed, listed \ {o}}
      BY <3>1 DEF VisitMessage, Distribute, Drop
    <3> QED
      BY <3>2, <3>3 DEF LoopTypeOK
  <2>9. CASE \E h \in Hosts : VisitSession(h)
    BY <2>9 DEF VisitSession, GoOn, LoopTypeOK
  <2>10. CASE LoopStart \/ LoopTerminate \/ LoopCrash
    BY <2>10 DEF LoopStart, LoopTerminate, LoopCrash, GoOn, LoopTypeOK
  <2> QED
    BY <2>3, <2>4, <2>5, <2>6, <2>7, <2>8, <2>9, <2>10 DEF LoopNext, Handlers, loopVars, vars,
       loop
<1> QED
  BY <1>1, <1>2, LoopInvariant, PTL DEF LoopSpec

\* What poll() has reported is still so when its handler runs: the handlers that
\* run before it in the round change neither the state of its session nor the
\* file of its message.
THEOREM LoopReportsCurrent == LoopSpec => []ReportsCurrent
<1>1. LoopInit => ReportsCurrent
  BY DEF LoopInit, ReportsCurrent, ToCome, IsNext
<1>2. LoopIInv /\ ReportsCurrent /\ [LoopNext]_loopVars => ReportsCurrent'
  <2> SUFFICES ASSUME LoopIInv, ReportsCurrent, [LoopNext]_loopVars PROVE ReportsCurrent'
    OBVIOUS
  <2>a. ASSUME phase' \in {"off", "subscribe"} PROVE ReportsCurrent'
    BY <2>a DEF ReportsCurrent, ToCome, IsNext
  <2>b. ASSUME ready' = ready, \A h \in Hosts : ToCome(h)' => ToCome(h),
               \A o \in Objects : IsNext(o)' => IsNext(o),
               \A h \in Hosts : ToCome(h)' /\ Open(h) =>
                 Open(h)' /\ sess'[h].state = sess[h].state,
               \A o \in Objects : IsNext(o)' /\ Alive(o) => msg'[o] = msg[o]
        PROVE  ReportsCurrent'
    <3>1. ASSUME NEW h \in Hosts, ToCome(h)'
          PROVE  /\ Socket(h) \in ready => Open(h)' /\ sess'[h].state \in Exchanging
                 /\ Search(h) \in ready => Open(h)' /\ sess'[h].state \in Searching
      BY <2>b, <3>1 DEF ReportsCurrent
    <3>2. ASSUME NEW o \in Objects, IsNext(o)', File(o) \in ready
          PROVE  Alive(o)' /\ msg'[o].state \in Loading /\ msg'[o].open
      BY <2>b, <3>2 DEF ReportsCurrent, Alive
    <3> QED
      BY <2>b, <3>1, <3>2 DEF ReportsCurrent, Socket, Search, File, Exchanging, Searching, Loading
  <2>1. CASE Subscribe \/ LoopStart \/ LoopTerminate \/ LoopCrash
    BY <2>1, <2>a DEF Subscribe, LoopStart, LoopTerminate, LoopCrash, GoOn, loop
  <2>2. CASE Poll
    <3>1. ready' \subseteq Watched /\ UNCHANGED <<sess, msg>>
      BY <2>2 DEF Poll, vars
    <3>2. ASSUME NEW h \in Hosts, Socket(h) \in Watched
          PROVE  Open(h) /\ sess[h].state \in Exchanging
      BY <3>2 DEF Watched, WatchedByClient, Socket, Search, File, Maildir, Signals
    <3>3. ASSUME NEW h \in Hosts, Search(h) \in Watched
          PROVE  Open(h) /\ sess[h].state \in Searching
      BY <3>3 DEF Watched, WatchedByClient, Socket, Search, File, Maildir, Signals
    <3>4. ASSUME NEW o \in Objects, File(o) \in Watched
          PROVE  Alive(o) /\ msg[o].state \in Loading /\ msg[o].open
      <4>1. o \in listed \cup Heads /\ msg[o].state \in Loading /\ msg[o].open
        BY <3>4 DEF Watched, WatchedByClient, Socket, Search, File, Maildir, Signals
      <4>2. o \in listed => Alive(o)
        BY DEF LoopIInv, IInv, Sound, HeapOK, Counted, Alive
      <4>3. o \in Heads => Alive(o)
        BY QueuedAlive, NothingAssumption DEF LoopIInv, IInv, Sound, Heads, Busy, Open, HeadOf,
                                              Alive
      <4> QED
        BY <4>1, <4>2, <4>3
    <3>5. /\ \A h \in Hosts :
               /\ Socket(h) \in ready' => Open(h)' /\ sess'[h].state \in Exchanging
               /\ Search(h) \in ready' => Open(h)' /\ sess'[h].state \in Searching
          /\ \A o \in Objects : File(o) \in ready' =>
               Alive(o)' /\ msg'[o].state \in Loading /\ msg'[o].open
      BY <3>1, <3>2, <3>3, <3>4 DEF Open, Alive
    <3> QED
      BY <3>5 DEF ReportsCurrent
  <2>3. CASE SignalNotify \/ Signal \/ Around \/ UNCHANGED loopVars
    <3>1. UNCHANGED <<sess, msg, ready, todo>>
      <4>1. CASE Around
        BY <4>1 DEF Around, loop, MoveIn, Spool!MoveIn, Merge, Spool!Merge, Disconnect, Reply, spool
      <4> QED
        BY <2>3, <4>1 DEF SignalNotify, Signal, loopVars, vars, loop
    <3>2. \/ phase' = phase
          \/ phase = "signals" /\ phase' = "discover"
      <4>1. CASE SignalNotify
        BY <4>1 DEF SignalNotify
      <4>2. CASE Signal
        BY <4>2 DEF Signal
      <4>3. CASE Around
        BY <4>3 DEF Around, loop
      <4>4. CASE UNCHANGED loopVars
        BY <4>4 DEF loopVars, loop
      <4> QED
        BY <2>3, <4>1, <4>2, <4>3, <4>4
    <3>3. /\ \A h \in Hosts : ToCome(h)' => ToCome(h)
          /\ \A o \in Objects : IsNext(o)' => IsNext(o)
      BY <3>1, <3>2 DEF ToCome, IsNext
    <3> QED
      BY <3>1, <3>3, <2>b DEF Open
  <2>4. CASE DiscoverAll
    <3>1. CASE UNCHANGED loop
      <4>1. PICK f \in Files : Discover(f)
        BY <2>4, <3>1 DEF DiscoverAll, GoOn, loop, After
      <4>2. PICK o \in Objects : ~Alive(o) /\ msg' = [msg EXCEPT ![o] = Created(f)]
        BY <4>1 DEF Discover
      <4>3. \A p \in Objects : Alive(p) => msg'[p] = msg[p]
        BY <4>2 DEF LoopIInv, IInv, TypeOK
      <4>4. UNCHANGED <<sess, phase, ready, todo>>
        BY <3>1, <4>1 DEF Discover, loop
      <4> QED
        BY <4>3, <4>4, <2>b DEF ToCome, IsNext, Open
    <3>2. CASE ~UNCHANGED loop
      <4>1. phase = "discover" /\ phase' = "messages" /\ UNCHANGED <<sess, msg, ready>>
        BY <2>4, <3>2 DEF DiscoverAll, GoOn, After, vars
      <4> QED
        BY <4>1, <2>b DEF ToCome, IsNext, Open
    <3> QED
      BY <3>1, <3>2
  <2>5. CASE NextLoop
    <3>1. CASE phase = "messages"
      <4>1. phase' = "sessions" /\ UNCHANGED <<sess, msg, ready>>
        BY <2>5, <3>1 DEF NextLoop, GoOn, After, vars
      <4> QED
        BY <3>1, <4>1, <2>b DEF ToCome, IsNext, Open
    <3>2. CASE phase = "sessions"
      BY <2>5, <3>2, <2>a DEF NextLoop, GoOn, After
    <3> QED
      BY <2>5, <3>1, <3>2 DEF NextLoop
  <2>6. ASSUME NEW o \in Objects, VisitMessage(o) PROVE ReportsCurrent'
    <3>1. PICK m \in Seen(o) :
            \/ Distribute(o, m)
            \/ Drop(o, m)
            \/ m = msg[o] /\ m.state = "LOADING_HEADERS" /\ UNCHANGED <<msg, sess, listed>>
      BY <2>6 DEF VisitMessage
    <3>2. /\ phase = "messages" /\ phase' = "messages" /\ o \in todo /\ todo' = todo \ {o}
          /\ ready' = ready
      BY <2>6 DEF VisitMessage, GoOn
    <3>3. o \in listed /\ m \in Notified(msg[o])
      BY <3>1, <3>2 DEF LoopIInv, Places, Seen, Notified
    <3>4. /\ \A p \in Objects \ {o} : msg'[p] = msg[p]
          /\ \A h \in Hosts : Open(h) => Open(h)' /\ sess'[h].state = sess[h].state
      <4>1. CASE Distribute(o, m)
        <5>1. /\ Shares(sess', o, m.dests)
              /\ \A p \in Objects \ {o} : msg'[p] = msg[p]
          BY <3>3, <4>1, DistributeShares DEF LoopIInv
        <5> QED
          BY <5>1 DEF Shares, Open
      <4>2. CASE Drop(o, m)
        BY <4>2 DEF Drop, Released, LoopIInv, IInv, TypeOK, Open
      <4>3. CASE UNCHANGED <<msg, sess, listed>>
        BY <4>3 DEF Open
      <4> QED
        BY <3>1, <4>1, <4>2, <4>3
    <3>5. \A p \in Objects : IsNext(p)' => p # o /\ IsNext(p)
      BY <3>2 DEF IsNext
    <3>6. \A h \in Hosts : ToCome(h)' => ToCome(h)
      BY <3>2 DEF ToCome
    <3> QED
      BY <3>2, <3>4, <3>5, <3>6, <2>b
  <2>7. ASSUME NEW h \in Hosts, VisitSession(h) PROVE ReportsCurrent'
    <3>1. phase = "sessions" /\ h \in todo /\ Open(h) /\ ready' = ready
      BY <2>7 DEF LoopIInv, Places, VisitSession, Visited
    <3>2. CASE GoOn("off", {})
      BY <3>2, <2>a DEF GoOn
    <3>3. ASSUME NEW m \in HeadSeen(h), SessionActs(h, m), GoOn("sessions", todo \ {h})
          PROVE  ReportsCurrent'
      <4>1. m \in HeadNotified(h)
        BY <3>1, HeadSeenProperties DEF LoopIInv
      <4>2. Moves(h, m)
        BY <3>1, <3>3, <4>1, SessionMoves DEF LoopIInv
      <4>3. phase' = "sessions" /\ todo' = todo \ {h}
        BY <3>3 DEF GoOn
      <4>4. \A g \in Hosts : ToCome(g)' => g # h /\ ToCome(g)
        BY <3>1, <4>3 DEF ToCome
      <4>5. \A g \in Hosts \ {h} : sess'[g] = sess[g]
        BY <4>2 DEF Moves
      <4>6. \A o \in Objects : ~IsNext(o)'
        BY <4>3 DEF IsNext
      <4> QED
        BY <3>1, <4>4, <4>5, <4>6, <2>b DEF Open
    <3> QED
      BY <2>7, <3>2, <3>3 DEF VisitSession
  <2> QED
    BY <2>1, <2>2, <2>3, <2>4, <2>5, <2>6, <2>7 DEF LoopNext, Handlers
<1> QED
  BY <1>1, <1>2, LoopInvariant, PTL DEF LoopSpec

\* main.c's loop does nothing that Client does not do: a handler that acts on
\* what poll() has reported, in the order of client_notify, is one of Client's
\* handlers that act when they like.
THEOREM LoopImplementsClient == LoopSpec => Spec
<1>1. LoopInit => Init
  BY DEF LoopInit
<1>2. LoopIInv /\ [LoopNext]_loopVars => [Next]_vars
  BY LoopStep DEF LoopIInv
<1> QED
  BY <1>1, <1>2, LoopInvariant, PTL DEF LoopSpec, Spec

\* Under the loop a file leaves the directory only when the servers of all its
\* hosts have accepted it.
THEOREM LoopNothingLost == LoopSpec => NothingLost
BY LoopImplementsClient, ClientNothingLost

\* poll() never sleeps on a session that is to be finalized, nor on a message
\* that it does not watch.
THEOREM LoopAsleepOnlyWhenDone == LoopSpec => []AsleepOnlyWhenDone
<1>1. LoopIInv => AsleepOnlyWhenDone
  <2> SUFFICES ASSUME LoopIInv, phase = "subscribe", up, Unopened = {}
               PROVE  /\ \A o \in listed : File(o) \in Watched \/ Skipped(o)
                      /\ \A h \in Hosts : Open(h) => sess[h].state # "CLOSED"
    BY DEF AsleepOnlyWhenDone
  <2>1. ASSUME NEW o \in listed PROVE File(o) \in Watched \/ Skipped(o)
    <3>1. o \in Objects /\ msg[o].state \in {"LOADING_HEADERS", "LOADING_FAILED"}
      BY DEF LoopIInv, IInv, TypeOK, Sound, HeapOK, Fit
    <3>2. CASE msg[o].state = "LOADING_HEADERS"
      <4>1. msg[o].state \in Loading /\ msg[o].open
        BY <3>1, <3>2 DEF Unopened, Loading
      <4> QED
        BY <3>1, <4>1 DEF Watched, WatchedByClient
    <3>3. CASE msg[o].state = "LOADING_FAILED"
      BY <3>3 DEF Skipped
    <3> QED
      BY <3>1, <3>2, <3>3
  <2>2. \A h \in Hosts : Open(h) => sess[h].state # "CLOSED"
    BY DEF LoopIInv, Reaped
  <2> QED
    BY <2>1, <2>2
<1> QED
  BY <1>1, LoopInvariant, PTL

\* With regular files no session ever waits for a body: what MAIL asks for is
\* read before the reply to the last recipient is looked at, however many
\* sessions share the message and whichever of them asked for it.
THEOREM LoopBodyInTime == LoopSpec => [](Regular => BodyInTime)
<1>1. LoopIInv => (Regular => BodyInTime)
  BY DEF LoopIInv
<1> QED
  BY <1>1, LoopInvariant, PTL

=============================================================================
