---------------------------- MODULE RecipientsProofs ----------------------------
(***************************************************************************)
(* Theorems about Recipients, for any headers, users and hosts.              *)
(***************************************************************************)
EXTENDS Recipients, SequenceTheorems, TLAPS

Typed ==
  /\ input \in Seq(Header)
  /\ visited \in 0 .. Len(input)
  /\ headers \in Seq(Header)
  /\ destinations \in Seq([host : Hosts, recipients : Seq(Users)])
  /\ state \in {"loading", "loaded", "failed", "sending", "released"}
  /\ holders \subseteq Hosts
  /\ named \in [Hosts -> Seq(Users)]
  /\ deleted \in BOOLEAN

\* Users at h named by the headers that have been looked at.
WantedAt(h) == {u \in Users : \E i \in 1 .. visited : input[i] = To(u, h)}

\* A host has one destination at most, which has each of its recipients once.
Sorted ==
  /\ \A i, j \in DOMAIN destinations : destinations[i].host = destinations[j].host => i = j
  /\ \A i \in DOMAIN destinations :
       LET d == destinations[i]
       IN  /\ IsInjective(d.recipients)
           /\ \A u \in Users : Contains(d.recipients, u) <=> u \in WantedAt(d.host)

\* What has been named at h is what its destination begins with; all is named
\* when the destination is gone.
NamedInOrder ==
  \A h \in Hosts :
    /\ IsInjective(named[h])
    /\ \A i \in DOMAIN named[h] : named[h][i] \in WantedAt(h)
    /\ \A i \in Places(h) :
         /\ Len(named[h]) <= Len(destinations[i].recipients)
         /\ \A j \in DOMAIN named[h] : named[h][j] = destinations[i].recipients[j]
    /\ Places(h) = {} => \A u \in WantedAt(h) : Contains(named[h], u)

Stages ==
  /\ state \in {"loading", "failed", "loaded"} =>
       holders = {} /\ \A h \in Hosts : named[h] = <<>>
  /\ state \notin {"loading", "failed"} => visited = Len(input)
  /\ \A h \in holders : Places(h) # {}
  /\ holders # {} <=> state = "sending"
  /\ deleted => state = "released" /\ destinations = <<>>

\* Where the headers that have not been looked at begin.
Passed == Len(headers) - Len(input) + visited
KeptHeaders ==
  /\ Passed >= 0
  /\ \A i \in 1 .. Len(input) - visited : headers[Passed + i] = input[visited + i]
  /\ \E from \in [1 .. Passed -> {i \in 1 .. visited : input[i].kind = "other"}] :
       /\ \A i, j \in 1 .. Passed : i < j => from[i] < from[j]
       /\ \A k \in 1 .. visited : input[k].kind = "other" => \E i \in 1 .. Passed : from[i] = k
       /\ \A i \in 1 .. Passed : headers[i] = input[from[i]]

IInv == Typed /\ Sorted /\ NamedInOrder /\ Stages /\ (state # "failed" => KeptHeaders)

-----------------------------------------------------------------------------
(* Sequences and headers. *)

LEMMA RemoveAtProperties ==
  ASSUME NEW S, NEW s \in Seq(S), NEW i \in 1 .. Len(s)
  PROVE  /\ RemoveAt(s, i) \in Seq(S)
         /\ Len(RemoveAt(s, i)) = Len(s) - 1
         /\ \A j \in 1 .. Len(s) - 1 : RemoveAt(s, i)[j] = IF j < i THEN s[j] ELSE s[j + 1]
<1> DEFINE left == SubSeq(s, 1, i - 1)
           right == SubSeq(s, i + 1, Len(s))
<1>1. /\ left \in Seq(S) /\ Len(left) = i - 1
      /\ \A j \in 1 .. i - 1 : left[j] = s[j]
  BY SubSeqProperties
<1>2. /\ right \in Seq(S) /\ Len(right) = Len(s) - i
      /\ \A j \in 1 .. Len(s) - i : right[j] = s[i + j]
  BY SubSeqProperties
<1>3. RemoveAt(s, i) = left \o right
  BY DEF RemoveAt
<1>4. /\ left \o right \in Seq(S)
      /\ Len(left \o right) = Len(left) + Len(right)
      /\ \A j \in 1 .. Len(left) + Len(right) :
           (left \o right)[j] = IF j <= Len(left) THEN left[j] ELSE right[j - Len(left)]
  BY <1>1, <1>2, ConcatProperties
<1>5. Len(s) \in Nat
  OBVIOUS
<1> HIDE DEF left, right
<1>6. RemoveAt(s, i) \in Seq(S) /\ Len(RemoveAt(s, i)) = Len(s) - 1
  BY <1>1, <1>2, <1>3, <1>4, <1>5
<1>7. ASSUME NEW j \in 1 .. Len(s) - 1
      PROVE  (left \o right)[j] = IF j < i THEN s[j] ELSE s[j + 1]
  <2>1. CASE j < i
    BY <1>1, <1>2, <1>4, <2>1
  <2>2. CASE ~(j < i)
    <3>1. j - (i - 1) \in 1 .. Len(s) - i
      BY <1>5, <2>2
    <3>2. (left \o right)[j] = right[j - (i - 1)]
      BY <1>1, <1>2, <1>4, <1>5, <2>2, SMTT(30)
    <3> QED
      BY <1>2, <2>2, <3>1, <3>2
  <2> QED
    BY <2>1, <2>2
<1> QED
  BY <1>3, <1>6, <1>7

LEMMA HeaderKinds ==
  ASSUME NEW x \in Header
  PROVE  /\ x.kind \in {"from", "to", "malformed", "other"}
         /\ x.kind = "to" => x.user \in Users /\ x.host \in Hosts /\ x = To(x.user, x.host)
         /\ \A u, h : x = To(u, h) => x.kind = "to" /\ x.user = u /\ x.host = h
BY DEF Header, From, To, Malformed, Other

LEMMA AddedProperties ==
  ASSUME NEW s \in Seq(Users), IsInjective(s), NEW u \in Users
  PROVE  /\ Added(s, u) \in Seq(Users)
         /\ IsInjective(Added(s, u))
         /\ \A x \in Users : Contains(Added(s, u), x) <=> Contains(s, x) \/ x = u
<1>1. CASE Contains(s, u)
  BY <1>1 DEF Added
<1>2. CASE ~Contains(s, u)
  <2>1. Added(s, u) = Append(s, u)
    BY <1>2 DEF Added
  <2>2. /\ Append(s, u) \in Seq(Users) /\ Len(Append(s, u)) = Len(s) + 1
        /\ \A i \in 1 .. Len(s) : Append(s, u)[i] = s[i]
        /\ Append(s, u)[Len(s) + 1] = u
    BY AppendProperties
  <2>3. DOMAIN s = 1 .. Len(s) /\ DOMAIN Append(s, u) = 1 .. Len(s) + 1 /\ Len(s) \in Nat
    BY <2>2
  <2>4. IsInjective(Append(s, u))
    BY <1>2, <2>2, <2>3 DEF IsInjective, Contains
  <2>5. \A x \in Users : Contains(Append(s, u), x) <=> Contains(s, x) \/ x = u
    BY <2>2, <2>3 DEF Contains
  <2> QED
    BY <2>1, <2>2, <2>4, <2>5
<1> QED
  BY <1>1, <1>2

LEMMA DestinationAt ==
  ASSUME NEW s \in Seq([host : Hosts, recipients : Seq(Users)]), NEW i \in DOMAIN s
  PROVE  /\ s[i] \in [host : Hosts, recipients : Seq(Users)]
         /\ s[i].host \in Hosts
         /\ s[i].recipients \in Seq(Users)
         /\ Len(s[i].recipients) \in Nat
<1>1. i \in 1 .. Len(s)
  OBVIOUS
<1>2. s[i] \in [host : Hosts, recipients : Seq(Users)]
  BY <1>1, ElementOfSeq
<1> QED
  BY <1>2

\* A host's destination is the one that PlaceOf finds.
LEMMA PlaceIs ==
  ASSUME Typed, Sorted, NEW h \in Hosts, NEW i \in Places(h)
  PROVE  PlaceOf(h) = i
<1>1. Places(h) = {i}
  BY DEF Sorted, Places
<1>2. i \in Int
  BY DEF Places, Typed
<1> QED
  BY <1>1, <1>2 DEF PlaceOf

-----------------------------------------------------------------------------
(* Parsing. *)

\* A recipient more, at its host.
LEMMA RecipientAdded ==
  ASSUME Typed, Sorted, NEW u \in Users, NEW h \in Hosts, AddRecipient(u, h),
         \A x \in Hosts : Places(x) = {} => WantedAt(x) = {}
  PROVE  /\ destinations' \in Seq([host : Hosts, recipients : Seq(Users)])
         /\ \A i, j \in DOMAIN destinations' :
              destinations'[i].host = destinations'[j].host => i = j
         /\ \A i \in DOMAIN destinations' :
              LET d == destinations'[i]
              IN  /\ IsInjective(d.recipients)
                  /\ \A x \in Users : Contains(d.recipients, x)
                                      <=> x \in WantedAt(d.host) \/ (x = u /\ d.host = h)
         /\ \A x \in Hosts : x = h \/ Places(x) # {} => Places(x)' # {}
<1> DEFINE Destination == [host : Hosts, recipients : Seq(Users)]
<1>2. destinations \in Seq(Destination) /\ DOMAIN destinations = 1 .. Len(destinations)
      /\ Len(destinations) \in Nat
  BY DEF Typed
<1>1. \A i \in DOMAIN destinations : /\ destinations[i] \in Destination
                                     /\ destinations[i].host \in Hosts
                                     /\ destinations[i].recipients \in Seq(Users)
  <2>1. \A i \in DOMAIN destinations : destinations[i] \in Destination
    BY <1>2, ElementOfSeq
  <2> QED
    BY <2>1
<1>3. CASE Places(h) # {}
  <2> DEFINE new == [i \in DOMAIN destinations |->
                      IF i \in Places(h)
                      THEN [destinations[i] EXCEPT !.recipients = Added(@, u)]
                      ELSE destinations[i]]
  <2>1. destinations' = new
    BY <1>3 DEF AddRecipient
  <2>2. ASSUME NEW i \in DOMAIN destinations
        PROVE  /\ new[i] \in Destination
               /\ new[i].host = destinations[i].host
               /\ new[i].recipients = IF i \in Places(h) THEN Added(destinations[i].recipients, u)
                                                        ELSE destinations[i].recipients
    <3>1. IsInjective(destinations[i].recipients)
      BY DEF Sorted
    <3>2. Added(destinations[i].recipients, u) \in Seq(Users)
      BY <1>1, <3>1, AddedProperties
    <3> QED
      BY <1>1, <3>2
  <2> HIDE DEF new
  <2>3. DOMAIN new = DOMAIN destinations
    BY DEF new
  <2>4. new \in Seq(Destination)
    <3>1. new = [i \in 1 .. Len(destinations) |-> new[i]]
      BY <1>2 DEF new
    <3> QED
      BY <1>2, <2>2, <3>1, IsASeq
  <2>5. \A i, j \in DOMAIN new : new[i].host = new[j].host => i = j
    BY <2>2, <2>3 DEF Sorted
  <2>6. ASSUME NEW i \in DOMAIN new
        PROVE  /\ IsInjective(new[i].recipients)
               /\ \A x \in Users : Contains(new[i].recipients, x)
                                   <=> x \in WantedAt(new[i].host) \/ (x = u /\ new[i].host = h)
    <3>1. i \in Places(h) <=> new[i].host = h
      BY <2>2, <2>3 DEF Places
    <3>2. /\ IsInjective(destinations[i].recipients)
          /\ \A x \in Users : Contains(destinations[i].recipients, x)
                              <=> x \in WantedAt(new[i].host)
      BY <2>2, <2>3 DEF Sorted
    <3>3. CASE i \in Places(h)
      <4>1. new[i].recipients = Added(destinations[i].recipients, u)
            /\ destinations[i].recipients \in Seq(Users)
        BY <1>1, <2>2, <2>3, <3>3
      <4> QED
        BY <3>1, <3>2, <3>3, <4>1, AddedProperties, SMTT(30)
    <3>4. CASE i \notin Places(h)
      BY <2>2, <2>3, <3>1, <3>2, <3>4
    <3> QED
      BY <3>3, <3>4
  <2>7. \A x \in Hosts : Places(x)' = Places(x)
    BY <2>1, <2>2, <2>3 DEF Places
  <2> QED
    BY <1>3, <2>1, <2>4, <2>5, <2>6, <2>7
<1>4. CASE Places(h) = {}
  <2> DEFINE d == [host |-> h, recipients |-> <<u>>]
  <2>1. destinations' = Append(destinations, d)
    BY <1>4 DEF AddRecipient
  <2>2. d \in Destination /\ d.host = h /\ d.recipients = <<u>>
    OBVIOUS
  <2>3. IsInjective(d.recipients) /\ \A x \in Users : Contains(d.recipients, x) <=> x = u
    BY <2>2 DEF IsInjective, Contains
  <2> HIDE DEF d
  <2>4. /\ destinations' \in Seq(Destination) /\ Len(destinations') = Len(destinations) + 1
        /\ \A i \in 1 .. Len(destinations) : destinations'[i] = destinations[i]
        /\ destinations'[Len(destinations) + 1] = d
    BY <1>2, <2>1, <2>2, AppendProperties
  <2>5. DOMAIN destinations' = 1 .. Len(destinations) + 1
    BY <2>4
  <2>6. \A i \in DOMAIN destinations : destinations[i].host # h
    BY <1>4 DEF Places
  <2>7. \A i, j \in DOMAIN destinations' :
          destinations'[i].host = destinations'[j].host => i = j
    <3>1. \A i \in DOMAIN destinations' :
            \/ i \in DOMAIN destinations /\ destinations'[i].host = destinations[i].host
            \/ i = Len(destinations) + 1 /\ destinations'[i].host = h
      <4> TAKE i \in DOMAIN destinations'
      <4>1. CASE i = Len(destinations) + 1
        BY <2>2, <2>4, <4>1
      <4>2. CASE i # Len(destinations) + 1
        <5>1. i \in 1 .. Len(destinations)
          BY <1>2, <2>5, <4>2
        <5> QED
          BY <1>2, <2>4, <5>1
      <4> QED
        BY <4>1, <4>2
    <3>2. \A i, j \in DOMAIN destinations : destinations[i].host = destinations[j].host => i = j
      BY DEF Sorted
    <3> QED
      BY <2>6, <3>1, <3>2
  <2>8. ASSUME NEW i \in DOMAIN destinations'
        PROVE  LET e == destinations'[i]
               IN  /\ IsInjective(e.recipients)
                   /\ \A x \in Users : Contains(e.recipients, x)
                                       <=> x \in WantedAt(e.host) \/ (x = u /\ e.host = h)
    <3>1. CASE i = Len(destinations) + 1
      <4>1. WantedAt(h) = {}
        BY <1>4
      <4> QED
        BY <2>2, <2>3, <2>4, <3>1, <4>1
    <3>2. CASE i # Len(destinations) + 1
      <4>1. i \in DOMAIN destinations /\ destinations'[i] = destinations[i]
        BY <1>2, <2>4, <2>5, <3>2
      <4> QED
        BY <2>6, <4>1 DEF Sorted
    <3> QED
      BY <3>1, <3>2
  <2>9. ASSUME NEW x \in Hosts, x = h \/ Places(x) # {} PROVE Places(x)' # {}
    <3>1. CASE x = h
      <4>1. Len(destinations) + 1 \in DOMAIN destinations'
        BY <1>2, <2>5
      <4> QED
        BY <2>2, <2>4, <3>1, <4>1 DEF Places
    <3>2. CASE Places(x) # {}
      <4>1. PICK i \in DOMAIN destinations : destinations[i].host = x
        BY <3>2 DEF Places
      <4>2. i \in DOMAIN destinations' /\ destinations'[i].host = x
        BY <1>2, <2>4, <2>5, <4>1
      <4> QED
        BY <4>2 DEF Places
    <3> QED
      BY <2>9, <3>1, <3>2
  <2> QED
    BY <2>4, <2>7, <2>8, <2>9
<1> QED
  BY <1>3, <1>4
\* What the next header adds to those wanted at h.
LEMMA WantedNext ==
  ASSUME Typed, visited < Len(input), visited' = visited + 1, UNCHANGED input, NEW h
  PROVE  WantedAt(h)' = WantedAt(h) \cup {u \in Users : input[visited + 1] = To(u, h)}
<1>1. visited \in Nat /\ 1 .. visited + 1 = 1 .. visited \cup {visited + 1}
  BY DEF Typed
<1> QED
  BY <1>1 DEF WantedAt

\* A header of the envelope goes, the others stay, and the rest is still to come.
LEMMA HeaderPassed ==
  ASSUME Typed, KeptHeaders, visited < Len(input), visited' = visited + 1, UNCHANGED input,
         \/ headers' = headers /\ input[visited + 1].kind = "other"
         \/ headers' = Removed /\ input[visited + 1].kind # "other"
  PROVE  headers' \in Seq(Header) /\ KeptHeaders'
<1> DEFINE n == visited
           Kept(k) == {i \in 1 .. k : input[i].kind = "other"}
<1>1. /\ n \in Nat /\ Len(input) \in Nat /\ Len(headers) \in Nat
      /\ Passed \in Nat /\ Len(headers) = Passed + (Len(input) - n)
      /\ input \in Seq(Header) /\ headers \in Seq(Header)
  BY DEF Typed, KeptHeaders, Passed
<1>2. \A i \in 1 .. Len(input) - n : headers[Passed + i] = input[n + i]
  BY DEF KeptHeaders
<1>3. PICK from \in [1 .. Passed -> Kept(n)] :
        /\ \A i, j \in 1 .. Passed : i < j => from[i] < from[j]
        /\ \A k \in 1 .. n : input[k].kind = "other" => \E i \in 1 .. Passed : from[i] = k
        /\ \A i \in 1 .. Passed : headers[i] = input[from[i]]
  BY DEF KeptHeaders
<1>4. \A i \in 1 .. Passed : from[i] \in 1 .. n /\ input[from[i]].kind = "other"
  BY <1>3
<1>5. \A k \in 1 .. n + 1 : k \in 1 .. n \/ k = n + 1
  BY <1>1
<1>6. CASE headers' = headers /\ input[n + 1].kind = "other"
  <2> DEFINE next == [i \in 1 .. Passed + 1 |-> IF i = Passed + 1 THEN n + 1 ELSE from[i]]
  <2>1. Passed' = Passed + 1
    BY <1>1, <1>6 DEF Passed
  <2>2. \A i \in 1 .. Passed : i \in 1 .. Passed + 1 /\ i # Passed + 1 /\ next[i] = from[i]
    BY <1>1
  <2>3. Passed + 1 \in 1 .. Passed + 1 /\ next[Passed + 1] = n + 1
    BY <1>1
  <2>4. \A i \in 1 .. Passed + 1 : i \in 1 .. Passed \/ i = Passed + 1
    BY <1>1
  <2>5. \A i \in 1 .. Passed + 1 : next[i] \in Kept(n + 1)
    <3> TAKE i \in 1 .. Passed + 1
    <3>1. CASE i \in 1 .. Passed
      BY <1>1, <1>4, <2>2, <3>1
    <3>2. CASE i = Passed + 1
      BY <1>1, <1>6, <2>3, <3>2
    <3> QED
      BY <2>4, <3>1, <3>2
  <2>6. next \in [1 .. Passed + 1 -> Kept(n + 1)]
    BY <2>5
  <2> HIDE DEF next
  <2>7. \A i, j \in 1 .. Passed + 1 : i < j => next[i] < next[j]
    <3> SUFFICES ASSUME NEW i \in 1 .. Passed + 1, NEW j \in 1 .. Passed + 1, i < j
                 PROVE  next[i] < next[j]
      OBVIOUS
    <3>1. i \in 1 .. Passed
      BY <1>1
    <3>2. CASE j \in 1 .. Passed
      BY <1>3, <2>2, <3>1, <3>2
    <3>3. CASE j = Passed + 1
      BY <1>1, <1>4, <2>2, <2>3, <3>1, <3>3
    <3> QED
      BY <2>4, <3>2, <3>3
  <2>8. \A k \in 1 .. n + 1 : input[k].kind = "other" => \E i \in 1 .. Passed + 1 : next[i] = k
    BY <1>3, <1>5, <2>2, <2>3
  <2>9. \A i \in 1 .. Passed + 1 : headers[i] = input[next[i]]
    <3>1. 1 \in 1 .. Len(input) - n
      BY <1>1
    <3>2. headers[Passed + 1] = input[n + 1]
      BY <1>2, <3>1
    <3> QED
      BY <1>3, <2>2, <2>3, <2>4, <3>2
  <2>10. ASSUME NEW i \in 1 .. Len(input) - (n + 1)
         PROVE  headers[Passed + 1 + i] = input[n + 1 + i]
    <3>1. 1 + i \in 1 .. Len(input) - n
      BY <1>1
    <3>2. headers[Passed + (1 + i)] = input[n + (1 + i)]
      BY <1>2, <3>1
    <3>3. Passed + (1 + i) = Passed + 1 + i /\ n + (1 + i) = n + 1 + i
      BY <1>1
    <3> QED
      BY <3>2, <3>3
  <2>11. KeptHeaders'
    <3>1. Passed' >= 0
      BY <1>1, <2>1
    <3>2. \A i \in 1 .. Len(input') - visited' : headers'[Passed' + i] = input'[visited' + i]
      BY <1>6, <2>1, <2>10
    <3>3. \E f \in [1 .. Passed' -> {i \in 1 .. visited' : input'[i].kind = "other"}] :
            /\ \A i, j \in 1 .. Passed' : i < j => f[i] < f[j]
            /\ \A k \in 1 .. visited' :
                 input'[k].kind = "other" => \E i \in 1 .. Passed' : f[i] = k
            /\ \A i \in 1 .. Passed' : headers'[i] = input'[f[i]]
      BY <1>6, <2>1, <2>6, <2>7, <2>8, <2>9, ZenonT(30)
    <3> QED
      BY <3>1, <3>2, <3>3 DEF KeptHeaders
  <2> QED
    BY <1>1, <1>6, <2>11
<1>7. CASE headers' = Removed /\ input[n + 1].kind # "other"
  <2>1. Place = Passed + 1 /\ Place \in 1 .. Len(headers)
    BY <1>1 DEF Place, Passed
  <2>2. /\ headers' \in Seq(Header)
        /\ Len(headers') = Len(headers) - 1
        /\ \A i \in 1 .. Len(headers) - 1 :
             headers'[i] = IF i < Passed + 1 THEN headers[i] ELSE headers[i + 1]
    BY <1>1, <1>7, <2>1, RemoveAtProperties DEF Removed
  <2>3. Passed' = Passed
    BY <1>1, <2>2 DEF Passed
  <2>4. \A i \in 1 .. Passed : headers'[i] = headers[i]
    BY <1>1, <2>2
  <2>5. ASSUME NEW i \in 1 .. Len(input) - (n + 1)
        PROVE  headers'[Passed + i] = input[n + 1 + i]
    <3>1. 1 + i \in 1 .. Len(input) - n
      BY <1>1
    <3>2. headers[Passed + (1 + i)] = input[n + (1 + i)]
      BY <1>2, <3>1
    <3>3. Passed + i \in 1 .. Len(headers) - 1 /\ ~(Passed + i < Passed + 1)
      BY <1>1
    <3>5. headers'[Passed + i] = headers[Passed + i + 1]
      BY <2>2, <3>3
    <3>4. Passed + (1 + i) = Passed + i + 1 /\ n + (1 + i) = n + 1 + i
      BY <1>1
    <3> QED
      BY <3>2, <3>4, <3>5
  <2>6. from \in [1 .. Passed -> Kept(n + 1)]
    BY <1>1, <1>3, <1>4
  <2>7. \A k \in 1 .. n + 1 : input[k].kind = "other" => \E i \in 1 .. Passed : from[i] = k
    BY <1>3, <1>5, <1>7
  <2>8. \A i \in 1 .. Passed : headers'[i] = input[from[i]]
    BY <1>3, <2>4
  <2>9. KeptHeaders'
    <3>1. Passed' >= 0
      BY <1>1, <2>3
    <3>2. \A i \in 1 .. Len(input') - visited' : headers'[Passed' + i] = input'[visited' + i]
      BY <2>3, <2>5
    <3>3. \E f \in [1 .. Passed' -> {i \in 1 .. visited' : input'[i].kind = "other"}] :
            /\ \A i, j \in 1 .. Passed' : i < j => f[i] < f[j]
            /\ \A k \in 1 .. visited' :
                 input'[k].kind = "other" => \E i \in 1 .. Passed' : f[i] = k
            /\ \A i \in 1 .. Passed' : headers'[i] = input'[f[i]]
      BY <1>3, <2>3, <2>6, <2>7, <2>8, ZenonT(30)
    <3> QED
      BY <3>1, <3>2, <3>3 DEF KeptHeaders
  <2> QED
    BY <2>2, <2>9
<1> QED
  BY <1>6, <1>7
LEMMA ParsePreserves ==
  ASSUME IInv, ParseHeader
  PROVE  IInv'
<1> DEFINE header == input[visited + 1]
<1>1. /\ Typed /\ Sorted /\ NamedInOrder /\ Stages /\ KeptHeaders
      /\ state = "loading" /\ visited < Len(input)
      /\ visited' = visited + 1 /\ UNCHANGED <<input, holders, named, deleted>>
  BY DEF IInv, ParseHeader
<1>2. visited + 1 \in 1 .. Len(input) /\ header \in Header
  BY <1>1, ElementOfSeq DEF Typed
<1>3. holders = {} /\ \A h \in Hosts : named[h] = <<>>
  BY <1>1 DEF Stages
<1>4. \A h \in Hosts : Places(h) = {} => WantedAt(h) = {}
  <2> SUFFICES ASSUME NEW h \in Hosts, Places(h) = {}, NEW u \in WantedAt(h) PROVE FALSE
    OBVIOUS
  <2>1. Contains(named[h], u)
    BY <1>1 DEF NamedInOrder
  <2> QED
    BY <1>3, <2>1 DEF Contains
<1>5. \A h \in Hosts : WantedAt(h)' = WantedAt(h) \cup {u \in Users : header = To(u, h)}
  BY <1>1, WantedNext
<1>6. /\ header.kind \in {"from", "to", "malformed", "other"}
      /\ header.kind = "to" =>
           header.user \in Users /\ header.host \in Hosts /\ header = To(header.user, header.host)
      /\ \A u, h : header = To(u, h) => header.kind = "to" /\ header.user = u /\ header.host = h
  BY <1>2, HeaderKinds
<1>7. ASSUME destinations' \in Seq([host : Hosts, recipients : Seq(Users)]),
             \A h \in Hosts : Places(h)' = {} => WantedAt(h)' = {}
      PROVE  NamedInOrder'
  <2>1. \A h \in Hosts : named'[h] = <<>>
    BY <1>1, <1>3
  <2>2. \A h \in Hosts : /\ IsInjective(named'[h])
                         /\ DOMAIN named'[h] = {} /\ Len(named'[h]) = 0
    BY <2>1 DEF IsInjective
  <2>3. ASSUME NEW h \in Hosts, NEW i \in Places(h)'
        PROVE  Len(destinations'[i].recipients) >= 0
    <3>1. i \in DOMAIN destinations'
      BY <2>3 DEF Places
    <3> QED
      BY <1>7, <3>1, DestinationAt
  <2> QED
    BY <1>7, <2>2, <2>3 DEF NamedInOrder
<1>8. Stages' /\ state' \in {"loading", "failed"}
  <2>1. state' \in {"loading", "failed"}
    BY <1>1 DEF ParseHeader
  <2>2. ~deleted
    BY <1>1 DEF Stages
  <2> QED
    BY <1>1, <1>3, <2>1, <2>2 DEF Stages
<1>9. headers' \in Seq(Header) /\ (state' # "failed" => KeptHeaders')
  <2>1. CASE header.kind = "malformed"
    BY <1>1, <2>1 DEF ParseHeader, Typed
  <2>2. CASE header.kind # "malformed"
    <3>1. \/ headers' = headers /\ header.kind = "other"
          \/ headers' = Removed /\ header.kind # "other"
      BY <1>6, <2>2 DEF ParseHeader
    <3> QED
      BY <1>1, <3>1, HeaderPassed
  <2> QED
    BY <2>1, <2>2
<1>10. /\ destinations' \in Seq([host : Hosts, recipients : Seq(Users)])
       /\ Sorted'
       /\ \A h \in Hosts : Places(h)' = {} => WantedAt(h)' = {}
  <2>1. CASE header.kind = "to"
    <3>1. AddRecipient(header.user, header.host) /\ header.user \in Users /\ header.host \in Hosts
      BY <1>6, <2>1 DEF ParseHeader
    <3>2. \A h \in Hosts : WantedAt(h)' = WantedAt(h) \cup {u \in Users : u = header.user /\ h = header.host}
      BY <1>5, <1>6, <2>1
    <3>3. /\ destinations' \in Seq([host : Hosts, recipients : Seq(Users)])
          /\ \A i, j \in DOMAIN destinations' :
               destinations'[i].host = destinations'[j].host => i = j
          /\ \A i \in DOMAIN destinations' :
               LET d == destinations'[i]
               IN  /\ IsInjective(d.recipients)
                   /\ \A x \in Users : Contains(d.recipients, x)
                        <=> x \in WantedAt(d.host) \/ (x = header.user /\ d.host = header.host)
          /\ \A x \in Hosts : x = header.host \/ Places(x) # {} => Places(x)' # {}
      BY <1>1, <1>4, <3>1, RecipientAdded
    <3>4. \A i \in DOMAIN destinations' : destinations'[i].host \in Hosts
      BY <3>3, DestinationAt
    <3>5. Sorted'
      BY <3>2, <3>3, <3>4, SMTT(30) DEF Sorted
    <3> QED
      BY <1>4, <3>2, <3>3, <3>5
  <2>2. CASE header.kind # "to"
    <3>1. destinations' = destinations
      BY <1>6, <2>2 DEF ParseHeader
    <3>2. \A h \in Hosts : WantedAt(h)' = WantedAt(h)
      BY <1>5, <1>6, <2>2
    <3>3. \A i \in DOMAIN destinations : destinations[i].host \in Hosts
      BY <1>1, DestinationAt DEF Typed
    <3>4. Sorted'
      BY <1>1, <3>1, <3>2, <3>3 DEF Sorted
    <3>5. \A h \in Hosts : Places(h)' = Places(h)
      BY <3>1 DEF Places
    <3> QED
      BY <1>1, <1>4, <3>1, <3>2, <3>4, <3>5 DEF Typed
  <2> QED
    BY <2>1, <2>2
<1>11. Typed'
  BY <1>1, <1>2, <1>8, <1>9, <1>10 DEF Typed
<1> QED
  BY <1>7, <1>8, <1>9, <1>10, <1>11 DEF IInv

\* Steps that leave the headers and what they want as they are.
LEMMA SameHeaders ==
  ASSUME UNCHANGED <<input, visited, headers>>
  PROVE  /\ \A h : WantedAt(h)' = WantedAt(h)
         /\ KeptHeaders' = KeptHeaders
BY DEF WantedAt, KeptHeaders, Passed

\* Steps that leave the destinations, and what is named of them, as they are.
LEMMA SameDestinations ==
  ASSUME UNCHANGED <<input, visited, destinations>>
  PROVE  /\ Sorted => Sorted'
         /\ \A h : Places(h)' = Places(h)
         /\ named' = named /\ NamedInOrder => NamedInOrder'
<1>1. \A h : WantedAt(h)' = WantedAt(h) /\ Places(h)' = Places(h)
  BY DEF WantedAt, Places
<1>2. Sorted => Sorted'
  BY <1>1 DEF Sorted
<1>3. named' = named /\ NamedInOrder => NamedInOrder'
  BY <1>1 DEF NamedInOrder
<1> QED
  BY <1>1, <1>2, <1>3

LEMMA AllParsedPreserves ==
  ASSUME IInv, AllParsed
  PROVE  IInv'
<1>1. /\ Typed /\ Sorted /\ NamedInOrder /\ Stages /\ KeptHeaders
      /\ state = "loading" /\ visited = Len(input) /\ state' = "loaded"
      /\ UNCHANGED <<input, visited, headers, destinations, holders, named, deleted>>
  BY DEF IInv, AllParsed
<1>2. Typed'
  BY <1>1 DEF Typed
<1>3. Stages'
  BY <1>1 DEF Stages, Places
<1> QED
  BY <1>1, <1>2, <1>3, SameHeaders, SameDestinations DEF IInv

LEMMA EnqueuePreserves ==
  ASSUME IInv, Enqueue
  PROVE  IInv'
<1>1. /\ Typed /\ Sorted /\ NamedInOrder /\ Stages /\ KeptHeaders
      /\ state = "loaded"
      /\ holders' = {destinations[i].host : i \in DOMAIN destinations}
      /\ state' = IF holders' = {} THEN "released" ELSE "sending"
      /\ UNCHANGED <<input, visited, headers, destinations, named, deleted>>
  BY DEF IInv, Enqueue
<1>2. \A i \in DOMAIN destinations : destinations[i].host \in Hosts
  BY <1>1, DestinationAt DEF Typed
<1>3. Typed'
  BY <1>1, <1>2 DEF Typed
<1>4. Stages'
  <2>1. visited = Len(input) /\ ~deleted
    BY <1>1 DEF Stages
  <2>2. \A h \in holders' : Places(h)' # {}
    BY <1>1 DEF Places
  <2> QED
    BY <1>1, <2>1, <2>2 DEF Stages
<1> QED
  BY <1>1, <1>3, <1>4, SameHeaders, SameDestinations DEF IInv

LEMMA RcptPreserves ==
  ASSUME IInv, NEW h \in Hosts, Rcpt(h)
  PROVE  IInv'
<1> DEFINE rcpts == RecipientsOf(h)
           k == Len(named[h])
<1>1. /\ Typed /\ Sorted /\ NamedInOrder /\ Stages /\ (state # "failed" => KeptHeaders)
      /\ h \in holders /\ k < Len(rcpts)
      /\ named' = [named EXCEPT ![h] = Append(@, rcpts[k + 1])]
      /\ UNCHANGED <<input, visited, headers, destinations, state, holders, deleted>>
  BY DEF IInv, Rcpt
<1>2. PICK i \in Places(h) : TRUE
  BY <1>1 DEF Stages
<1>3. rcpts = destinations[i].recipients /\ i \in DOMAIN destinations /\ destinations[i].host = h
  BY <1>1, <1>2, PlaceIs DEF RecipientsOf, Places
<1>4. \A j \in Places(h) : j = i
  BY <1>1, <1>2 DEF Sorted, Places
<1>5. rcpts \in Seq(Users)
  <2>1. destinations[i].recipients \in Seq(Users)
    BY <1>1, <1>3, DestinationAt DEF Typed
  <2> QED
    BY <1>3, <2>1
<1>6. /\ named[h] \in Seq(Users) /\ k \in Nat /\ Len(rcpts) \in Nat /\ k + 1 \in 1 .. Len(rcpts)
      /\ rcpts[k + 1] \in Users
  <2>1. named[h] \in Seq(Users) /\ k \in Nat /\ Len(rcpts) \in Nat
    BY <1>1, <1>5 DEF Typed
  <2> QED
    BY <1>1, <1>5, <2>1, ElementOfSeq
<1> HIDE DEF rcpts
<1>7. /\ named'[h] \in Seq(Users) /\ Len(named'[h]) = k + 1
      /\ \A j \in 1 .. k : named'[h][j] = named[h][j]
      /\ named'[h][k + 1] = rcpts[k + 1]
      /\ \A x \in Hosts : x # h => named'[x] = named[x]
      /\ named' \in [Hosts -> Seq(Users)]
  <2>1. /\ Append(named[h], rcpts[k + 1]) \in Seq(Users)
        /\ Len(Append(named[h], rcpts[k + 1])) = k + 1
        /\ \A j \in 1 .. k : Append(named[h], rcpts[k + 1])[j] = named[h][j]
        /\ Append(named[h], rcpts[k + 1])[k + 1] = rcpts[k + 1]
    BY <1>6, AppendProperties
  <2> QED
    BY <1>1, <2>1 DEF Typed
<1>8. \A j \in DOMAIN named'[h] : j \in 1 .. Len(rcpts) /\ named'[h][j] = rcpts[j]
  <2>1. \A j \in 1 .. k : named[h][j] = rcpts[j]
    BY <1>1, <1>2, <1>3, <1>6 DEF NamedInOrder
  <2>2. DOMAIN named'[h] = 1 .. k + 1
    BY <1>7
  <2> TAKE j \in DOMAIN named'[h]
  <2>3. j \in 1 .. k \/ j = k + 1
    BY <1>6, <2>2
  <2> QED
    BY <1>6, <1>7, <2>1, <2>3
<1>9. IsInjective(rcpts) /\ \A j \in 1 .. Len(rcpts) : rcpts[j] \in WantedAt(h)
  <2>1. /\ IsInjective(rcpts)
        /\ \A u \in Users : Contains(rcpts, u) <=> u \in WantedAt(h)
    BY <1>1, <1>3 DEF Sorted
  <2>2. \A j \in 1 .. Len(rcpts) : rcpts[j] \in Users /\ Contains(rcpts, rcpts[j])
    BY <1>5 DEF Contains
  <2> QED
    BY <2>1, <2>2
<1>10. NamedInOrder'
  <2>1. \A x : WantedAt(x)' = WantedAt(x) /\ Places(x)' = Places(x)
    BY <1>1 DEF WantedAt, Places
  <2>2. IsInjective(named'[h])
    BY <1>5, <1>8, <1>9 DEF IsInjective
  <2>3. \A j \in DOMAIN named'[h] : named'[h][j] \in WantedAt(h)
    BY <1>8, <1>9
  <2>4. Len(named'[h]) <= Len(rcpts)
    BY <1>6, <1>7
  <2> SUFFICES ASSUME NEW x \in Hosts
               PROVE  /\ IsInjective(named'[x])
                      /\ \A j \in DOMAIN named'[x] : named'[x][j] \in WantedAt(x)
                      /\ \A p \in Places(x) :
                           /\ Len(named'[x]) <= Len(destinations[p].recipients)
                           /\ \A j \in DOMAIN named'[x] :
                                named'[x][j] = destinations[p].recipients[j]
                      /\ Places(x) = {} => \A u \in WantedAt(x) : Contains(named'[x], u)
    BY <1>1, <2>1 DEF NamedInOrder
  <2>5. CASE x = h
    BY <1>2, <1>3, <1>4, <1>8, <2>2, <2>3, <2>4, <2>5
  <2>6. CASE x # h
    BY <1>1, <1>7, <2>6 DEF NamedInOrder
  <2> QED
    BY <2>5, <2>6
<1>11. Typed' /\ Sorted' /\ (state' # "failed" => KeptHeaders')
  <2>1. Typed'
    BY <1>1, <1>7 DEF Typed
  <2> QED
    BY <1>1, <2>1, SameHeaders, SameDestinations
<1>12. Stages'
  <2>1. state = "sending"
    BY <1>1 DEF Stages
  <2> QED
    BY <1>1, <2>1 DEF Stages, Places
<1> QED
  BY <1>10, <1>11, <1>12 DEF IInv
LEMMA GiveUpPreserves ==
  ASSUME IInv, NEW h \in Hosts, GiveUp(h)
  PROVE  IInv'
<1>1. /\ Typed /\ Sorted /\ NamedInOrder /\ Stages /\ (state # "failed" => KeptHeaders)
      /\ h \in holders /\ state = "sending" /\ holders' = holders \ {h}
      /\ state' = IF holders' = {} THEN "released" ELSE state
      /\ deleted' = (holders' = {} /\ destinations' = <<>>)
      /\ UNCHANGED <<input, visited, headers, destinations, named>>
  BY DEF IInv, GiveUp, ReleaseBy, Stages
<1>2. Typed'
  BY <1>1 DEF Typed
<1>3. Stages'
  BY <1>1 DEF Stages, Places
<1> QED
  BY <1>1, <1>2, <1>3, SameHeaders, SameDestinations DEF IInv

LEMMA SentPreserves ==
  ASSUME IInv, NEW h \in Hosts, Sent(h)
  PROVE  IInv'
<1>1. /\ Typed /\ Sorted /\ NamedInOrder /\ Stages /\ (state # "failed" => KeptHeaders)
      /\ h \in holders /\ state = "sending" /\ holders' = holders \ {h}
      /\ Len(named[h]) = Len(RecipientsOf(h))
      /\ destinations' = RemoveAt(destinations, PlaceOf(h))
      /\ state' = IF holders' = {} THEN "released" ELSE state
      /\ deleted' = (holders' = {} /\ destinations' = <<>>)
      /\ UNCHANGED <<input, visited, headers, named>>
  BY DEF IInv, Sent, Marked, ReleaseBy, Stages
<1>2. PICK p \in Places(h) : TRUE
  BY <1>1 DEF Stages
<1>3. PlaceOf(h) = p /\ p \in 1 .. Len(destinations) /\ destinations[p].host = h
      /\ Len(destinations) \in Nat /\ DOMAIN destinations = 1 .. Len(destinations)
  BY <1>1, <1>2, PlaceIs, SMTT(30) DEF Places, Typed
<1>4. /\ destinations' \in Seq([host : Hosts, recipients : Seq(Users)])
      /\ Len(destinations') = Len(destinations) - 1
      /\ \A i \in 1 .. Len(destinations) - 1 :
           destinations'[i] = IF i < p THEN destinations[i] ELSE destinations[i + 1]
  BY <1>1, <1>3, RemoveAtProperties DEF Typed
<1> DEFINE Was(i) == IF i < p THEN i ELSE i + 1
<1>5. \A i \in DOMAIN destinations' :
        /\ Was(i) \in DOMAIN destinations
        /\ Was(i) # p
        /\ destinations'[i] = destinations[Was(i)]
  BY <1>3, <1>4
<1>6. \A i, j \in DOMAIN destinations' : Was(i) = Was(j) => i = j
  BY <1>3, <1>4
<1>7. \A i \in DOMAIN destinations : i # p => \E j \in DOMAIN destinations' : Was(j) = i
  <2> SUFFICES ASSUME NEW i \in DOMAIN destinations, i # p
               PROVE  \E j \in DOMAIN destinations' : Was(j) = i
    OBVIOUS
  <2>1. DOMAIN destinations' = 1 .. Len(destinations) - 1
    BY <1>4
  <2>2. CASE i < p
    BY <1>3, <2>1, <2>2
  <2>3. CASE i > p
    <3>1. i - 1 \in DOMAIN destinations' /\ Was(i - 1) = i
      BY <1>3, <2>1, <2>3
    <3> QED
      BY <3>1
  <2> QED
    BY <1>3, <2>2, <2>3
<1> HIDE DEF Was
<1>8. \A i \in DOMAIN destinations : destinations[i].host = h => i = p
  BY <1>1, <1>3 DEF Sorted
<1>9. \A x : WantedAt(x)' = WantedAt(x)
  BY <1>1, SameHeaders
<1>10. Sorted'
  <2>1. \A i, j \in DOMAIN destinations' :
          destinations'[i].host = destinations'[j].host => i = j
    BY <1>1, <1>5, <1>6 DEF Sorted
  <2> QED
    BY <1>1, <1>5, <1>9, <2>1 DEF Sorted
<1>11. Places(h)' = {} /\ \A x \in Hosts : x # h /\ Places(x) # {} => Places(x)' # {}
  <2>1. Places(h)' = {}
    BY <1>5, <1>8 DEF Places
  <2>2. ASSUME NEW x \in Hosts, x # h, NEW i \in Places(x) PROVE Places(x)' # {}
    <3>1. i \in DOMAIN destinations /\ destinations[i].host = x /\ i # p
      BY <1>3, <2>2 DEF Places
    <3>2. PICK j \in DOMAIN destinations' : Was(j) = i
      BY <1>7, <3>1
    <3> QED
      BY <1>5, <3>1, <3>2 DEF Places
  <2> QED
    BY <2>1, <2>2
<1>12. \A u \in WantedAt(h) : Contains(named[h], u)
  <2>1. /\ Len(named[h]) = Len(destinations[p].recipients)
        /\ \A j \in DOMAIN named[h] : named[h][j] = destinations[p].recipients[j]
    BY <1>1, <1>2, <1>3 DEF NamedInOrder, RecipientsOf
  <2>2. DOMAIN named[h] = 1 .. Len(named[h])
    BY <1>1 DEF Typed
  <2>3. \A u \in WantedAt(h) : Contains(destinations[p].recipients, u)
    BY <1>1, <1>3 DEF Sorted, WantedAt
  <2> QED
    BY <2>1, <2>2, <2>3 DEF Contains
<1>13. NamedInOrder'
  <2> SUFFICES ASSUME NEW x \in Hosts
               PROVE  /\ IsInjective(named[x])
                      /\ \A i \in DOMAIN named[x] : named[x][i] \in WantedAt(x)
                      /\ \A i \in Places(x)' :
                           /\ Len(named[x]) <= Len(destinations'[i].recipients)
                           /\ \A j \in DOMAIN named[x] :
                                named[x][j] = destinations'[i].recipients[j]
                      /\ Places(x)' = {} => \A u \in WantedAt(x) : Contains(named[x], u)
    BY <1>1, <1>9 DEF NamedInOrder
  <2>1. ASSUME NEW i \in Places(x)'
        PROVE  /\ Len(named[x]) <= Len(destinations'[i].recipients)
               /\ \A j \in DOMAIN named[x] : named[x][j] = destinations'[i].recipients[j]
    <3>1. destinations'[i] = destinations[Was(i)] /\ Was(i) \in Places(x)
      BY <1>5, <2>1 DEF Places
    <3> QED
      BY <1>1, <3>1 DEF NamedInOrder
  <2>2. Places(x)' = {} => \A u \in WantedAt(x) : Contains(named[x], u)
    BY <1>1, <1>11, <1>12 DEF NamedInOrder
  <2> QED
    BY <1>1, <2>1, <2>2 DEF NamedInOrder
<1>14. Typed'
  BY <1>1, <1>4 DEF Typed
<1>15. Stages'
  <2>1. \A x \in holders' : Places(x)' # {}
    BY <1>1, <1>11 DEF Stages, Typed
  <2>2. visited = Len(input)
    BY <1>1 DEF Stages
  <2> QED
    BY <1>1, <2>1, <2>2 DEF Stages
<1> QED
  BY <1>1, <1>10, <1>13, <1>14, <1>15, SameHeaders DEF IInv

-----------------------------------------------------------------------------
(* The invariant. *)

LEMMA InitIInv ==
  ASSUME Init
  PROVE  IInv
<1>1. /\ input \in Seq(Header) /\ visited = 0 /\ headers = input /\ destinations = <<>>
      /\ state = "loading" /\ holders = {} /\ named = [h \in Hosts |-> <<>>] /\ ~deleted
  BY InputsAssumption DEF Init
<1>2. Typed
  <2>1. Len(input) \in Nat /\ 0 \in 0 .. Len(input)
    BY <1>1
  <2>2. <<>> \in Seq([host : Hosts, recipients : Seq(Users)]) /\ <<>> \in Seq(Users)
    OBVIOUS
  <2>3. named \in [Hosts -> Seq(Users)]
    BY <1>1, <2>2
  <2>4. visited \in 0 .. Len(input) /\ headers \in Seq(Header)
    BY <1>1, <2>1
  <2>5. destinations \in Seq([host : Hosts, recipients : Seq(Users)])
    BY <1>1, <2>2
  <2>6. deleted \in BOOLEAN
    BY DEF Init
  <2> QED
    BY <1>1, <2>3, <2>4, <2>5, <2>6 DEF Typed
<1>3. \A h : WantedAt(h) = {} /\ Places(h) = {}
  BY <1>1 DEF WantedAt, Places
<1>4. Sorted
  BY <1>1 DEF Sorted
<1>5. NamedInOrder
  BY <1>1, <1>3 DEF NamedInOrder, IsInjective
<1>6. Stages
  BY <1>1 DEF Stages
<1>7. KeptHeaders
  <2>1. Passed = 0
    BY <1>1 DEF Passed
  <2> DEFINE none == [i \in {} |-> 0]
  <2>2. 1 .. Passed = {} /\ 1 .. visited = {}
    BY <1>1, <2>1
  <2>3. \A i \in 1 .. Len(input) - visited : headers[Passed + i] = input[visited + i]
    BY <1>1, <2>1
  <2>4. none \in [1 .. Passed -> {i \in 1 .. visited : input[i].kind = "other"}]
    BY <2>2
  <2>5. \E from \in [1 .. Passed -> {i \in 1 .. visited : input[i].kind = "other"}] :
          /\ \A i, j \in 1 .. Passed : i < j => from[i] < from[j]
          /\ \A k \in 1 .. visited : input[k].kind = "other" => \E i \in 1 .. Passed : from[i] = k
          /\ \A i \in 1 .. Passed : headers[i] = input[from[i]]
    <3> HIDE DEF none
    <3> QED
      BY <2>2, <2>4
  <2>6. Passed >= 0
    BY <2>1
  <2> QED
    BY <2>3, <2>5, <2>6 DEF KeptHeaders
<1> QED
  BY <1>2, <1>4, <1>5, <1>6, <1>7 DEF IInv

LEMMA NextIInv ==
  ASSUME IInv, [Next]_vars
  PROVE  IInv'
<1>1. CASE UNCHANGED vars
  BY <1>1, SameHeaders, SameDestinations DEF IInv, vars, Typed, Stages, Places
<1> QED
  BY <1>1, ParsePreserves, AllParsedPreserves, EnqueuePreserves, RcptPreserves, SentPreserves,
     GiveUpPreserves DEF Next

THEOREM RecipientsInvariant == Spec => []IInv
<1> QED
  BY InitIInv, NextIInv, PTL DEF Spec

\* Wanted, said of a host.
LEMMA WantedIs ==
  ASSUME Typed
  PROVE  /\ \A h \in Hosts : \A u \in WantedAt(h) : <<u, h>> \in Wanted
         /\ visited = Len(input) =>
              \A w \in Wanted : w[2] \in Hosts /\ w[1] \in WantedAt(w[2])
<1>1. \A i \in DOMAIN input : input[i] \in Header /\ i \in 1 .. Len(input)
  BY ElementOfSeq DEF Typed
<1>2. ASSUME NEW h \in Hosts, NEW u \in WantedAt(h) PROVE <<u, h>> \in Wanted
  <2>1. PICK i \in 1 .. visited : input[i] = To(u, h)
    BY DEF WantedAt
  <2>2. i \in DOMAIN input
    BY <2>1 DEF Typed
  <2>3. input[i].kind = "to" /\ input[i].user = u /\ input[i].host = h
    BY <2>1 DEF To
  <2> QED
    BY <2>2, <2>3 DEF Wanted
<1>3. ASSUME visited = Len(input), NEW w \in Wanted
      PROVE  w[2] \in Hosts /\ w[1] \in WantedAt(w[2])
  <2>1. PICK i \in DOMAIN input : input[i].kind = "to" /\ w = <<input[i].user, input[i].host>>
    BY DEF Wanted
  <2>2. input[i].user \in Users /\ input[i].host \in Hosts
        /\ input[i] = To(input[i].user, input[i].host)
    BY <1>1, <2>1, HeaderKinds
  <2> QED
    BY <1>1, <1>3, <2>1, <2>2 DEF WantedAt
<1> QED
  BY <1>2, <1>3

\* No server is told a recipient twice or one it has not, for any headers.
THEOREM RecipientsEachNamedOnce == Spec => []EachNamedOnce
<1>1. IInv => EachNamedOnce
  BY WantedIs DEF IInv, NamedInOrder, EachNamedOnce
<1> QED
  BY <1>1, RecipientsInvariant, PTL

\* A file goes only when each recipient has been named to its server.
THEOREM RecipientsDeletedWhenAllNamed == Spec => []DeletedWhenAllNamed
<1>1. IInv => DeletedWhenAllNamed
  <2> SUFFICES ASSUME IInv, deleted, NEW w \in Wanted PROVE Contains(named[w[2]], w[1])
    BY DEF DeletedWhenAllNamed
  <2>1. visited = Len(input) /\ destinations = <<>>
    BY DEF IInv, Stages
  <2>2. w[2] \in Hosts /\ w[1] \in WantedAt(w[2])
    BY <2>1, WantedIs DEF IInv
  <2>3. Places(w[2]) = {}
    BY <2>1 DEF Places
  <2> QED
    BY <2>2, <2>3 DEF IInv, NamedInOrder
<1> QED
  BY <1>1, RecipientsInvariant, PTL

\* The headers that are sent are all those outside the envelope, in their order.
THEOREM RecipientsEnvelopeNotSent == Spec => []EnvelopeNotSent
<1>1. IInv => EnvelopeNotSent
  <2> SUFFICES ASSUME IInv, state = "sending" PROVE EnvelopeNotSent
    BY DEF EnvelopeNotSent
  <2>1. Typed /\ KeptHeaders /\ visited = Len(input)
    BY DEF IInv, Stages
  <2>2. Passed = Len(headers) /\ DOMAIN headers = 1 .. Len(headers)
        /\ DOMAIN input = 1 .. visited
    BY <2>1 DEF Typed, Passed
  <2>3. Others = {i \in 1 .. visited : input[i].kind = "other"}
    BY <2>2 DEF Others
  <2>4. \E from \in [DOMAIN headers -> Others] :
          /\ \A i, j \in DOMAIN headers : i < j => from[i] < from[j]
          /\ \A k \in Others : \E i \in DOMAIN headers : from[i] = k
          /\ \A i \in DOMAIN headers : headers[i] = input[from[i]]
    <3>1. PICK from \in [1 .. Passed -> {i \in 1 .. visited : input[i].kind = "other"}] :
            /\ \A i, j \in 1 .. Passed : i < j => from[i] < from[j]
            /\ \A k \in 1 .. visited :
                 input[k].kind = "other" => \E i \in 1 .. Passed : from[i] = k
            /\ \A i \in 1 .. Passed : headers[i] = input[from[i]]
      BY <2>1 DEF KeptHeaders
    <3>2. from \in [DOMAIN headers -> Others]
      BY <2>2, <2>3, <3>1
    <3>3. \A k \in Others : \E i \in DOMAIN headers : from[i] = k
      BY <2>2, <2>3, <3>1
    <3> QED
      BY <2>2, <3>1, <3>2, <3>3
  <2> QED
    BY <2>4 DEF EnvelopeNotSent
<1> QED
  BY <1>1, RecipientsInvariant, PTL
=============================================================================
