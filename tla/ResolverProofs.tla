----------------------------- MODULE ResolverProofs -----------------------------
(***************************************************************************)
(* Theorems about Resolver, for any exchangers and numbers of records and     *)
(* addresses.  The invariant says what the session knows at each place where *)
(* it waits: which query is out, and which addresses are left to be tried.   *)
(***************************************************************************)
EXTENDS Resolver, TLAPS

\* The exchanger that is searched has a record.
InRecords ==
  /\ query = "mx" => mx = 0
  /\ query \in {"aaaa", "a"} => mx \in 1 .. Len(records)

\* What has been tried, and what is left of the list of addresses.
Accounted ==
  Running =>
    /\ state = "RESOLVING_DNS" => known = tried
    /\ state = "CONNECTING" =>
         /\ index \in 1 .. count
         /\ known = tried \cup {<<mx, family, k>> : k \in index + 1 .. count}
    /\ state \in {"CONNECTING", "RECEIVING_GREETING"} => mx \in 1 .. Len(records)
    /\ state = "CLOSED" => known = tried /\ (mx = 0 \/ mx = Len(records) + 1)

ResolverInv ==
  /\ TypeOK
  /\ SocketFits
  /\ HostentNotLost
  /\ QueryWhileResolving
  /\ InRecords
  /\ Accounted

LEMMA ResolverStart == Init => ResolverInv
<1> SUFFICES ASSUME Init PROVE ResolverInv
  OBVIOUS
<1>1. TypeOK
  BY ResolverAssumption DEF Init, TypeOK, Families
<1> QED
  BY <1>1 DEF Init, ResolverInv, SocketFits, HostentNotLost, QueryWhileResolving,
     InRecords, Accounted, Running

-----------------------------------------------------------------------------
(* What the callbacks call. *)

\* The next family of the exchanger, the next exchanger, or the end.
LEMMA NextFacts ==
  ASSUME TypeOK, mx \in 1 .. Len(records), NEW f, NEW s, TryNextFamily(f, s)
  PROVE  \/ /\ state' = s /\ query' \in {"aaaa", "a"}
            /\ mx' \in 1 .. Len(records) /\ mx' \in 0 .. MaxRecords + 1
         \/ /\ state' = "CLOSED" /\ query' = "none"
            /\ mx' = Len(records) + 1 /\ mx' \in 0 .. MaxRecords + 1
<1>1. PICK m \in Nat : m = Len(records)
  BY DEF TypeOK
<1>2. m <= MaxRecords /\ MaxRecords \in Nat /\ mx \in 1 .. m
  BY <1>1, ResolverAssumption DEF TypeOK
<1>3. CASE f = "inet6"
  BY <1>1, <1>2, <1>3 DEF TryNextFamily, Ask
<1>4. CASE f # "inet6"
  <2>1. mx' = mx + 1 /\ IF mx < m THEN Ask("aaaa", s) ELSE Abort
    BY <1>1, <1>4 DEF TryNextFamily, TryNextMx
  <2> QED
    BY <1>1, <1>2, <2>1 DEF Ask, Abort
<1> QED
  BY <1>3, <1>4

\* try_addr ends on its way to an address, or past the last one.
LEMMA TryFacts ==
  ASSUME TypeOK, SocketFits, mx \in 1 .. Len(records),
         NEW f \in Families, NEW n \in 0 .. MaxAddresses, NEW i \in 1 .. n + 1,
         NEW s, TryAddr(f, n, i, s)
  PROVE  /\ index' \in i .. n + 1 /\ index' \in 1 .. MaxAddresses + 1
         /\ tried' = tried \cup {<<mx, f, k>> : k \in i .. (IF index' > n THEN n ELSE index')}
         /\ tried' \subseteq Address
         /\ socket' \in Families \cup {"none"} /\ peer' \in Families \cup {"none"}
         /\ SocketFits'
         /\ \/ /\ state' \in {"CONNECTING", "RECEIVING_GREETING"} /\ query' = "none"
               /\ hostent' = "live" /\ mx' = mx /\ index' <= n
            \/ /\ state' = s /\ query' \in {"aaaa", "a"} /\ hostent' = "freed"
               /\ mx' \in 1 .. Len(records) /\ mx' \in 0 .. MaxRecords + 1
               /\ index' = n + 1
            \/ /\ state' = "CLOSED" /\ query' = "none" /\ hostent' = "freed"
               /\ mx' = Len(records) + 1 /\ mx' \in 0 .. MaxRecords + 1
               /\ index' = n + 1
<1>1. MaxAddresses \in Nat /\ MaxRecords \in Nat
  BY ResolverAssumption
<1>2. PICK j \in i .. n + 1 :
        /\ index' = j
        /\ tried' = tried \cup {<<mx, f, k>> : k \in i .. (IF j > n THEN n ELSE j)}
        /\ IF i > n THEN UNCHANGED <<socket, peer>>
           ELSE socket' = SocketFor(f) /\ peer' = f
        /\ IF j > n THEN OutOfAddresses(f, s)
           ELSE /\ state' \in {"CONNECTING", "RECEIVING_GREETING"}
                /\ query' = "none"
                /\ hostent' = "live"
                /\ UNCHANGED mx
  BY DEF TryAddr
<1>3. index' \in i .. n + 1 /\ index' \in 1 .. MaxAddresses + 1
  BY <1>1, <1>2
<1>4. tried' \subseteq Address
  <2>1. mx \in Places
    <3>1. PICK m \in Nat : m = Len(records)
      BY DEF TypeOK
    <3> QED
      BY <1>1, <3>1 DEF TypeOK, Places
  <2>2. \A k \in i .. (IF index' > n THEN n ELSE index') : k \in 1 .. MaxAddresses
    BY <1>1, <1>3
  <2>3. tried \subseteq Address
    BY DEF TypeOK
  <2> QED
    BY <1>2, <2>1, <2>2, <2>3 DEF Address
<1>5. socket' \in Families \cup {"none"} /\ peer' \in Families \cup {"none"} /\ SocketFits'
  BY <1>2 DEF TypeOK, SocketFits, SocketFor
<1>6. CASE index' > n
  <2>1. hostent' = "freed" /\ TryNextFamily(f, s) /\ index' = n + 1
    BY <1>2, <1>6 DEF OutOfAddresses
  <2> QED
    BY <1>2, <1>3, <1>4, <1>5, <2>1, NextFacts
<1>7. CASE ~(index' > n)
  BY <1>2, <1>3, <1>4, <1>5, <1>7
<1> QED
  BY <1>6, <1>7

-----------------------------------------------------------------------------
(* Each action keeps the invariant. *)

LEMMA MxAnsweredKeeps == ResolverInv /\ MxAnswered => ResolverInv'
<1> SUFFICES ASSUME ResolverInv, MxAnswered PROVE ResolverInv'
  OBVIOUS
<1>1. /\ Running /\ query = "mx" /\ mx = 0 /\ hostent # "live" /\ known = tried
      /\ state = "RESOLVING_DNS" /\ MaxRecords \in Nat
      /\ UNCHANGED <<host, socket, peer, stage, known, tried>>
  BY ResolverAssumption DEF MxAnswered, ResolverInv, InRecords, HostentNotLost,
     QueryWhileResolving, Accounted
<1>2. /\ UNCHANGED <<hostent, family, count, index, socket, peer, stage, known, tried>>
  BY <1>1 DEF host
<1>3. CASE Abort /\ UNCHANGED <<records, mx, fault>>
  BY <1>1, <1>2, <1>3 DEF Abort, ResolverInv, TypeOK, SocketFits, HostentNotLost,
     QueryWhileResolving, InRecords, Accounted, Running
<1>4. ASSUME NEW n \in 1 .. MaxRecords, records' \in [1 .. n -> Exchangers],
             mx' = 1, Ask("aaaa", state), UNCHANGED fault
      PROVE  ResolverInv'
  <2>1. records' \in Seq(Exchangers) /\ Len(records') = n
    <3>1. n \in Nat
      BY <1>1, <1>4
    <3> QED
      BY <1>4, <3>1
  <2>2. TypeOK'
    BY <1>1, <1>2, <1>4, <2>1 DEF ResolverInv, TypeOK, Ask
  <2> QED
    BY <1>1, <1>2, <1>4, <2>1, <2>2 DEF Ask, ResolverInv, SocketFits, HostentNotLost,
       QueryWhileResolving, InRecords, Accounted, Running
<1>5. CASE fault' = "null_read" /\ UNCHANGED <<state, query, records, mx>>
  BY <1>1, <1>2, <1>5 DEF ResolverInv, TypeOK, SocketFits, HostentNotLost,
     QueryWhileResolving, InRecords, Accounted, Running
<1> QED
  BY <1>3, <1>4, <1>5 DEF MxAnswered

LEMMA NoAddressesKeeps == ResolverInv /\ NoAddresses => ResolverInv'
<1> SUFFICES ASSUME ResolverInv, NoAddresses PROVE ResolverInv'
  OBVIOUS
<1>1. /\ Running /\ query \in {"aaaa", "a"} /\ TryNextFamily(FamilyAsked, state)
      /\ UNCHANGED <<records, family, count, index, socket, peer, stage, fault, known, tried>>
      /\ hostent' = hostent \/ hostent' = "null"
  BY DEF NoAddresses, QueryFailed, AnswerMalformed, host
<1>2. /\ mx \in 1 .. Len(records) /\ state = "RESOLVING_DNS" /\ known = tried
      /\ hostent # "live" /\ TypeOK
  BY <1>1 DEF ResolverInv, InRecords, QueryWhileResolving, Accounted, HostentNotLost
<1>3. \/ /\ state' = state /\ query' \in {"aaaa", "a"}
         /\ mx' \in 1 .. Len(records) /\ mx' \in 0 .. MaxRecords + 1
      \/ /\ state' = "CLOSED" /\ query' = "none"
         /\ mx' = Len(records) + 1 /\ mx' \in 0 .. MaxRecords + 1
  BY <1>1, <1>2, NextFacts
<1>4. TypeOK'
  BY <1>1, <1>2, <1>3 DEF TypeOK
<1> QED
  BY <1>1, <1>2, <1>3, <1>4 DEF ResolverInv, SocketFits, HostentNotLost,
     QueryWhileResolving, InRecords, Accounted, Running

LEMMA AddressesKeeps == ResolverInv /\ Addresses => ResolverInv'
<1> SUFFICES ASSUME ResolverInv, Addresses PROVE ResolverInv'
  OBVIOUS
<1> DEFINE f == FamilyAsked
<1>1. PICK n \in 0 .. MaxAddresses :
        /\ family' = f /\ count' = n
        /\ known' = known \cup {<<mx, f, k>> : k \in 1 .. n}
        /\ TryAddr(f, n, 1, state)
  BY DEF Addresses
<1>2. /\ Running /\ query \in {"aaaa", "a"} /\ UNCHANGED <<records, stage, fault>>
      /\ f \in Families /\ n \in Nat /\ 1 \in 1 .. n + 1
  BY <1>1, ResolverAssumption DEF Addresses, FamilyAsked, Families
<1>3. /\ mx \in 1 .. Len(records) /\ state = "RESOLVING_DNS" /\ known = tried
      /\ TypeOK /\ SocketFits
  BY <1>2 DEF ResolverInv, InRecords, QueryWhileResolving, Accounted
<1> HIDE DEF f
<1>4. /\ index' \in 1 .. n + 1 /\ index' \in 1 .. MaxAddresses + 1
      /\ tried' = tried \cup {<<mx, f, k>> : k \in 1 .. (IF index' > n THEN n ELSE index')}
      /\ tried' \subseteq Address
      /\ socket' \in Families \cup {"none"} /\ peer' \in Families \cup {"none"}
      /\ SocketFits'
      /\ \/ /\ state' \in {"CONNECTING", "RECEIVING_GREETING"} /\ query' = "none"
            /\ hostent' = "live" /\ mx' = mx /\ index' <= n
         \/ /\ state' = "RESOLVING_DNS" /\ query' \in {"aaaa", "a"} /\ hostent' = "freed"
            /\ mx' \in 1 .. Len(records) /\ mx' \in 0 .. MaxRecords + 1
            /\ index' = n + 1
         \/ /\ state' = "CLOSED" /\ query' = "none" /\ hostent' = "freed"
            /\ mx' = Len(records) + 1 /\ mx' \in 0 .. MaxRecords + 1
            /\ index' = n + 1
  BY <1>1, <1>2, <1>3, TryFacts
<1>5. known' \subseteq Address
  <2>1. mx \in Places /\ MaxAddresses \in Nat
    <3>1. PICK m \in Nat : m = Len(records)
      BY <1>3 DEF TypeOK
    <3> QED
      BY <1>3, <3>1, ResolverAssumption DEF TypeOK, Places
  <2>2. \A k \in 1 .. n : k \in 1 .. MaxAddresses
    BY <1>2, <2>1
  <2> QED
    BY <1>1, <1>2, <1>3, <2>1, <2>2 DEF TypeOK, Address
<1>6. TypeOK'
  BY <1>1, <1>2, <1>3, <1>4, <1>5 DEF TypeOK
<1>7. index' = n + 1 => known' = tried'
  BY <1>1, <1>2, <1>3, <1>4
<1>8. index' <= n => known' = tried' \cup {<<mx, f, k>> : k \in index' + 1 .. n}
  <2> SUFFICES ASSUME index' <= n
               PROVE  known' = tried' \cup {<<mx, f, k>> : k \in index' + 1 .. n}
    OBVIOUS
  <2>1. tried' = tried \cup {<<mx, f, k>> : k \in 1 .. index'}
    BY <1>2, <1>4
  <2>2. 1 .. n = (1 .. index') \cup (index' + 1 .. n)
    BY <1>2, <1>4
  <2> QED
    BY <1>1, <1>3, <2>1, <2>2
<1>9. Accounted'
  <2>1. state' = "CONNECTING" =>
          /\ index' \in 1 .. count'
          /\ known' = tried' \cup {<<mx', family', k>> : k \in index' + 1 .. count'}
    <3> SUFFICES ASSUME state' = "CONNECTING"
                 PROVE  /\ index' \in 1 .. count'
                        /\ known' = tried' \cup {<<mx', family', k>> : k \in index' + 1 .. count'}
      OBVIOUS
    <3>1. mx' = mx /\ index' <= n /\ family' = f /\ count' = n
      BY <1>1, <1>4
    <3>2. index' \in 1 .. n
      BY <1>2, <1>4, <3>1
    <3> QED
      BY <1>8, <3>1, <3>2
  <2>2. /\ state' = "RESOLVING_DNS" => known' = tried'
        /\ state' = "CLOSED" => known' = tried' /\ mx' = Len(records') + 1
        /\ state' \in {"CONNECTING", "RECEIVING_GREETING"} => mx' \in 1 .. Len(records')
    BY <1>2, <1>3, <1>4, <1>7
  <2> QED
    BY <2>1, <2>2 DEF Accounted
<1> QED
  BY <1>1, <1>2, <1>3, <1>4, <1>6, <1>9 DEF ResolverInv, HostentNotLost,
     QueryWhileResolving, InRecords, Running

LEMMA ConnectedKeeps == ResolverInv /\ Connected => ResolverInv'
BY DEF ResolverInv, Connected, host, TypeOK, SocketFits, HostentNotLost,
   QueryWhileResolving, InRecords, Accounted, Running

LEMMA ConnectFailedKeeps == ResolverInv /\ ConnectFailed => ResolverInv'
<1> SUFFICES ASSUME ResolverInv, ConnectFailed PROVE ResolverInv'
  OBVIOUS
<1>1. /\ Running /\ state = "CONNECTING"
      /\ TryAddr(family, count, index + 1, "RESOLVING_DNS")
      /\ UNCHANGED <<records, family, count, stage, fault, known>>
  BY DEF ConnectFailed
<1>2. /\ mx \in 1 .. Len(records) /\ index \in 1 .. count
      /\ known = tried \cup {<<mx, family, k>> : k \in index + 1 .. count}
      /\ TypeOK /\ SocketFits
  BY <1>1 DEF ResolverInv, Accounted
<1>3. /\ count \in Nat /\ count \in 0 .. MaxAddresses /\ index \in Nat
      /\ index + 1 \in 1 .. count + 1 /\ family \in Families
  BY <1>2, ResolverAssumption DEF TypeOK
<1>4. /\ index' \in index + 1 .. count + 1 /\ index' \in 1 .. MaxAddresses + 1
      /\ tried' = tried \cup {<<mx, family, k>> :
                              k \in index + 1 .. (IF index' > count THEN count ELSE index')}
      /\ tried' \subseteq Address
      /\ socket' \in Families \cup {"none"} /\ peer' \in Families \cup {"none"}
      /\ SocketFits'
      /\ \/ /\ state' \in {"CONNECTING", "RECEIVING_GREETING"} /\ query' = "none"
            /\ hostent' = "live" /\ mx' = mx /\ index' <= count
         \/ /\ state' = "RESOLVING_DNS" /\ query' \in {"aaaa", "a"} /\ hostent' = "freed"
            /\ mx' \in 1 .. Len(records) /\ mx' \in 0 .. MaxRecords + 1
            /\ index' = count + 1
         \/ /\ state' = "CLOSED" /\ query' = "none" /\ hostent' = "freed"
            /\ mx' = Len(records) + 1 /\ mx' \in 0 .. MaxRecords + 1
            /\ index' = count + 1
  BY <1>1, <1>2, <1>3, TryFacts
<1>5. TypeOK'
  BY <1>1, <1>2, <1>4 DEF TypeOK
<1>6. index' = count + 1 => known' = tried'
  <2> SUFFICES ASSUME index' = count + 1 PROVE known' = tried'
    OBVIOUS
  <2>1. tried' = tried \cup {<<mx, family, k>> : k \in index + 1 .. count}
    BY <1>3, <1>4
  <2> QED
    BY <1>1, <1>2, <2>1
<1>7. index' <= count => known' = tried' \cup {<<mx, family, k>> : k \in index' + 1 .. count}
  <2> SUFFICES ASSUME index' <= count
               PROVE  known' = tried' \cup {<<mx, family, k>> : k \in index' + 1 .. count}
    OBVIOUS
  <2>1. tried' = tried \cup {<<mx, family, k>> : k \in index + 1 .. index'}
    BY <1>3, <1>4
  <2>2. index + 1 .. count = (index + 1 .. index') \cup (index' + 1 .. count)
    BY <1>3, <1>4
  <2> QED
    BY <1>1, <1>2, <2>1, <2>2
<1>8. Accounted'
  <2>1. state' = "CONNECTING" => index' \in 1 .. count
    BY <1>3, <1>4
  <2> QED
    BY <1>1, <1>2, <1>3, <1>4, <1>6, <1>7, <2>1 DEF Accounted, Running
<1> QED
  BY <1>1, <1>2, <1>4, <1>5, <1>8 DEF ResolverInv, HostentNotLost, QueryWhileResolving,
     InRecords, Running

\* The end: no action of it is taken by a session that runs.
LEMMA GivenUpKeeps ==
  ASSUME ResolverInv, GivenUp,
         UNCHANGED <<records, socket, peer, fault, known, tried>>, stage' = "cancelled"
  PROVE  ResolverInv'
<1>1. UNCHANGED <<hostent, family, count, index>>
  BY DEF GivenUp, QueryFailed, host
<1>2. ~Running'
  BY DEF Running
<1>3. TypeOK'
  <2>1. CASE query = "none" /\ UNCHANGED <<search, host>>
    BY <1>1, <2>1 DEF search, ResolverInv, TypeOK
  <2>2. CASE query = "mx" /\ Abort /\ UNCHANGED <<mx, host>>
    BY <1>1, <2>2 DEF Abort, ResolverInv, TypeOK
  <2>3. CASE QueryFailed
    <3>1. /\ state' \in {state, "CLOSED"} /\ query' \in {"aaaa", "a", "none"}
          /\ mx' \in 0 .. MaxRecords + 1
      BY <2>3, NextFacts DEF QueryFailed, ResolverInv, InRecords
    <3> QED
      BY <1>1, <3>1 DEF ResolverInv, TypeOK
  <2> QED
    BY <2>1, <2>2, <2>3 DEF GivenUp
<1>4. InRecords' /\ HostentNotLost'
  <2>1. CASE query = "none" /\ UNCHANGED <<search, host>>
    BY <1>1, <2>1 DEF search, ResolverInv, InRecords, HostentNotLost
  <2>2. CASE query = "mx" /\ Abort /\ UNCHANGED <<mx, host>>
    BY <1>1, <2>2 DEF Abort, ResolverInv, InRecords, HostentNotLost
  <2>3. CASE QueryFailed
    <3>1. query' = "none" \/ (query' \in {"aaaa", "a"} /\ mx' \in 1 .. Len(records))
      BY <2>3, NextFacts DEF QueryFailed, ResolverInv, InRecords
    <3>2. hostent # "live"
      BY <2>3 DEF QueryFailed, ResolverInv, HostentNotLost
    <3> QED
      BY <1>1, <3>1, <3>2 DEF InRecords, HostentNotLost
  <2> QED
    BY <2>1, <2>2, <2>3 DEF GivenUp
<1> QED
  BY <1>2, <1>3, <1>4 DEF ResolverInv, SocketFits, QueryWhileResolving, Accounted

LEMMA CancelKeeps == ResolverInv /\ (Cancel \/ FailAtOnce) => ResolverInv'
BY GivenUpKeeps DEF Cancel, FailAtOnce

LEMMA ReleaseAllKeeps == ResolverInv /\ ReleaseAll => ResolverInv'
BY DEF ResolverInv, ReleaseAll, search, TypeOK, SocketFits, HostentNotLost,
   QueryWhileResolving, InRecords, Accounted, Running

LEMMA DestroyKeeps == ResolverInv /\ Destroy => ResolverInv'
BY DEF ResolverInv, Destroy, search, host, TypeOK, SocketFits, HostentNotLost,
   QueryWhileResolving, InRecords, Accounted, Running

LEMMA ResolverStep == ResolverInv /\ [Next]_vars => ResolverInv'
<1> SUFFICES ASSUME ResolverInv, [Next]_vars PROVE ResolverInv'
  OBVIOUS
<1>1. CASE UNCHANGED vars
  BY <1>1 DEF vars, ResolverInv, TypeOK, SocketFits, HostentNotLost,
     QueryWhileResolving, InRecords, Accounted, Running
<1> QED
  BY <1>1, MxAnsweredKeeps, NoAddressesKeeps, AddressesKeeps, ConnectedKeeps,
     ConnectFailedKeeps, CancelKeeps, ReleaseAllKeeps, DestroyKeeps DEF Next, Answer

THEOREM ResolverInvariant == Spec => []ResolverInv
BY ResolverStart, ResolverStep, PTL DEF Spec

\* The types of the session's search, for any replies of the DNS.
THEOREM ResolverTypeOK == Spec => []TypeOK
BY ResolverInvariant, PTL DEF ResolverInv

\* try_addr: connect() is called with a socket of the address's family.
THEOREM ResolverSocketFits == Spec => []SocketFits
BY ResolverInvariant, PTL DEF ResolverInv

\* The callbacks of c-ares: no list of addresses is overwritten before it is freed.
THEOREM ResolverHostentNotLost == Spec => []HostentNotLost
BY ResolverInvariant, PTL DEF ResolverInv

\* session_subscribe, which asks c-ares for its sockets in RESOLVING_DNS only, asks
\* it whenever a query is out and never else.
THEOREM ResolverQueryWhileResolving == Spec => []QueryWhileResolving
BY ResolverInvariant, PTL DEF ResolverInv

\* What a session that has an address holds: the list it is from, and no query.
Secured ==
  state \in {"CONNECTING", "RECEIVING_GREETING"} =>
    query = "none" /\ hostent # "freed" /\ fault = "none"

LEMMA TryGivesAddress ==
  ASSUME NEW f, NEW n, NEW i, TryAddr(f, n, i, "RESOLVING_DNS"),
         state' \in {"CONNECTING", "RECEIVING_GREETING"}
  PROVE  hostent' = "live" /\ query' = "none"
<1>1. OutOfAddresses(f, "RESOLVING_DNS") => state' \in {"RESOLVING_DNS", "CLOSED"}
  BY DEF OutOfAddresses, TryNextFamily, TryNextMx, Ask, Abort
<1> QED
  BY <1>1 DEF TryAddr

LEMMA SecuredStep == ResolverInv /\ Secured /\ [Next]_vars => Secured'
<1> SUFFICES ASSUME ResolverInv, Secured, [Next]_vars PROVE Secured'
  OBVIOUS
<1>1. CASE UNCHANGED vars
  BY <1>1 DEF vars, Secured
<1>2. CASE MxAnswered
  BY <1>2 DEF MxAnswered, Abort, Ask, ResolverInv, QueryWhileResolving, Secured
<1>3. CASE NoAddresses
  <2>1. state' \in {state, "CLOSED"} /\ state = "RESOLVING_DNS"
    BY <1>3, NextFacts DEF NoAddresses, QueryFailed, AnswerMalformed, ResolverInv,
       InRecords, QueryWhileResolving
  <2> QED
    BY <2>1 DEF Secured
<1>4. CASE Addresses \/ ConnectFailed
  <2>1. UNCHANGED fault /\ Running /\ \E f, n, i : TryAddr(f, n, i, "RESOLVING_DNS")
    <3>1. CASE Addresses
      BY <3>1 DEF Addresses, ResolverInv, QueryWhileResolving
    <3>2. CASE ConnectFailed
      BY <3>2 DEF ConnectFailed
    <3> QED
      BY <1>4, <3>1, <3>2
  <2> QED
    BY <2>1, TryGivesAddress DEF Secured, Running
<1>5. CASE Connected
  BY <1>5 DEF Connected, host, Secured
<1>6. CASE Cancel \/ FailAtOnce
  <2>1. GivenUp /\ UNCHANGED fault
    BY <1>6 DEF Cancel, FailAtOnce
  <2>2. CASE query = "none" /\ UNCHANGED <<search, host>>
    BY <2>1, <2>2 DEF search, host, Secured
  <2>3. CASE query = "mx" /\ Abort
    BY <2>3 DEF Abort, Secured
  <2>4. CASE QueryFailed
    BY <2>4 DEF QueryFailed, TryNextFamily, TryNextMx, Ask, Abort, Secured
  <2> QED
    BY <2>1, <2>2, <2>3, <2>4 DEF GivenUp
<1>7. CASE ReleaseAll
  BY <1>7 DEF ReleaseAll, search, Secured
<1>8. CASE Destroy
  BY <1>8 DEF Destroy, search, host, Secured
<1> QED
  BY <1>1, <1>2, <1>3, <1>4, <1>5, <1>6, <1>7, <1>8 DEF Next, Answer

\* session_finalize makes no memory error in a session that has an address.
THEOREM ResolverConnectedIsSafe == Spec => []ConnectedIsSafe
<1>1. Init => Secured
  BY DEF Init, Secured
<1>2. Secured => ConnectedIsSafe
  BY DEF Secured, ConnectedIsSafe
<1> QED
  BY <1>1, <1>2, ResolverInvariant, SecuredStep, PTL DEF Spec

\* try_next_mx_reply: the search is given up only after every address of every
\* exchanger has been tried.
THEOREM ResolverEveryAddressTried == Spec => []EveryAddressTried
<1>1. ResolverInv => EveryAddressTried
  BY DEF ResolverInv, Accounted, EveryAddressTried
<1> QED
  BY <1>1, ResolverInvariant, PTL

-----------------------------------------------------------------------------
(* The steps of ImplementsSearch; that the search ends is left to TLC. *)

SearchSteps ==
  Promise!SearchInit /\ [][Promise!SearchNext]_(Promise!searchVars)

Shown  == IF Running THEN state ELSE "CLOSED"
Toward == IF Running /\ state \in {"CONNECTING", "RECEIVING_GREETING"}
          THEN records[mx] ELSE "none"

\* What a step of the search can be, in terms of what is shown.
Sought ==
  \/ /\ Shown \in {"RESOLVING_DNS", "CONNECTING"}
     /\ \/ Shown' = "RESOLVING_DNS" /\ Toward' = "none"
        \/ Shown' \in {"CONNECTING", "RECEIVING_GREETING"} /\ Toward' \in Exchangers
  \/ Shown # "CLOSED" /\ Shown' = "CLOSED" /\ Toward' = "none"
  \/ UNCHANGED <<Shown, Toward>>

LEMMA ShownFacts ==
  ASSUME TypeOK, Accounted
  PROVE  /\ Running /\ state \in {"CONNECTING", "RECEIVING_GREETING"}
              => Toward = records[mx] /\ Toward \in Exchangers
         /\ Shown \notin {"CONNECTING", "RECEIVING_GREETING"} => Toward = "none"
<1>1. ASSUME Running, state \in {"CONNECTING", "RECEIVING_GREETING"}
      PROVE  records[mx] \in Exchangers
  BY <1>1 DEF TypeOK, Accounted
<1> QED
  BY <1>1 DEF Shown, Toward

LEMMA SearchStep ==
  ASSUME ResolverInv, ResolverInv', [Next]_vars
  PROVE  Sought
<1>1. /\ TypeOK /\ Accounted /\ TypeOK' /\ Accounted'
  BY DEF ResolverInv
<1>2. /\ Running' /\ state' \in {"CONNECTING", "RECEIVING_GREETING"} => Toward' \in Exchangers
      /\ Shown' \notin {"CONNECTING", "RECEIVING_GREETING"} => Toward' = "none"
  <2>1. ASSUME Running', state' \in {"CONNECTING", "RECEIVING_GREETING"}
        PROVE  records'[mx'] \in Exchangers
    BY <1>1, <2>1 DEF TypeOK, Accounted
  <2> QED
    BY <2>1 DEF Shown, Toward
<1>3. Shown \notin {"CONNECTING", "RECEIVING_GREETING"} => Toward = "none"
  BY <1>1, ShownFacts
<1>4. state' \in {"RESOLVING_DNS", "CONNECTING", "RECEIVING_GREETING", "CLOSED"}
  BY <1>1 DEF TypeOK
<1>5. ASSUME Running, state \in {"RESOLVING_DNS", "CONNECTING"} PROVE Sought
  BY <1>2, <1>4, <1>5 DEF Sought, Shown
<1>6. CASE ~Running
  <2>1. ~Running'
    BY <1>6 DEF vars, Next, Answer, MxAnswered, NoAddresses, Addresses, Connected,
       ConnectFailed, Cancel, FailAtOnce, ReleaseAll, Destroy, Running
  <2> QED
    BY <1>6, <2>1 DEF Sought, Shown, Toward
<1>7. CASE Running /\ state \in {"RECEIVING_GREETING", "CLOSED"}
  <2>1. query = "none"
    BY <1>7 DEF ResolverInv, QueryWhileResolving
  <2>2. CASE Cancel
    <3>1. ~Running'
      BY <2>2 DEF Cancel, Running
    <3>2. Shown' = "CLOSED" /\ Toward' = "none"
      BY <3>1 DEF Shown, Toward
    <3> QED
      BY <1>3, <1>7, <3>2 DEF Sought, Shown
  <2>3. CASE UNCHANGED vars
    BY <2>3 DEF vars, Sought, Shown, Toward, Running
  <2> QED
    BY <1>7, <2>1, <2>2, <2>3 DEF Next, Answer, MxAnswered, NoAddresses, QueryFailed,
       AnswerMalformed, Addresses, Connected, ConnectFailed, FailAtOnce, ReleaseAll,
       Destroy, Running
<1> QED
  BY <1>1, <1>5, <1>6, <1>7 DEF TypeOK

\* session.c up to the connection takes no step that the rest of the session does not
\* expect of a search: it asks, connects to exchangers only, arrives or gives up.
THEOREM ResolverSearches == Spec => SearchSteps
<1>1. Init => Promise!SearchInit
  BY DEF Init, Promise!SearchInit, Promise!NoExchanger, Running
<1>2. ResolverInv /\ ResolverInv' /\ [Next]_vars => [Promise!SearchNext]_(Promise!searchVars)
  <2> SUFFICES ASSUME ResolverInv, ResolverInv', [Next]_vars
               PROVE  [Promise!SearchNext]_(Promise!searchVars)
    OBVIOUS
  <2>1. Sought
    BY SearchStep
  <2> QED
    BY <2>1 DEF Sought, Shown, Toward, Promise!SearchNext, Promise!Seek, Promise!Arrive,
       Promise!GiveUp, Promise!Searching, Promise!NoExchanger, Promise!searchVars
<1> QED
  BY <1>1, <1>2, ResolverInvariant, PTL DEF Spec, SearchSteps
=============================================================================
