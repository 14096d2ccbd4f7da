----------------------------- MODULE LoaderProofs -----------------------------
(* Theorems about Loader, for files of any length, cut into reads of any size. *)
EXTENDS Loader, TLAPS

\* What the search for the separator has passed over holds none: what comes
\* before scanned, and while it goes on all that the buffer holds.
NonePassed ==
  /\ \A j \in 0 .. scanned - 1 : ~SeparatorAt(j)
  /\ state = "LOADING_HEADERS" =>
       /\ base = 0 /\ offset = 0
       /\ \A j \in 0 .. size - 4 : ~SeparatorAt(j)

\* From where the buffer is filled.
InPlace ==
  /\ ~open => size = 0 /\ capacity = 0
  /\ state = "LOADING_BODY" /\ open => base \in {0, offset} /\ (~unsought => base = offset)
  /\ state = "HEADERS_LOADED" => ~open
  /\ state \in {"HEADERS_LOADED", "LOADING_BODY"} => SeparatorAt(scanned) /\ offset = scanned + 4
  /\ state = "BODY_LOADED" => SeparatorAt(scanned)

LoaderInv ==
  TypeOK /\ NonePassed /\ InPlace /\ BodyExact /\ RefusedForCause /\ OnlyEmptyPartDies

LEMMA FileIsSequence == TypeOK => text \in Seq(Bytes) /\ Len(text) \in Nat
BY LoaderAssumption DEF TypeOK

\* A buffer that is full grows, so that a read of nothing is the end of the file.
LEMMA Grows ==
  ASSUME TypeOK
  PROVE  Grown \in Nat /\ Grown > size
<1>1. capacity \in Nat /\ size \in Nat /\ size <= capacity
  BY DEF TypeOK
<1>2. (capacity * 5) \div 3 \in Nat /\ (capacity * 5) \div 3 >= capacity
  BY <1>1
<1> QED
  BY <1>1, <1>2 DEF Grown

LEMMA LoaderStart == Init => LoaderInv
<1> SUFFICES ASSUME Init PROVE LoaderInv
  OBVIOUS
<1>1. Len(text) \in Nat
  BY LoaderAssumption DEF Init
<1>2. TypeOK
  <2>1. text \in Texts /\ state \in Loading \cup {"HEADERS_LOADED", "BODY_LOADED", "LOADING_FAILED"}
    BY <1>1 DEF Init, Loading
  <2>2. base \in Nat /\ offset \in Nat /\ scanned \in Nat
    BY <1>1 DEF Init, Loading
  <2>3. size \in Nat /\ capacity \in Nat /\ size <= capacity /\ base + size <= Len(text)
    BY <1>1 DEF Init, Loading
  <2>4. bodyAt \in Nat /\ bodyLen \in Nat
    BY <1>1 DEF Init, Loading
  <2>5. open \in BOOLEAN /\ dead \in BOOLEAN /\ excused \in BOOLEAN /\ unsought \in BOOLEAN
    BY <1>1 DEF Init, Loading
  <2> QED
    BY <2>1, <2>2, <2>3, <2>4, <2>5 DEF TypeOK
<1>3. NonePassed /\ InPlace
  BY <1>1 DEF Init, NonePassed, InPlace, SeparatorAt
<1>4. BodyExact /\ RefusedForCause /\ OnlyEmptyPartDies
  BY DEF Init, BodyExact, RefusedForCause, OnlyEmptyPartDies
<1> QED
  BY <1>2, <1>3, <1>4 DEF LoaderInv

LEMMA LoaderSubscribe == LoaderInv /\ Subscribe => LoaderInv'
<1> SUFFICES ASSUME LoaderInv, Subscribe PROVE LoaderInv'
  OBVIOUS
<1>1. text \in Seq(Bytes) /\ Len(text) \in Nat
  BY FileIsSequence DEF LoaderInv
<1>2. UNCHANGED <<text, offset, size, scanned, bodyAt, bodyLen, dead>>
  BY DEF Subscribe
<1>3. \A j : SeparatorAt(j)' <=> SeparatorAt(j)
  BY <1>2 DEF SeparatorAt
<1>4. size = 0 /\ capacity = 0 /\ offset <= Len(text)
  BY <1>1 DEF LoaderInv, InPlace, NonePassed, Subscribe, Loading, SeparatorAt, TypeOK
<1>5. TypeOK'
  <2>1. text' \in Texts /\ state' \in Loading \cup {"HEADERS_LOADED", "BODY_LOADED", "LOADING_FAILED"}
    BY <1>1, <1>4 DEF LoaderInv, TypeOK, Subscribe, Loading
  <2>2. base' \in Nat /\ offset' \in Nat /\ scanned' \in Nat
    BY <1>1, <1>4 DEF LoaderInv, TypeOK, Subscribe, Loading
  <2>3. size' \in Nat /\ capacity' \in Nat /\ size' <= capacity' /\ base' + size' <= Len(text')
    BY <1>1, <1>4 DEF LoaderInv, TypeOK, Subscribe, Loading
  <2>4. bodyAt' \in Nat /\ bodyLen' \in Nat
    BY <1>1, <1>4 DEF LoaderInv, TypeOK, Subscribe, Loading
  <2>5. open' \in BOOLEAN /\ dead' \in BOOLEAN /\ excused' \in BOOLEAN /\ unsought' \in BOOLEAN
    BY <1>1, <1>4 DEF LoaderInv, TypeOK, Subscribe, Loading
  <2> QED
    BY <2>1, <2>2, <2>3, <2>4, <2>5 DEF TypeOK
<1>6. NonePassed' /\ InPlace'
  BY <1>2, <1>3, <1>4 DEF LoaderInv, NonePassed, InPlace, Subscribe, Loading
<1>7. BodyExact' /\ RefusedForCause'
  BY <1>2, <1>3 DEF LoaderInv, BodyExact, RefusedForCause, Subscribe, Loading
<1>8. OnlyEmptyPartDies'
  BY <1>2, <1>3 DEF LoaderInv, OnlyEmptyPartDies, Subscribe
<1> QED
  BY <1>5, <1>6, <1>7, <1>8 DEF LoaderInv

LEMMA LoaderReadHeaders ==
  ASSUME LoaderInv, Notify, NEW n \in 0 .. Len(text), Reads(n), ReadHeaders(n)
  PROVE  LoaderInv'
<1>1. text \in Seq(Bytes) /\ Len(text) \in Nat
  BY FileIsSequence DEF LoaderInv
<1>2. UNCHANGED <<text, base, unsought, bodyAt, bodyLen>> /\ dead = FALSE /\ open = TRUE
  BY DEF Notify, ReadHeaders, LoaderInv, TypeOK
<1>3. \A j : SeparatorAt(j)' <=> SeparatorAt(j)
  BY <1>2 DEF SeparatorAt
<1>4. state = "LOADING_HEADERS" /\ base = 0 /\ offset = 0 /\ size + n <= Len(text)
  BY <1>1 DEF ReadHeaders, LoaderInv, NonePassed, Reads, TypeOK
<1>g. Grown \in Nat /\ Grown > size /\ size + n <= Grown
  BY <1>1, Grows DEF LoaderInv, Reads, TypeOK
<1>5. CASE n = 0
  <2>1. size = Len(text)
    BY <1>1, <1>4, <1>5, <1>g DEF Reads, LoaderInv, TypeOK
  <2>2. \A j \in 0 .. Len(text) : ~SeparatorAt(j)
    BY <1>1, <1>4, <2>1 DEF LoaderInv, NonePassed, SeparatorAt
  <2>3. /\ state' = "LOADING_FAILED" /\ Cleanup
        /\ UNCHANGED <<offset, scanned, dead, excused>>
    BY <1>5 DEF ReadHeaders
  <2>4. NonePassed' /\ InPlace'
    BY <1>2, <1>3, <1>4, <2>3 DEF LoaderInv, TypeOK, NonePassed, InPlace, Cleanup
  <2>5. BodyExact' /\ RefusedForCause' /\ OnlyEmptyPartDies'
    BY <1>2, <1>3, <2>2, <2>3 DEF BodyExact, RefusedForCause, OnlyEmptyPartDies
  <2>6. TypeOK'
    <3>1. text' \in Texts /\ state' \in Loading \cup {"HEADERS_LOADED", "BODY_LOADED", "LOADING_FAILED"}
      BY <1>1, <1>2, <1>4, <2>3 DEF LoaderInv, TypeOK, Cleanup
    <3>2. base' \in Nat /\ offset' \in Nat /\ scanned' \in Nat
      BY <1>1, <1>2, <1>4, <2>3 DEF LoaderInv, TypeOK, Cleanup
    <3>3. size' \in Nat /\ capacity' \in Nat /\ size' <= capacity' /\ base' + size' <= Len(text')
      BY <1>1, <1>2, <1>4, <2>3 DEF LoaderInv, TypeOK, Cleanup
    <3>4. bodyAt' \in Nat /\ bodyLen' \in Nat
      BY <1>1, <1>2, <1>4, <2>3 DEF LoaderInv, TypeOK, Cleanup
    <3>5. open' \in BOOLEAN /\ dead' \in BOOLEAN /\ excused' \in BOOLEAN /\ unsought' \in BOOLEAN
      BY <1>1, <1>2, <1>4, <2>3 DEF LoaderInv, TypeOK, Cleanup
    <3> QED
      BY <3>1, <3>2, <3>3, <3>4, <3>5 DEF TypeOK
  <2> QED
    BY <2>4, <2>5, <2>6 DEF LoaderInv
<1>6. CASE \E k \in scanned .. size + n - 4 : FoundAt(k, size + n) /\ HeadersEnd(k) /\ Cleanup
  <2>1. PICK k \in scanned .. size + n - 4 : FoundAt(k, size + n) /\ HeadersEnd(k) /\ Cleanup
    BY <1>6
  <2>2. k \in Nat /\ k + 4 <= Len(text) /\ SeparatorAt(k)
    BY <1>1, <1>4, <2>1 DEF FoundAt, LoaderInv, TypeOK, SeparatorAt
  <2>3. \A j \in 0 .. k - 1 : ~SeparatorAt(j)
    BY <1>4, <2>1, <2>2 DEF FoundAt, LoaderInv, NonePassed, TypeOK
  <2>4. offset' = k + 4 /\ scanned' = k /\ open' = FALSE /\ size' = 0 /\ capacity' = 0
    BY <1>4, <2>1, <2>2 DEF HeadersEnd, Cleanup
  <2>5. \/ state' = "HEADERS_LOADED" /\ UNCHANGED excused
        \/ state' = "LOADING_FAILED" /\ excused' = TRUE
    BY <2>1 DEF HeadersEnd
  <2>6. dead' \in BOOLEAN /\ (dead' => k = 0)
    BY <1>2, <2>1 DEF HeadersEnd, Shrink
  <2>7. TypeOK'
    <3>1. text' \in Texts /\ state' \in Loading \cup {"HEADERS_LOADED", "BODY_LOADED", "LOADING_FAILED"}
      BY <1>1, <1>2, <1>4, <2>2, <2>4, <2>5, <2>6 DEF LoaderInv, TypeOK, Loading
    <3>2. base' \in Nat /\ offset' \in Nat /\ scanned' \in Nat
      BY <1>1, <1>2, <1>4, <2>2, <2>4, <2>5, <2>6 DEF LoaderInv, TypeOK, Loading
    <3>3. size' \in Nat /\ capacity' \in Nat /\ size' <= capacity' /\ base' + size' <= Len(text')
      BY <1>1, <1>2, <1>4, <2>2, <2>4, <2>5, <2>6 DEF LoaderInv, TypeOK, Loading
    <3>4. bodyAt' \in Nat /\ bodyLen' \in Nat
      BY <1>1, <1>2, <1>4, <2>2, <2>4, <2>5, <2>6 DEF LoaderInv, TypeOK, Loading
    <3>5. open' \in BOOLEAN /\ dead' \in BOOLEAN /\ excused' \in BOOLEAN /\ unsought' \in BOOLEAN
      BY <1>1, <1>2, <1>4, <2>2, <2>4, <2>5, <2>6 DEF LoaderInv, TypeOK, Loading
    <3> QED
      BY <3>1, <3>2, <3>3, <3>4, <3>5 DEF TypeOK
  <2>8. NonePassed' /\ InPlace'
    BY <1>2, <1>3, <2>2, <2>3, <2>4, <2>5 DEF NonePassed, InPlace
  <2>9. BodyExact' /\ RefusedForCause'
    BY <1>3, <2>5 DEF BodyExact, RefusedForCause
  <2>10. dead' => FirstSeparatorAt(0)'
    BY <1>3, <2>2, <2>6 DEF FirstSeparatorAt
  <2>11. OnlyEmptyPartDies'
    BY <2>10 DEF OnlyEmptyPartDies
  <2> QED
    BY <2>7, <2>8, <2>9, <2>11 DEF LoaderInv
<1>7. CASE /\ NotFound(size + n) /\ scanned' = ScannedAfter(size + n)
           /\ capacity' = Grown /\ size' = size + n
           /\ UNCHANGED <<state, open, offset, dead, excused>>
  <2>1. \A j \in 0 .. size + n - 4 : ~SeparatorAt(j)
    BY <1>4, <1>7 DEF NotFound, LoaderInv, NonePassed, TypeOK
  <2>2. scanned' \in Nat /\ \A j \in 0 .. scanned' - 1 : ~SeparatorAt(j)
    BY <1>4, <1>7, <2>1 DEF ScannedAfter, LoaderInv, NonePassed, TypeOK
  <2>3. TypeOK'
    <3>1. text' \in Texts /\ state' \in Loading \cup {"HEADERS_LOADED", "BODY_LOADED", "LOADING_FAILED"}
      BY <1>1, <1>2, <1>4, <1>7, <1>g, <2>2 DEF LoaderInv, TypeOK
    <3>2. base' \in Nat /\ offset' \in Nat /\ scanned' \in Nat
      BY <1>1, <1>2, <1>4, <1>7, <1>g, <2>2 DEF LoaderInv, TypeOK
    <3>3. size' \in Nat /\ capacity' \in Nat /\ size' <= capacity' /\ base' + size' <= Len(text')
      BY <1>1, <1>2, <1>4, <1>7, <1>g, <2>2 DEF LoaderInv, TypeOK
    <3>4. bodyAt' \in Nat /\ bodyLen' \in Nat
      BY <1>1, <1>2, <1>4, <1>7, <1>g, <2>2 DEF LoaderInv, TypeOK
    <3>5. open' \in BOOLEAN /\ dead' \in BOOLEAN /\ excused' \in BOOLEAN /\ unsought' \in BOOLEAN
      BY <1>1, <1>2, <1>4, <1>7, <1>g, <2>2 DEF LoaderInv, TypeOK
    <3> QED
      BY <3>1, <3>2, <3>3, <3>4, <3>5 DEF TypeOK
  <2>4. NonePassed' /\ InPlace'
    <3>1. state' = "LOADING_HEADERS" /\ open' = TRUE /\ base' = 0 /\ offset' = 0
      BY <1>2, <1>4, <1>7
    <3>2. \A j \in 0 .. size' - 4 : ~SeparatorAt(j)'
      <4>1. size \in Nat /\ n \in Nat
        BY <1>1 DEF LoaderInv, TypeOK
      <4>2. size' = size + n
        BY <1>7
      <4> QED
        BY <1>3, <2>1, <4>1, <4>2
    <3>3. \A j \in 0 .. scanned' - 1 : ~SeparatorAt(j)'
      BY <1>3, <2>2
    <3> QED
      BY <3>1, <3>2, <3>3 DEF NonePassed, InPlace
  <2>5. BodyExact' /\ RefusedForCause' /\ OnlyEmptyPartDies'
    BY <1>2, <1>4, <1>7 DEF BodyExact, RefusedForCause, OnlyEmptyPartDies
  <2> QED
    BY <2>3, <2>4, <2>5 DEF LoaderInv
<1> QED
  BY <1>5, <1>6, <1>7 DEF ReadHeaders

LEMMA LoaderReadBody ==
  ASSUME LoaderInv, Notify, NEW n \in 0 .. Len(text), Reads(n), ReadBody(n)
  PROVE  LoaderInv'
<1>1. text \in Seq(Bytes) /\ Len(text) \in Nat
  BY FileIsSequence DEF LoaderInv
<1>2. UNCHANGED <<text, base, unsought, scanned, excused>> /\ dead = FALSE /\ open = TRUE
  BY DEF Notify, ReadBody, LoaderInv, TypeOK
<1>3. \A j : SeparatorAt(j)' <=> SeparatorAt(j)
  BY <1>2 DEF SeparatorAt
<1>4. /\ state = "LOADING_BODY" /\ SeparatorAt(scanned) /\ offset = scanned + 4
      /\ \A j \in 0 .. scanned - 1 : ~SeparatorAt(j)
      /\ ~unsought => base = offset
  BY <1>2 DEF ReadBody, LoaderInv, InPlace, NonePassed
<1>5. base + size + n <= Len(text)
  BY <1>1 DEF LoaderInv, Reads, TypeOK
<1>g. Grown \in Nat /\ Grown > size /\ size + n <= Grown
  BY <1>1, Grows DEF LoaderInv, Reads, TypeOK
<1>6. CASE n = 0
  <2>1. base + size = Len(text)
    BY <1>6, <1>g DEF Reads
  <2>2. /\ state' = "BODY_LOADED" /\ offset' = offset + size
        /\ bodyAt' = base /\ bodyLen' = size
        /\ Shrink(size) /\ open' = FALSE /\ capacity' = 0 /\ size' = 0
    BY <1>6 DEF ReadBody, Cleanup
  <2>3. FirstSeparatorAt(scanned)'
    BY <1>2, <1>3, <1>4 DEF FirstSeparatorAt
  <2>4. dead' \in BOOLEAN /\ (dead' => size = 0)
    BY <1>2, <2>2 DEF Shrink
  <2>5. TypeOK'
    <3>1. text' \in Texts /\ state' \in Loading \cup {"HEADERS_LOADED", "BODY_LOADED", "LOADING_FAILED"}
      BY <1>1, <1>2, <2>1, <2>2, <2>4 DEF LoaderInv, TypeOK, Loading
    <3>2. base' \in Nat /\ offset' \in Nat /\ scanned' \in Nat
      BY <1>1, <1>2, <2>1, <2>2, <2>4 DEF LoaderInv, TypeOK, Loading
    <3>3. size' \in Nat /\ capacity' \in Nat /\ size' <= capacity' /\ base' + size' <= Len(text')
      BY <1>1, <1>2, <2>1, <2>2, <2>4 DEF LoaderInv, TypeOK, Loading
    <3>4. bodyAt' \in Nat /\ bodyLen' \in Nat
      BY <1>1, <1>2, <2>1, <2>2, <2>4 DEF LoaderInv, TypeOK, Loading
    <3>5. open' \in BOOLEAN /\ dead' \in BOOLEAN /\ excused' \in BOOLEAN /\ unsought' \in BOOLEAN
      BY <1>1, <1>2, <2>1, <2>2, <2>4 DEF LoaderInv, TypeOK, Loading
    <3> QED
      BY <3>1, <3>2, <3>3, <3>4, <3>5 DEF TypeOK
  <2>6. NonePassed' /\ InPlace' /\ RefusedForCause'
    BY <1>2, <1>3, <1>4, <2>2 DEF LoaderInv, NonePassed, InPlace, RefusedForCause
  <2>7. BodyExact'
    BY <1>2, <1>4, <2>1, <2>2, <2>3 DEF BodyExact
  <2>8. ASSUME dead' PROVE scanned + 4 = Len(text)
    <3>1. base = Len(text)
      BY <1>1, <2>1, <2>4, <2>8 DEF LoaderInv, TypeOK
    <3>2. CASE ~unsought
      BY <1>4, <3>1, <3>2
    <3>3. CASE unsought
      <4>1. base = 0 \/ base = offset
        BY <1>2, <1>4 DEF LoaderInv, InPlace
      <4> QED
        BY <1>1, <1>4, <3>1, <4>1 DEF SeparatorAt, LoaderInv, TypeOK
    <3> QED
      BY <3>2, <3>3
  <2>9. scanned \in 0 .. Len(text)
    BY <1>1, <1>4 DEF SeparatorAt, LoaderInv, TypeOK
  <2>10. OnlyEmptyPartDies'
    BY <1>2, <2>3, <2>8, <2>9 DEF OnlyEmptyPartDies
  <2> QED
    BY <2>5, <2>6, <2>7, <2>10 DEF LoaderInv
<1>7. CASE n # 0
  <2>1. /\ capacity' = Grown /\ size' = size + n
        /\ UNCHANGED <<state, open, offset, bodyAt, bodyLen, dead>>
    BY <1>7 DEF ReadBody
  <2>2. TypeOK'
    <3>1. text' \in Texts /\ state' \in Loading \cup {"HEADERS_LOADED", "BODY_LOADED", "LOADING_FAILED"}
      BY <1>1, <1>2, <1>5, <1>g, <2>1 DEF LoaderInv, TypeOK
    <3>2. base' \in Nat /\ offset' \in Nat /\ scanned' \in Nat
      BY <1>1, <1>2, <1>5, <1>g, <2>1 DEF LoaderInv, TypeOK
    <3>3. size' \in Nat /\ capacity' \in Nat /\ size' <= capacity' /\ base' + size' <= Len(text')
      BY <1>1, <1>2, <1>5, <1>g, <2>1 DEF LoaderInv, TypeOK
    <3>4. bodyAt' \in Nat /\ bodyLen' \in Nat
      BY <1>1, <1>2, <1>5, <1>g, <2>1 DEF LoaderInv, TypeOK
    <3>5. open' \in BOOLEAN /\ dead' \in BOOLEAN /\ excused' \in BOOLEAN /\ unsought' \in BOOLEAN
      BY <1>1, <1>2, <1>5, <1>g, <2>1 DEF LoaderInv, TypeOK
    <3> QED
      BY <3>1, <3>2, <3>3, <3>4, <3>5 DEF TypeOK
  <2>3. NonePassed' /\ InPlace' /\ BodyExact' /\ RefusedForCause' /\ OnlyEmptyPartDies'
    BY <1>2, <1>3, <1>4, <2>1
    DEF LoaderInv, NonePassed, InPlace, BodyExact, RefusedForCause, OnlyEmptyPartDies
  <2> QED
    BY <2>2, <2>3 DEF LoaderInv
<1> QED
  BY <1>6, <1>7

LEMMA LoaderStep == LoaderInv /\ [Next]_vars => LoaderInv'
<1> SUFFICES ASSUME LoaderInv, [Next]_vars PROVE LoaderInv'
  OBVIOUS
<1> USE DEF LoaderInv
<1>1. CASE Subscribe
  BY <1>1, LoaderSubscribe
<1>2. CASE Notify
  <2>1. PICK n \in 0 .. Len(text) : Reads(n) /\ (ReadHeaders(n) \/ ReadBody(n))
    BY <1>2 DEF Notify
  <2> QED
    BY <1>2, <2>1, LoaderReadHeaders, LoaderReadBody
<1>3. CASE NotifyFails
  <2>1. text \in Seq(Bytes) /\ Len(text) \in Nat
    BY FileIsSequence
  <2>2. \A j : SeparatorAt(j)' <=> SeparatorAt(j)
    BY <1>3 DEF SeparatorAt, NotifyFails
  <2>3. /\ state' = "LOADING_FAILED" /\ excused' = TRUE /\ dead = FALSE
        /\ open' = FALSE /\ size' = 0 /\ capacity' = 0
        /\ UNCHANGED <<text, base, offset, scanned, bodyAt, bodyLen, dead, unsought>>
    BY <1>3 DEF NotifyFails, Cleanup, TypeOK
  <2>4. base' + size' <= Len(text')
    BY <2>1, <2>3 DEF TypeOK
  <2>5. TypeOK'
    <3>1. text' \in Texts /\ state' \in Loading \cup {"HEADERS_LOADED", "BODY_LOADED", "LOADING_FAILED"}
      BY <2>3, <2>4 DEF TypeOK
    <3>2. base' \in Nat /\ offset' \in Nat /\ scanned' \in Nat
      BY <2>3, <2>4 DEF TypeOK
    <3>3. size' \in Nat /\ capacity' \in Nat /\ size' <= capacity' /\ base' + size' <= Len(text')
      BY <2>3, <2>4 DEF TypeOK
    <3>4. bodyAt' \in Nat /\ bodyLen' \in Nat
      BY <2>3, <2>4 DEF TypeOK
    <3>5. open' \in BOOLEAN /\ dead' \in BOOLEAN /\ excused' \in BOOLEAN /\ unsought' \in BOOLEAN
      BY <2>3, <2>4 DEF TypeOK
    <3> QED
      BY <3>1, <3>2, <3>3, <3>4, <3>5 DEF TypeOK
  <2>6. NonePassed' /\ InPlace'
    BY <2>2, <2>3 DEF NonePassed, InPlace
  <2>7. BodyExact' /\ RefusedForCause' /\ OnlyEmptyPartDies'
    BY <2>3 DEF BodyExact, RefusedForCause, OnlyEmptyPartDies
  <2> QED
    BY <2>5, <2>6, <2>7
<1>4. CASE StartLoadingBody
  <2>1. \A j : SeparatorAt(j)' <=> SeparatorAt(j)
    BY <1>4 DEF SeparatorAt, StartLoadingBody
  <2>2. TypeOK'
    <3>1. text' \in Texts /\ state' \in Loading \cup {"HEADERS_LOADED", "BODY_LOADED", "LOADING_FAILED"}
      BY <1>4 DEF StartLoadingBody, TypeOK, Loading, buffer, fate
    <3>2. base' \in Nat /\ offset' \in Nat /\ scanned' \in Nat
      BY <1>4 DEF StartLoadingBody, TypeOK, Loading, buffer, fate
    <3>3. size' \in Nat /\ capacity' \in Nat /\ size' <= capacity' /\ base' + size' <= Len(text')
      BY <1>4 DEF StartLoadingBody, TypeOK, Loading, buffer, fate
    <3>4. bodyAt' \in Nat /\ bodyLen' \in Nat
      BY <1>4 DEF StartLoadingBody, TypeOK, Loading, buffer, fate
    <3>5. open' \in BOOLEAN /\ dead' \in BOOLEAN /\ excused' \in BOOLEAN /\ unsought' \in BOOLEAN
      BY <1>4 DEF StartLoadingBody, TypeOK, Loading, buffer, fate
    <3> QED
      BY <3>1, <3>2, <3>3, <3>4, <3>5 DEF TypeOK
  <2> QED
    BY <1>4, <2>1, <2>2
    DEF StartLoadingBody, NonePassed, InPlace, BodyExact, RefusedForCause, OnlyEmptyPartDies,
        buffer, fate
<1>5. CASE UNCHANGED vars
  BY <1>5 DEF vars, TypeOK, NonePassed, InPlace, BodyExact, RefusedForCause, OnlyEmptyPartDies,
     SeparatorAt, FirstSeparatorAt
<1> QED
  BY <1>1, <1>2, <1>3, <1>4, <1>5 DEF Next

LEMMA LoaderInvariant == Spec => []LoaderInv
BY LoaderStart, LoaderStep, PTL DEF Spec

-----------------------------------------------------------------------------
\* The buffer never holds more than it has room for, nor what is not in the file.
THEOREM LoaderTypeOK == Spec => []TypeOK
BY LoaderInvariant, PTL DEF LoaderInv

\* The headers end at the first empty line of the file, wherever reads cut it.
THEOREM LoaderHeadersExact == Spec => []HeadersExact
<1>1. LoaderInv => HeadersExact
  BY DEF LoaderInv, NonePassed, InPlace, HeadersExact, FirstSeparatorAt
<1> QED
  BY <1>1, LoaderInvariant, PTL

\* The body is all that follows that line.
THEOREM LoaderBodyExact == Spec => []BodyExact
BY LoaderInvariant, PTL DEF LoaderInv

\* A file is refused for want of an empty line only if it has none, and the
\* program dies in realloc() only of an empty part of a message.
THEOREM LoaderFailsForCause == Spec => []FailsForCause
<1>1. LoaderInv => FailsForCause
  BY DEF LoaderInv, FailsForCause
<1> QED
  BY <1>1, LoaderInvariant, PTL
=============================================================================
