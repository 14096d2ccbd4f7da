---------------------------- MODULE PayloadProofs ----------------------------
(***************************************************************************)
(* Theorems about Headers and Payload, for messages of any length: how the   *)
(* headers are cut into fields, that what is written ends the data once, and *)
(* which messages come out at the other end as they were.                    *)
(***************************************************************************)
EXTENDS Payload, WellFoundedInduction, SequenceTheorems, TLAPS

-----------------------------------------------------------------------------
(* The least of a set of numbers. *)

LEMMA LeastProperties ==
  ASSUME NEW S \in SUBSET Nat, NEW default
  PROVE  /\ S = {} => Least(S, default) = default
         /\ S # {} => Least(S, default) \in S /\ \A y \in S : Least(S, default) <= y
<1> DEFINE R == OpToRel(<, Nat)
<1>1. IsWellFoundedOn(R, Nat)
  BY NatLessThanWellFounded
<1>2. \A x, y \in Nat : x < y => <<x, y>> \in R
  BY DEF OpToRel
<1> HIDE DEF R
<1>3. ASSUME S # {} PROVE \E x \in S : \A y \in S : x <= y
  <2>1. PICK x \in S : \A y \in S : ~(<<y, x>> \in R)
    BY <1>1, <1>3, WFMin
  <2>2. \A y \in S : ~(y < x)
    BY <1>2, <2>1
  <2> QED
    BY <2>2
<1> QED
  BY <1>3 DEF Least

-----------------------------------------------------------------------------
(* Parsing the headers. *)

Field == [begin : Nat, end : Nat, nameEnd : Nat, value : Nat, valueEnd : Nat]

\* A field is made of a name, a value, and what is left out between and after them.
InOrder(f) ==
  /\ f \in Field
  /\ f.begin <= f.nameEnd /\ f.nameEnd < f.value
  /\ f.value <= f.valueEnd /\ f.valueEnd <= f.end /\ f.end <= Len(text)

\* Name and value neither begin nor end with blanks that could be left out.
Trimmed(f) ==
  /\ f.begin < f.nameEnd => ~BlankAt(f.nameEnd - 1)
  /\ f.value < f.valueEnd => ~BlankAt(f.value) /\ ~BlankAt(f.valueEnd - 1)

\* No end of the current field has been passed.
NonePassed == \A p \in FieldEnds : ~(line <= p /\ p < lineEnd)

Parsing ==
  /\ text \in Seq(Bytes)
  /\ fields \in Seq(Field)
  /\ state \in {"parsing", "parsed", "failed"}
  /\ line \in Nat /\ lineEnd \in Nat /\ line <= lineEnd /\ lineEnd <= Len(text)
  /\ \A i \in DOMAIN fields : InOrder(fields[i]) /\ Trimmed(fields[i])
  /\ state = "parsing" =>
       /\ line = IF fields = <<>> THEN 0 ELSE fields[Len(fields)].end + 2
       /\ line = 0 \/ line - 2 \in FieldEnds \ {Len(text)}
       /\ NonePassed
  /\ state = "parsed" => fields # <<>>
  /\ FieldsExact

-----------------------------------------------------------------------------
(* Flattening: what FlattenSeq's recursive function is. *)

LEMMA SetInduction ==
  ASSUME NEW S, 0 \in S, \A n \in S : n \in Nat => n + 1 \in S
  PROVE  Nat \subseteq S
<1> DEFINE T == Nat \ S
           R == OpToRel(<, Nat)
<1>1. IsWellFoundedOn(R, Nat)
  BY NatLessThanWellFounded
<1>2. \A x, y \in Nat : x < y => <<x, y>> \in R
  BY DEF OpToRel
<1> HIDE DEF R
<1>3. ASSUME T # {} PROVE FALSE
  <2>1. T \subseteq Nat
    OBVIOUS
  <2>2. PICK x \in T : \A y \in T : ~(<<y, x>> \in R)
    BY <1>1, <1>3, <2>1, WFMin
  <2>3. x # 0
    BY <2>2
  <2>4. x - 1 \in Nat /\ <<x - 1, x>> \in R
    BY <1>2, <2>2, <2>3
  <2>5. x - 1 \in S
    BY <2>2, <2>4
  <2>6. (x - 1) + 1 \in S
    BY <2>4, <2>5
  <2>7. (x - 1) + 1 = x
    BY <2>1, <2>2
  <2> QED
    BY <2>2, <2>6, <2>7
<1> QED
  BY <1>3

Flattens(g, seqs) ==
  g = [i \in 1 .. Len(seqs) |-> IF i = 1 THEN seqs[i] ELSE g[i - 1] \o seqs[i]]

LEMMA FlattenSeqDef ==
  ASSUME NEW seqs
  PROVE  FlattenSeq(seqs) = IF Len(seqs) = 0 THEN seqs
                            ELSE (CHOOSE g : Flattens(g, seqs))[Len(seqs)]
BY DEF FlattenSeq, Flattens

\* A line's end is no place where one begins, nor has it a blank.
LEMMA CrLfApart ==
  ASSUME text \in Seq(Bytes), NEW p \in Nat, CrLfAt(p)
  PROVE  /\ p + 2 <= Len(text) /\ Byte(p) = "CR" /\ Byte(p + 1) = "LF"
         /\ ~CrLfAt(p + 1)
         /\ BlankAt(p + 2) => ~CrLfAt(p + 2) /\ p + 2 < Len(text)
BY DEF CrLfAt, BlankAt

\* The end that is found is the next one.
LEMMA EndOfLineIs ==
  ASSUME text \in Seq(Bytes), lineEnd \in Nat, lineEnd <= Len(text)
  PROVE  /\ EndOfLine \in Nat /\ lineEnd <= EndOfLine /\ EndOfLine <= Len(text)
         /\ EndOfLine = Len(text) \/ CrLfAt(EndOfLine)
         /\ \A p \in Nat : lineEnd <= p /\ p < EndOfLine => ~CrLfAt(p)
<1> DEFINE S == {p \in lineEnd .. Len(text) : CrLfAt(p)}
<1>1. S \in SUBSET Nat /\ Len(text) \in Nat
  OBVIOUS
<1>2. /\ S = {} => EndOfLine = Len(text)
      /\ S # {} => EndOfLine \in S /\ \A y \in S : EndOfLine <= y
  BY <1>1, LeastProperties DEF EndOfLine
<1>3. CASE S = {}
  <2>1. \A p \in Nat : lineEnd <= p /\ p < Len(text) => ~CrLfAt(p)
    BY <1>1, <1>3
  <2> QED
    BY <1>1, <1>2, <1>3, <2>1
<1>4. CASE S # {}
  <2>1. \A p \in Nat : lineEnd <= p /\ p < EndOfLine => ~CrLfAt(p)
    BY <1>1, <1>2, <1>4
  <2> QED
    BY <1>1, <1>2, <1>4, <2>1
<1> QED
  BY <1>3, <1>4

\* Up to the next line's end no field ends.
LEMMA NoneBeforeEndOfLine ==
  ASSUME Parsing, state = "parsing"
  PROVE  \A p \in FieldEnds : ~(line <= p /\ p < EndOfLine)
<1>1. /\ EndOfLine <= Len(text)
      /\ \A p \in Nat : lineEnd <= p /\ p < EndOfLine => ~CrLfAt(p)
  BY EndOfLineIs DEF Parsing
<1>2. \A p \in FieldEnds : p \in Nat /\ (p = Len(text) \/ CrLfAt(p))
  BY DEF FieldEnds
<1>3. lineEnd \in Nat /\ Len(text) \in Nat /\ EndOfLine \in Nat /\ NonePassed
  BY EndOfLineIs DEF Parsing
<1> QED
  BY <1>1, <1>2, <1>3 DEF NonePassed

\* The fields that are there do not depend on where the parser is.
LEMMA SameFields ==
  ASSUME UNCHANGED <<text, fields>>
  PROVE  /\ FieldEnds' = FieldEnds
         /\ \A f : InOrder(f)' = InOrder(f) /\ Trimmed(f)' = Trimmed(f)
         /\ OnlyBlanksLost' = OnlyBlanksLost
         /\ state' # "parsed" /\ SplitsAtFieldEnds => SplitsAtFieldEnds'
         /\ state' # "failed" => FailsOnlyWithoutColon'
<1>1. /\ \A p : CrLfAt(p)' = CrLfAt(p) /\ BlankAt(p)' = BlankAt(p) /\ Byte(p)' = Byte(p)
  BY DEF CrLfAt, BlankAt, Byte
<1>2. FieldEnds' = FieldEnds
  BY <1>1 DEF FieldEnds
<1>3. \A f : InOrder(f)' = InOrder(f) /\ Trimmed(f)' = Trimmed(f)
  BY <1>1 DEF InOrder, Trimmed
<1>4. OnlyBlanksLost' = OnlyBlanksLost
  BY <1>1 DEF OnlyBlanksLost
<1>5. state' # "parsed" /\ SplitsAtFieldEnds => SplitsAtFieldEnds'
  BY <1>2 DEF SplitsAtFieldEnds
<1>6. state' # "failed" => FailsOnlyWithoutColon'
  BY DEF FailsOnlyWithoutColon
<1> QED
  BY <1>2, <1>3, <1>4, <1>5, <1>6

LEMMA UnfoldPreserves ==
  ASSUME Parsing, state = "parsing", Unfold
  PROVE  Parsing'
<1> DEFINE e == EndOfLine
<1>1. /\ text \in Seq(Bytes) /\ Len(text) \in Nat
      /\ line \in Nat /\ lineEnd \in Nat /\ line <= lineEnd /\ lineEnd <= Len(text)
  BY DEF Parsing
<1>2. /\ e \in Nat /\ lineEnd <= e /\ e <= Len(text)
      /\ e = Len(text) \/ CrLfAt(e)
  BY <1>1, EndOfLineIs
<1>3. /\ lineEnd' = e + 3 /\ UNCHANGED <<text, line, fields, state>>
      /\ e + 2 < Len(text) /\ BlankAt(e + 2)
  BY DEF Unfold, Folded
<1> HIDE DEF e
<1>4. CrLfAt(e)
  BY <1>1, <1>2, <1>3
<1>5. /\ ~CrLfAt(e + 1) /\ ~CrLfAt(e + 2)
  BY <1>1, <1>2, <1>3, <1>4, CrLfApart
<1>6. \A p \in FieldEnds : ~(line <= p /\ p < e + 3)
  <2> SUFFICES ASSUME NEW p \in FieldEnds, line <= p, p < e + 3 PROVE FALSE
    OBVIOUS
  <2>1. p \in Nat /\ (p = Len(text) \/ (CrLfAt(p) /\ ~BlankAt(p + 2)))
    BY DEF FieldEnds
  <2>2. ~(p < e)
    BY NoneBeforeEndOfLine DEF e
  <2>3. p = e \/ p = e + 1 \/ p = e + 2
    BY <1>2, <2>1, <2>2
  <2> QED
    BY <1>1, <1>2, <1>3, <1>5, <2>1, <2>3
<1>7. NonePassed'
  BY <1>3, <1>6, SameFields DEF NonePassed
<1>8. FieldsExact'
  BY <1>3, SameFields DEF Parsing, FieldsExact
<1> QED
  BY <1>1, <1>2, <1>3, <1>7, <1>8, SameFields DEF Parsing

\* Trimming leaves out blanks only.
LEMMA TrimEndIs ==
  ASSUME NEW from \in Nat, NEW end \in Nat, from <= end
  PROVE  /\ TrimEnd(from, end) \in Nat
         /\ from <= TrimEnd(from, end) /\ TrimEnd(from, end) <= end
         /\ \A p \in Nat : TrimEnd(from, end) <= p /\ p < end => BlankAt(p)
         /\ from < TrimEnd(from, end) => ~BlankAt(TrimEnd(from, end) - 1)
<1> DEFINE S == {p \in from .. end : \A q \in p .. end - 1 : BlankAt(q)}
<1>1. S \in SUBSET Nat /\ end \in S
  OBVIOUS
<1> DEFINE t == TrimEnd(from, end)
<1>2. t \in S /\ \A y \in S : t <= y
  BY <1>1, LeastProperties DEF TrimEnd
<1> HIDE DEF t
<1>3. t \in Nat /\ from <= t /\ t <= end /\ \A q \in t .. end - 1 : BlankAt(q)
  BY <1>1, <1>2
<1>4. \A p \in Nat : t <= p /\ p < end => BlankAt(p)
  BY <1>3
<1>5. ASSUME from < t, BlankAt(t - 1) PROVE FALSE
  <2>1. t - 1 \in from .. end
    BY <1>3, <1>5
  <2>2. \A q \in t - 1 .. end - 1 : q = t - 1 \/ q \in t .. end - 1
    BY <1>3
  <2>3. t - 1 \in S
    BY <1>3, <1>5, <2>1, <2>2
  <2> QED
    BY <1>2, <1>3, <2>3
<1> QED
  BY <1>3, <1>4, <1>5 DEF t

LEMMA TrimBeginIs ==
  ASSUME NEW from \in Nat, NEW end \in Nat, from <= end
  PROVE  /\ TrimBegin(from, end) \in Nat
         /\ from <= TrimBegin(from, end) /\ TrimBegin(from, end) <= end
         /\ \A p \in Nat : from <= p /\ p < TrimBegin(from, end) => BlankAt(p)
         /\ TrimBegin(from, end) # end => ~BlankAt(TrimBegin(from, end))
<1> DEFINE S == {p \in from .. end : ~BlankAt(p)}
<1>1. S \in SUBSET Nat
  OBVIOUS
<1>2. /\ S = {} => TrimBegin(from, end) = end
      /\ S # {} => TrimBegin(from, end) \in S /\ \A y \in S : TrimBegin(from, end) <= y
  BY <1>1, LeastProperties DEF TrimBegin
<1>3. CASE S = {}
  <2>1. \A p \in Nat : from <= p /\ p < end => p \in from .. end
    OBVIOUS
  <2> QED
    BY <1>2, <1>3, <2>1
<1>4. CASE S # {}
  <2> DEFINE t == TrimBegin(from, end)
  <2>1. t \in from .. end /\ ~BlankAt(t) /\ \A y \in S : t <= y
    BY <1>2, <1>4
  <2> HIDE DEF t
  <2>2. ASSUME NEW p \in Nat, from <= p, p < t PROVE BlankAt(p)
    <3>1. p \in from .. end /\ ~(t <= p)
      BY <2>1, <2>2
    <3> QED
      BY <2>1, <3>1
  <2>3. t \in Nat /\ from <= t /\ t <= end
    BY <2>1
  <2> QED
    BY <2>1, <2>2, <2>3 DEF t
<1> QED
  BY <1>3, <1>4

LEMMA ColonIs ==
  ASSUME line \in Nat, NEW end \in Nat, line <= end
  PROVE  /\ Colon(end) \in Nat /\ line <= Colon(end) /\ Colon(end) <= end
         /\ Colon(end) # end => Byte(Colon(end)) = ":"
         /\ \A p \in Nat : line <= p /\ p < Colon(end) => Byte(p) # ":"
<1> DEFINE S == {p \in line .. end - 1 : Byte(p) = ":"}
<1>1. S \in SUBSET Nat
  OBVIOUS
<1>2. /\ S = {} => Colon(end) = end
      /\ S # {} => Colon(end) \in S /\ \A y \in S : Colon(end) <= y
  BY <1>1, LeastProperties DEF Colon
<1>3. CASE S = {}
  <2>1. \A p \in Nat : line <= p /\ p < end => p \in line .. end - 1
    OBVIOUS
  <2> QED
    BY <1>2, <1>3, <2>1
<1>4. CASE S # {}
  <2> DEFINE c == Colon(end)
  <2>1. c \in line .. end - 1 /\ Byte(c) = ":" /\ \A y \in S : c <= y
    BY <1>2, <1>4
  <2> HIDE DEF c
  <2>2. ASSUME NEW p \in Nat, line <= p, p < c PROVE Byte(p) # ":"
    <3>1. p \in line .. end - 1 /\ ~(c <= p)
      BY <2>1, <2>2
    <3> QED
      BY <2>1, <3>1
  <2>3. c \in Nat /\ line <= c /\ c <= end
    BY <2>1
  <2> QED
    BY <2>1, <2>2, <2>3 DEF c
<1> QED
  BY <1>3, <1>4

\* What parse_header makes of a field that has a colon.
LEMMA ParsedIs ==
  ASSUME line \in Nat, NEW end \in Nat, line <= end, end <= Len(text), Len(text) \in Nat,
         Colon(end) # end
  PROVE  LET f == Parsed(end)
         IN  /\ InOrder(f) /\ Trimmed(f) /\ f.begin = line /\ f.end = end
             /\ \E colon \in f.nameEnd .. f.value - 1 :
                  /\ Byte(colon) = ":"
                  /\ \A p \in f.begin .. f.nameEnd - 1 : Byte(p) # ":"
                  /\ \A p \in (f.nameEnd .. f.value - 1 \cup f.valueEnd .. f.end - 1) \ {colon} :
                       BlankAt(p)
<1> DEFINE c == Colon(end)
           n == TrimEnd(line, c)
           v == TrimBegin(c + 1, end)
           w == TrimEnd(v, end)
<1>1. /\ c \in Nat /\ line <= c /\ c < end /\ Byte(c) = ":"
      /\ \A p \in Nat : line <= p /\ p < c => Byte(p) # ":"
  BY ColonIs
<1>2. /\ n \in Nat /\ line <= n /\ n <= c /\ \A p \in Nat : n <= p /\ p < c => BlankAt(p)
      /\ line < n => ~BlankAt(n - 1)
  BY <1>1, TrimEndIs
<1>3. c + 1 \in Nat /\ c + 1 <= end
  BY <1>1
<1>4. /\ v \in Nat /\ c + 1 <= v /\ v <= end
      /\ \A p \in Nat : c + 1 <= p /\ p < v => BlankAt(p)
      /\ v # end => ~BlankAt(v)
  BY <1>3, TrimBeginIs
<1>5. /\ w \in Nat /\ v <= w /\ w <= end /\ \A p \in Nat : w <= p /\ p < end => BlankAt(p)
      /\ v < w => ~BlankAt(w - 1)
  BY <1>4, TrimEndIs
<1>6. Parsed(end) = [begin |-> line, end |-> end, nameEnd |-> n, value |-> v, valueEnd |-> w]
  BY DEF Parsed
<1> HIDE DEF c, n, v, w
<1>7. InOrder([begin |-> line, end |-> end, nameEnd |-> n, value |-> v, valueEnd |-> w])
  BY <1>1, <1>2, <1>4, <1>5 DEF InOrder, Field
<1>8. Trimmed([begin |-> line, end |-> end, nameEnd |-> n, value |-> v, valueEnd |-> w])
  BY <1>2, <1>4, <1>5 DEF Trimmed
<1>9. c \in n .. v - 1
  BY <1>1, <1>2, <1>4
<1>10. \A p \in line .. n - 1 : Byte(p) # ":"
  BY <1>1, <1>2
<1>11. \A p \in (n .. v - 1 \cup w .. end - 1) \ {c} : BlankAt(p)
  <2> TAKE p \in (n .. v - 1 \cup w .. end - 1) \ {c}
  <2>1. p \in Nat
    BY <1>2, <1>5
  <2>2. \/ n <= p /\ p < c
        \/ c + 1 <= p /\ p < v
        \/ w <= p /\ p < end
    BY <1>1, <1>2, <1>4, <1>5, <2>1
  <2> QED
    BY <1>2, <1>4, <1>5, <2>1, <2>2
<1> QED
  BY <1>1, <1>6, <1>7, <1>9, <1>10, <1>11, <1>8

LEMMA ParseHeaderPreserves ==
  ASSUME Parsing, state = "parsing", ParseHeader
  PROVE  Parsing'
<1> DEFINE e == EndOfLine
<1>1. /\ text \in Seq(Bytes) /\ Len(text) \in Nat
      /\ line \in Nat /\ lineEnd \in Nat /\ line <= lineEnd /\ lineEnd <= Len(text)
      /\ fields \in Seq(Field)
      /\ \A i \in DOMAIN fields : InOrder(fields[i]) /\ Trimmed(fields[i])
      /\ line = IF fields = <<>> THEN 0 ELSE fields[Len(fields)].end + 2
      /\ line = 0 \/ line - 2 \in FieldEnds \ {Len(text)}
      /\ FieldsExact
  BY DEF Parsing
<1>2. /\ e \in Nat /\ lineEnd <= e /\ line <= e /\ e <= Len(text)
      /\ e = Len(text) \/ CrLfAt(e)
  BY <1>1, EndOfLineIs
<1>3. \A p \in FieldEnds : ~(line <= p /\ p < e)
  BY NoneBeforeEndOfLine
<1>4. ~(e + 2 < Len(text) /\ BlankAt(e + 2)) /\ text' = text
  BY DEF ParseHeader, Folded
<1>5. e \in FieldEnds
  BY <1>2, <1>4 DEF FieldEnds, BlankAt
<1>6. /\ Colon(e) = e => state' = "failed" /\ UNCHANGED <<fields, line, lineEnd>>
      /\ Colon(e) # e => /\ fields' = Append(fields, Parsed(e))
                         /\ state' = IF e = Len(text) THEN "parsed" ELSE "parsing"
                         /\ line' = IF e = Len(text) THEN line ELSE e + 2
                         /\ lineEnd' = IF e = Len(text) THEN e ELSE e + 2
  BY DEF ParseHeader
<1> HIDE DEF e
<1>7. CASE Colon(e) = e
  <2>1. \A p \in Nat : line <= p /\ p < e => Byte(p) # ":"
    BY <1>1, <1>2, <1>7, ColonIs
  <2>2. line \in {0} \cup {p + 2 : p \in FieldEnds \ {Len(text)}}
    BY <1>1
  <2>3. \A p \in line .. Len(text) - 1 :
          Byte(p) = ":" => \E q \in FieldEnds : line <= q /\ q < p
    <3> SUFFICES ASSUME NEW p \in line .. Len(text) - 1, Byte(p) = ":" PROVE e < p
      BY <1>2, <1>5
    <3>1. p \in Nat /\ e <= p
      BY <1>1, <1>2, <2>1
    <3>2. e # p
      BY <1>1, <1>2 DEF CrLfAt
    <3> QED
      BY <1>2, <3>1, <3>2
  <2>4. FailsOnlyWithoutColon'
    BY <1>4, <1>6, <1>7, <2>2, <2>3, SameFields DEF FailsOnlyWithoutColon, Byte
  <2> QED
    BY <1>1, <1>4, <1>6, <1>7, <2>4, SameFields DEF Parsing, FieldsExact
<1>8. CASE Colon(e) # e
  <2> DEFINE f == Parsed(e)
             n == Len(fields)
  <2>1. /\ InOrder(f) /\ Trimmed(f) /\ f.begin = line /\ f.end = e
        /\ \E colon \in f.nameEnd .. f.value - 1 :
             /\ Byte(colon) = ":"
             /\ \A p \in f.begin .. f.nameEnd - 1 : Byte(p) # ":"
             /\ \A p \in (f.nameEnd .. f.value - 1 \cup f.valueEnd .. f.end - 1) \ {colon} :
                  BlankAt(p)
    BY <1>1, <1>2, <1>8, ParsedIs
  <2>2. f \in Field
    BY <2>1 DEF InOrder
  <2> HIDE DEF f
  <2>3. /\ fields' \in Seq(Field) /\ Len(fields') = n + 1 /\ n \in Nat
        /\ DOMAIN fields = 1 .. n /\ DOMAIN fields' = 1 .. n + 1
        /\ \A i \in 1 .. n : fields'[i] = fields[i]
        /\ fields'[n + 1] = f
        /\ fields' # <<>>
    <3>1. fields' = Append(fields, f)
      BY <1>6, <1>8 DEF f
    <3>2. /\ Append(fields, f) \in Seq(Field) /\ Len(Append(fields, f)) = n + 1
          /\ \A i \in 1 .. n : Append(fields, f)[i] = fields[i]
          /\ Append(fields, f)[n + 1] = f /\ Append(fields, f) # <<>>
      BY <1>1, <2>2, AppendProperties
    <3>3. n \in Nat /\ DOMAIN fields = 1 .. n
      BY <1>1
    <3>4. DOMAIN fields' = 1 .. n + 1
      BY <3>1, <3>2, <3>3
    <3> QED
      BY <3>1, <3>2, <3>3, <3>4
  <2> HIDE DEF n
  <2>4. /\ \A p : CrLfAt(p)' = CrLfAt(p) /\ BlankAt(p)' = BlankAt(p) /\ Byte(p)' = Byte(p)
        /\ \A g : InOrder(g)' = InOrder(g) /\ Trimmed(g)' = Trimmed(g)
    BY <1>4 DEF CrLfAt, BlankAt, Byte, InOrder, Trimmed
  <2>5. FieldEnds' = FieldEnds
    BY <1>4, <2>4 DEF FieldEnds
  <2>6. \A i \in DOMAIN fields' : i \in DOMAIN fields \/ i = n + 1
    BY <2>3
  <2>7. \A i \in DOMAIN fields' : InOrder(fields'[i]) /\ Trimmed(fields'[i])
    BY <1>1, <2>1, <2>3, <2>6
  <2>8. OnlyBlanksLost'
    BY <1>1, <2>1, <2>3, <2>4, <2>6, ZenonT(30) DEF FieldsExact, OnlyBlanksLost
  <2>9. SplitsAtFieldEnds'
    <3>1. f.begin = IF n = 0 THEN 0 ELSE fields[n].end + 2
      BY <1>1, <2>1, <2>3
    <3>2. ASSUME NEW i \in DOMAIN fields'
          PROVE  /\ fields'[i].end \in FieldEnds
                 /\ fields'[i].begin = IF i = 1 THEN 0 ELSE fields'[i - 1].end + 2
                 /\ \A p \in FieldEnds : ~(fields'[i].begin <= p /\ p < fields'[i].end)
      <4>1. CASE i \in DOMAIN fields
        <5>1. fields'[i] = fields[i] /\ (i # 1 => fields'[i - 1] = fields[i - 1])
          BY <2>3, <4>1
        <5> QED
          BY <1>1, <4>1, <5>1 DEF FieldsExact, SplitsAtFieldEnds
      <4>2. CASE i = n + 1
        <5>1. fields'[i] = f /\ (i # 1 => fields'[i - 1] = fields[n]) /\ (i = 1 <=> n = 0)
          BY <2>3, <4>2
        <5> QED
          BY <1>3, <1>5, <2>1, <3>1, <5>1
      <4> QED
        BY <2>6, <4>1, <4>2
    <3>3. state' = "parsed" => fields'[Len(fields')].end = Len(text)
      BY <1>6, <1>8, <2>1, <2>3
    <3> QED
      BY <1>4, <2>5, <3>2, <3>3 DEF SplitsAtFieldEnds
  <2>10. FieldsExact'
    <3>1. state' # "failed"
      BY <1>6, <1>8
    <3> QED
      BY <2>8, <2>9, <3>1 DEF FieldsExact, FailsOnlyWithoutColon
  <2>11. CASE e = Len(text)
    BY <1>1, <1>2, <1>4, <1>6, <1>8, <2>3, <2>7, <2>10, <2>11, <2>4 DEF Parsing
  <2>12. CASE e # Len(text)
    <3>1. e + 2 \in Nat /\ e + 2 <= Len(text)
      BY <1>1, <1>2, <2>12, CrLfApart
    <3>2. NonePassed'
      BY <1>6, <1>8, <2>12, <3>1 DEF NonePassed, FieldEnds
    <3>3. line' = fields'[Len(fields')].end + 2
      BY <1>6, <1>8, <2>1, <2>3, <2>12
    <3>4. line' - 2 \in FieldEnds' \ {Len(text')}
      BY <1>2, <1>4, <1>5, <1>6, <1>8, <2>5, <2>12
    <3> QED
      BY <1>1, <1>4, <1>6, <1>8, <2>3, <2>4, <2>7, <2>10, <2>12, <3>1, <3>2, <3>3, <3>4
         DEF Parsing
  <2> QED
    BY <2>11, <2>12
<1> QED
  BY <1>7, <1>8

\* Any turn of the parser.
LEMMA ParsePreserves ==
  ASSUME Parsing, Parse
  PROVE  Parsing'
BY UnfoldPreserves, ParseHeaderPreserves DEF Parse

\* Before its first turn.
LEMMA ParsingStarts ==
  ASSUME text \in Seq(Bytes), line = 0, lineEnd = 0, fields = <<>>, state = "parsing"
  PROVE  Parsing
<1>1. Len(text) \in Nat /\ fields \in Seq(Field) /\ DOMAIN fields = {}
  OBVIOUS
<1>2. FieldsExact
  BY <1>1 DEF FieldsExact, SplitsAtFieldEnds, OnlyBlanksLost, FailsOnlyWithoutColon
<1>3. NonePassed
  BY DEF NonePassed, FieldEnds
<1> QED
  BY <1>1, <1>2, <1>3 DEF Parsing

\* Induction over the places of a sequence.
LEMMA PlaceInduction ==
  ASSUME NEW n \in Nat, NEW S, 1 \in S,
         \A i \in S : i \in 1 .. n - 1 => i + 1 \in S
  PROVE  1 .. n \subseteq S
<1> DEFINE N == {k \in Nat : k = 0 \/ k > n \/ k \in S}
<1>1. 0 \in N
  OBVIOUS
<1>2. ASSUME NEW k \in N PROVE k + 1 \in N
  <2>1. CASE k = 0
    BY <2>1
  <2>2. CASE k # 0 /\ k + 1 <= n
    <3>1. k \in S /\ k \in 1 .. n - 1
      BY <2>2
    <3> QED
      BY <3>1
  <2>3. CASE k + 1 > n
    BY <2>3
  <2> QED
    BY <2>1, <2>2, <2>3
<1> HIDE DEF N
<1>3. Nat \subseteq N
  BY <1>1, <1>2, SetInduction
<1>4. \A k \in 1 .. n : k \in Nat /\ k # 0 /\ ~(k > n)
  OBVIOUS
<1> QED
  BY <1>3, <1>4 DEF N

\* The equations of FlattenSeq's function.
Flattened(g, seqs) ==
  \A i \in 1 .. Len(seqs) : g[i] = IF i = 1 THEN seqs[i] ELSE g[i - 1] \o seqs[i]

LEMMA FlattenedType ==
  ASSUME NEW T, NEW seqs \in Seq(Seq(T)), NEW g, Flattened(g, seqs)
  PROVE  \A i \in 1 .. Len(seqs) : g[i] \in Seq(T)
<1> DEFINE S == {i \in 1 .. Len(seqs) : g[i] \in Seq(T)}
<1>1. Len(seqs) \in Nat /\ \A i \in 1 .. Len(seqs) : seqs[i] \in Seq(T)
  OBVIOUS
<1>2. CASE Len(seqs) = 0
  BY <1>2
<1>3. CASE Len(seqs) # 0
  <2>1. 1 \in 1 .. Len(seqs)
    BY <1>1, <1>3
  <2>2. 1 \in S
    BY <1>1, <2>1 DEF Flattened
  <2>3. ASSUME NEW i \in S, i \in 1 .. Len(seqs) - 1 PROVE i + 1 \in S
    <3>1. i + 1 \in 1 .. Len(seqs) /\ i + 1 # 1 /\ (i + 1) - 1 = i
      BY <1>1, <2>3
    <3>2. g[i + 1] = g[i] \o seqs[i + 1]
      BY <3>1 DEF Flattened
    <3>3. g[i] \o seqs[i + 1] \in Seq(T)
      BY <1>1, <3>1, ConcatProperties
    <3> QED
      BY <3>1, <3>2, <3>3
  <2> HIDE DEF S
  <2>4. 1 .. Len(seqs) \subseteq S
    BY <1>1, <2>2, <2>3, PlaceInduction
  <2> QED
    BY <2>4 DEF S
<1> QED
  BY <1>2, <1>3

\* There is such a function.
LEMMA FlattenedExists ==
  ASSUME NEW T, NEW seqs \in Seq(Seq(T))
  PROVE  \E g : Flattens(g, seqs)
<1> DEFINE m == Len(seqs)
           Step(h, k) == \A i \in 1 .. k : h[i] = IF i = 1 THEN seqs[i] ELSE h[i - 1] \o seqs[i]
           N == {k \in Nat : \E h : h = [i \in 1 .. k |-> h[i]] /\ Step(h, k)}
<1>1. 0 \in N
  <2>1. <<>> = [i \in 1 .. 0 |-> <<>>[i]] /\ Step(<<>>, 0)
    OBVIOUS
  <2> QED
    BY <2>1
<1>2. ASSUME NEW k \in N PROVE k + 1 \in N
  <2>1. PICK h : h = [i \in 1 .. k |-> h[i]] /\ Step(h, k)
    BY <1>2
  <2> DEFINE last == IF k = 0 THEN seqs[1] ELSE h[k] \o seqs[k + 1]
             f == [i \in 1 .. k + 1 |-> IF i = k + 1 THEN last ELSE h[i]]
  <2>2. k \in Nat
    BY <1>2
  <2> HIDE DEF last
  <2>3. k + 1 \in 1 .. k + 1 /\ \A i \in 1 .. k : i \in 1 .. k + 1 /\ i # k + 1
    BY <2>2
  <2>4. f[k + 1] = last /\ \A i \in 1 .. k : f[i] = h[i]
    BY <2>3
  <2>5. f = [i \in 1 .. k + 1 |-> f[i]]
    OBVIOUS
  <2>6. \A i \in 1 .. k + 1 : i = k + 1 \/ i \in 1 .. k
    BY <2>2
  <2>7. ASSUME NEW i \in 1 .. k + 1
        PROVE  f[i] = IF i = 1 THEN seqs[i] ELSE f[i - 1] \o seqs[i]
    <3>1. CASE i = k + 1
      <4>1. CASE k = 0
        BY <2>4, <3>1, <4>1 DEF last
      <4>2. CASE k # 0
        <5>1. i # 1 /\ i - 1 = k /\ k \in 1 .. k
          BY <2>2, <3>1, <4>2
        <5>2. f[i - 1] = h[k]
          BY <2>4, <5>1
        <5> HIDE DEF f
        <5> QED
          BY <2>4, <3>1, <4>2, <5>1, <5>2 DEF last
      <4> QED
        BY <4>1, <4>2
    <3>2. CASE i \in 1 .. k
      <4>1. i # 1 => i - 1 \in 1 .. k
        BY <2>2, <3>2
      <4> HIDE DEF f
      <4> QED
        BY <2>1, <2>4, <3>2, <4>1
    <3> QED
      BY <2>6, <3>1, <3>2
  <2> HIDE DEF f
  <2>8. Step(f, k + 1)
    BY <2>7
  <2> HIDE DEF Step
  <2> QED
    BY <2>2, <2>5, <2>8
<1> HIDE DEF N
<1>3. Nat \subseteq N
  BY <1>1, <1>2, SetInduction
<1>4. m \in N
  BY <1>3
<1>5. PICK h : h = [i \in 1 .. m |-> h[i]] /\ Step(h, m)
  BY <1>4 DEF N
<1>6. Flattens(h, seqs)
  BY <1>5 DEF Flattens
<1> QED
  BY <1>6

LEMMA FlattensIs ==
  ASSUME NEW seqs, NEW g, Flattens(g, seqs)
  PROVE  Flattened(g, seqs)
<1> DEFINE f == [i \in 1 .. Len(seqs) |-> IF i = 1 THEN seqs[i] ELSE g[i - 1] \o seqs[i]]
<1>1. g = f
  BY DEF Flattens
<1>2. \A i \in 1 .. Len(seqs) : f[i] = IF i = 1 THEN seqs[i] ELSE g[i - 1] \o seqs[i]
  OBVIOUS
<1> HIDE DEF f
<1> QED
  BY <1>1, <1>2 DEF Flattened

\* Flattening a sequence of sequences piece by piece.
LEMMA FlattenSeqProperties ==
  ASSUME NEW T, NEW seqs \in Seq(Seq(T))
  PROVE  /\ FlattenSeq(seqs) \in Seq(T)
         /\ FlattenSeq(<<>>) = <<>>
         /\ \A s \in Seq(T) : FlattenSeq(Append(seqs, s)) = FlattenSeq(seqs) \o s
<1>1. FlattenSeq(<<>>) = <<>>
  BY FlattenSeqDef
<1> DEFINE G(q) == CHOOSE g : Flattens(g, q)
<1>2. ASSUME NEW q \in Seq(Seq(T)), Len(q) # 0
      PROVE  /\ Flattened(G(q), q) /\ FlattenSeq(q) = G(q)[Len(q)]
             /\ \A i \in 1 .. Len(q) : G(q)[i] \in Seq(T)
  <2>1. \E g : Flattens(g, q)
    BY FlattenedExists
  <2>2. Flattens(G(q), q)
    BY <2>1
  <2> HIDE DEF G
  <2>3. Flattened(G(q), q)
    BY <2>2, FlattensIs
  <2>4. FlattenSeq(q) = G(q)[Len(q)]
    BY <1>2, FlattenSeqDef DEF G
  <2> QED
    BY <2>3, <2>4, FlattenedType
<1> HIDE DEF G
<1>3. FlattenSeq(seqs) \in Seq(T)
  <2>1. CASE Len(seqs) = 0
    <3>1. seqs = <<>>
      BY <2>1
    <3>2. FlattenSeq(seqs) = <<>>
      BY <1>1, <3>1
    <3> QED
      BY <3>2
  <2>2. CASE Len(seqs) # 0
    <3>1. Len(seqs) \in 1 .. Len(seqs)
      BY <2>2
    <3> QED
      BY <1>2, <2>2, <3>1
  <2> QED
    BY <2>1, <2>2
<1>4. ASSUME NEW s \in Seq(T)
      PROVE  FlattenSeq(Append(seqs, s)) = FlattenSeq(seqs) \o s
  <2> DEFINE q == Append(seqs, s)
             n == Len(seqs)
  <2>1. /\ q \in Seq(Seq(T)) /\ Len(q) = n + 1 /\ n \in Nat
        /\ \A i \in 1 .. n : q[i] = seqs[i]
        /\ q[n + 1] = s
    BY AppendProperties
  <2> HIDE DEF q
  <2>2. /\ Flattened(G(q), q) /\ FlattenSeq(q) = G(q)[n + 1]
    BY <1>2, <2>1
  <2>3. CASE n = 0
    <3>1. seqs = <<>>
      BY <2>3
    <3>2. G(q)[1] = s
      BY <2>1, <2>2, <2>3 DEF Flattened
    <3> QED
      BY <1>1, <2>2, <2>3, <3>1, <3>2, ConcatEmptySeq DEF q
  <2>4. CASE n # 0
    <3> DEFINE S == {i \in 1 .. n : G(q)[i] = G(seqs)[i]}
    <3>1. Flattened(G(seqs), seqs) /\ FlattenSeq(seqs) = G(seqs)[n]
      BY <1>2, <2>4
    <3>2. 1 \in S
      BY <2>1, <2>2, <2>4, <3>1 DEF Flattened
    <3>3. ASSUME NEW i \in S, i \in 1 .. n - 1 PROVE i + 1 \in S
      <4>1. i + 1 \in 1 .. n /\ i + 1 \in 1 .. n + 1 /\ i + 1 # 1 /\ (i + 1) - 1 = i
        BY <2>1, <3>3
      <4>2. G(q)[i + 1] = G(q)[i] \o q[i + 1] /\ G(seqs)[i + 1] = G(seqs)[i] \o seqs[i + 1]
        BY <2>1, <2>2, <3>1, <4>1 DEF Flattened
      <4> QED
        BY <2>1, <3>3, <4>1, <4>2
    <3> HIDE DEF S
    <3>4. 1 .. n \subseteq S
      BY <2>1, <3>2, <3>3, PlaceInduction
    <3>5. n \in 1 .. n /\ n + 1 \in 1 .. n + 1 /\ n + 1 # 1 /\ (n + 1) - 1 = n
      BY <2>1, <2>4
    <3>6. G(q)[n] = G(seqs)[n]
      BY <3>4, <3>5 DEF S
    <3>7. G(q)[n + 1] = G(q)[n] \o q[n + 1]
      BY <2>1, <2>2, <3>5 DEF Flattened
    <3> QED
      BY <2>1, <2>2, <3>1, <3>6, <3>7 DEF q
  <2> QED
    BY <2>3, <2>4
<1> QED
  BY <1>1, <1>3, <1>4

-----------------------------------------------------------------------------
(* Lines, their ends, and the dots that begin them. *)

\* Induction over the sequences of a set.
LEMMA SeqInduction ==
  ASSUME NEW T, NEW P, <<>> \in P,
         \A s \in Seq(T), e \in T : s \in P => Append(s, e) \in P
  PROVE  Seq(T) \subseteq P
<1> DEFINE N == {n \in Nat : \A s \in Seq(T) : Len(s) = n => s \in P}
<1>1. 0 \in N
  <2>1. \A s \in Seq(T) : Len(s) = 0 => s = <<>>
    OBVIOUS
  <2> QED
    BY <2>1
<1>2. ASSUME NEW n \in N PROVE n + 1 \in N
  <2> SUFFICES ASSUME NEW s \in Seq(T), Len(s) = n + 1 PROVE s \in P
    OBVIOUS
  <2>1. s # <<>>
    BY <1>2
  <2>2. PICK r \in Seq(T), e \in T : s = Append(r, e)
    BY <2>1, SequenceEmptyOrAppend
  <2>3. Len(r) = n
    BY <1>2, <2>2
  <2>4. r \in P
    BY <1>2, <2>3
  <2> QED
    BY <2>2, <2>4
<1> HIDE DEF N
<1>3. Nat \subseteq N
  BY <1>1, <1>2, SetInduction
<1>4. \A s \in Seq(T) : Len(s) \in Nat
  OBVIOUS
<1> QED
  BY <1>3, <1>4 DEF N

\* s ends with a line's end, or is empty: whatever follows begins a line.
EndsLine(s) == s = <<>> \/ (Len(s) >= 2 /\ s[Len(s) - 1] = "CR" /\ s[Len(s)] = "LF")

LEMMA CrLfIs ==
  /\ CrLf \in Seq(Bytes) /\ Len(CrLf) = 2 /\ CrLf[1] = "CR" /\ CrLf[2] = "LF"
  /\ DOMAIN CrLf = 1 .. 2
  /\ EndsLine(CrLf)
BY DEF CrLf, Bytes, EndsLine

LEMMA LineBeginsIs ==
  ASSUME NEW s \in Seq(Bytes), NEW i \in 1 .. Len(s) + 1
  PROVE  LineBegins(s, i) <=> i = 1 \/ (i > 2 /\ s[i - 2] = "CR" /\ s[i - 1] = "LF")
<1>1. CASE i > 2
  <2> DEFINE t == SubSeq(s, i - 2, i - 1)
  <2>1. \A j \in i - 2 .. i - 1 : s[j] \in Bytes
    BY <1>1
  <2>2. t \in Seq(Bytes) /\ Len(t) = 2 /\ t[1] = s[i - 2] /\ t[2] = s[i - 1]
    <3>1. /\ t \in Seq(Bytes) /\ Len(t) = IF i - 2 <= i - 1 THEN (i - 1) - (i - 2) + 1 ELSE 0
          /\ \A j \in 1 .. (i - 1) - (i - 2) + 1 : t[j] = s[i - 2 + j - 1]
      BY <2>1, SubSeqProperties
    <3>2. (i - 1) - (i - 2) + 1 = 2 /\ i - 2 + 1 - 1 = i - 2 /\ i - 2 + 2 - 1 = i - 1
      OBVIOUS
    <3> QED
      BY <3>1, <3>2
  <2> HIDE DEF t
  <2>3. t = CrLf <=> t[1] = "CR" /\ t[2] = "LF"
    <3>1. ASSUME t[1] = "CR", t[2] = "LF" PROVE t = CrLf
      <4>1. \A j \in 1 .. 2 : t[j] = CrLf[j]
        BY <3>1, CrLfIs
      <4> QED
        BY <2>2, <4>1, CrLfIs, SeqEqual
    <3> QED
      BY <3>1, CrLfIs
  <2> QED
    BY <1>1, <2>2, <2>3 DEF LineBegins, t
<1>2. CASE ~(i > 2)
  BY <1>2 DEF LineBegins
<1> QED
  BY <1>1, <1>2

LEMMA EndsAtIs ==
  ASSUME NEW s \in Seq(Bytes), NEW i \in 1 .. Len(s)
  PROVE  EndsAt(s, i) <=> /\ i + 2 <= Len(s)
                          /\ i = 1 \/ (i > 2 /\ s[i - 2] = "CR" /\ s[i - 1] = "LF")
                          /\ s[i] = "." /\ s[i + 1] = "CR" /\ s[i + 2] = "LF"
<1>1. CASE i + 2 <= Len(s)
  <2> DEFINE t == SubSeq(s, i, i + 2)
             d == <<".", "CR", "LF">>
  <2>1. \A j \in i .. i + 2 : s[j] \in Bytes
    BY <1>1
  <2>2. t \in Seq(Bytes) /\ Len(t) = 3 /\ t[1] = s[i] /\ t[2] = s[i + 1] /\ t[3] = s[i + 2]
    <3>1. /\ t \in Seq(Bytes) /\ Len(t) = IF i <= i + 2 THEN (i + 2) - i + 1 ELSE 0
          /\ \A j \in 1 .. (i + 2) - i + 1 : t[j] = s[i + j - 1]
      BY <2>1, SubSeqProperties
    <3>2. (i + 2) - i + 1 = 3 /\ i + 1 - 1 = i /\ i + 2 - 1 = i + 1 /\ i + 3 - 1 = i + 2 /\ i <= i + 2
      OBVIOUS
    <3>3. 1 \in 1 .. 3 /\ 2 \in 1 .. 3 /\ 3 \in 1 .. 3
      OBVIOUS
    <3> HIDE DEF t
    <3>4. t \in Seq(Bytes) /\ Len(t) = 3 /\ \A j \in 1 .. 3 : t[j] = s[i + j - 1]
      BY <3>1, <3>2
    <3>5. t[1] = s[i + 1 - 1] /\ t[2] = s[i + 2 - 1] /\ t[3] = s[i + 3 - 1]
      BY <3>3, <3>4
    <3> QED
      BY <3>2, <3>4, <3>5
  <2>3. <<".">> \o CrLf = d
    <3> DEFINE c == <<".">> \o CrLf
    <3>1. /\ <<".">> \in Seq(Bytes) /\ Len(<<".">>) = 1 /\ <<".">>[1] = "."
          /\ d \in Seq(Bytes) /\ Len(d) = 3 /\ d[1] = "." /\ d[2] = "CR" /\ d[3] = "LF"
      BY DEF Bytes
    <3>2. /\ c \in Seq(Bytes) /\ Len(c) = Len(<<".">>) + Len(CrLf)
          /\ \A j \in 1 .. Len(<<".">>) + Len(CrLf) :
               c[j] = IF j <= Len(<<".">>) THEN <<".">>[j] ELSE CrLf[j - Len(<<".">>)]
      BY <3>1, CrLfIs, ConcatProperties
    <3> HIDE DEF c
    <3>3. /\ c \in Seq(Bytes) /\ Len(c) = 3
          /\ \A j \in 1 .. 3 : c[j] = IF j <= 1 THEN <<".">>[j] ELSE CrLf[j - 1]
      BY <3>1, <3>2, CrLfIs
    <3>4. c[1] = "." /\ c[2] = CrLf[1] /\ c[3] = CrLf[2]
      BY <3>1, <3>3
    <3> HIDE DEF c, d
    <3>5. \A j \in 1 .. 3 : c[j] = d[j]
      BY <3>1, <3>4, CrLfIs
    <3> QED
      BY <3>1, <3>3, <3>5, SeqEqual DEF c
  <2>4. d \in Seq(Bytes) /\ Len(d) = 3 /\ d[1] = "." /\ d[2] = "CR" /\ d[3] = "LF"
    BY DEF Bytes
  <2> HIDE DEF t, d
  <2>5. t = d <=> t[1] = "." /\ t[2] = "CR" /\ t[3] = "LF"
    <3>1. ASSUME t[1] = ".", t[2] = "CR", t[3] = "LF" PROVE t = d
      <4>1. \A j \in 1 .. 3 : t[j] = d[j]
        BY <2>4, <3>1
      <4> QED
        BY <2>2, <2>4, <4>1, SeqEqual
    <3> QED
      BY <2>4, <3>1
  <2>6. LineBegins(s, i) <=> i = 1 \/ (i > 2 /\ s[i - 2] = "CR" /\ s[i - 1] = "LF")
    BY LineBeginsIs
  <2>7. EndsAt(s, i) <=> LineBegins(s, i) /\ t = d
    BY <1>1, <2>3 DEF EndsAt, t
  <2> QED
    BY <1>1, <2>2, <2>5, <2>6, <2>7
<1>2. CASE ~(i + 2 <= Len(s))
  BY <1>2 DEF EndsAt
<1> QED
  BY <1>1, <1>2

LEMMA BytesConcat ==
  ASSUME NEW s \in Seq(Bytes), NEW t \in Seq(Bytes), NEW u \in Seq(Bytes)
  PROVE  (s \o t) \o u = s \o (t \o u)
BY ConcatAssociative

\* The bytes of what is written after something else.
LEMMA ConcatIs ==
  ASSUME NEW T, NEW s \in Seq(T), NEW t \in Seq(T)
  PROVE  /\ s \o t \in Seq(T) /\ Len(s \o t) = Len(s) + Len(t)
         /\ Len(s) \in Nat /\ Len(t) \in Nat
         /\ \A j \in 1 .. Len(s) : (s \o t)[j] = s[j]
         /\ \A j \in 1 .. Len(t) : (s \o t)[Len(s) + j] = t[j]
<1> DEFINE n == Len(s)
           m == Len(t)
           r == s \o t
<1>1. /\ r \in Seq(T) /\ Len(r) = n + m /\ n \in Nat /\ m \in Nat
      /\ \A j \in 1 .. n + m : r[j] = IF j <= n THEN s[j] ELSE t[j - n]
  BY ConcatProperties
<1> HIDE DEF r, n, m
<1>2. \A j \in 1 .. n : j \in 1 .. n + m /\ j <= n
  BY <1>1
<1>3. \A j \in 1 .. m : n + j \in 1 .. n + m /\ ~(n + j <= n) /\ (n + j) - n = j
  BY <1>1
<1>4. (\A j \in 1 .. n : r[j] = s[j]) /\ (\A j \in 1 .. m : r[n + j] = t[j])
  BY <1>1, <1>2, <1>3
<1> QED
  BY <1>1, <1>4 DEF r, n, m

LEMMA LineBeginsConcat ==
  ASSUME NEW s \in Seq(Bytes), NEW t \in Seq(Bytes)
  PROVE  /\ \A i \in 1 .. Len(s) + 1 : LineBegins(s \o t, i) <=> LineBegins(s, i)
         /\ EndsLine(s) =>
              \A j \in 1 .. Len(t) + 1 : LineBegins(s \o t, Len(s) + j) <=> LineBegins(t, j)
<1> DEFINE n == Len(s)
           m == Len(t)
           r == s \o t
<1>1. /\ r \in Seq(Bytes) /\ Len(r) = n + m /\ n \in Nat /\ m \in Nat
      /\ \A j \in 1 .. n : r[j] = s[j]
      /\ \A j \in 1 .. m : r[n + j] = t[j]
  BY ConcatIs
<1> HIDE DEF r, n, m
<1>2. \A i \in 1 .. n + m + 1 :
        LineBegins(r, i) <=> i = 1 \/ (i > 2 /\ r[i - 2] = "CR" /\ r[i - 1] = "LF")
  <2>1. \A i \in 1 .. Len(r) + 1 :
          LineBegins(r, i) <=> i = 1 \/ (i > 2 /\ r[i - 2] = "CR" /\ r[i - 1] = "LF")
    BY <1>1, LineBeginsIs
  <2> QED
    BY <1>1, <2>1
<1>3. ASSUME NEW i \in 1 .. n + 1 PROVE LineBegins(r, i) <=> LineBegins(s, i)
  <2>1. i \in 1 .. n + m + 1 /\ (i > 2 => i - 2 \in 1 .. n /\ i - 1 \in 1 .. n)
    BY <1>1
  <2>2. LineBegins(s, i) <=> i = 1 \/ (i > 2 /\ s[i - 2] = "CR" /\ s[i - 1] = "LF")
    BY LineBeginsIs DEF n
  <2> QED
    BY <1>1, <1>2, <2>1, <2>2
<1>4. ASSUME EndsLine(s), NEW j \in 1 .. m + 1
      PROVE  LineBegins(r, n + j) <=> LineBegins(t, j)
  <2> DEFINE i == n + j
  <2>1. i \in 1 .. n + m + 1
    BY <1>1
  <2>2. LineBegins(t, j) <=> j = 1 \/ (j > 2 /\ t[j - 2] = "CR" /\ t[j - 1] = "LF")
    BY LineBeginsIs DEF m
  <2>3. n = 0 \/ (n >= 2 /\ s[n - 1] = "CR" /\ s[n] = "LF")
    BY <1>4 DEF EndsLine, n
  <2>4. CASE n = 0
    <3>1. \A k \in 1 .. m : r[k] = t[k]
      BY <1>1, <2>4
    <3>2. i = j /\ (j > 2 => j - 2 \in 1 .. m /\ j - 1 \in 1 .. m)
      BY <1>1, <2>4
    <3> QED
      BY <1>2, <2>1, <2>2, <3>1, <3>2
  <2>5. CASE n # 0 /\ j = 1
    <3>1. n - 1 \in 1 .. n /\ n \in 1 .. n /\ i > 2 /\ i - 2 = n - 1 /\ i - 1 = n
      BY <1>1, <2>3, <2>5
    <3>2. r[i - 2] = "CR" /\ r[i - 1] = "LF"
      BY <1>1, <2>3, <2>5, <3>1
    <3> QED
      BY <1>2, <2>1, <2>2, <2>5, <3>1, <3>2
  <2>6. CASE n # 0 /\ j = 2
    <3>1. i - 2 = n /\ n \in 1 .. n /\ i # 1 /\ ~(j = 1 \/ j > 2)
      BY <1>1, <2>6
    <3>2. r[i - 2] = "LF"
      BY <1>1, <2>3, <2>6, <3>1
    <3> QED
      BY <1>2, <2>1, <2>2, <3>1, <3>2
  <2>7. CASE j > 2
    <3>1. /\ j - 2 \in 1 .. m /\ j - 1 \in 1 .. m /\ i > 2 /\ i # 1 /\ j # 1
          /\ i - 2 = n + (j - 2) /\ i - 1 = n + (j - 1)
      BY <1>1, <2>7
    <3>2. r[i - 2] = t[j - 2] /\ r[i - 1] = t[j - 1]
      BY <1>1, <3>1
    <3> QED
      BY <1>2, <2>1, <2>2, <2>7, <3>1, <3>2
  <2> QED
    BY <1>1, <2>4, <2>5, <2>6, <2>7
<1> QED
  BY <1>3, <1>4 DEF n, m, r

\* What is written after a line's end begins and ends lines on its own.
LEMMA EndsConcat ==
  ASSUME NEW s \in Seq(Bytes), NEW t \in Seq(Bytes), EndsLine(s), NEW i \in 1 .. Len(s) + Len(t)
  PROVE  EndsAt(s \o t, i) <=> \/ i <= Len(s) /\ EndsAt(s, i)
                               \/ i > Len(s) /\ EndsAt(t, i - Len(s))
<1> DEFINE n == Len(s)
           m == Len(t)
           r == s \o t
<1>1. /\ r \in Seq(Bytes) /\ Len(r) = n + m /\ n \in Nat /\ m \in Nat
      /\ \A j \in 1 .. n : r[j] = s[j]
      /\ \A j \in 1 .. m : r[n + j] = t[j]
  BY ConcatIs
<1> HIDE DEF r, n, m
<1>2. i \in Int /\ i >= 1 /\ i <= n + m /\ i \in 1 .. Len(r)
  BY <1>1 DEF n, m
<1>3. Len(r) = n + m
  BY <1>1
<1>4. EndsAt(r, i) <=> /\ i + 2 <= n + m
                       /\ i = 1 \/ (i > 2 /\ r[i - 2] = "CR" /\ r[i - 1] = "LF")
                       /\ r[i] = "." /\ r[i + 1] = "CR" /\ r[i + 2] = "LF"
  <2>1. r \in Seq(Bytes) /\ i \in 1 .. Len(r)
    BY <1>1, <1>2
  <2>2. EndsAt(r, i) <=> /\ i + 2 <= Len(r)
                         /\ i = 1 \/ (i > 2 /\ r[i - 2] = "CR" /\ r[i - 1] = "LF")
                         /\ r[i] = "." /\ r[i + 1] = "CR" /\ r[i + 2] = "LF"
    BY <2>1, EndsAtIs
  <2> QED
    BY <1>3, <2>2
<1>5. n = 0 \/ (n >= 2 /\ s[n - 1] = "CR" /\ s[n] = "LF")
  BY DEF EndsLine, n
<1> SUFFICES EndsAt(r, i) <=> (i <= n /\ EndsAt(s, i)) \/ (i > n /\ EndsAt(t, i - n))
  BY DEF r, n
<1>6. CASE i <= n
  <2>1. i \in 1 .. n
    BY <1>1, <1>6, <1>2
  <2>2. EndsAt(s, i) <=> /\ i + 2 <= n
                         /\ i = 1 \/ (i > 2 /\ s[i - 2] = "CR" /\ s[i - 1] = "LF")
                         /\ s[i] = "." /\ s[i + 1] = "CR" /\ s[i + 2] = "LF"
    BY <2>1, EndsAtIs DEF n
  <2>3. CASE i + 2 <= n
    <3>1. i + 1 \in 1 .. n /\ i + 2 \in 1 .. n /\ (i > 2 => i - 2 \in 1 .. n /\ i - 1 \in 1 .. n)
      BY <1>1, <2>1, <2>3
    <3>2. i + 2 <= n + m /\ ~(i > n)
      BY <1>1, <1>6, <2>3
    <3> QED
      BY <1>1, <1>4, <1>6, <2>1, <2>2, <2>3, <3>1, <3>2
  <2>4. CASE ~(i + 2 <= n)
    <3>1. i = n - 1 \/ i = n
      BY <1>1, <2>1, <2>4
    <3>2. s[i] # "."
      BY <1>1, <1>5, <2>1, <3>1
    <3>3. r[i] # "." /\ ~(i > n)
      BY <1>1, <1>6, <2>1, <3>2
    <3> QED
      BY <1>4, <2>2, <2>4, <3>3
  <2> QED
    BY <2>3, <2>4
<1>7. CASE i > n
  <2> DEFINE j == i - n
  <2>1. j \in 1 .. m /\ i = n + j
    BY <1>1, <1>7, <1>2
  <2> HIDE DEF j
  <2>2. EndsAt(t, j) <=> /\ j + 2 <= m
                         /\ j = 1 \/ (j > 2 /\ t[j - 2] = "CR" /\ t[j - 1] = "LF")
                         /\ t[j] = "." /\ t[j + 1] = "CR" /\ t[j + 2] = "LF"
    BY <2>1, EndsAtIs DEF m
  <2>3. CASE j + 2 <= m
    <3>1. /\ j + 1 \in 1 .. m /\ j + 2 \in 1 .. m /\ i + 1 = n + (j + 1) /\ i + 2 = n + (j + 2)
      BY <1>1, <1>2, <2>1, <2>3
    <3>2. r[i] = t[j] /\ r[i + 1] = t[j + 1] /\ r[i + 2] = t[j + 2] /\ i + 2 <= n + m
      <4>1. i + 2 <= n + m
        BY <1>1, <1>2, <2>1, <2>3
      <4>2. /\ r[n + j] = t[j] /\ r[n + (j + 1)] = t[j + 1] /\ r[n + (j + 2)] = t[j + 2]
        BY <1>1, <2>1, <3>1
      <4> QED
        BY <2>1, <3>1, <4>1, <4>2
    <3>3. (i = 1 \/ (i > 2 /\ r[i - 2] = "CR" /\ r[i - 1] = "LF"))
          <=> (j = 1 \/ (j > 2 /\ t[j - 2] = "CR" /\ t[j - 1] = "LF"))
      <4>1. j \in 1 .. m + 1 /\ i \in 1 .. Len(r) + 1
        BY <1>1, <1>2, <2>1
      <4>2. LineBegins(r, i) <=> LineBegins(t, j)
        BY <2>1, <4>1, LineBeginsConcat DEF n, m, r
      <4>3. LineBegins(r, i) <=> i = 1 \/ (i > 2 /\ r[i - 2] = "CR" /\ r[i - 1] = "LF")
        BY <1>1, <4>1, LineBeginsIs
      <4>4. LineBegins(t, j) <=> j = 1 \/ (j > 2 /\ t[j - 2] = "CR" /\ t[j - 1] = "LF")
        BY <4>1, LineBeginsIs DEF m
      <4> QED
        BY <4>2, <4>3, <4>4
    <3> QED
      <4>1. EndsAt(r, i) <=> EndsAt(t, j)
        BY <1>4, <2>2, <2>3, <3>2, <3>3
      <4>2. ~(i <= n)
        BY <1>1, <1>7, <1>2
      <4> QED
        BY <1>7, <4>1, <4>2 DEF j
  <2>4. CASE ~(j + 2 <= m)
    <3>1. ~(i + 2 <= n + m)
      BY <1>1, <2>1, <2>4
    <3> QED
      <4>1. ~EndsAt(r, i) /\ ~EndsAt(t, j)
        BY <1>4, <2>2, <2>4, <3>1
      <4>2. ~(i <= n)
        BY <1>1, <1>7, <1>2
      <4> QED
        BY <1>7, <4>1, <4>2 DEF j
  <2> QED
    BY <2>3, <2>4
<1> QED
  BY <1>1, <1>6, <1>7, <1>2

-----------------------------------------------------------------------------
(* Where the data would end. *)

NoEnd(s) == \A i \in 1 .. Len(s) : ~EndsAt(s, i)

\* The last line is a single dot so far.
LoneDot(s) == s # <<>> /\ s[Len(s)] = "." /\ LineBegins(s, Len(s))

LEMMA NoEndConcat ==
  ASSUME NEW s \in Seq(Bytes), NEW t \in Seq(Bytes), EndsLine(s), NoEnd(s), NoEnd(t)
  PROVE  /\ NoEnd(s \o t)
         /\ EndsLine(t) => EndsLine(s \o t)
         /\ ~LoneDot(s) /\ ~LoneDot(t) => ~LoneDot(s \o t)
<1> DEFINE n == Len(s)
           m == Len(t)
           r == s \o t
<1>1. /\ r \in Seq(Bytes) /\ Len(r) = n + m /\ n \in Nat /\ m \in Nat
      /\ \A j \in 1 .. n : r[j] = s[j]
      /\ \A j \in 1 .. m : r[n + j] = t[j]
  BY ConcatIs
<1> HIDE DEF r, n, m
<1>2. NoEnd(r)
  <2> SUFFICES ASSUME NEW i \in 1 .. n + m, EndsAt(r, i) PROVE FALSE
    BY <1>1 DEF NoEnd
  <2>1. (i <= n /\ EndsAt(s, i)) \/ (i > n /\ EndsAt(t, i - n))
    BY EndsConcat DEF n, m, r
  <2>2. (i <= n => i \in 1 .. n) /\ (i > n => i - n \in 1 .. m)
    BY <1>1
  <2> QED
    BY <2>1, <2>2 DEF NoEnd, n, m
<1>3. ASSUME m # 0
      PROVE  /\ EndsLine(t) => EndsLine(r)
             /\ ~LoneDot(t) => ~LoneDot(r)
  <2>1. /\ m \in 1 .. m + 1 /\ m \in 1 .. m /\ n + m \in Nat /\ n + m # 0 /\ t # <<>> /\ r # <<>>
    BY <1>1, <1>3 DEF m
  <2>2. r[Len(r)] = t[m]
    BY <1>1, <2>1
  <2>3. m >= 2 => m - 1 \in 1 .. m /\ n + m >= 2 /\ n + (m - 1) = (n + m) - 1
    BY <1>1
  <2>4. m >= 2 => r[Len(r) - 1] = t[m - 1]
    BY <1>1, <2>3
  <2>5. LineBegins(r, Len(r)) <=> LineBegins(t, m)
    BY <1>1, <2>1, LineBeginsConcat DEF n, m, r
  <2> QED
    BY <1>1, <2>1, <2>2, <2>3, <2>4, <2>5 DEF EndsLine, LoneDot, m
<1>4. ASSUME m = 0 PROVE r = s
  <2>1. t = <<>>
    BY <1>4 DEF m
  <2> QED
    BY <2>1, ConcatEmptySeq DEF r
<1> QED
  BY <1>2, <1>3, <1>4 DEF r

\* Unless it is a single dot, a line's end ends it without ending the data.
LEMMA LineEnded ==
  ASSUME NEW s \in Seq(Bytes), NoEnd(s), ~LoneDot(s)
  PROVE  NoEnd(s \o CrLf) /\ EndsLine(s \o CrLf) /\ ~LoneDot(s \o CrLf)
<1> DEFINE n == Len(s)
           r == s \o CrLf
<1>1. /\ r \in Seq(Bytes) /\ Len(r) = n + 2 /\ n \in Nat
      /\ \A j \in 1 .. n : r[j] = s[j]
      /\ r[n + 1] = "CR" /\ r[n + 2] = "LF"
  <2>1. 1 \in 1 .. Len(CrLf) /\ 2 \in 1 .. Len(CrLf)
    BY CrLfIs
  <2>2. /\ r \in Seq(Bytes) /\ Len(r) = n + Len(CrLf) /\ n \in Nat
        /\ \A j \in 1 .. n : r[j] = s[j]
        /\ \A j \in 1 .. Len(CrLf) : r[n + j] = CrLf[j]
    <3>1. CrLf \in Seq(Bytes)
      BY CrLfIs
    <3> QED
      BY <3>1, ConcatIs
  <2> HIDE DEF r, n
  <2> QED
    BY <2>1, <2>2, CrLfIs
<1> HIDE DEF r, n
<1>2. EndsLine(r)
  BY <1>1 DEF EndsLine
<1>3. ~LoneDot(r)
  BY <1>1 DEF LoneDot
<1>4. ASSUME NEW i \in 1 .. n + 2, EndsAt(r, i) PROVE FALSE
  <2>1. /\ i + 2 <= Len(r)
        /\ r[i] = "." /\ r[i + 1] = "CR" /\ r[i + 2] = "LF"
    BY <1>1, <1>4, EndsAtIs
  <2>2. LineBegins(r, i)
    BY <1>4 DEF EndsAt
  <2>3. i \in 1 .. n + 1 /\ i \in 1 .. n
    BY <1>1, <2>1
  <2>4. LineBegins(s, i)
    BY <2>2, <2>3, CrLfIs, LineBeginsConcat DEF n, r
  <2>5. CASE i + 2 <= n
    <3>1. i + 1 \in 1 .. n /\ i + 2 \in 1 .. n
      BY <1>1, <2>3, <2>5
    <3>2. s[i] = "." /\ s[i + 1] = "CR" /\ s[i + 2] = "LF"
      BY <1>1, <2>1, <2>3, <3>1
    <3>3. i = 1 \/ (i > 2 /\ s[i - 2] = "CR" /\ s[i - 1] = "LF")
      BY <2>3, <2>4, LineBeginsIs DEF n
    <3>4. EndsAt(s, i)
      BY <2>3, <2>5, <3>2, <3>3, EndsAtIs DEF n
    <3> QED
      BY <2>3, <3>4 DEF NoEnd, n
  <2>6. CASE i = n - 1
    BY <1>1, <2>1, <2>6
  <2>7. CASE i = n
    <3>1. s[n] = "." /\ n # 0
      BY <1>1, <2>1, <2>3, <2>7
    <3> QED
      BY <2>4, <2>7, <3>1 DEF LoneDot, n
  <2> QED
    BY <1>1, <2>3, <2>5, <2>6, <2>7
<1> QED
  BY <1>1, <1>2, <1>3, <1>4 DEF NoEnd, r

\* The end of the data, where a line begins.
LEMMA DataEnded ==
  ASSUME NEW s \in Seq(Bytes), NoEnd(s), EndsLine(s)
  PROVE  LET r == s \o <<".">> \o CrLf
         IN  /\ r \in Seq(Bytes)
             /\ Len(r) = Len(s) + 3
             /\ \A i \in DOMAIN r : EndsAt(r, i) <=> i = Len(r) - 2
<1> DEFINE d == <<".">> \o CrLf
           n == Len(s)
           r == s \o d
<1>1. <<".">> \in Seq(Bytes) /\ Len(<<".">>) = 1 /\ <<".">>[1] = "."
  BY DEF Bytes
<1>2. d \in Seq(Bytes) /\ Len(d) = 3 /\ d[1] = "." /\ d[2] = "CR" /\ d[3] = "LF"
  <2>1. 1 \in 1 .. Len(<<".">>) /\ 1 \in 1 .. Len(CrLf) /\ 2 \in 1 .. Len(CrLf)
    BY <1>1, CrLfIs
  <2>2. /\ d \in Seq(Bytes) /\ Len(d) = Len(<<".">>) + Len(CrLf)
        /\ \A j \in 1 .. Len(<<".">>) : d[j] = <<".">>[j]
        /\ \A j \in 1 .. Len(CrLf) : d[Len(<<".">>) + j] = CrLf[j]
    BY <1>1, CrLfIs, ConcatIs
  <2> HIDE DEF d
  <2> QED
    BY <1>1, <2>1, <2>2, CrLfIs
<1>3. s \o <<".">> \o CrLf = r
  BY <1>1, CrLfIs, BytesConcat
<1> HIDE DEF d
<1>4. r \in Seq(Bytes) /\ Len(r) = n + 3 /\ n \in Nat /\ DOMAIN r = 1 .. n + 3
  <2>1. r \in Seq(Bytes) /\ Len(r) = n + Len(d) /\ n \in Nat
    BY <1>2, ConcatIs
  <2> QED
    BY <1>2, <2>1
<1>5. ASSUME NEW j \in 1 .. 3 PROVE EndsAt(d, j) <=> j = 1
  <2>1. j \in 1 .. Len(d)
    BY <1>2
  <2>2. EndsAt(d, j) <=> /\ j + 2 <= Len(d)
                         /\ j = 1 \/ (j > 2 /\ d[j - 2] = "CR" /\ d[j - 1] = "LF")
                         /\ d[j] = "." /\ d[j + 1] = "CR" /\ d[j + 2] = "LF"
    BY <1>2, <2>1, EndsAtIs
  <2> QED
    BY <1>2, <2>2
<1>6. ASSUME NEW i \in 1 .. n + 3 PROVE EndsAt(r, i) <=> i = n + 1
  <2>1. EndsAt(r, i) <=> (i <= n /\ EndsAt(s, i)) \/ (i > n /\ EndsAt(d, i - n))
    BY <1>2, EndsConcat
  <2> HIDE DEF r
  <2>2. CASE i <= n
    BY <1>4, <2>1, <2>2 DEF NoEnd
  <2>3. CASE i > n
    <3>1. i - n \in 1 .. 3 /\ (i - n = 1 <=> i = n + 1) /\ ~(i <= n)
      BY <1>4, <2>3
    <3> QED
      BY <1>5, <2>1, <2>3, <3>1
  <2> QED
    BY <1>4, <2>2, <2>3
<1> HIDE DEF r, n
<1>7. \A i \in DOMAIN r : EndsAt(r, i) <=> i = Len(r) - 2
  BY <1>4, <1>6
<1> QED
  BY <1>3, <1>4, <1>7 DEF n

-----------------------------------------------------------------------------
(* What is written of a header. *)

LEMMA PieceIs ==
  ASSUME NEW s \in Seq(Bytes), NEW from \in Nat, NEW to \in Nat, from <= to, to <= Len(s)
  PROVE  /\ SubSeq(s, from + 1, to) \in Seq(Bytes)
         /\ Len(SubSeq(s, from + 1, to)) = to - from
         /\ \A k \in 1 .. to - from : SubSeq(s, from + 1, to)[k] = s[from + k]
<1> DEFINE t == SubSeq(s, from + 1, to)
<1>1. \A i \in from + 1 .. to : s[i] \in Bytes
  <2>1. \A i \in from + 1 .. to : i \in 1 .. Len(s)
    OBVIOUS
  <2> QED
    BY <2>1
<1>2. /\ t \in Seq(Bytes) /\ Len(t) = IF from + 1 <= to THEN to - (from + 1) + 1 ELSE 0
      /\ \A k \in 1 .. to - (from + 1) + 1 : t[k] = s[from + 1 + k - 1]
  BY <1>1, SubSeqProperties
<1> HIDE DEF t
<1>3. /\ to - (from + 1) + 1 = to - from /\ to - from \in Nat
      /\ ~(from + 1 <= to) => to - from = 0
      /\ \A k \in 1 .. to - from : from + 1 + k - 1 = from + k
  OBVIOUS
<1>4. Len(t) = to - from /\ \A k \in 1 .. to - from : t[k] = s[from + k]
  BY <1>2, <1>3
<1> QED
  BY <1>2, <1>4 DEF t

\* The whole of a string is printed, unless there is a NUL in it.
LEMMA PrintedIs ==
  ASSUME NEW s \in Seq(Bytes)
  PROVE  /\ Printed(s) \in Seq(Bytes)
         /\ ~Contains(s, "NUL") => Printed(s) = s
<1> DEFINE S == {i \in DOMAIN s : s[i] = "NUL"}
           n == Least(S, Len(s) + 1)
<1>1. S \in SUBSET Nat /\ Len(s) \in Nat /\ S \subseteq 1 .. Len(s)
  OBVIOUS
<1>2. /\ S = {} => n = Len(s) + 1
      /\ S # {} => n \in S
  BY <1>1, LeastProperties
<1>3. ~Contains(s, "NUL") => S = {}
  BY DEF Contains
<1> HIDE DEF S, n
<1>4. n \in Nat /\ 0 <= n - 1 /\ n - 1 <= Len(s)
  <2>1. CASE S = {}
    BY <1>1, <1>2, <2>1
  <2>2. CASE S # {}
    <3>1. n \in 1 .. Len(s)
      BY <1>1, <1>2, <2>2
    <3> QED
      BY <1>1, <3>1
  <2> QED
    BY <2>1, <2>2
<1>5. \A i \in 1 .. n - 1 : s[i] \in Bytes
  BY <1>1, <1>4
<1>6. SubSeq(s, 1, n - 1) \in Seq(Bytes)
  BY <1>4, <1>5, SubSeqProperties
<1>7. ASSUME S = {} PROVE SubSeq(s, 1, n - 1) = s
  <2>1. n - 1 = Len(s)
    BY <1>1, <1>2, <1>7
  <2> QED
    BY <2>1, SubSeqFull
<1>8. Printed(s) = SubSeq(s, 1, n - 1)
  BY DEF Printed, n, S
<1> QED
  BY <1>3, <1>6, <1>7, <1>8

\* A field's name and value.
LEMMA ContentIs ==
  ASSUME Parsing, NEW i \in DOMAIN fields
  PROVE  LET f == fields[i]
         IN  /\ Content[i] = <<NameOf(f), ValueOf(f)>>
             /\ NameOf(f) \in Seq(Bytes) /\ Len(NameOf(f)) = f.nameEnd - f.begin
             /\ \A k \in 1 .. f.nameEnd - f.begin : NameOf(f)[k] = text[f.begin + k]
             /\ ValueOf(f) \in Seq(Bytes) /\ Len(ValueOf(f)) = f.valueEnd - f.value
             /\ \A k \in 1 .. f.valueEnd - f.value : ValueOf(f)[k] = text[f.value + k]
<1> DEFINE f == fields[i]
<1>1. text \in Seq(Bytes) /\ InOrder(f)
  BY DEF Parsing
<1>2. Content[i] = <<NameOf(f), ValueOf(f)>>
  BY DEF Content
<1> HIDE DEF f
<1>3. /\ f.begin \in Nat /\ f.nameEnd \in Nat /\ f.value \in Nat /\ f.valueEnd \in Nat /\ f.end \in Nat
      /\ f.begin <= f.nameEnd /\ f.value <= f.valueEnd
      /\ f.nameEnd <= Len(text) /\ f.valueEnd <= Len(text) /\ Len(text) \in Nat
  BY <1>1 DEF InOrder, Field
<1>4. /\ NameOf(f) \in Seq(Bytes) /\ Len(NameOf(f)) = f.nameEnd - f.begin
      /\ \A k \in 1 .. f.nameEnd - f.begin : NameOf(f)[k] = text[f.begin + k]
  BY <1>1, <1>3, PieceIs, SMTT(30) DEF NameOf
<1>5. /\ ValueOf(f) \in Seq(Bytes) /\ Len(ValueOf(f)) = f.valueEnd - f.value
      /\ \A k \in 1 .. f.valueEnd - f.value : ValueOf(f)[k] = text[f.value + k]
  BY <1>1, <1>3, PieceIs, SMTT(30) DEF ValueOf
<1> QED
  BY <1>2, <1>4, <1>5 DEF f

\* The lines that a value goes on with begin with a blank.
GoesOn(v) ==
  \A k \in 1 .. Len(v) - 2 : v[k] = "CR" /\ v[k + 1] = "LF" => v[k + 2] \in {"SP", "NUL"}

LEMMA ValueGoesOn ==
  ASSUME Parsing, NEW i \in DOMAIN fields
  PROVE  GoesOn(ValueOf(fields[i]))
<1> DEFINE f == fields[i]
           v == ValueOf(f)
<1>1. /\ text \in Seq(Bytes) /\ InOrder(f)
      /\ \A p \in FieldEnds : ~(f.begin <= p /\ p < f.end)
  BY DEF Parsing, FieldsExact, SplitsAtFieldEnds
<1>2. Len(v) = f.valueEnd - f.value /\ \A k \in 1 .. f.valueEnd - f.value : v[k] = text[f.value + k]
  BY ContentIs
<1> HIDE DEF f, v
<1>3. /\ f.begin \in Nat /\ f.nameEnd \in Nat /\ f.value \in Nat /\ f.valueEnd \in Nat /\ f.end \in Nat
      /\ f.begin <= f.value /\ f.valueEnd <= f.end /\ f.end <= Len(text) /\ Len(text) \in Nat
  BY <1>1 DEF InOrder, Field
<1>4. ASSUME NEW k \in 1 .. Len(v) - 2, v[k] = "CR", v[k + 1] = "LF"
      PROVE  v[k + 2] \in {"SP", "NUL"}
  <2> DEFINE p == f.value + k - 1
  <2>1. /\ p \in 0 .. Len(text) /\ p + 2 <= Len(text) /\ f.begin <= p /\ p < f.end
        /\ k \in 1 .. f.valueEnd - f.value /\ k + 1 \in 1 .. f.valueEnd - f.value
        /\ k + 2 \in 1 .. f.valueEnd - f.value
        /\ p + 1 = f.value + k /\ p + 1 + 1 = f.value + (k + 1) /\ p + 2 + 1 = f.value + (k + 2)
    <3> DEFINE m == f.valueEnd - f.value
    <3>1. k \in Int /\ 1 <= k /\ k + 2 <= m /\ m \in Int /\ f.value + m <= f.end
      BY <1>2, <1>3
    <3> HIDE DEF m
    <3>2. k \in 1 .. m /\ k + 1 \in 1 .. m /\ k + 2 \in 1 .. m
      BY <3>1
    <3>3. /\ p \in Int /\ 0 <= p /\ f.begin <= p /\ p + 2 < f.end
          /\ p + 1 = f.value + k /\ p + 1 + 1 = f.value + (k + 1)
          /\ p + 2 + 1 = f.value + (k + 2)
      <4> DEFINE from == f.value
                 end == f.end
      <4>1. /\ k \in Int /\ 1 <= k /\ k + 2 <= m /\ m \in Int /\ from + m <= end
            /\ from \in Int /\ end \in Int /\ 0 <= from /\ f.begin \in Int /\ f.begin <= from
            /\ p = from + k - 1
        BY <1>3, <3>1
      <4> HIDE DEF from, end, p
      <4>2. /\ p \in Int /\ 0 <= p /\ f.begin <= p /\ p + 2 < end
            /\ p + 1 = from + k /\ p + 1 + 1 = from + (k + 1)
            /\ p + 2 + 1 = from + (k + 2)
        BY <4>1
      <4> QED
        BY <4>2 DEF from, end
    <3> HIDE DEF p
    <3>4. p \in 0 .. Len(text) /\ p + 2 <= Len(text) /\ p < f.end
      BY <1>3, <3>3, SMTT(30)
    <3> QED
      BY <3>2, <3>3, <3>4 DEF m
  <2> HIDE DEF p
  <2>2. Byte(p) = "CR" /\ Byte(p + 1) = "LF" /\ Byte(p + 2) = v[k + 2]
    BY <1>2, <1>4, <2>1 DEF Byte
  <2>3. CrLfAt(p)
    BY <2>1, <2>2 DEF CrLfAt
  <2>4. BlankAt(p + 2)
    BY <1>1, <2>1, <2>3 DEF FieldEnds
  <2> QED
    BY <2>2, <2>4 DEF BlankAt
<1> QED
  BY <1>4 DEF GoesOn, f, v

\* A header's line before its end: a dot that begins a line can only be the first byte.
ColonBlank == <<":", "SP">>

LEMMA HeaderIs ==
  ASSUME NEW name \in Seq(Bytes), NEW v \in Seq(Bytes)
  PROVE  LET h == name \o ColonBlank \o v
             n == Len(name)
         IN  /\ h \in Seq(Bytes) /\ Len(h) = n + 2 + Len(v)
             /\ \A j \in 1 .. n : h[j] = name[j]
             /\ h[n + 1] = ":" /\ h[n + 2] = "SP"
             /\ \A j \in 1 .. Len(v) : h[n + 2 + j] = v[j]
<1> DEFINE n == Len(name)
           m == Len(v)
           g == name \o ColonBlank
           h == g \o v
<1>1. /\ ColonBlank \in Seq(Bytes) /\ Len(ColonBlank) = 2 /\ ColonBlank[1] = ":" /\ ColonBlank[2] = "SP"
      /\ 1 \in 1 .. 2 /\ 2 \in 1 .. 2
  BY DEF ColonBlank, Bytes
<1>2. /\ g \in Seq(Bytes) /\ Len(g) = n + Len(ColonBlank) /\ n \in Nat
      /\ \A j \in 1 .. n : g[j] = name[j]
      /\ \A j \in 1 .. Len(ColonBlank) : g[n + j] = ColonBlank[j]
  <2>1. ColonBlank \in Seq(Bytes)
    BY <1>1
  <2> QED
    BY <2>1, ConcatIs
<1> HIDE DEF g, n
<1>3. g[n + 1] = ":" /\ g[n + 2] = "SP" /\ Len(g) = n + 2
  BY <1>1, <1>2
<1>4. /\ h \in Seq(Bytes) /\ Len(h) = Len(g) + m /\ m \in Nat
      /\ \A j \in 1 .. Len(g) : h[j] = g[j]
      /\ \A j \in 1 .. m : h[Len(g) + j] = v[j]
  <2>1. g \in Seq(Bytes)
    BY <1>2
  <2> QED
    BY <2>1, ConcatIs
<1> HIDE DEF h, m
<1>5. n + 1 \in 1 .. n + 2 /\ n + 2 \in 1 .. n + 2 /\ \A j \in 1 .. n : j \in 1 .. n + 2
  BY <1>2
<1>6. /\ h \in Seq(Bytes) /\ Len(h) = n + 2 + m
      /\ \A j \in 1 .. n : h[j] = name[j]
      /\ h[n + 1] = ":" /\ h[n + 2] = "SP"
      /\ \A j \in 1 .. m : h[n + 2 + j] = v[j]
  BY <1>2, <1>3, <1>4, <1>5
<1> QED
  BY <1>6 DEF n, m, g, h

LEMMA OnlyFirstDot ==
  ASSUME NEW name \in Seq(Bytes), NEW v \in Seq(Bytes), ~Contains(name, "LF"), GoesOn(v),
         NEW i \in 1 .. Len(name \o ColonBlank \o v),
         LineBegins(name \o ColonBlank \o v, i), (name \o ColonBlank \o v)[i] = "."
  PROVE  i = 1 /\ name # <<>> /\ name[1] = "."
<1> DEFINE n == Len(name)
           m == Len(v)
           h == name \o ColonBlank \o v
<1>1. /\ h \in Seq(Bytes) /\ Len(h) = n + 2 + m
      /\ \A j \in 1 .. n : h[j] = name[j]
      /\ h[n + 1] = ":" /\ h[n + 2] = "SP"
      /\ \A j \in 1 .. m : h[n + 2 + j] = v[j]
  BY HeaderIs
<1>2. n \in Nat /\ m \in Nat
  OBVIOUS
<1>3. i \in 1 .. Len(h) + 1 /\ LineBegins(h, i) /\ h[i] = "."
  OBVIOUS
<1>4. \A j \in 1 .. n : name[j] # "LF"
  BY DEF Contains
<1>5. \A k \in 1 .. m - 2 : v[k] = "CR" /\ v[k + 1] = "LF" => v[k + 2] \in {"SP", "NUL"}
  BY DEF GoesOn
<1> HIDE DEF h
<1>6. i = 1 \/ (i > 2 /\ h[i - 2] = "CR" /\ h[i - 1] = "LF")
  BY <1>1, <1>3, LineBeginsIs
<1>7. i \in 1 .. n + 2 + m
  BY <1>1 DEF h
<1> HIDE DEF n, m
<1>8. i = 1
  <2> SUFFICES ASSUME i > 2, h[i - 2] = "CR", h[i - 1] = "LF" PROVE FALSE
    BY <1>6
  <2>1. CASE i - 1 <= n
    <3>1. i - 1 \in 1 .. n
      BY <1>2, <1>7, <2>1
    <3> QED
      BY <1>1, <1>4, <3>1
  <2>2. CASE i - 1 = n + 1 \/ i - 1 = n + 2 \/ i - 1 = n + 3
    <3>1. i - 1 = n + 3 => i - 2 = n + 2
      BY <1>2, <1>7
    <3> QED
      BY <1>1, <2>2, <3>1
  <2>3. CASE i - 1 > n + 3
    <3> DEFINE k == i - n - 4
    <3>1. /\ k \in 1 .. m - 2 /\ k \in 1 .. m /\ k + 1 \in 1 .. m /\ k + 2 \in 1 .. m
          /\ i - 2 = n + 2 + k /\ i - 1 = n + 2 + (k + 1) /\ i = n + 2 + (k + 2)
      BY <1>2, <1>7, <2>3
    <3> HIDE DEF k
    <3>2. v[k] = "CR" /\ v[k + 1] = "LF" /\ v[k + 2] = "."
      BY <1>1, <1>3, <3>1
    <3> QED
      BY <1>5, <3>1, <3>2
  <2> QED
    BY <1>2, <1>7, <2>1, <2>2, <2>3
<1>9. i = 1 => n # 0
  BY <1>1, <1>2, <1>3
<1>10. i = 1 => 1 \in 1 .. n
  BY <1>2, <1>9
<1> QED
  BY <1>1, <1>3, <1>8, <1>9, <1>10 DEF n

LEMMA HeaderEndsNothing ==
  ASSUME NEW name \in Seq(Bytes), NEW v \in Seq(Bytes), ~Contains(name, "LF"), GoesOn(v)
  PROVE  /\ NoEnd(name \o ColonBlank \o v \o CrLf)
         /\ EndsLine(name \o ColonBlank \o v \o CrLf)
<1> DEFINE n == Len(name)
           m == Len(v)
           h == name \o ColonBlank \o v
<1>1. /\ h \in Seq(Bytes) /\ Len(h) = n + 2 + m
      /\ \A j \in 1 .. n : h[j] = name[j]
      /\ h[n + 1] = ":" /\ h[n + 2] = "SP"
  BY HeaderIs
<1>2. n \in Nat /\ m \in Nat
  OBVIOUS
<1>3. \A j \in 1 .. n : name[j] # "LF"
  BY DEF Contains
<1>4. \A i \in 1 .. Len(h) : LineBegins(h, i) /\ h[i] = "." => i = 1
  BY OnlyFirstDot
<1> HIDE DEF h, n, m
<1>5. ASSUME NEW i \in 1 .. Len(h), EndsAt(h, i) PROVE FALSE
  <2>1. i + 2 <= Len(h) /\ h[i] = "." /\ h[i + 1] = "CR" /\ h[i + 2] = "LF"
    BY <1>1, <1>5, EndsAtIs
  <2>2. i = 1
    BY <1>4, <1>5, <2>1 DEF EndsAt
  <2>3. h[1] = "." /\ h[2] = "CR" /\ h[3] = "LF"
    BY <2>1, <2>2
  <2>4. CASE n <= 2
    BY <1>1, <1>2, <2>3, <2>4, SMTT(30)
  <2>5. CASE n > 2
    <3>1. 3 \in 1 .. n
      BY <1>2, <2>5
    <3> QED
      BY <1>1, <1>3, <2>3, <3>1
  <2> QED
    BY <1>2, <2>4, <2>5
<1>6. ~LoneDot(h)
  <2> SUFFICES ASSUME LoneDot(h) PROVE FALSE
    OBVIOUS
  <2>1. Len(h) \in 1 .. Len(h)
    BY <1>1, <1>2
  <2>2. Len(h) = 1
    BY <1>4, <2>1 DEF LoneDot
  <2>3. n + 2 + m # 1
    BY <1>2
  <2> QED
    BY <1>1, <2>2, <2>3
<1>7. NoEnd(h \o CrLf) /\ EndsLine(h \o CrLf)
  BY <1>1, <1>5, <1>6, LineEnded DEF NoEnd
<1> QED
  BY <1>7 DEF h

-----------------------------------------------------------------------------
(* What is written of the body. *)

LEMMA CrLfPiece ==
  ASSUME NEW s \in Seq(Bytes), NEW p \in Nat, p + 2 <= Len(s)
  PROVE  SubSeq(s, p + 1, p + 2) = CrLf <=> s[p + 1] = "CR" /\ s[p + 2] = "LF"
<1>1. /\ p + 3 \in 1 .. Len(s) + 1 /\ p + 3 > 2 /\ p + 3 # 1
      /\ p + 3 - 2 = p + 1 /\ p + 3 - 1 = p + 2
  OBVIOUS
<1> DEFINE i == p + 3
<1>2. i \in 1 .. Len(s) + 1 /\ i > 2 /\ i # 1
  BY <1>1
<1>3. i - 2 = p + 1 /\ i - 1 = p + 2
  BY <1>1
<1> HIDE DEF i
<1>4. LineBegins(s, i) <=> i = 1 \/ (i > 2 /\ s[i - 2] = "CR" /\ s[i - 1] = "LF")
  BY <1>2, LineBeginsIs
<1> QED
  BY <1>2, <1>4, <1>3 DEF LineBegins

LEMMA LineEndIs ==
  ASSUME body \in Seq(Bytes), start \in Nat, start < Len(body)
  PROVE  /\ LineEnd \in Nat /\ start <= LineEnd /\ LineEnd <= Len(body)
         /\ LineEnd # Len(body) =>
              /\ LineEnd + 2 <= Len(body)
              /\ body[LineEnd + 1] = "CR" /\ body[LineEnd + 2] = "LF"
         /\ \A p \in Nat : start <= p /\ p < LineEnd /\ p + 2 <= Len(body) =>
              ~(body[p + 1] = "CR" /\ body[p + 2] = "LF")
<1> DEFINE S == {p \in start .. Len(body) - 2 : SubSeq(body, p + 1, p + 2) = CrLf}
<1>1. Len(body) \in Nat
  OBVIOUS
<1>2. S \in SUBSET Nat
  OBVIOUS
<1>3. /\ S = {} => LineEnd = Len(body)
      /\ S # {} => LineEnd \in S /\ \A y \in S : LineEnd <= y
  BY <1>2, LeastProperties DEF LineEnd
<1>4. \A p \in Nat : p \in S <=> /\ start <= p /\ p + 2 <= Len(body)
                                 /\ body[p + 1] = "CR" /\ body[p + 2] = "LF"
  BY <1>1, CrLfPiece
<1>5. \A p \in S : p \in Nat
  BY <1>2
<1> HIDE DEF S
<1>6. CASE S = {}
  BY <1>1, <1>3, <1>4, <1>6
<1>7. CASE S # {}
  <2>1. /\ LineEnd \in Nat /\ start <= LineEnd /\ LineEnd + 2 <= Len(body)
        /\ body[LineEnd + 1] = "CR" /\ body[LineEnd + 2] = "LF"
    BY <1>3, <1>4, <1>5, <1>7
  <2>2. ASSUME NEW p \in Nat, start <= p, p < LineEnd, p + 2 <= Len(body),
               body[p + 1] = "CR", body[p + 2] = "LF"
        PROVE  FALSE
    <3>1. p \in S
      BY <1>4, <2>2
    <3>2. LineEnd <= p
      BY <1>3, <1>7, <3>1
    <3> QED
      BY <2>1, <2>2, <3>2
  <2> QED
    BY <1>1, <2>1, <2>2
<1> QED
  BY <1>6, <1>7

\* What is written of a line, but for its end.
Piece == SubSeq(body, start + 1, LineEnd)
PieceEnd == IF LineEnd = Len(body) THEN <<>> ELSE CrLf
Stuffed == Stuffing(LineEnd) \o Piece

LEMMA PieceProperties ==
  ASSUME body \in Seq(Bytes), start \in Nat, start < Len(body)
  PROVE  /\ Piece \in Seq(Bytes) /\ Stuffed \in Seq(Bytes) /\ PieceEnd \in {<<>>, CrLf}
         /\ PieceEnd \in Seq(Bytes)
         /\ Stuffing(LineEnd) \in Seq(Bytes)
         /\ LineStart(LineEnd) \in Nat
         /\ start < LineStart(LineEnd) /\ LineStart(LineEnd) <= Len(body)
         /\ SubSeq(body, start + 1, LineStart(LineEnd)) = Piece \o PieceEnd
         /\ LineStart(LineEnd) < Len(body) => PieceEnd = CrLf
         /\ \A k \in 1 .. Len(Stuffed) - 1 : ~(Stuffed[k] = "CR" /\ Stuffed[k + 1] = "LF")
         /\ Stuffed # <<".">>
         /\ Stuffed = IF Piece = <<".">> THEN <<".", ".">> ELSE Piece
<1> DEFINE e == LineEnd
           t == Piece
<1>1. /\ e \in Nat /\ start <= e /\ e <= Len(body)
      /\ e # Len(body) => /\ e + 2 <= Len(body)
                          /\ body[e + 1] = "CR" /\ body[e + 2] = "LF"
      /\ \A p \in Nat : start <= p /\ p < e /\ p + 2 <= Len(body) =>
           ~(body[p + 1] = "CR" /\ body[p + 2] = "LF")
  BY LineEndIs
<1>2. Len(body) \in Nat
  OBVIOUS
<1>3. t \in Seq(Bytes) /\ Len(t) = e - start /\ \A k \in 1 .. e - start : t[k] = body[start + k]
  BY <1>1, PieceIs DEF Piece
<1>4. PieceEnd \in {<<>>, CrLf} /\ PieceEnd \in Seq(Bytes)
  BY CrLfIs DEF PieceEnd
<1>5. /\ LineStart(e) \in Nat /\ start < LineStart(e) /\ LineStart(e) <= Len(body)
      /\ LineStart(e) < Len(body) => e # Len(body)
  BY <1>1, <1>2 DEF LineStart
<1>6. SubSeq(body, start + 1, LineStart(e)) = t \o PieceEnd
  <2>1. CASE e = Len(body)
    <3>1. LineStart(e) = e /\ PieceEnd = <<>>
      BY <1>1, <1>2, <2>1 DEF LineStart, PieceEnd
    <3> QED
      BY <1>3, <3>1, ConcatEmptySeq DEF Piece
  <2>2. CASE e # Len(body)
    <3>1. LineStart(e) = e + 2 /\ PieceEnd = CrLf
      BY <1>1, <1>2, <2>2 DEF LineStart, PieceEnd
    <3>2. SubSeq(body, e + 1, e + 2) = CrLf
      BY <1>1, <2>2, CrLfPiece
    <3>3. start + 1 \in 1 .. Len(body) + 1 /\ e \in start + 1 - 1 .. Len(body) /\ e + 2 \in e .. Len(body)
      BY <1>1, <1>2, <2>2
    <3>4. SubSeq(body, start + 1, e) \o SubSeq(body, e + 1, e + 2) = SubSeq(body, start + 1, e + 2)
      BY <3>3, ConcatAdjacentSubSeq
    <3> QED
      BY <3>1, <3>2, <3>4 DEF Piece
  <2> QED
    BY <2>1, <2>2
<1>7. /\ <<".">> \in Seq(Bytes) /\ <<".", ".">> \in Seq(Bytes) /\ <<>> \in Seq(Bytes)
      /\ <<".">> \o <<".">> = <<".", ".">> /\ <<".", ".">> # <<".">>
      /\ Len(<<".", ".">>) = 2 /\ <<".", ".">>[1] = "."
  <2> DEFINE d == <<".">>
             dd == <<".", ".">>
  <2>1. /\ d \in Seq(Bytes) /\ Len(d) = 1 /\ d[1] = "." /\ 1 \in 1 .. Len(d)
        /\ dd \in Seq(Bytes) /\ Len(dd) = 2 /\ dd[1] = "." /\ dd[2] = "."
    BY DEF Bytes
  <2> HIDE DEF d, dd
  <2>2. d \o d \in Seq(Bytes) /\ Len(d \o d) = 2 /\ (d \o d)[1] = "." /\ (d \o d)[2] = "."
    BY <2>1, ConcatIs, SMTT(30)
  <2>3. \A j \in 1 .. 2 : (d \o d)[j] = dd[j]
    BY <2>1, <2>2
  <2>4. d \o d = dd
    BY <2>1, <2>2, <2>3, SeqEqual
  <2>5. Len(d) # Len(dd)
    BY <2>1
  <2>6. dd # d
    BY <2>5
  <2>7. <<>> \in Seq(Bytes)
    OBVIOUS
  <2> QED
    BY <2>1, <2>4, <2>6, <2>7 DEF d, dd
<1>8. Stuffing(e) = IF t = <<".">> THEN <<".">> ELSE <<>>
  BY DEF Stuffing, Piece
<1>9. Stuffed = IF t = <<".">> THEN <<".", ".">> ELSE t
  <2>1. <<>> \o t = t
    BY <1>3, ConcatEmptySeq
  <2> QED
    BY <1>7, <1>8, <2>1 DEF Stuffed
<1> HIDE DEF e, t
<1>10. Stuffed \in Seq(Bytes) /\ Stuffed # <<".">>
  BY <1>3, <1>7, <1>9
<1>11. ASSUME NEW k \in 1 .. Len(Stuffed) - 1, Stuffed[k] = "CR", Stuffed[k + 1] = "LF"
       PROVE  FALSE
  <2>1. CASE t = <<".">>
    <3>1. k = 1
      BY <1>7, <1>9, <1>11, <2>1
    <3> QED
      BY <1>7, <1>9, <1>11, <2>1, <3>1
  <2>2. CASE t # <<".">>
    <3>1. k \in 1 .. e - start /\ k + 1 \in 1 .. e - start /\ Stuffed = t /\ k \in Nat
      BY <1>1, <1>3, <1>9, <1>11, <2>2
    <3>2. body[start + k] = "CR" /\ body[start + (k + 1)] = "LF"
      BY <1>3, <1>11, <3>1
    <3> DEFINE p == start + k - 1
    <3>3. /\ p \in Nat /\ start <= p /\ p < e /\ p + 2 <= Len(body)
          /\ p + 1 = start + k /\ p + 2 = start + (k + 1)
      BY <1>1, <1>2, <3>1
    <3> HIDE DEF p
    <3> QED
      BY <1>1, <3>2, <3>3
  <2> QED
    BY <2>1, <2>2
<1>12. LineStart(e) < Len(body) => PieceEnd = CrLf
  BY <1>5 DEF PieceEnd, e
<1> QED
  BY <1>3, <1>4, <1>5, <1>6, <1>7, <1>8, <1>9, <1>10, <1>11, <1>12 DEF e, t

\* In a line there is no end of one.
LEMMA LineIs ==
  ASSUME NEW s \in Seq(Bytes), s # <<".">>,
         \A k \in 1 .. Len(s) - 1 : ~(s[k] = "CR" /\ s[k + 1] = "LF")
  PROVE  /\ \A i \in 1 .. Len(s) : LineBegins(s, i) => i = 1
         /\ NoEnd(s) /\ ~LoneDot(s)
<1>1. ASSUME NEW i \in 1 .. Len(s), LineBegins(s, i), i # 1 PROVE FALSE
  <2>1. i > 2 /\ s[i - 2] = "CR" /\ s[i - 1] = "LF"
    BY <1>1, LineBeginsIs
  <2>2. i - 2 \in 1 .. Len(s) - 1 /\ (i - 2) + 1 = i - 1
    BY <2>1
  <2> QED
    BY <2>1, <2>2
<1>2. ASSUME NEW i \in 1 .. Len(s), EndsAt(s, i) PROVE FALSE
  <2>1. i = 1
    BY <1>1, <1>2 DEF EndsAt
  <2>2. i + 2 <= Len(s) /\ s[i + 1] = "CR" /\ s[i + 2] = "LF"
    BY <1>2, EndsAtIs
  <2>3. 2 \in 1 .. Len(s) - 1 /\ s[2] = "CR" /\ s[2 + 1] = "LF"
    BY <2>1, <2>2
  <2> QED
    BY <2>3
<1>3. ASSUME LoneDot(s) PROVE FALSE
  <2>1. Len(s) \in 1 .. Len(s) /\ s[Len(s)] = "." /\ LineBegins(s, Len(s))
    BY <1>3 DEF LoneDot
  <2>2. Len(s) = 1 /\ s[1] = "."
    BY <1>1, <2>1
  <2>3. /\ <<".">> \in Seq(Bytes) /\ Len(<<".">>) = 1 /\ <<".">>[1] = "."
    BY DEF Bytes
  <2>4. \A i \in 1 .. Len(s) : s[i] = <<".">>[i]
    BY <2>2, <2>3
  <2> QED
    BY <2>2, <2>3, <2>4, SeqEqual
<1> QED
  BY <1>1, <1>2, <1>3 DEF NoEnd

-----------------------------------------------------------------------------
(* Taking the dots out again, byte by byte. *)

Dot(s, c) == LineBegins(s, Len(s) + 1) /\ c = "."

LEMMA UnstuffedSteps ==
  /\ Unstuffed(<<>>) = <<>>
  /\ \A s \in Seq(Bytes) : Unstuffed(s) \in Seq(Bytes)
  /\ \A s \in Seq(Bytes), c \in Bytes :
       Unstuffed(Append(s, c)) = IF Dot(s, c) THEN Unstuffed(s) ELSE Append(Unstuffed(s), c)
<1> DEFINE one(s, i) == IF LineBegins(s, i) /\ s[i] = "." THEN <<>> ELSE <<s[i]>>
           q(s) == [i \in DOMAIN s |-> one(s, i)]
<1>1. ASSUME NEW s \in Seq(Bytes)
      PROVE  /\ Unstuffed(s) = FlattenSeq(q(s))
             /\ q(s) \in Seq(Seq(Bytes)) /\ Len(q(s)) = Len(s)
             /\ \A i \in 1 .. Len(s) : q(s)[i] = one(s, i)
  <2>1. Len(s) \in Nat /\ DOMAIN s = 1 .. Len(s) /\ \A i \in 1 .. Len(s) : s[i] \in Bytes
    OBVIOUS
  <2>2. \A i \in 1 .. Len(s) : one(s, i) \in Seq(Bytes)
    BY <2>1
  <2>3. Unstuffed(s) = FlattenSeq(q(s))
    BY DEF Unstuffed
  <2> HIDE DEF one
  <2> QED
    BY <2>1, <2>2, <2>3
<1> HIDE DEF q
<1>2. Unstuffed(<<>>) = <<>>
  <2>1. <<>> \in Seq(Bytes) /\ Len(<<>>) = 0
    OBVIOUS
  <2>2. q(<<>>) \in Seq(Seq(Bytes)) /\ Len(q(<<>>)) = 0 /\ Unstuffed(<<>>) = FlattenSeq(q(<<>>))
    BY <1>1, <2>1
  <2>3. q(<<>>) = <<>>
    BY <2>2
  <2>4. FlattenSeq(<<>>) = <<>>
    BY <2>2, FlattenSeqProperties
  <2> QED
    BY <2>2, <2>3, <2>4
<1>3. ASSUME NEW s \in Seq(Bytes) PROVE Unstuffed(s) \in Seq(Bytes)
  BY <1>1, FlattenSeqProperties
<1>4. ASSUME NEW s \in Seq(Bytes), NEW c \in Bytes
      PROVE  Unstuffed(Append(s, c)) = IF Dot(s, c) THEN Unstuffed(s) ELSE Append(Unstuffed(s), c)
  <2> DEFINE n == Len(s)
             r == Append(s, c)
             piece == IF Dot(s, c) THEN <<>> ELSE <<c>>
  <2>1. r \in Seq(Bytes) /\ Len(r) = n + 1 /\ n \in Nat /\ r[n + 1] = c /\ \A i \in 1 .. n : r[i] = s[i]
    BY AppendProperties
  <2>2. <<c>> \in Seq(Bytes) /\ Len(<<c>>) = 1 /\ piece \in Seq(Bytes)
    OBVIOUS
  <2>3. r = s \o <<c>>
    BY AppendIsConcat
  <2> HIDE DEF piece, r, n
  <2>4. \A i \in 1 .. n + 1 : LineBegins(r, i) <=> LineBegins(s, i)
    BY <2>2, <2>3, LineBeginsConcat DEF n
  <2>5. n + 1 \in 1 .. n + 1 /\ \A i \in 1 .. n : i \in 1 .. n + 1
    BY <2>1
  <2>6. one(r, n + 1) = piece /\ \A i \in 1 .. n : one(r, i) = one(s, i)
    BY <2>1, <2>4, <2>5 DEF piece, Dot, n
  <2> HIDE DEF one
  <2>7. /\ Unstuffed(s) = FlattenSeq(q(s)) /\ q(s) \in Seq(Seq(Bytes)) /\ Len(q(s)) = n
        /\ \A i \in 1 .. n : q(s)[i] = one(s, i)
    BY <1>1 DEF n
  <2>8. /\ Unstuffed(r) = FlattenSeq(q(r)) /\ q(r) \in Seq(Seq(Bytes)) /\ Len(q(r)) = n + 1
        /\ \A i \in 1 .. n + 1 : q(r)[i] = one(r, i)
    <3>1. /\ Unstuffed(r) = FlattenSeq(q(r)) /\ q(r) \in Seq(Seq(Bytes)) /\ Len(q(r)) = Len(r)
          /\ \A i \in 1 .. Len(r) : q(r)[i] = one(r, i)
      BY <1>1, <2>1
    <3> QED
      BY <2>1, <3>1
  <2>9. q(r) = Append(q(s), piece)
    <3> DEFINE a == Append(q(s), piece)
    <3>1. /\ a \in Seq(Seq(Bytes)) /\ Len(a) = n + 1 /\ a[n + 1] = piece
          /\ \A i \in 1 .. n : a[i] = q(s)[i]
      BY <2>2, <2>7, AppendProperties
    <3> HIDE DEF a
    <3>2. \A i \in 1 .. n + 1 : q(r)[i] = a[i]
      <4>1. ASSUME NEW i \in 1 .. n PROVE q(r)[i] = a[i]
        BY <2>5, <2>6, <2>7, <2>8, <3>1
      <4>2. q(r)[n + 1] = a[n + 1]
        BY <2>5, <2>6, <2>8, <3>1
      <4>3. \A i \in 1 .. n + 1 : i \in 1 .. n \/ i = n + 1
        BY <2>1
      <4> QED
        BY <4>1, <4>2, <4>3
    <3> QED
      BY <2>8, <3>1, <3>2, SeqEqual DEF a
  <2>10. Unstuffed(r) = Unstuffed(s) \o piece
    BY <2>2, <2>7, <2>8, <2>9, FlattenSeqProperties
  <2>11. CASE Dot(s, c)
    BY <1>3, <2>10, <2>11, ConcatEmptySeq DEF piece, r
  <2>12. CASE ~Dot(s, c)
    BY <1>3, <2>10, <2>12, AppendIsConcat DEF piece, r
  <2> QED
    BY <2>11, <2>12
<1> QED
  BY <1>2, <1>3, <1>4

\* What is received, whatever has been written.
LEMMA ReceivedType ==
  ASSUME stream \in Seq(Bytes)
  PROVE  LET mail == Unstuffed(Data)
         IN  /\ Data \in Seq(Bytes) /\ mail \in Seq(Bytes)
             /\ SubSeq(mail, 1, EmptyLine(mail)) \in Seq(Bytes)
             /\ SubSeq(mail, EmptyLine(mail) + 5, Len(mail)) \in Seq(Bytes)
<1> DEFINE mail == Unstuffed(Data)
           S == {i \in DOMAIN stream : EndsAt(stream, i)}
           k == Least(S, 0)
           P == {p \in 0 .. Len(mail) - 4 : SubSeq(mail, p + 1, p + 4) = CrLf \o CrLf}
           e == EmptyLine(mail)
<1>1. S \in SUBSET Nat /\ \A i \in S : i \in 1 .. Len(stream)
  OBVIOUS
<1>2. (S = {} => k = 0) /\ (S # {} => k \in S)
  BY <1>1, LeastProperties
<1>3. Data = SubSeq(stream, 1, k - 1)
  BY DEF Data
<1>4. Len(stream) \in Nat /\ \A i \in 1 .. Len(stream) : stream[i] \in Bytes
  OBVIOUS
<1> HIDE DEF S, k
<1>5. k - 1 \in Int /\ k - 1 <= Len(stream)
  <2>1. CASE S = {}
    BY <1>2, <1>4, <2>1
  <2>2. CASE S # {}
    <3>1. k \in 1 .. Len(stream)
      BY <1>1, <1>2, <2>2
    <3> QED
      BY <1>4, <3>1
  <2> QED
    BY <2>1, <2>2
<1>6. \A i \in 1 .. k - 1 : stream[i] \in Bytes
  BY <1>4, <1>5
<1>7. Data \in Seq(Bytes)
  BY <1>3, <1>5, <1>6, SubSeqProperties
<1>8. mail \in Seq(Bytes)
  BY <1>7, UnstuffedSteps
<1> HIDE DEF mail
<1>9. Len(mail) \in Nat /\ \A i \in 1 .. Len(mail) : mail[i] \in Bytes
  BY <1>8
<1>10. P \in SUBSET Nat /\ \A p \in P : p + 4 <= Len(mail)
  BY <1>9
<1>11. (P = {} => e = Len(mail)) /\ (P # {} => e \in P)
  BY <1>10, LeastProperties DEF EmptyLine
<1> HIDE DEF P, e
<1>12. e \in Nat /\ e <= Len(mail)
  <2>1. CASE P = {}
    BY <1>9, <1>11, <2>1
  <2>2. CASE P # {}
    <3>1. e \in P /\ e \in Nat /\ e + 4 <= Len(mail)
      BY <1>10, <1>11, <2>2
    <3> QED
      BY <1>9, <3>1
  <2> QED
    BY <2>1, <2>2
<1>13. (\A i \in 1 .. e : mail[i] \in Bytes) /\ (\A i \in e + 5 .. Len(mail) : mail[i] \in Bytes)
  BY <1>9, <1>12
<1>14. SubSeq(mail, 1, e) \in Seq(Bytes) /\ SubSeq(mail, e + 5, Len(mail)) \in Seq(Bytes)
  BY <1>9, <1>12, <1>13, SubSeqProperties
<1> QED
  BY <1>7, <1>8, <1>14 DEF mail, e

-----------------------------------------------------------------------------
(* Writing: what is written before the end does not end the data. *)

Writing ==
  /\ body \in Seq(Bytes) /\ stream \in Seq(Bytes)
  /\ written \in Nat /\ start \in Nat
  /\ phase \in {"headers", "body", "written", "received"}
  /\ phase # "received" =>
       /\ start <= Len(body) /\ sent = <<>>
       /\ state # "parsed" => phase = "headers" /\ stream = <<>>

Sound ==
  phase # "received" /\ ~HasNul /\ NamesOnOneLine =>
    /\ phase \in {"headers", "body"} => NoEnd(stream) /\ ~LoneDot(stream)
    /\ phase = "headers" \/ (phase = "body" /\ start < Len(body)) => EndsLine(stream)
    /\ DataEndsOnce

IInv == Parsing /\ Writing /\ Sound

LEMMA InitIInv == Init => IInv
<1> SUFFICES ASSUME Init PROVE IInv
  OBVIOUS
<1>1. PICK mail \in Mails : text = mail[1] /\ body = mail[2]
  BY DEF Init
<1>2. text \in Seq(Bytes) /\ body \in Seq(Bytes)
  BY <1>1, MailsAssumption
<1>3. Parsing
  BY <1>2, ParsingStarts DEF Init
<1>4. Writing
  BY <1>2 DEF Init, Writing
<1>5. Sound
  BY DEF Init, Sound, NoEnd, LoneDot, EndsLine, DataEndsOnce
<1> QED
  BY <1>3, <1>4, <1>5 DEF IInv

\* As it is after a step.
Fresh == text \in Seq(Bytes) /\ line = 0 /\ lineEnd = 0 /\ fields = <<>> /\ state = "parsing"

LEMMA FreshNext == Fresh' => Parsing'
<1>1. Fresh => Parsing
  BY ParsingStarts DEF Fresh
<1> QED
  BY <1>1, PTL

LEMMA LoadPreserves ==
  ASSUME IInv, Load
  PROVE  IInv'
<1>1. Parsing'
  BY ParsePreserves DEF IInv, Load
<1>2. /\ state = "parsing"
      /\ UNCHANGED <<body, written, phase, start, stream, sent>>
  BY DEF Load, Parse, payloadVars
<1>3. Writing'
  BY <1>2 DEF IInv, Writing
<1>4. Sound'
  <2>1. phase # "received" => phase = "headers" /\ stream = <<>>
    BY <1>2 DEF IInv, Writing
  <2> QED
    BY <1>2, <2>1 DEF Sound, NoEnd, LoneDot, EndsLine, DataEndsOnce
<1> QED
  BY <1>1, <1>3, <1>4 DEF IInv

\* Where the headers and the body stay, what is said of them does.
LEMMA SameSource ==
  ASSUME UNCHANGED <<headerVars, body, sent>>
  PROVE  /\ Parsing' = Parsing /\ Content' = Content
         /\ HasNul' = HasNul /\ NamesOnOneLine' = NamesOnOneLine
<1>1. UNCHANGED <<text, line, lineEnd, fields, state, body, sent>>
  BY DEF headerVars
<1>2. Parsing' = Parsing
  BY <1>1 DEF Parsing, FieldsExact, SplitsAtFieldEnds, OnlyBlanksLost, FailsOnlyWithoutColon,
              InOrder, Trimmed, NonePassed, FieldEnds, CrLfAt, BlankAt, Byte
<1>3. Content' = Content
  BY <1>1 DEF Content, NameOf, ValueOf
<1> QED
  BY <1>1, <1>2, <1>3 DEF HasNul, NamesOnOneLine, Source

LEMMA WriteHeaderPreserves ==
  ASSUME IInv, WriteHeader
  PROVE  IInv'
<1> DEFINE i == written + 1
           f == fields[i]
           l == Line(Content[i])
<1>1. /\ phase = "headers" /\ state = "parsed" /\ written < Len(fields)
      /\ stream' = stream \o l /\ written' = written + 1
      /\ UNCHANGED <<headerVars, body, phase, start, sent>>
  BY DEF WriteHeader
<1>2. Parsing /\ Writing /\ fields \in Seq(Field)
  BY DEF IInv, Parsing
<1>3. i \in DOMAIN fields
  BY <1>1, <1>2 DEF Writing
<1>4. /\ Content[i] = <<NameOf(f), ValueOf(f)>>
      /\ NameOf(f) \in Seq(Bytes) /\ ValueOf(f) \in Seq(Bytes)
      /\ GoesOn(ValueOf(f))
  BY <1>2, <1>3, ContentIs, ValueGoesOn
<1>5. l = Printed(NameOf(f)) \o ColonBlank \o Printed(ValueOf(f)) \o CrLf
  BY <1>4 DEF Line, ColonBlank
<1>6. l \in Seq(Bytes)
  <2>1. ColonBlank \in Seq(Bytes) /\ CrLf \in Seq(Bytes)
    BY DEF ColonBlank, CrLf, Bytes
  <2>2. Printed(NameOf(f)) \in Seq(Bytes) /\ Printed(ValueOf(f)) \in Seq(Bytes)
    BY <1>4, PrintedIs
  <2> HIDE DEF l, f
  <2> QED
    BY <1>5, <2>1, <2>2
<1>7. Parsing' /\ Content' = Content /\ HasNul' = HasNul /\ NamesOnOneLine' = NamesOnOneLine
  BY <1>1, <1>2, SameSource
<1> HIDE DEF l, f
<1>8. stream' \in Seq(Bytes)
  BY <1>1, <1>2, <1>6 DEF Writing
<1>9. Writing'
  BY <1>1, <1>2, <1>8 DEF Writing, headerVars
<1>10. ASSUME ~HasNul, NamesOnOneLine
       PROVE  NoEnd(stream') /\ ~LoneDot(stream') /\ EndsLine(stream')
  <2>1. NoEnd(stream) /\ ~LoneDot(stream) /\ EndsLine(stream) /\ stream \in Seq(Bytes)
    BY <1>1, <1>2, <1>10 DEF IInv, Sound, Writing
  <2>2. Source[1] = Content /\ i \in DOMAIN Content
    BY <1>1, <1>2, <1>3 DEF Source, Writing, Content
  <2>3. Content[i][1] = NameOf(f) /\ Content[i][2] = ValueOf(f)
    BY <1>4
  <2>4. ~Contains(NameOf(f), "LF") /\ ~Contains(NameOf(f), "NUL") /\ ~Contains(ValueOf(f), "NUL")
    BY <1>10, <2>2, <2>3 DEF HasNul, NamesOnOneLine
  <2>5. l = NameOf(f) \o ColonBlank \o ValueOf(f) \o CrLf
    BY <1>4, <1>5, <2>4, PrintedIs
  <2>6. NoEnd(l) /\ EndsLine(l)
    BY <1>4, <2>4, <2>5, HeaderEndsNothing
  <2>7. ~LoneDot(l)
    BY <2>6 DEF EndsLine, LoneDot
  <2> QED
    BY <1>1, <1>6, <2>1, <2>6, <2>7, NoEndConcat
<1>11. Sound'
  BY <1>1, <1>7, <1>10 DEF Sound, DataEndsOnce
<1> QED
  BY <1>7, <1>9, <1>11 DEF IInv

LEMMA WriteEmptyLinePreserves ==
  ASSUME IInv, WriteEmptyLine
  PROVE  IInv'
<1>1. /\ phase = "headers" /\ state = "parsed"
      /\ stream' = stream \o CrLf /\ phase' = "body"
      /\ UNCHANGED <<headerVars, body, written, start, sent>>
  BY DEF WriteEmptyLine
<1>2. Parsing /\ Writing
  BY DEF IInv
<1>3. Parsing' /\ HasNul' = HasNul /\ NamesOnOneLine' = NamesOnOneLine
  BY <1>1, <1>2, SameSource
<1>4. stream \in Seq(Bytes) /\ CrLf \in Seq(Bytes)
  BY <1>2, CrLfIs DEF Writing
<1>5. stream' \in Seq(Bytes)
  BY <1>1, <1>4, ConcatProperties
<1>6. Writing'
  BY <1>1, <1>2, <1>5 DEF Writing, headerVars
<1>7. ASSUME ~HasNul, NamesOnOneLine
      PROVE  NoEnd(stream') /\ ~LoneDot(stream') /\ EndsLine(stream')
  <2>1. NoEnd(stream) /\ ~LoneDot(stream)
    BY <1>1, <1>7 DEF IInv, Sound
  <2> QED
    BY <1>1, <1>4, <2>1, LineEnded
<1>8. Sound'
  BY <1>1, <1>3, <1>7 DEF Sound, DataEndsOnce
<1> QED
  BY <1>3, <1>6, <1>8 DEF IInv

LEMMA WriteLinePreserves ==
  ASSUME IInv, WriteLine
  PROVE  IInv'
<1> DEFINE next == LineStart(LineEnd)
           st == Stuffing(LineEnd)
           p == SubSeq(body, start + 1, next)
<1>1. /\ phase = "body" /\ start < Len(body)
      /\ start' = next
      /\ stream' = stream \o st \o Printed(p)
      /\ UNCHANGED <<headerVars, body, written, phase, sent>>
  BY DEF WriteLine
<1>2. Parsing /\ Writing /\ body \in Seq(Bytes) /\ start \in Nat /\ stream \in Seq(Bytes)
  BY DEF IInv, Writing
<1>3. Parsing' /\ HasNul' = HasNul /\ NamesOnOneLine' = NamesOnOneLine
  BY <1>1, <1>2, SameSource
<1>4. /\ Piece \in Seq(Bytes) /\ Stuffed \in Seq(Bytes) /\ PieceEnd \in {<<>>, CrLf}
      /\ PieceEnd \in Seq(Bytes) /\ st \in Seq(Bytes)
      /\ next \in Nat /\ start < next /\ next <= Len(body)
      /\ p = Piece \o PieceEnd
      /\ next < Len(body) => PieceEnd = CrLf
      /\ \A k \in 1 .. Len(Stuffed) - 1 : ~(Stuffed[k] = "CR" /\ Stuffed[k + 1] = "LF")
      /\ Stuffed # <<".">>
  BY <1>1, <1>2, PieceProperties
<1>5. Stuffed = st \o Piece
  BY DEF Stuffed
<1> HIDE DEF next, st, p
<1>6. p \in Seq(Bytes)
  BY <1>4, ConcatProperties
<1>7. stream' \in Seq(Bytes)
  <2>1. Printed(p) \in Seq(Bytes)
    BY <1>6, PrintedIs
  <2>2. stream \o st \in Seq(Bytes)
    BY <1>2, <1>4, ConcatProperties
  <2> QED
    BY <1>1, <2>1, <2>2, ConcatProperties
<1>8. Writing'
  BY <1>1, <1>2, <1>4, <1>7 DEF Writing, headerVars
<1>9. ASSUME ~HasNul, NamesOnOneLine
      PROVE  NoEnd(stream') /\ ~LoneDot(stream') /\ (next < Len(body) => EndsLine(stream'))
  <2>1. NoEnd(stream) /\ ~LoneDot(stream) /\ EndsLine(stream)
    BY <1>1, <1>9 DEF IInv, Sound
  <2>2. stream' = stream \o Stuffed \o PieceEnd
    <3>1. Printed(p) = p
      <4>1. ~Contains(body, "NUL")
        BY <1>1, <1>2, <1>9 DEF HasNul, Source, Writing
      <4>2. ~Contains(p, "NUL")
        <5>1. /\ Len(p) = next - start /\ \A k \in 1 .. next - start : p[k] = body[start + k]
          <6>1. start \in Nat /\ next \in Nat /\ start <= next /\ next <= Len(body) /\ body \in Seq(Bytes)
            BY <1>2, <1>4
          <6> QED
            BY <6>1, PieceIs DEF p
        <5>2. \A k \in 1 .. next - start : start + k \in 1 .. Len(body)
          BY <1>2, <1>4
        <5> QED
          BY <4>1, <5>1, <5>2 DEF Contains
      <4> QED
        BY <1>6, <4>2, PrintedIs
    <3>2. stream \o st \in Seq(Bytes)
      BY <1>2, <1>4, ConcatProperties
    <3>3. Piece \in Seq(Bytes) /\ PieceEnd \in Seq(Bytes) /\ st \in Seq(Bytes)
      BY <1>4
    <3>4. (stream \o st) \o (Piece \o PieceEnd) = ((stream \o st) \o Piece) \o PieceEnd
      <4> DEFINE a == stream \o st
      <4>1. a \in Seq(Bytes)
        BY <3>2
      <4> HIDE DEF a
      <4>2. a \o (Piece \o PieceEnd) = (a \o Piece) \o PieceEnd
        BY <3>3, <4>1, BytesConcat
      <4> QED
        BY <4>2 DEF a
    <3>5. (stream \o st) \o Piece = stream \o Stuffed
      <4> DEFINE q == Piece
      <4>1. stream \in Seq(Bytes) /\ st \in Seq(Bytes) /\ q \in Seq(Bytes)
        BY <1>2, <3>3
      <4> HIDE DEF q
      <4>2. (stream \o st) \o q = stream \o (st \o q)
        BY <4>1, BytesConcat
      <4> QED
        BY <1>5, <4>2 DEF q
    <3> QED
      BY <1>1, <1>4, <3>1, <3>4, <3>5
  <2> DEFINE r == stream \o Stuffed
  <2>3. r \in Seq(Bytes)
    BY <1>2, <1>4, ConcatProperties
  <2>4. NoEnd(Stuffed) /\ ~LoneDot(Stuffed)
    BY <1>4, LineIs
  <2>5. NoEnd(r) /\ ~LoneDot(r)
    BY <1>2, <1>4, <2>1, <2>4, NoEndConcat
  <2> HIDE DEF r
  <2>6. CASE PieceEnd = CrLf
    BY <2>2, <2>3, <2>5, <2>6, LineEnded DEF r
  <2>7. CASE PieceEnd = <<>> /\ PieceEnd # CrLf
    <3>1. stream' = r
      BY <2>2, <2>3, <2>7, ConcatEmptySeq DEF r
    <3> QED
      BY <1>4, <2>5, <2>7, <3>1
  <2> QED
    BY <1>4, <2>6, <2>7
<1>10. Sound'
  BY <1>1, <1>3, <1>9 DEF Sound, DataEndsOnce
<1> QED
  BY <1>3, <1>8, <1>10 DEF IInv

LEMMA WriteEndPreserves ==
  ASSUME IInv, WriteEnd
  PROVE  IInv'
<1>1. /\ phase = "body" /\ start = Len(body)
      /\ stream' = stream \o CrLf \o <<".">> \o CrLf
      /\ phase' = "written"
      /\ UNCHANGED <<headerVars, body, written, start, sent>>
  BY DEF WriteEnd
<1>2. Parsing /\ Writing /\ stream \in Seq(Bytes)
  BY DEF IInv, Writing
<1>3. Parsing' /\ HasNul' = HasNul /\ NamesOnOneLine' = NamesOnOneLine
  BY <1>1, <1>2, SameSource
<1>4. stream' \in Seq(Bytes)
  <2>1. CrLf \in Seq(Bytes) /\ <<".">> \in Seq(Bytes)
    BY CrLfIs DEF Bytes
  <2> QED
    BY <1>1, <1>2, <2>1
<1>5. Writing'
  BY <1>1, <1>2, <1>4 DEF Writing, headerVars
<1>6. ASSUME ~HasNul, NamesOnOneLine
      PROVE  \A i \in DOMAIN stream' : EndsAt(stream', i) <=> i = Len(stream') - 2
  <2>1. NoEnd(stream) /\ ~LoneDot(stream)
    BY <1>1, <1>6 DEF IInv, Sound
  <2>2. NoEnd(stream \o CrLf) /\ EndsLine(stream \o CrLf) /\ stream \o CrLf \in Seq(Bytes)
    BY <1>2, <2>1, LineEnded, CrLfIs, ConcatProperties
  <2> QED
    BY <1>1, <2>2, DataEnded
<1>7. Sound'
  <2>1. DataEndsOnce'
    BY <1>3, <1>6 DEF DataEndsOnce
  <2> QED
    BY <1>1, <2>1 DEF Sound
<1> QED
  BY <1>3, <1>5, <1>7 DEF IInv

LEMMA ReceivePreserves ==
  ASSUME IInv, Receive
  PROVE  IInv'
<1>1. stream \in Seq(Bytes) /\ Writing
  BY DEF IInv, Writing
<1>2. text' \in Seq(Bytes) /\ body' \in Seq(Bytes)
  BY <1>1, ReceivedType DEF Receive
<1>3. /\ line' = 0 /\ lineEnd' = 0 /\ fields' = <<>> /\ state' = "parsing"
      /\ phase' = "received" /\ UNCHANGED <<written, start, stream>>
  BY DEF Receive
<1>4. Parsing'
  BY <1>2, <1>3, FreshNext DEF Fresh
<1>5. Writing'
  BY <1>1, <1>2, <1>3 DEF Writing
<1>6. Sound'
  BY <1>3 DEF Sound
<1> QED
  BY <1>4, <1>5, <1>6 DEF IInv

LEMMA StepIInv == IInv /\ [Next]_vars => IInv'
<1> SUFFICES ASSUME IInv, [Next]_vars PROVE IInv'
  OBVIOUS
<1>1. CASE Load
  BY <1>1, LoadPreserves
<1>2. CASE WriteHeader
  BY <1>2, WriteHeaderPreserves
<1>3. CASE WriteEmptyLine
  BY <1>3, WriteEmptyLinePreserves
<1>4. CASE WriteLine
  BY <1>4, WriteLinePreserves
<1>5. CASE WriteEnd
  BY <1>5, WriteEndPreserves
<1>6. CASE Receive
  BY <1>6, ReceivePreserves
<1>7. CASE UNCHANGED vars
  <2>1. UNCHANGED <<headerVars, body, sent>> /\ UNCHANGED <<state, written, phase, start, stream>>
    BY <1>7 DEF vars, headerVars, payloadVars
  <2>2. Parsing' /\ HasNul' = HasNul /\ NamesOnOneLine' = NamesOnOneLine
    BY <2>1, SameSource DEF IInv
  <2> QED
    BY <2>1, <2>2 DEF IInv, Writing, Sound, DataEndsOnce
<1> QED
  BY <1>1, <1>2, <1>3, <1>4, <1>5, <1>6, <1>7 DEF Next

-----------------------------------------------------------------------------
(* What comes out when the dots are taken out of what was written. *)

LEMMA AppendConcat ==
  ASSUME NEW s \in Seq(Bytes), NEW t \in Seq(Bytes), NEW c \in Bytes
  PROVE  s \o Append(t, c) = Append(s \o t, c)
<1>1. <<c>> \in Seq(Bytes)
  OBVIOUS
<1>2. Append(t, c) = t \o <<c>>
  BY AppendIsConcat
<1>3. s \o t \in Seq(Bytes)
  BY ConcatProperties
<1>4. Append(s \o t, c) = (s \o t) \o <<c>>
  BY <1>3, AppendIsConcat
<1>5. (s \o t) \o <<c>> = s \o (t \o <<c>>)
  BY <1>1, BytesConcat
<1> QED
  BY <1>2, <1>4, <1>5

\* After a line's end the dots are those of what follows.
LEMMA UnstuffedConcat ==
  ASSUME NEW s \in Seq(Bytes), EndsLine(s), NEW t \in Seq(Bytes)
  PROVE  Unstuffed(s \o t) = Unstuffed(s) \o Unstuffed(t)
<1> DEFINE P == {r \in Seq(Bytes) : Unstuffed(s \o r) = Unstuffed(s) \o Unstuffed(r)}
<1>1. Unstuffed(s) \in Seq(Bytes)
  BY UnstuffedSteps
<1>2. <<>> \in P
  <2>1. s \o <<>> = s /\ Unstuffed(s) \o <<>> = Unstuffed(s)
    BY <1>1, ConcatEmptySeq
  <2> QED
    BY <2>1, UnstuffedSteps
<1>3. ASSUME NEW r \in Seq(Bytes), NEW c \in Bytes, r \in P
      PROVE  Append(r, c) \in P
  <2> DEFINE q == s \o r
  <2>1. /\ q \in Seq(Bytes) /\ Unstuffed(r) \in Seq(Bytes) /\ Append(r, c) \in Seq(Bytes)
        /\ Len(q) = Len(s) + Len(r) /\ Len(r) \in Nat /\ Len(s) \in Nat
    BY UnstuffedSteps, ConcatProperties, AppendProperties
  <2>2. LineBegins(q, Len(s) + (Len(r) + 1)) <=> LineBegins(r, Len(r) + 1)
    BY <2>1, LineBeginsConcat
  <2>3. Len(q) + 1 = Len(s) + (Len(r) + 1)
    BY <2>1
  <2>4. s \o Append(r, c) = Append(q, c)
    BY AppendConcat
  <2>5. Unstuffed(q) = Unstuffed(s) \o Unstuffed(r)
    BY <1>3
  <2> HIDE DEF q
  <2>6. Dot(q, c) <=> Dot(r, c)
    BY <2>2, <2>3 DEF Dot
  <2>7. /\ Unstuffed(Append(q, c)) = IF Dot(q, c) THEN Unstuffed(q) ELSE Append(Unstuffed(q), c)
        /\ Unstuffed(Append(r, c)) = IF Dot(r, c) THEN Unstuffed(r) ELSE Append(Unstuffed(r), c)
    BY <2>1, UnstuffedSteps
  <2>8. Unstuffed(s) \o Append(Unstuffed(r), c) = Append(Unstuffed(s) \o Unstuffed(r), c)
    BY <1>1, <2>1, AppendConcat
  <2>9. Unstuffed(Append(q, c)) = Unstuffed(s) \o Unstuffed(Append(r, c))
    BY <2>5, <2>6, <2>7, <2>8
  <2> QED
    BY <2>1, <2>4, <2>9
<1> HIDE DEF P
<1>4. Seq(Bytes) \subseteq P
  BY <1>2, <1>3, SeqInduction
<1> QED
  BY <1>4 DEF P

\* Where no dot begins a line there is nothing to take out.
Undotted(s) == \A i \in 1 .. Len(s) : LineBegins(s, i) => s[i] # "."

LEMMA UndottedSame ==
  ASSUME NEW t \in Seq(Bytes), Undotted(t)
  PROVE  Unstuffed(t) = t
<1> DEFINE P == {r \in Seq(Bytes) : Undotted(r) => Unstuffed(r) = r}
<1>1. <<>> \in P
  BY UnstuffedSteps
<1>2. ASSUME NEW r \in Seq(Bytes), NEW c \in Bytes, r \in P
      PROVE  Append(r, c) \in P
  <2> DEFINE q == Append(r, c)
             n == Len(r)
  <2>1. /\ q \in Seq(Bytes) /\ Len(q) = n + 1 /\ n \in Nat /\ q[n + 1] = c
        /\ \A i \in 1 .. n : q[i] = r[i]
    BY AppendProperties
  <2>2. <<c>> \in Seq(Bytes) /\ q = r \o <<c>>
    BY AppendIsConcat
  <2>3. \A i \in 1 .. n + 1 : LineBegins(q, i) <=> LineBegins(r, i)
    <3>1. \A i \in 1 .. Len(r) + 1 : LineBegins(r \o <<c>>, i) <=> LineBegins(r, i)
      BY <2>2, LineBeginsConcat
    <3> QED
      BY <2>2, <3>1
  <2>4. Unstuffed(q) = IF Dot(r, c) THEN Unstuffed(r) ELSE Append(Unstuffed(r), c)
    BY UnstuffedSteps
  <2> HIDE DEF q, n
  <2>5. ASSUME Undotted(q) PROVE Undotted(r) /\ ~Dot(r, c)
    <3>1. n + 1 \in 1 .. n + 1 /\ \A i \in 1 .. n : i \in 1 .. n + 1
      BY <2>1
    <3> QED
      BY <2>1, <2>3, <2>5, <3>1 DEF Undotted, Dot, n
  <2> QED
    BY <1>2, <2>1, <2>4, <2>5 DEF q
<1> HIDE DEF P
<1>3. Seq(Bytes) \subseteq P
  BY <1>1, <1>2, SeqInduction
<1> QED
  BY <1>3 DEF P

LEMMA UnstuffedCrLf ==
  ASSUME NEW s \in Seq(Bytes)
  PROVE  Unstuffed(s \o CrLf) = Unstuffed(s) \o CrLf
<1>1. "CR" \in Bytes /\ "LF" \in Bytes
  BY DEF Bytes
<1>2. ASSUME NEW r \in Seq(Bytes) PROVE r \o CrLf = Append(Append(r, "CR"), "LF")
  <2>1. <<>> \in Seq(Bytes) /\ Append(<<>>, "CR") \in Seq(Bytes)
    BY <1>1
  <2>2. CrLf = Append(Append(<<>>, "CR"), "LF")
    BY DEF CrLf
  <2>3. r \o Append(Append(<<>>, "CR"), "LF") = Append(r \o Append(<<>>, "CR"), "LF")
    BY <1>1, <2>1, AppendConcat
  <2>4. r \o Append(<<>>, "CR") = Append(r \o <<>>, "CR")
    BY <1>1, <2>1, AppendConcat
  <2>5. r \o <<>> = r
    BY ConcatEmptySeq
  <2> QED
    BY <2>2, <2>3, <2>4, <2>5
<1>3. ASSUME NEW r \in Seq(Bytes), NEW c \in {"CR", "LF"}
      PROVE  Append(r, c) \in Seq(Bytes) /\ Unstuffed(Append(r, c)) = Append(Unstuffed(r), c)
  <2>1. c \in Bytes /\ ~Dot(r, c)
    BY <1>1 DEF Dot
  <2> QED
    BY <2>1, UnstuffedSteps, AppendProperties
<1>4. Unstuffed(s) \in Seq(Bytes)
  BY UnstuffedSteps
<1>5. Unstuffed(Append(Append(s, "CR"), "LF")) = Append(Append(Unstuffed(s), "CR"), "LF")
  <2>1. Append(s, "CR") \in Seq(Bytes) /\ Unstuffed(Append(s, "CR")) = Append(Unstuffed(s), "CR")
    BY <1>3
  <2> QED
    BY <1>3, <2>1
<1> QED
  BY <1>2, <1>4, <1>5

LEMMA UnstuffedDots == Unstuffed(<<".", ".">>) = <<".">>
<1>1. "." \in Bytes /\ <<>> \in Seq(Bytes) /\ <<".">> \in Seq(Bytes)
  BY DEF Bytes
<1>2. <<".">> = Append(<<>>, ".") /\ <<".", ".">> = Append(<<".">>, ".")
  OBVIOUS
<1>3. Dot(<<>>, ".") /\ ~Dot(<<".">>, ".")
  BY DEF Dot, LineBegins
<1>4. Unstuffed(<<".">>) = <<>>
  BY <1>1, <1>2, <1>3, UnstuffedSteps
<1>5. Unstuffed(<<".", ".">>) = Append(<<>>, ".")
  BY <1>1, <1>2, <1>3, <1>4, UnstuffedSteps
<1> QED
  BY <1>2, <1>5

-----------------------------------------------------------------------------
(* Headers as they are written, one after the other. *)

Blank == {"SP", "NUL"}
HeaderLine(c) == c[1] \o ColonBlank \o c[2]

\* Names and values that the parser may have cut out and that get through.
GoodName(n) ==
  /\ n \in Seq(Bytes)
  /\ ~Contains(n, ":") /\ ~Contains(n, "LF")
  /\ n # <<>> => n[Len(n)] \notin Blank

GoodValue(v) ==
  /\ v \in Seq(Bytes)
  /\ v # <<>> => v[1] \notin Blank /\ v[Len(v)] \notin Blank /\ v[Len(v)] # "LF"
  /\ GoesOn(v)

Good(C) ==
  /\ C # <<>> /\ Len(C) \in Nat /\ C = [i \in 1 .. Len(C) |-> <<C[i][1], C[i][2]>>]
  /\ \A i \in 1 .. Len(C) :
       /\ GoodName(C[i][1]) /\ GoodValue(C[i][2])
       /\ i > 1 /\ C[i][1] # <<>> => C[i][1][1] \notin Blank

\* s is made of the first w headers of C, the i-th of which begins at off[i].
Laid(s, C, w, off) ==
  /\ off \in [1 .. w + 1 -> Nat]
  /\ off[1] = 0 /\ off[w + 1] = Len(s)
  /\ \A i \in 1 .. w :
       LET h == HeaderLine(C[i])
       IN  /\ h \in Seq(Bytes)
           /\ off[i + 1] = off[i] + Len(h) + 2
           /\ \A j \in 1 .. Len(h) : s[off[i] + j] = h[j]
           /\ s[off[i] + Len(h) + 1] = "CR" /\ s[off[i] + Len(h) + 2] = "LF"

LEMMA CrLfAfter ==
  ASSUME NEW s \in Seq(Bytes)
  PROVE  /\ s \o CrLf \in Seq(Bytes) /\ Len(s \o CrLf) = Len(s) + 2 /\ Len(s) \in Nat
         /\ \A j \in 1 .. Len(s) : (s \o CrLf)[j] = s[j]
         /\ (s \o CrLf)[Len(s) + 1] = "CR" /\ (s \o CrLf)[Len(s) + 2] = "LF"
<1> DEFINE n == Len(s)
           r == s \o CrLf
<1>1. 1 \in 1 .. Len(CrLf) /\ 2 \in 1 .. Len(CrLf) /\ CrLf \in Seq(Bytes)
  BY CrLfIs
<1>2. /\ r \in Seq(Bytes) /\ Len(r) = n + Len(CrLf) /\ n \in Nat
      /\ \A j \in 1 .. n : r[j] = s[j]
      /\ \A j \in 1 .. Len(CrLf) : r[n + j] = CrLf[j]
  <2>1. CrLf \in Seq(Bytes)
    BY <1>1
  <2> QED
    BY <2>1, ConcatIs
<1> HIDE DEF r, n
<1>3. /\ r \in Seq(Bytes) /\ Len(r) = n + 2 /\ n \in Nat
      /\ \A j \in 1 .. n : r[j] = s[j]
      /\ r[n + 1] = "CR" /\ r[n + 2] = "LF"
  BY <1>1, <1>2, CrLfIs
<1> QED
  BY <1>3 DEF r, n

\* What is known of one header's line.
LEMMA HeaderLineIs ==
  ASSUME NEW c, GoodName(c[1]), GoodValue(c[2])
  PROVE  LET h == HeaderLine(c)
             n == Len(c[1])
             m == Len(c[2])
         IN  /\ h \in Seq(Bytes) /\ Len(h) = n + 2 + m /\ n \in Nat /\ m \in Nat
             /\ \A j \in 1 .. n : h[j] = c[1][j] /\ h[j] # ":" /\ h[j] # "LF"
             /\ h[n + 1] = ":" /\ h[n + 2] = "SP"
             /\ \A j \in 1 .. m : h[n + 2 + j] = c[2][j]
             /\ h[Len(h)] # "LF"
             /\ ~(h[1] = "CR" /\ h[2] = "LF")
             /\ \A k \in 1 .. Len(h) - 1 : h[k] = "CR" /\ h[k + 1] = "LF" =>
                  k + 2 <= Len(h) /\ h[k + 2] \in Blank
<1> DEFINE h == HeaderLine(c)
           n == Len(c[1])
           m == Len(c[2])
           v == c[2]
<1>1. /\ h \in Seq(Bytes) /\ Len(h) = n + 2 + m
      /\ \A j \in 1 .. n : h[j] = c[1][j]
      /\ h[n + 1] = ":" /\ h[n + 2] = "SP"
      /\ \A j \in 1 .. m : h[n + 2 + j] = v[j]
  BY HeaderIs DEF GoodName, GoodValue, HeaderLine
<1>2. n \in Nat /\ m \in Nat
  BY DEF GoodName, GoodValue
<1>3. \A j \in 1 .. n : h[j] # ":" /\ h[j] # "LF"
  BY <1>1 DEF GoodName, Contains
<1>4. m # 0 => v[m] # "LF"
  BY DEF GoodValue
<1>5. \A k \in 1 .. m - 2 : v[k] = "CR" /\ v[k + 1] = "LF" => v[k + 2] \in Blank
  BY DEF GoodValue, GoesOn, Blank
<1> HIDE DEF h, n, m, v
<1>6. h[Len(h)] # "LF"
  <2>1. CASE m = 0
    <3>1. Len(h) = n + 2
      BY <1>1, <1>2, <2>1
    <3> QED
      BY <1>1, <3>1
  <2>2. CASE m # 0
    <3>1. m \in 1 .. m
      BY <1>2, <2>2
    <3>2. h[n + 2 + m] = v[m]
      BY <1>1, <3>1
    <3> QED
      BY <1>1, <1>4, <2>2, <3>2
  <2> QED
    BY <2>1, <2>2
<1>7. ~(h[1] = "CR" /\ h[2] = "LF")
  <2>1. CASE n = 0 \/ n = 1
    BY <1>1, <2>1
  <2>2. CASE n # 0 /\ n # 1
    <3>1. 2 \in 1 .. n
      BY <1>2, <2>2
    <3> QED
      BY <1>3, <3>1
  <2> QED
    BY <2>1, <2>2
<1>8. ASSUME NEW k \in 1 .. Len(h) - 1, h[k] = "CR", h[k + 1] = "LF"
      PROVE  k + 2 <= Len(h) /\ h[k + 2] \in Blank
  <2>1. k \in Int /\ 1 <= k /\ k + 1 <= n + 2 + m
    BY <1>1, <1>2
  <2>2. CASE k + 1 <= n
    <3>1. k + 1 \in 1 .. n
      BY <1>2, <2>1, <2>2
    <3> QED
      BY <1>3, <1>8, <3>1
  <2>3. CASE k + 1 = n + 1 \/ k + 1 = n + 2 \/ k + 1 = n + 3
    <3>1. k + 1 = n + 3 => k = n + 2
      BY <1>2, <2>1
    <3> QED
      BY <1>1, <1>8, <2>3, <3>1
  <2>4. CASE k + 1 > n + 3
    <3> DEFINE i == k - n - 2
    <3>1. i \in 1 .. m /\ i + 1 \in 1 .. m /\ k = n + 2 + i /\ k + 1 = n + 2 + (i + 1)
      BY <1>2, <2>1, <2>4
    <3> HIDE DEF i
    <3>2. v[i] = "CR" /\ v[i + 1] = "LF"
      BY <1>1, <1>8, <3>1
    <3>3. i + 1 # m
      BY <1>2, <1>4, <3>1, <3>2
    <3>4. i \in 1 .. m - 2 /\ i + 2 \in 1 .. m /\ k + 2 = n + 2 + (i + 2) /\ k + 2 <= n + 2 + m
      BY <1>2, <3>1, <3>3
    <3>5. h[k + 2] = v[i + 2] /\ v[i + 2] \in Blank
      BY <1>1, <1>5, <3>2, <3>4
    <3> QED
      BY <1>1, <3>4, <3>5
  <2> QED
    BY <1>2, <2>1, <2>2, <2>3, <2>4
<1> QED
  BY <1>1, <1>2, <1>3, <1>6, <1>7, <1>8 DEF h, n, m, v

LEMMA OffsetsGrow ==
  ASSUME NEW s, NEW C, NEW w \in Nat, NEW off, Laid(s, C, w, off)
  PROVE  \A i \in 1 .. w, j \in 1 .. w + 1 : i < j => off[i + 1] <= off[j]
<1> DEFINE S == {j \in 1 .. w + 1 : \A i \in 1 .. w : i < j => off[i + 1] <= off[j]}
<1>1. off \in [1 .. w + 1 -> Nat]
  BY DEF Laid
<1>2. \A i \in 1 .. w : i \in 1 .. w + 1 /\ i + 1 \in 1 .. w + 1
  OBVIOUS
<1>3. ASSUME NEW i \in 1 .. w PROVE off[i] \in Nat /\ off[i + 1] \in Nat /\ off[i] <= off[i + 1]
  <2> DEFINE n == Len(HeaderLine(C[i]))
  <2>1. n \in Nat /\ off[i + 1] = off[i] + n + 2
    BY DEF Laid
  <2> HIDE DEF n
  <2> QED
    BY <1>1, <1>2, <2>1
<1>4. 1 \in S
  OBVIOUS
<1>5. ASSUME NEW j \in S, j \in 1 .. (w + 1) - 1 PROVE j + 1 \in S
  <2>1. j \in 1 .. w /\ j + 1 \in 1 .. w + 1
    BY <1>5
  <2>2. ASSUME NEW i \in 1 .. w, i < j + 1 PROVE off[i + 1] <= off[j + 1]
    <3>1. CASE i = j
      BY <1>3, <3>1
    <3>2. CASE i < j
      <4>1. off[i + 1] <= off[j]
        BY <1>5, <3>2
      <4> QED
        BY <1>3, <2>1, <4>1
    <3> QED
      BY <2>1, <2>2, <3>1, <3>2
  <2> QED
    BY <2>1, <2>2
<1> HIDE DEF S
<1>6. 1 .. w + 1 \subseteq S
  BY <1>4, <1>5, PlaceInduction
<1> QED
  BY <1>6 DEF S

\* Every byte is one of some header's line.
LEMMA Covered ==
  ASSUME NEW s, NEW C, NEW w \in Nat, NEW off, Laid(s, C, w, off)
  PROVE  \A p \in Nat : p < Len(s) => \E i \in 1 .. w : off[i] <= p /\ p < off[i + 1]
<1> DEFINE B(j) == \A p \in Nat : p < off[j] => \E i \in 1 .. w : off[i] <= p /\ p < off[i + 1]
           S == {j \in 1 .. w + 1 : B(j)}
<1>1. off \in [1 .. w + 1 -> Nat] /\ off[1] = 0 /\ off[w + 1] = Len(s)
  BY DEF Laid
<1>2. 1 \in S
  BY <1>1
<1>3. ASSUME NEW j \in S, j \in 1 .. (w + 1) - 1 PROVE j + 1 \in S
  <2>1. j \in 1 .. w /\ j + 1 \in 1 .. w + 1
    BY <1>3
  <2>2. ASSUME NEW p \in Nat, p < off[j + 1]
        PROVE  \E i \in 1 .. w : off[i] <= p /\ p < off[i + 1]
    <3>1. CASE p < off[j]
      BY <1>3, <3>1
    <3>2. CASE ~(p < off[j])
      <4>1. off[j] \in Nat /\ off[j] <= p
        BY <1>1, <2>1, <3>2
      <4> QED
        BY <2>1, <2>2, <4>1
    <3> QED
      BY <3>1, <3>2
  <2> QED
    BY <2>1, <2>2
<1> HIDE DEF S
<1>4. 1 .. w + 1 \subseteq S
  BY <1>2, <1>3, PlaceInduction
<1>5. B(w + 1)
  BY <1>4 DEF S
<1> QED
  BY <1>1, <1>5

\* One header more.
LEMMA LaidNext ==
  ASSUME NEW s \in Seq(Bytes), NEW C, NEW w \in Nat, NEW off, Laid(s, C, w, off),
         HeaderLine(C[w + 1]) \in Seq(Bytes)
  PROVE  \E off2 : Laid(s \o (HeaderLine(C[w + 1]) \o CrLf), C, w + 1, off2)
<1> DEFINE h == HeaderLine(C[w + 1])
           l == h \o CrLf
           r == s \o l
           n == Len(s)
           m == Len(h)
           off2 == [i \in 1 .. w + 2 |-> IF i = w + 2 THEN n + m + 2 ELSE off[i]]
<1>1. /\ l \in Seq(Bytes) /\ Len(l) = m + 2 /\ m \in Nat
      /\ \A j \in 1 .. m : l[j] = h[j]
      /\ l[m + 1] = "CR" /\ l[m + 2] = "LF"
  BY CrLfAfter
<1> HIDE DEF h, l, m
<1>2. /\ r \in Seq(Bytes) /\ Len(r) = n + Len(l) /\ n \in Nat
      /\ \A j \in 1 .. n : r[j] = s[j]
      /\ \A j \in 1 .. Len(l) : r[n + j] = l[j]
  <2>1. l \in Seq(Bytes)
    BY <1>1
  <2> QED
    BY <2>1, ConcatIs
<1>3. /\ off \in [1 .. w + 1 -> Nat] /\ off[1] = 0 /\ off[w + 1] = n
      /\ \A i \in 1 .. w :
           /\ HeaderLine(C[i]) \in Seq(Bytes)
           /\ off[i + 1] = off[i] + Len(HeaderLine(C[i])) + 2
           /\ \A j \in 1 .. Len(HeaderLine(C[i])) : s[off[i] + j] = HeaderLine(C[i])[j]
           /\ s[off[i] + Len(HeaderLine(C[i])) + 1] = "CR"
           /\ s[off[i] + Len(HeaderLine(C[i])) + 2] = "LF"
  BY DEF Laid
<1> HIDE DEF r, n
<1>4. /\ m + 1 \in 1 .. Len(l) /\ m + 2 \in 1 .. Len(l) /\ \A j \in 1 .. m : j \in 1 .. Len(l)
      /\ n + m + 1 = n + (m + 1) /\ n + m + 2 = n + (m + 2)
  BY <1>1, <1>2
<1>5. /\ Len(r) = n + m + 2
      /\ \A j \in 1 .. m : r[n + j] = h[j]
      /\ r[n + m + 1] = "CR" /\ r[n + m + 2] = "LF"
  BY <1>1, <1>2, <1>4
<1>6. /\ off2 \in [1 .. w + 2 -> Nat] /\ off2[w + 2] = n + m + 2
      /\ \A i \in 1 .. w + 1 : off2[i] = off[i]
  <2>1. \A i \in 1 .. w + 1 : i \in 1 .. w + 2 /\ i # w + 2 /\ off[i] \in Nat
    BY <1>3
  <2>2. w + 2 \in 1 .. w + 2 /\ n + m + 2 \in Nat /\ \A i \in 1 .. w + 2 : i = w + 2 \/ i \in 1 .. w + 1
    BY <1>1, <1>2
  <2> QED
    BY <2>1, <2>2
<1> HIDE DEF off2
<1>7. 1 \in 1 .. w + 1 /\ w + 1 \in 1 .. w + 1
  OBVIOUS
<1>8. ASSUME NEW i \in 1 .. w
      PROVE  /\ off2[i + 1] = off2[i] + Len(HeaderLine(C[i])) + 2
             /\ \A j \in 1 .. Len(HeaderLine(C[i])) : r[off2[i] + j] = HeaderLine(C[i])[j]
             /\ r[off2[i] + Len(HeaderLine(C[i])) + 1] = "CR"
             /\ r[off2[i] + Len(HeaderLine(C[i])) + 2] = "LF"
  <2> DEFINE k == Len(HeaderLine(C[i]))
  <2>1. i \in 1 .. w + 1 /\ i + 1 \in 1 .. w + 1
    OBVIOUS
  <2>2. off2[i] = off[i] /\ off2[i + 1] = off[i + 1] /\ off[i] \in Nat /\ off[i + 1] \in Nat
    BY <1>3, <1>6, <2>1
  <2>3. /\ off[i + 1] = off[i] + k + 2
        /\ \A j \in 1 .. k : s[off[i] + j] = HeaderLine(C[i])[j]
        /\ s[off[i] + k + 1] = "CR" /\ s[off[i] + k + 2] = "LF"
    BY <1>3
  <2>4. off[i + 1] <= n
    <3>1. w + 1 \in 1 .. w + 1 /\ i < w + 1
      OBVIOUS
    <3> QED
      BY <1>3, <3>1, OffsetsGrow
  <2>5. k \in Nat /\ off[i] + k + 2 <= n
    BY <1>2, <1>3, <2>2, <2>3, <2>4
  <2> HIDE DEF k
  <2>6. /\ \A j \in 1 .. k : off[i] + j \in 1 .. n
        /\ off[i] + k + 1 \in 1 .. n /\ off[i] + k + 2 \in 1 .. n
    <3> DEFINE o == off[i]
    <3>1. o \in Nat /\ k \in Nat /\ n \in Nat /\ o + k + 2 <= n
      BY <1>2, <2>2, <2>5
    <3> HIDE DEF o
    <3>2. /\ \A j \in 1 .. k : o + j \in 1 .. n
          /\ o + k + 1 \in 1 .. n /\ o + k + 2 \in 1 .. n
      BY <3>1
    <3> QED
      BY <3>2 DEF o
  <2>7. /\ \A j \in 1 .. k : r[off[i] + j] = HeaderLine(C[i])[j]
        /\ r[off[i] + k + 1] = "CR" /\ r[off[i] + k + 2] = "LF"
    BY <1>2, <2>3, <2>6
  <2> QED
    BY <2>2, <2>3, <2>7 DEF k
<1>9. ASSUME NEW i \in 1 .. w + 1
      PROVE  /\ HeaderLine(C[i]) \in Seq(Bytes)
             /\ off2[i + 1] = off2[i] + Len(HeaderLine(C[i])) + 2
             /\ \A j \in 1 .. Len(HeaderLine(C[i])) : r[off2[i] + j] = HeaderLine(C[i])[j]
             /\ r[off2[i] + Len(HeaderLine(C[i])) + 1] = "CR"
             /\ r[off2[i] + Len(HeaderLine(C[i])) + 2] = "LF"
  <2>1. CASE i \in 1 .. w
    BY <1>3, <1>8, <2>1
  <2>2. CASE i = w + 1
    <3>1. off2[w + 1] = n /\ off2[(w + 1) + 1] = n + m + 2
      <4>1. (w + 1) + 1 = w + 2
        OBVIOUS
      <4> QED
        BY <1>3, <1>6, <1>7, <4>1
    <3>2. h \in Seq(Bytes)
      BY DEF h
    <3> QED
      BY <1>5, <2>2, <3>1, <3>2 DEF h, m
  <2> QED
    BY <2>1, <2>2
<1>10. off2[1] = 0 /\ off2[(w + 1) + 1] = Len(r) /\ off2 \in [1 .. (w + 1) + 1 -> Nat]
  <2>1. (w + 1) + 1 = w + 2
    OBVIOUS
  <2> QED
    BY <1>3, <1>5, <1>6, <1>7, <2>1
<1>11. Laid(r, C, w + 1, off2)
  BY <1>9, <1>10 DEF Laid
<1>12. \E o : Laid(r, C, w + 1, o)
  BY <1>11
<1> QED
  BY <1>12 DEF r, l, h

\* A line's end in the headers is that of a header, or one inside a value, which
\* goes on with a blank.
LEMMA EndsOfLaid ==
  ASSUME NEW s \in Seq(Bytes), NEW C, Good(C), NEW w \in 1 .. Len(C), NEW off, Laid(s, C, w, off),
         NEW k \in Nat, k + 2 <= Len(s), s[k + 1] = "CR", s[k + 2] = "LF"
  PROVE  \/ \E i \in 1 .. w : k + 2 = off[i + 1]
         \/ k + 5 <= Len(s) /\ s[k + 3] \in Blank
<1>1. Len(s) \in Nat /\ w \in Nat /\ Len(C) \in Nat
  BY DEF Good
<1>2. PICK i \in 1 .. w : off[i] <= k /\ k < off[i + 1]
  <2>1. k < Len(s)
    BY <1>1
  <2> QED
    BY <1>1, <2>1, Covered
<1> DEFINE h == HeaderLine(C[i])
           n == Len(h)
           o == off[i]
<1>3. /\ off \in [1 .. w + 1 -> Nat] /\ off[w + 1] = Len(s)
      /\ off[i + 1] = o + n + 2
      /\ \A j \in 1 .. n : s[o + j] = h[j]
      /\ s[o + n + 1] = "CR" /\ s[o + n + 2] = "LF"
  BY DEF Laid
<1>4. i \in 1 .. Len(C) /\ i \in 1 .. w + 1 /\ i + 1 \in 1 .. w + 1 /\ w + 1 \in 1 .. w + 1 /\ i < w + 1
  BY <1>1
<1>5. /\ n \in Nat /\ h[n] # "LF"
      /\ \A j \in 1 .. n - 1 : h[j] = "CR" /\ h[j + 1] = "LF" => j + 2 <= n /\ h[j + 2] \in Blank
  <2>1. GoodName(C[i][1]) /\ GoodValue(C[i][2])
    BY <1>4 DEF Good
  <2>2. /\ h \in Seq(Bytes) /\ h[Len(h)] # "LF"
        /\ \A j \in 1 .. Len(h) - 1 : h[j] = "CR" /\ h[j + 1] = "LF" =>
             j + 2 <= Len(h) /\ h[j + 2] \in Blank
    BY <2>1, HeaderLineIs
  <2> HIDE DEF h
  <2> QED
    BY <2>2
<1>6. off[i + 1] <= Len(s)
  <2>1. off[i + 1] <= off[w + 1]
    BY <1>1, <1>4, OffsetsGrow
  <2> QED
    BY <1>3, <2>1
<1>7. o \in Nat /\ o <= k
  BY <1>2, <1>3, <1>4
<1> DEFINE q == k - o + 1
<1> HIDE DEF h, n, o
<1>8. q \in Nat /\ 1 <= q /\ q <= n + 2 /\ k + 1 = o + q /\ k + 2 = o + (q + 1)
  <2>1. k < o + n + 2 /\ k \in Nat /\ n \in Nat
    BY <1>2, <1>3, <1>5
  <2> QED
    BY <1>7, <2>1
<1> HIDE DEF q
<1>9. CASE q + 1 <= n
  <2>1. q \in 1 .. n - 1 /\ q \in 1 .. n /\ q + 1 \in 1 .. n
    BY <1>5, <1>8, <1>9
  <2>2. h[q] = "CR" /\ h[q + 1] = "LF"
    BY <1>3, <1>8, <2>1
  <2>3. q + 2 <= n /\ h[q + 2] \in Blank
    BY <1>5, <2>1, <2>2
  <2>4. q + 2 \in 1 .. n /\ k + 3 = o + (q + 2)
    BY <1>5, <1>7, <1>8, <2>3
  <2>5. s[k + 3] \in Blank
    BY <1>3, <2>3, <2>4
  <2>6. k + 5 <= o + n + 2
    BY <1>5, <1>7, <1>8, <2>3
  <2>7. k + 5 <= Len(s)
    BY <1>1, <1>3, <1>5, <1>6, <1>7, <2>6
  <2> QED
    BY <2>5, <2>7
<1>10. CASE q = n
  <2>1. k + 1 = o + n /\ k + 2 = o + n + 1
    BY <1>5, <1>7, <1>8, <1>10
  <2> QED
    BY <1>3, <2>1
<1>11. CASE q = n + 1
  <2>1. k + 2 = off[i + 1]
    BY <1>3, <1>5, <1>7, <1>8, <1>11
  <2> QED
    BY <2>1
<1>12. CASE q = n + 2
  <2>1. k + 1 = o + n + 2
    BY <1>5, <1>7, <1>8, <1>12
  <2> QED
    BY <1>3, <2>1
<1> QED
  BY <1>5, <1>8, <1>9, <1>10, <1>11, <1>12

\* How one header follows another.
LEMMA NextLaid ==
  ASSUME NEW s \in Seq(Bytes), NEW C, Good(C), NEW w \in 1 .. Len(C), NEW off, Laid(s, C, w, off),
         NEW i \in 1 .. w
  PROVE  /\ off[i] \in Nat /\ off[i + 1] \in Nat /\ off[i] + 4 <= off[i + 1] /\ off[i + 1] <= Len(s)
         /\ s[off[i + 1] - 1] = "CR" /\ s[off[i + 1]] = "LF"
         /\ ~(s[off[i] + 1] = "CR" /\ s[off[i] + 2] = "LF")
         /\ i > 1 => s[off[i] + 1] \notin Blank
<1> DEFINE h == HeaderLine(C[i])
           n == Len(h)
           o == off[i]
           name == C[i][1]
<1>1. Len(s) \in Nat /\ w \in Nat /\ Len(C) \in Nat
  BY DEF Good
<1>2. /\ off \in [1 .. w + 1 -> Nat] /\ off[w + 1] = Len(s)
      /\ off[i + 1] = o + n + 2
      /\ \A j \in 1 .. n : s[o + j] = h[j]
      /\ s[o + n + 1] = "CR" /\ s[o + n + 2] = "LF"
  BY DEF Laid
<1>3. i \in 1 .. Len(C) /\ i \in 1 .. w + 1 /\ i + 1 \in 1 .. w + 1 /\ w + 1 \in 1 .. w + 1 /\ i < w + 1
  BY <1>1
<1>4. GoodName(C[i][1]) /\ GoodValue(C[i][2]) /\ (i > 1 /\ name # <<>> => name[1] \notin Blank)
  BY <1>3 DEF Good
<1>5. /\ h \in Seq(Bytes) /\ Len(h) = Len(name) + 2 + Len(C[i][2]) /\ Len(name) \in Nat /\ Len(C[i][2]) \in Nat
      /\ \A j \in 1 .. Len(name) : h[j] = name[j]
      /\ h[Len(name) + 1] = ":"
      /\ ~(h[1] = "CR" /\ h[2] = "LF")
  BY <1>4, HeaderLineIs
<1>6. off[i + 1] <= Len(s)
  <2>1. off[i + 1] <= off[w + 1]
    BY <1>1, <1>3, OffsetsGrow
  <2> QED
    BY <1>2, <2>1
<1>7. o \in Nat /\ off[i + 1] \in Nat
  BY <1>2, <1>3
<1>8. name \in Seq(Bytes)
  BY <1>4 DEF GoodName
<1>9. n \in Nat /\ 2 <= n
  <2> DEFINE x == Len(name)
             y == Len(C[i][2])
  <2>1. n = x + 2 + y /\ x \in Nat /\ y \in Nat
    BY <1>5
  <2> HIDE DEF n, x, y
  <2> QED
    BY <2>1
<1> HIDE DEF h, o, name
<1>10. i > 1 => h[1] \notin Blank
  <2>1. CASE name = <<>>
    <3>1. h[1] = ":"
      BY <1>5, <2>1
    <3> QED
      BY <3>1 DEF Blank
  <2>2. CASE name # <<>>
    <3>1. Len(name) # 0
      BY <1>8, <2>2
    <3>2. 1 \in 1 .. Len(name)
      BY <1>5, <3>1
    <3> QED
      BY <1>4, <1>5, <2>2, <3>2
  <2> QED
    BY <2>1, <2>2
<1> HIDE DEF n
<1>11. 1 \in 1 .. n /\ 2 \in 1 .. n /\ o + n + 2 - 1 = o + n + 1 /\ o + 4 <= o + n + 2
  BY <1>7, <1>9
<1>12. s[o + 1] = h[1] /\ s[o + 2] = h[2] /\ s[off[i + 1] - 1] = "CR" /\ s[off[i + 1]] = "LF"
  <2>1. off[i + 1] - 1 = o + n + 1
    <3>1. off[i + 1] - 1 = (o + n + 2) - 1
      BY <1>2
    <3> QED
      BY <1>7, <1>9, <3>1
  <2> QED
    BY <1>2, <1>11, <2>1
<1> QED
  BY <1>2, <1>5, <1>6, <1>7, <1>10, <1>11, <1>12 DEF o

-----------------------------------------------------------------------------
(* What a reader of the message finds. *)

\* The first empty line is the one that was written after the headers.
LEMMA EmptyLineFound ==
  ASSUME NEW s \in Seq(Bytes), NEW C, Good(C), NEW off, Laid(s, C, Len(C), off), NEW b \in Seq(Bytes)
  PROVE  LET mail == s \o CrLf \o b
         IN  /\ mail \in Seq(Bytes) /\ Len(s) - 2 \in Nat
             /\ EmptyLine(mail) = Len(s) - 2
             /\ SubSeq(mail, 1, EmptyLine(mail)) \o CrLf = s
             /\ SubSeq(mail, EmptyLine(mail) + 5, Len(mail)) = b
<1> DEFINE w == Len(C)
           n == Len(s)
           r == s \o CrLf
           mail == r \o b
           P == {p \in 0 .. Len(mail) - 4 : SubSeq(mail, p + 1, p + 4) = CrLf \o CrLf}
<1>1. w \in Nat /\ 1 <= w /\ w \in 1 .. Len(C) /\ n \in Nat /\ C # <<>>
  <2>1. Len(C) \in Nat /\ C # <<>> /\ Len(C) # 0
    BY DEF Good, Laid
  <2> QED
    BY <2>1
<1>2. /\ off \in [1 .. w + 1 -> Nat] /\ off[w + 1] = n
  BY DEF Laid
<1>3. /\ r \in Seq(Bytes) /\ Len(r) = n + 2
      /\ \A j \in 1 .. n : r[j] = s[j]
      /\ r[n + 1] = "CR" /\ r[n + 2] = "LF"
  BY CrLfAfter
<1> HIDE DEF r
<1>4. /\ mail \in Seq(Bytes) /\ Len(mail) = Len(r) + Len(b) /\ Len(b) \in Nat
      /\ \A j \in 1 .. Len(r) : mail[j] = r[j]
      /\ \A j \in 1 .. Len(b) : mail[Len(r) + j] = b[j]
  <2>1. r \in Seq(Bytes)
    BY <1>3
  <2> QED
    BY <2>1, ConcatIs
<1> HIDE DEF mail, n, w
<1>5. /\ Len(mail) = n + 2 + Len(b)
      /\ \A j \in 1 .. n : mail[j] = s[j]
      /\ mail[n + 1] = "CR" /\ mail[n + 2] = "LF"
      /\ \A j \in 1 .. Len(b) : mail[n + 2 + j] = b[j]
  <2>1. n + 1 \in 1 .. n + 2 /\ n + 2 \in 1 .. n + 2 /\ \A j \in 1 .. n : j \in 1 .. n + 2
    BY <1>1
  <2> QED
    BY <1>3, <1>4, <2>1
<1>6. 4 <= n /\ s[n - 1] = "CR" /\ s[n] = "LF"
  <2>1. w \in 1 .. w
    BY <1>1
  <2>2. w \in 1 .. Len(C) /\ Laid(s, C, w, off)
    BY <1>1 DEF w
  <2>3. /\ off[w] \in Nat /\ off[w] + 4 <= off[w + 1]
        /\ s[off[w + 1] - 1] = "CR" /\ s[off[w + 1]] = "LF"
    BY <2>1, <2>2, NextLaid
  <2> QED
    BY <1>1, <1>2, <2>3
<1>7. ASSUME NEW p \in 0 .. Len(mail) - 4
      PROVE  p \in P <=> /\ mail[p + 1] = "CR" /\ mail[p + 2] = "LF"
                         /\ mail[p + 3] = "CR" /\ mail[p + 4] = "LF"
  <2> DEFINE t == SubSeq(mail, p + 1, p + 4)
             d == CrLf \o CrLf
             to == p + 4
  <2>1. p \in Nat /\ to \in Nat /\ p <= to /\ to <= Len(mail) /\ to - p = 4
    BY <1>1, <1>4, <1>5
  <2>2. t \in Seq(Bytes) /\ Len(t) = 4 /\ \A j \in 1 .. 4 : t[j] = mail[p + j]
    <3> HIDE DEF to
    <3>1. /\ SubSeq(mail, p + 1, to) \in Seq(Bytes) /\ Len(SubSeq(mail, p + 1, to)) = to - p
          /\ \A j \in 1 .. to - p : SubSeq(mail, p + 1, to)[j] = mail[p + j]
      BY <1>4, <2>1, PieceIs
    <3> QED
      BY <2>1, <3>1 DEF to
  <2>3. CrLf \in Seq(Bytes) /\ Len(CrLf) = 2 /\ CrLf[1] = "CR" /\ CrLf[2] = "LF"
        /\ 1 \in 1 .. 2 /\ 2 \in 1 .. 2
    BY CrLfIs
  <2>4. /\ d \in Seq(Bytes) /\ Len(d) = Len(CrLf) + 2
        /\ \A j \in 1 .. Len(CrLf) : d[j] = CrLf[j]
        /\ d[Len(CrLf) + 1] = "CR" /\ d[Len(CrLf) + 2] = "LF"
    <3>1. CrLf \in Seq(Bytes)
      BY <2>3
    <3> QED
      BY <3>1, CrLfAfter
  <2> HIDE DEF t, d
  <2>5. Len(d) = 4 /\ d[1] = "CR" /\ d[2] = "LF" /\ d[3] = "CR" /\ d[4] = "LF"
    BY <2>3, <2>4
  <2>6. /\ 1 \in 1 .. 4 /\ 2 \in 1 .. 4 /\ 3 \in 1 .. 4 /\ 4 \in 1 .. 4
        /\ \A j \in 1 .. 4 : j = 1 \/ j = 2 \/ j = 3 \/ j = 4
    OBVIOUS
  <2>7. Len(t) = 4 /\ \A j \in 1 .. 4 : t[j] = mail[p + j]
    BY <2>1, <2>2
  <2>8. t[1] = mail[p + 1] /\ t[2] = mail[p + 2] /\ t[3] = mail[p + 3] /\ t[4] = mail[p + 4]
    BY <2>6, <2>7
  <2>9. ASSUME t[1] = "CR", t[2] = "LF", t[3] = "CR", t[4] = "LF" PROVE t = d
    <3>1. \A j \in 1 .. 4 : t[j] = d[j]
      BY <2>5, <2>6, <2>9
    <3> QED
      BY <2>2, <2>4, <2>5, <2>7, <3>1, SeqEqual
  <2>10. p \in P <=> t = d
    BY DEF t, d
  <2> HIDE DEF P
  <2> QED
    BY <2>5, <2>8, <2>9, <2>10
<1> HIDE DEF P
<1>8. n - 2 \in 0 .. Len(mail) - 4 /\ n - 2 \in P
  <2>1. /\ n - 2 \in 0 .. Len(mail) - 4 /\ n - 1 \in 1 .. n /\ n \in 1 .. n
        /\ n - 2 + 1 = n - 1 /\ n - 2 + 2 = n /\ n - 2 + 3 = n + 1 /\ n - 2 + 4 = n + 2
    BY <1>1, <1>4, <1>5, <1>6
  <2> QED
    BY <1>5, <1>6, <1>7, <2>1
<1>9. ASSUME NEW p \in P, p < n - 2 PROVE FALSE
  <2>1. p \in 0 .. Len(mail) - 4 /\ p \in Nat
    BY DEF P
  <2>2. /\ mail[p + 1] = "CR" /\ mail[p + 2] = "LF"
        /\ mail[p + 3] = "CR" /\ mail[p + 4] = "LF"
    BY <1>7, <1>9, <2>1
  <2>3. p + 1 \in 1 .. n /\ p + 2 \in 1 .. n /\ p + 3 \in 1 .. n /\ p + 2 <= n
    BY <1>1, <1>9, <2>1
  <2>4. s[p + 1] = "CR" /\ s[p + 2] = "LF" /\ s[p + 3] = "CR"
    BY <1>5, <2>2, <2>3
  <2>5. (\E i \in 1 .. w : p + 2 = off[i + 1]) \/ s[p + 3] \in Blank
    <3>1. w \in 1 .. Len(C) /\ Laid(s, C, w, off)
      BY <1>1 DEF w
    <3>2. p \in Nat /\ p + 2 <= Len(s) /\ s[p + 1] = "CR" /\ s[p + 2] = "LF"
      BY <2>1, <2>3, <2>4 DEF n
    <3> QED
      BY <3>1, <3>2, EndsOfLaid
  <2>6. PICK i \in 1 .. w : p + 2 = off[i + 1]
    BY <2>4, <2>5 DEF Blank
  <2>7. i # w
    BY <1>1, <1>2, <1>9, <2>1, <2>6
  <2>8. i + 1 \in 1 .. w
    BY <1>1, <2>7
  <2>9. /\ off[i + 1] + 4 <= off[i + 1 + 1] /\ off[i + 1 + 1] <= n /\ off[i + 1 + 1] \in Nat
        /\ ~(s[off[i + 1] + 1] = "CR" /\ s[off[i + 1] + 2] = "LF")
    <3> DEFINE j == i + 1
    <3>1. j \in 1 .. w
      BY <2>8
    <3> HIDE DEF j
    <3>2. w \in 1 .. Len(C) /\ Laid(s, C, w, off)
      BY <1>1 DEF w
    <3>3. /\ off[j] + 4 <= off[j + 1] /\ off[j + 1] <= Len(s) /\ off[j + 1] \in Nat
          /\ ~(s[off[j] + 1] = "CR" /\ s[off[j] + 2] = "LF")
      BY <3>1, <3>2, NextLaid
    <3> QED
      BY <3>3 DEF j, n
  <2>10. p + 4 \in 1 .. n /\ off[i + 1] + 1 = p + 3 /\ off[i + 1] + 2 = p + 4
    BY <1>1, <2>1, <2>6, <2>9, SMTT(30)
  <2> QED
    BY <1>5, <2>2, <2>4, <2>9, <2>10
<1>10. EmptyLine(mail) = n - 2
  <2>1. P \in SUBSET Nat /\ EmptyLine(mail) = Least(P, Len(mail))
    BY DEF P, EmptyLine
  <2>2. EmptyLine(mail) \in P /\ EmptyLine(mail) <= n - 2
    <3>1. P # {}
      BY <1>8
    <3>2. Least(P, Len(mail)) \in P /\ \A x \in P : Least(P, Len(mail)) <= x
      BY <2>1, <3>1, LeastProperties
    <3> QED
      BY <1>8, <2>1, <3>2
  <2>3. ~(EmptyLine(mail) < n - 2)
    BY <1>9, <2>2
  <2> DEFINE e == EmptyLine(mail)
  <2>4. e \in Nat /\ e <= n - 2 /\ ~(e < n - 2)
    BY <2>1, <2>2, <2>3
  <2> HIDE DEF e
  <2>5. e = n - 2
    BY <1>1, <2>4
  <2> QED
    BY <2>5 DEF e
<1>11. SubSeq(mail, 1, n - 2) \o CrLf = s
  <2> DEFINE t == SubSeq(mail, 0 + 1, n - 2)
             q == t \o CrLf
  <2>1. 0 \in Nat /\ n - 2 \in Nat /\ 0 <= n - 2 /\ n - 2 <= Len(mail) /\ n - 2 - 0 = n - 2
    BY <1>1, <1>4, <1>5, <1>6
  <2>2. t \in Seq(Bytes) /\ Len(t) = n - 2 - 0 /\ \A j \in 1 .. n - 2 - 0 : t[j] = mail[0 + j]
    BY <1>4, <2>1, PieceIs
  <2>3. t = SubSeq(mail, 1, n - 2)
    BY DEF t
  <2> HIDE DEF t
  <2>4. /\ q \in Seq(Bytes) /\ Len(q) = Len(t) + 2
        /\ \A j \in 1 .. Len(t) : q[j] = t[j]
        /\ q[Len(t) + 1] = "CR" /\ q[Len(t) + 2] = "LF"
    BY <2>2, CrLfAfter
  <2> HIDE DEF q
  <2>5. \A j \in 1 .. n : q[j] = s[j]
    <3>1. \A j \in 1 .. n - 2 : q[j] = s[j]
      <4>1. \A j \in 1 .. n - 2 : j \in 1 .. n /\ 0 + j = j
        BY <1>1
      <4> QED
        BY <1>5, <2>1, <2>2, <2>4, <4>1
    <3>2. q[n - 1] = "CR" /\ q[n] = "LF"
      <4>1. n - 2 + 1 = n - 1 /\ n - 2 + 2 = n
        BY <1>1
      <4> QED
        BY <2>1, <2>2, <2>4, <4>1
    <3>3. \A j \in 1 .. n : j \in 1 .. n - 2 \/ j = n - 1 \/ j = n
      BY <1>1
    <3> QED
      BY <1>6, <3>1, <3>2, <3>3
  <2>6. Len(q) = n
    BY <1>1, <2>1, <2>2, <2>4
  <2>7. q = s
    BY <2>4, <2>5, <2>6, SeqEqual DEF n
  <2> QED
    BY <2>3, <2>7 DEF q
<1>12. SubSeq(mail, n - 2 + 5, Len(mail)) = b
  <2> DEFINE f == n + 2
             m == Len(b)
             t == SubSeq(mail, f + 1, Len(mail))
  <2>1. f \in Nat /\ Len(mail) \in Nat /\ f <= Len(mail) /\ Len(mail) - f = Len(b) /\ f + 1 = n - 2 + 5
    <3>1. Len(mail) = n + 2 + m /\ m \in Nat /\ n \in Nat
      BY <1>1, <1>4, <1>5
    <3> HIDE DEF m
    <3>2. f + 1 = n - 2 + 5
      BY <3>1
    <3> QED
      BY <3>1, <3>2 DEF m
  <2>2. t \in Seq(Bytes) /\ Len(t) = Len(mail) - f /\ \A j \in 1 .. Len(mail) - f : t[j] = mail[f + j]
    <3> HIDE DEF f
    <3>1. Len(mail) <= Len(mail)
      BY <2>1
    <3> QED
      BY <1>4, <2>1, <3>1, PieceIs
  <2> HIDE DEF t
  <2>3. \A j \in 1 .. Len(b) : t[j] = b[j]
    BY <1>5, <2>1, <2>2
  <2>4. t = b
    BY <2>1, <2>2, <2>3, SeqEqual
  <2> QED
    BY <2>1, <2>4 DEF t
<1>13. n - 2 \in Nat
  BY <1>1, <1>6
<1> QED
  BY <1>4, <1>10, <1>11, <1>12, <1>13 DEF mail, r, n

\* What the parser cuts out gets through, if it is not one of the exceptions.
LEMMA NameIsGood ==
  ASSUME Parsing, NEW i \in DOMAIN fields, ~Contains(NameOf(fields[i]), "LF")
  PROVE  /\ GoodName(NameOf(fields[i]))
         /\ i > 1 /\ NameOf(fields[i]) # <<>> => NameOf(fields[i])[1] \notin Blank
<1> DEFINE f == fields[i]
           g == fields[i - 1]
           b == f.begin
           e == f.nameEnd
           n == NameOf(f)
           l == e - b
<1>1. text \in Seq(Bytes) /\ Len(text) \in Nat /\ fields \in Seq(Field)
  BY DEF Parsing
<1>2. InOrder(f) /\ Trimmed(f)
  BY DEF Parsing
<1>3. \A p \in b .. e - 1 : Byte(p) # ":"
  BY DEF Parsing, FieldsExact, OnlyBlanksLost
<1>4. n \in Seq(Bytes) /\ Len(n) = l /\ \A k \in 1 .. l : n[k] = text[b + k]
  BY ContentIs
<1>5. b \in Nat /\ e \in Nat /\ b <= e /\ e <= Len(text) /\ (b < e => ~BlankAt(e - 1))
  <2>1. f \in Field /\ b <= e /\ e < f.value /\ f.value <= f.valueEnd /\ f.valueEnd <= f.end /\ f.end <= Len(text)
    BY <1>2 DEF InOrder
  <2>2. b \in Nat /\ e \in Nat /\ f.value \in Nat /\ f.valueEnd \in Nat /\ f.end \in Nat
    BY <2>1 DEF Field
  <2>3. b < e => ~BlankAt(e - 1)
    BY <1>2 DEF Trimmed
  <2> HIDE DEF f, b, e
  <2> QED
    BY <1>1, <2>1, <2>2, <2>3
<1>6. i > 1 => /\ b = g.end + 2 /\ g.end \in FieldEnds
  <2>1. i > 1 => i - 1 \in DOMAIN fields
    BY <1>1
  <2> QED
    BY <2>1 DEF Parsing, FieldsExact, SplitsAtFieldEnds
<1>7. ~Contains(n, "LF")
  OBVIOUS
<1> HIDE DEF f, g, b, e, n
<1>8. \A k \in 1 .. l : /\ b + k - 1 \in b .. e - 1 /\ b + k - 1 + 1 = b + k
  BY <1>5
<1>9. \A k \in 1 .. l : n[k] = Byte(b + k - 1)
  BY <1>4, <1>8 DEF Byte
<1>10. ~Contains(n, ":")
  BY <1>3, <1>4, <1>8, <1>9 DEF Contains
<1>11. ASSUME n # <<>>
       PROVE  b < e /\ l \in 1 .. l /\ 1 \in 1 .. l /\ b + l - 1 = e - 1 /\ b + 1 - 1 = b
  <2>1. l # 0 /\ l \in Nat
    BY <1>4, <1>11
  <2> QED
    BY <1>5, <2>1
<1>12. ASSUME n # <<>> PROVE n[Len(n)] \notin Blank
  <2>1. n[Len(n)] = Byte(e - 1)
    BY <1>4, <1>9, <1>11, <1>12
  <2>2. e - 1 < Len(text) /\ ~BlankAt(e - 1)
    BY <1>1, <1>5, <1>11, <1>12
  <2> QED
    BY <2>1, <2>2 DEF BlankAt, Blank
<1>13. ASSUME i > 1, n # <<>> PROVE n[1] \notin Blank
  <2>1. n[1] = Byte(b) /\ b < Len(text)
    BY <1>1, <1>5, <1>9, <1>11, <1>13
  <2>2. g.end \in Nat /\ (g.end = Len(text) \/ ~BlankAt(g.end + 2))
    BY <1>6, <1>13 DEF FieldEnds
  <2>3. ~BlankAt(b)
    BY <1>1, <1>6, <1>13, <2>1, <2>2
  <2> QED
    BY <2>1, <2>3 DEF BlankAt, Blank
<1> QED
  BY <1>4, <1>7, <1>10, <1>12, <1>13 DEF GoodName, n, f

LEMMA ValueIsGood ==
  ASSUME Parsing, NEW i \in DOMAIN fields,
         ValueOf(fields[i]) # <<>> => Last(ValueOf(fields[i])) # "LF"
  PROVE  GoodValue(ValueOf(fields[i]))
<1> DEFINE f == fields[i]
           b == f.value
           e == f.valueEnd
           v == ValueOf(f)
           l == e - b
<1>1. text \in Seq(Bytes) /\ Len(text) \in Nat
  BY DEF Parsing
<1>2. InOrder(f) /\ Trimmed(f)
  BY DEF Parsing
<1>3. GoesOn(v)
  BY ValueGoesOn
<1>4. v \in Seq(Bytes) /\ Len(v) = l /\ \A k \in 1 .. l : v[k] = text[b + k]
  BY ContentIs
<1>5. b \in Nat /\ e \in Nat /\ b <= e /\ e <= Len(text) /\ (b < e => ~BlankAt(b) /\ ~BlankAt(e - 1))
  <2>1. f \in Field /\ b <= e /\ e <= f.end /\ f.end <= Len(text)
    BY <1>2 DEF InOrder
  <2>2. b \in Nat /\ e \in Nat /\ f.end \in Nat
    BY <2>1 DEF Field
  <2>3. b < e => ~BlankAt(b) /\ ~BlankAt(e - 1)
    BY <1>2 DEF Trimmed
  <2> HIDE DEF f, b, e
  <2> QED
    BY <1>1, <2>1, <2>2, <2>3
<1>6. v # <<>> => v[Len(v)] # "LF"
  BY DEF Last
<1> HIDE DEF f, b, e, v
<1>7. \A k \in 1 .. l : b + k - 1 + 1 = b + k
  BY <1>5
<1>8. \A k \in 1 .. l : v[k] = Byte(b + k - 1)
  BY <1>4, <1>7 DEF Byte
<1>9. ASSUME v # <<>>
      PROVE  b < e /\ l \in 1 .. l /\ 1 \in 1 .. l /\ b + l - 1 = e - 1 /\ b + 1 - 1 = b
  <2>1. l # 0 /\ l \in Nat
    BY <1>4, <1>9
  <2> QED
    BY <1>5, <2>1
<1>10. ASSUME v # <<>> PROVE v[1] \notin Blank /\ v[Len(v)] \notin Blank
  <2>1. v[Len(v)] = Byte(e - 1) /\ v[1] = Byte(b)
    BY <1>4, <1>8, <1>9, <1>10
  <2>2. e - 1 < Len(text) /\ b < Len(text) /\ ~BlankAt(e - 1) /\ ~BlankAt(b)
    BY <1>1, <1>5, <1>9, <1>10
  <2> QED
    BY <2>1, <2>2 DEF BlankAt, Blank
<1> QED
  BY <1>3, <1>4, <1>6, <1>10 DEF GoodValue, v, f

LEMMA ContentIsGood ==
  ASSUME Parsing, fields # <<>>,
         \A i \in DOMAIN Content :
           /\ ~Contains(Content[i][1], "LF")
           /\ Content[i][2] # <<>> => Last(Content[i][2]) # "LF"
  PROVE  Good(Content) /\ Len(Content) = Len(fields)
<1>1. fields \in Seq(Field) /\ Len(fields) \in Nat /\ DOMAIN fields = 1 .. Len(fields)
  BY DEF Parsing
<1>2. /\ DOMAIN Content = DOMAIN fields /\ Len(Content) = Len(fields) /\ Content # <<>>
      /\ Content = [i \in 1 .. Len(Content) |-> <<Content[i][1], Content[i][2]>>]
  <2>1. Content = [i \in 1 .. Len(fields) |-> <<NameOf(fields[i]), ValueOf(fields[i])>>]
    BY <1>1 DEF Content
  <2>2. Len(Content) = Len(fields) /\ DOMAIN Content = DOMAIN fields
    BY <1>1, <2>1
  <2>3. \A i \in 1 .. Len(fields) : Content[i] = <<Content[i][1], Content[i][2]>>
    BY <2>1
  <2>4. Content = [i \in 1 .. Len(fields) |-> Content[i]]
    BY <2>1
  <2> QED
    BY <1>1, <2>2, <2>3, <2>4
<1>3. ASSUME NEW i \in 1 .. Len(fields)
      PROVE  /\ GoodName(Content[i][1]) /\ GoodValue(Content[i][2])
             /\ i > 1 /\ Content[i][1] # <<>> => Content[i][1][1] \notin Blank
  <2>1. i \in DOMAIN fields /\ i \in DOMAIN Content
    BY <1>1, <1>2
  <2>2. Content[i][1] = NameOf(fields[i]) /\ Content[i][2] = ValueOf(fields[i])
    BY <2>1 DEF Content
  <2> QED
    BY <2>1, <2>2, NameIsGood, ValueIsGood
<1> QED
  BY <1>1, <1>2, <1>3 DEF Good

-----------------------------------------------------------------------------
(* The parser on headers that were written from C. *)

Again(C, off) == Parsing /\ Good(C) /\ Laid(text \o CrLf, C, Len(C), off)

LEMMA AgainIs ==
  ASSUME NEW C, NEW off, Again(C, off)
  PROVE  /\ text \in Seq(Bytes) /\ Len(text) \in Nat
         /\ Len(C) \in Nat /\ 1 <= Len(C)
         /\ off[1] = 0 /\ off[Len(C) + 1] = Len(text) + 2
         /\ \A i \in 1 .. Len(C) :
              /\ off[i] \in Nat /\ off[i + 1] \in Nat
              /\ off[i] + 4 <= off[i + 1] /\ off[i + 1] <= Len(text) + 2
         /\ \A i, j \in 1 .. Len(C) : i <= j => off[i + 1] <= off[j + 1]
<1> DEFINE N == Len(C)
           s == text \o CrLf
<1>1. text \in Seq(Bytes) /\ Good(C) /\ Laid(s, C, N, off)
  BY DEF Again, Parsing
<1>2. s \in Seq(Bytes) /\ Len(s) = Len(text) + 2 /\ Len(text) \in Nat
  BY <1>1, CrLfAfter
<1>3. N \in Nat /\ off[1] = 0 /\ off[N + 1] = Len(s)
  BY <1>1 DEF Good, Laid
<1>4. 1 <= N
  <2>1. off[1] # off[N + 1]
    BY <1>2, <1>3
  <2>2. N # 0
    BY <2>1
  <2> QED
    BY <1>3, <2>2
<1> HIDE DEF s
<1>5. N \in 1 .. Len(C)
  BY <1>3, <1>4
<1>6. ASSUME NEW i \in 1 .. N
      PROVE  /\ off[i] \in Nat /\ off[i + 1] \in Nat
             /\ off[i] + 4 <= off[i + 1] /\ off[i + 1] <= Len(s)
  BY <1>1, <1>2, <1>5, NextLaid
<1>7. ASSUME NEW i \in 1 .. N, NEW j \in 1 .. N, i <= j PROVE off[i + 1] <= off[j + 1]
  <2>1. j + 1 \in 1 .. N + 1 /\ i < j + 1
    BY <1>3, <1>7
  <2> QED
    BY <1>1, <1>3, <2>1, OffsetsGrow
<1> QED
  BY <1>1, <1>2, <1>3, <1>4, <1>6, <1>7

\* The bytes of a header's line.
LEMMA BytesOfLine ==
  ASSUME NEW C, NEW off, Again(C, off), NEW i \in 1 .. Len(C)
  PROVE  LET h == HeaderLine(C[i])
         IN  /\ off[i + 1] = off[i] + Len(h) + 2
             /\ \A j \in 1 .. Len(h) : text[off[i] + j] = h[j]
<1> DEFINE N == Len(C)
           s == text \o CrLf
           h == HeaderLine(C[i])
           o == off[i]
           k == Len(h)
<1>1. text \in Seq(Bytes) /\ Laid(s, C, N, off)
  BY DEF Again, Parsing
<1>2. \A j \in 1 .. Len(text) : s[j] = text[j]
  BY <1>1, CrLfAfter
<1>3. off[i + 1] = o + k + 2 /\ (\A j \in 1 .. k : s[o + j] = h[j]) /\ k \in Nat
  <2>1. h \in Seq(Bytes) /\ off[i + 1] = o + k + 2 /\ \A j \in 1 .. k : s[o + j] = h[j]
    BY <1>1 DEF Laid
  <2> HIDE DEF h
  <2>2. k \in Nat
    BY <2>1
  <2> HIDE DEF o, k
  <2> QED
    BY <2>1, <2>2
<1>4. o \in Nat /\ off[i + 1] <= Len(text) + 2 /\ Len(text) \in Nat
  BY AgainIs
<1> HIDE DEF s, h, o, k
<1>5. \A j \in 1 .. k : o + j \in 1 .. Len(text)
  BY <1>3, <1>4
<1> QED
  BY <1>2, <1>3, <1>5 DEF h, o, k

\* A field ends where a header does, and nowhere else.
LEMMA FieldEndsOfLaid ==
  ASSUME NEW C, NEW off, Again(C, off)
  PROVE  /\ \A i \in 1 .. Len(C) : off[i + 1] - 2 \in FieldEnds
         /\ \A p \in FieldEnds : \E i \in 1 .. Len(C) : p = off[i + 1] - 2
<1> DEFINE N == Len(C)
           s == text \o CrLf
           l == Len(text)
<1>1. text \in Seq(Bytes) /\ Good(C) /\ Laid(s, C, N, off)
  BY DEF Again, Parsing
<1>2. /\ s \in Seq(Bytes) /\ Len(s) = l + 2 /\ l \in Nat
      /\ \A j \in 1 .. l : s[j] = text[j]
  BY <1>1, CrLfAfter
<1>3. /\ N \in Nat /\ 1 <= N /\ off[N + 1] = l + 2
      /\ \A i \in 1 .. N :
           off[i] \in Nat /\ off[i + 1] \in Nat /\ off[i] + 4 <= off[i + 1] /\ off[i + 1] <= l + 2
  BY AgainIs
<1> HIDE DEF s, l
<1>4. N \in 1 .. N
  BY <1>3
<1>5. s \in Seq(Bytes) /\ Good(C) /\ N \in 1 .. Len(C) /\ Laid(s, C, N, off)
  BY <1>1, <1>2, <1>4
<1>6. ASSUME NEW i \in 1 .. N PROVE off[i + 1] - 2 \in FieldEnds
  <2>1. CASE i = N
    <3>1. off[i + 1] - 2 = l /\ l \in 0 .. l
      BY <1>2, <1>3, <2>1
    <3> QED
      BY <3>1 DEF FieldEnds, l
  <2>2. CASE i # N
    <3> DEFINE j == i + 1
               p == off[j] - 2
    <3>1. j \in 1 .. N /\ j > 1
      BY <1>3, <2>2
    <3>2. s[off[j] - 1] = "CR" /\ s[off[j]] = "LF"
      <4>1. s[off[i + 1] - 1] = "CR" /\ s[off[i + 1]] = "LF"
        BY <1>5, NextLaid
      <4> QED
        BY <4>1
    <3> HIDE DEF j
    <3>3. s[off[j] + 1] \notin Blank
      BY <1>1, <1>2, <1>4, <3>1, NextLaid
    <3>4. /\ p \in 0 .. l /\ p + 2 <= l /\ p + 1 = off[j] - 1 /\ p + 1 + 1 = off[j] /\ p + 2 + 1 = off[j] + 1
          /\ p + 1 \in 1 .. l /\ p + 1 + 1 \in 1 .. l /\ p + 2 < l /\ p + 2 + 1 \in 1 .. l
      <4>1. 4 <= off[j] /\ off[j] \in Nat /\ off[j] + 2 <= l
        <5>1. /\ off[i] \in Nat /\ off[i] + 4 <= off[i + 1] /\ off[j] \in Nat
              /\ off[j] + 4 <= off[j + 1] /\ off[j + 1] <= l + 2 /\ off[j + 1] \in Nat
          <6> HIDE DEF j
          <6>1. off[j] \in Nat /\ off[j] + 4 <= off[j + 1] /\ off[j + 1] <= l + 2 /\ off[j + 1] \in Nat
            BY <1>3, <3>1
          <6>2. off[i] \in Nat /\ off[i] + 4 <= off[i + 1]
            BY <1>3
          <6> QED
            BY <6>1, <6>2
        <5>2. 4 <= off[j]
          <6>1. off[i] + 4 <= off[j]
            BY <5>1 DEF j
          <6> QED
            BY <5>1, <6>1
        <5> QED
          BY <1>2, <5>1, <5>2
      <4> DEFINE o == off[j]
      <4>2. 4 <= o /\ o \in Nat /\ o + 2 <= l /\ p = o - 2
        BY <4>1
      <4> HIDE DEF o, p
      <4>3. /\ p \in 0 .. l /\ p + 2 <= l /\ p + 1 = o - 1 /\ p + 1 + 1 = o /\ p + 2 + 1 = o + 1
            /\ p + 1 \in 1 .. l /\ p + 1 + 1 \in 1 .. l /\ p + 2 < l /\ p + 2 + 1 \in 1 .. l
        BY <1>2, <4>2
      <4> QED
        BY <4>3 DEF o
    <3> HIDE DEF p
    <3>5. Byte(p) = "CR" /\ Byte(p + 1) = "LF" /\ Byte(p + 2) \notin Blank
      BY <1>2, <3>2, <3>3, <3>4 DEF Byte
    <3>6. CrLfAt(p) /\ ~BlankAt(p + 2)
      BY <3>4, <3>5 DEF CrLfAt, BlankAt, Blank, l
    <3>7. p \in FieldEnds
      BY <3>4, <3>6 DEF FieldEnds, l
    <3> QED
      BY <3>7 DEF p, j
  <2> QED
    BY <2>1, <2>2
<1>7. ASSUME NEW p \in FieldEnds PROVE \E i \in 1 .. N : p = off[i + 1] - 2
  <2>1. p \in 0 .. l /\ p \in Nat /\ (p = l \/ (CrLfAt(p) /\ ~BlankAt(p + 2)))
    BY DEF FieldEnds, l
  <2>2. CASE p = l
    <3>1. p = off[N + 1] - 2
      BY <1>2, <1>3, <2>2
    <3> QED
      BY <1>4, <3>1
  <2>3. CASE p # l
    <3>1. /\ p + 2 <= l /\ text[p + 1] = "CR" /\ text[p + 2] = "LF"
      <4>1. p + 2 <= l /\ text[p + 1] = "CR" /\ text[p + 1 + 1] = "LF"
        BY <2>1, <2>3 DEF CrLfAt, Byte, l
      <4> QED
        BY <2>1, <4>1
    <3>2. s[p + 1] = "CR" /\ s[p + 2] = "LF" /\ p + 2 <= Len(s)
      <4>1. p + 1 \in 1 .. l /\ p + 2 \in 1 .. l
        BY <1>2, <2>1, <3>1
      <4> QED
        BY <1>2, <3>1, <4>1
    <3>3. (\E i \in 1 .. N : p + 2 = off[i + 1]) \/ (p + 5 <= Len(s) /\ s[p + 3] \in Blank)
      <4>1. ASSUME NEW k \in Nat, k + 2 <= Len(s), s[k + 1] = "CR", s[k + 2] = "LF"
            PROVE  (\E i \in 1 .. N : k + 2 = off[i + 1]) \/ (k + 5 <= Len(s) /\ s[k + 3] \in Blank)
        BY <1>5, <4>1, EndsOfLaid
      <4> QED
        BY <2>1, <3>2, <4>1
    <3>4. ~(p + 5 <= Len(s) /\ s[p + 3] \in Blank)
      <4>1. ASSUME p + 5 <= Len(s), s[p + 3] \in Blank PROVE FALSE
        <5>1. p + 2 < l /\ p + 3 \in 1 .. l /\ p + 2 + 1 = p + 3
          BY <1>2, <2>1, <4>1
        <5>2. BlankAt(p + 2)
          BY <1>2, <4>1, <5>1 DEF BlankAt, Byte, Blank, l
        <5> QED
          BY <2>1, <2>3, <5>2
      <4> QED
        BY <4>1
    <3>5. PICK i \in 1 .. N : p + 2 = off[i + 1]
      BY <3>3, <3>4
    <3>6. p = off[i + 1] - 2
      <4> DEFINE o == off[i + 1]
      <4>1. p + 2 = o
        BY <3>5
      <4> HIDE DEF o
      <4>2. p = o - 2
        BY <2>1, <4>1
      <4> QED
        BY <4>2 DEF o
    <3> QED
      BY <3>6
  <2> QED
    BY <2>2, <2>3
<1> QED
  BY <1>6, <1>7

\* A field that begins with a header ends with it.
LEMMA FieldIsHeader ==
  ASSUME NEW C, NEW off, Again(C, off), NEW i \in DOMAIN fields,
         NEW j \in 1 .. Len(C) + 1, fields[i].begin = off[j]
  PROVE  j \in 1 .. Len(C) /\ fields[i].end = off[j + 1] - 2
<1> DEFINE N == Len(C)
           b == fields[i].begin
           e == fields[i].end
<1>1. /\ Len(text) \in Nat
      /\ N \in Nat /\ 1 <= N
      /\ off[N + 1] = Len(text) + 2
      /\ \A k \in 1 .. N : off[k] \in Nat /\ off[k + 1] \in Nat /\ off[k] + 4 <= off[k + 1]
      /\ \A k, m \in 1 .. N : k <= m => off[k + 1] <= off[m + 1]
  BY AgainIs
<1>2. b \in Nat /\ e \in Nat /\ b < e /\ e <= Len(text)
  <2>1. InOrder(fields[i])
    BY DEF Again, Parsing
  <2> QED
    BY <1>1, <2>1 DEF InOrder, Field
<1>3. e \in FieldEnds /\ \A p \in FieldEnds : ~(b <= p /\ p < e)
  BY DEF Again, Parsing, FieldsExact, SplitsAtFieldEnds
<1> HIDE DEF b, e
<1>4. j \in 1 .. N
  <2>1. j # N + 1
    BY <1>1, <1>2 DEF b
  <2> QED
    BY <1>1, <2>1
<1> DEFINE q == off[j + 1] - 2
<1>5. q \in FieldEnds
  BY <1>4, FieldEndsOfLaid
<1>6. b \in Nat /\ b <= q /\ q \in Nat
  <2>1. b = off[j]
    BY DEF b
  <2> QED
    BY <1>1, <1>4, <2>1, SMTT(30)
<1>7. ~(q < e)
  BY <1>3, <1>5, <1>6
<1>8. PICK k \in 1 .. N : e = off[k + 1] - 2
  BY <1>3, FieldEndsOfLaid
<1>9. j <= k
  <2>1. ASSUME k < j PROVE FALSE
    <3> DEFINE m == j - 1
    <3>1. m \in 1 .. N /\ k <= m /\ m + 1 = j
      BY <1>4, <1>8, <2>1
    <3>2. off[k + 1] <= off[j]
      BY <1>1, <3>1
    <3>3. off[k + 1] \in Nat /\ off[j] \in Nat /\ off[j] = b
      BY <1>1, <1>4 DEF b
    <3> QED
      BY <1>2, <1>8, <3>2, <3>3
  <2> QED
    BY <1>4, <2>1
<1>10. off[j + 1] <= off[k + 1] /\ off[j + 1] \in Nat /\ off[k + 1] \in Nat
  BY <1>1, <1>4, <1>9
<1>11. e = q
  BY <1>2, <1>7, <1>8, <1>10, SMTT(30)
<1> QED
  BY <1>4, <1>11 DEF e

LEMMA FieldsAreHeaders ==
  ASSUME NEW C, NEW off, Again(C, off)
  PROVE  \A i \in DOMAIN fields :
           i \in 1 .. Len(C) /\ fields[i].begin = off[i] /\ fields[i].end = off[i + 1] - 2
<1> DEFINE B(i) == i \in 1 .. Len(C) /\ fields[i].begin = off[i] /\ fields[i].end = off[i + 1] - 2
           S == {i \in Nat : i <= Len(fields) => B(i)}
<1>1. /\ Len(fields) \in Nat /\ DOMAIN fields = 1 .. Len(fields)
      /\ \A i \in DOMAIN fields :
           fields[i].begin = IF i = 1 THEN 0 ELSE fields[i - 1].end + 2
  BY DEF Again, Parsing, FieldsExact, SplitsAtFieldEnds
<1>2. /\ Len(C) \in Nat /\ 1 <= Len(C) /\ off[1] = 0
      /\ \A i \in 1 .. Len(C) : off[i + 1] \in Nat
  BY AgainIs
<1>3. ASSUME NEW i \in DOMAIN fields, i \in 1 .. Len(C) + 1, fields[i].begin = off[i] PROVE B(i)
  BY <1>3, FieldIsHeader
<1> HIDE DEF B
<1>4. 1 \in S
  <2>1. ASSUME 1 <= Len(fields) PROVE B(1)
    <3>1. 1 \in DOMAIN fields /\ 1 \in 1 .. Len(C) + 1
      BY <1>1, <1>2, <2>1
    <3> QED
      BY <1>1, <1>2, <1>3, <3>1
  <2> QED
    BY <2>1
<1>5. ASSUME NEW i \in S, i \in 1 .. Len(fields) - 1 PROVE i + 1 \in S
  <2> DEFINE j == i + 1
  <2>1. j \in DOMAIN fields /\ j # 1 /\ j - 1 = i /\ i <= Len(fields) /\ j \in Nat
    BY <1>1, <1>5
  <2>2. i \in 1 .. Len(C) /\ fields[i].end = off[j] - 2
    BY <1>5, <2>1 DEF B
  <2>3. j \in 1 .. Len(C) + 1 /\ off[j] \in Nat
    BY <1>2, <2>2
  <2> HIDE DEF j
  <2>4. fields[j].begin = off[j] - 2 + 2
    BY <1>1, <2>1, <2>2
  <2>5. fields[j].begin = off[j]
    BY <2>3, <2>4
  <2>6. B(j)
    BY <1>3, <2>1, <2>3, <2>5
  <2> QED
    BY <2>1, <2>6 DEF j
<1> HIDE DEF S
<1>6. 1 .. Len(fields) \subseteq S
  BY <1>1, <1>4, <1>5, PlaceInduction
<1> QED
  BY <1>1, <1>6 DEF S, B

\* What is left out of a header that was written is what was put in.
LEMMA FieldOfHeader ==
  ASSUME NEW C, NEW off, Again(C, off), NEW i \in DOMAIN fields
  PROVE  /\ fields[i].nameEnd = off[i] + Len(C[i][1])
         /\ fields[i].valueEnd - fields[i].value = Len(C[i][2])
         /\ C[i][2] # <<>> => fields[i].value = off[i] + Len(C[i][1]) + 2
<1> DEFINE f == fields[i]
           h == HeaderLine(C[i])
           n == Len(C[i][1])
           m == Len(C[i][2])
           o == off[i]
           a == f.nameEnd
           v == f.value
           z == f.valueEnd
           e == f.end
<1>1. i \in 1 .. Len(C) /\ f.begin = o /\ e = off[i + 1] - 2
  BY FieldsAreHeaders
<1>2. o \in Nat /\ Len(text) \in Nat /\ Len(C) \in Nat
  BY <1>1, AgainIs
<1>3. GoodName(C[i][1]) /\ GoodValue(C[i][2])
  BY <1>1, <1>2 DEF Again, Good
<1>4. /\ h \in Seq(Bytes) /\ Len(h) = n + 2 + m /\ n \in Nat /\ m \in Nat
      /\ \A j \in 1 .. n : h[j] = C[i][1][j] /\ h[j] # ":"
      /\ h[n + 1] = ":" /\ h[n + 2] = "SP"
      /\ \A j \in 1 .. m : h[n + 2 + j] = C[i][2][j]
  BY <1>3, HeaderLineIs
<1>5. /\ n # 0 => C[i][1][n] \notin Blank
      /\ m # 0 => C[i][2] # <<>> /\ C[i][2][1] \notin Blank /\ C[i][2][m] \notin Blank
  BY <1>3 DEF GoodName, GoodValue
<1>6. off[i + 1] = o + Len(h) + 2 /\ \A j \in 1 .. Len(h) : text[o + j] = h[j]
  BY <1>1, BytesOfLine
<1>7. /\ o <= a /\ a < v /\ v <= z /\ z <= e /\ e <= Len(text)
      /\ a \in Nat /\ v \in Nat /\ z \in Nat /\ e \in Nat
  <2>1. InOrder(f)
    BY DEF Again, Parsing
  <2> QED
    BY <1>1, <2>1 DEF InOrder, Field
<1>8. v < z => ~BlankAt(v)
  BY DEF Again, Parsing, Trimmed
<1>9. PICK colon \in a .. v - 1 :
        /\ Byte(colon) = ":"
        /\ \A p \in o .. a - 1 : Byte(p) # ":"
        /\ \A p \in (a .. v - 1 \cup z .. e - 1) \ {colon} : BlankAt(p)
  <2>1. OnlyBlanksLost
    BY DEF Again, Parsing, FieldsExact
  <2> QED
    BY <1>1, <2>1 DEF OnlyBlanksLost
<1>10. m = 0 <=> C[i][2] = <<>>
  <2>1. C[i][2] \in Seq(Bytes)
    BY <1>3 DEF GoodValue
  <2> QED
    BY <2>1
<1>11. e = o + n + 2 + m
  <2>1. off[i + 1] = o + (n + 2 + m) + 2
    BY <1>4, <1>6
  <2> HIDE DEF o, n, m
  <2> QED
    BY <1>1, <1>2, <1>4, <2>1
<1> HIDE DEF h, n, m, o, a, v, z, e
<1>12. ASSUME NEW j \in 1 .. n + 2 + m
       PROVE  Byte(o + j - 1) = h[j] /\ o + j - 1 < Len(text)
  <2>1. o + j - 1 + 1 = o + j /\ o + j - 1 < Len(text)
    BY <1>2, <1>4, <1>7, <1>11
  <2> QED
    BY <1>4, <1>6, <1>12, <2>1 DEF Byte
<1>13. /\ Byte(o + n) = ":" /\ Byte(o + n + 1) = "SP"
       /\ \A p \in o .. o + n - 1 : Byte(p) # ":"
       /\ n # 0 => ~BlankAt(o + n - 1)
       /\ ~BlankAt(o + n) /\ BlankAt(o + n + 1)
       /\ m # 0 => ~BlankAt(o + n + 2) /\ ~BlankAt(e - 1)
  <2>1. /\ n + 1 \in 1 .. n + 2 + m /\ n + 2 \in 1 .. n + 2 + m
        /\ o + (n + 1) - 1 = o + n /\ o + (n + 2) - 1 = o + n + 1
    BY <1>2, <1>4
  <2>2. Byte(o + n) = ":" /\ Byte(o + n + 1) = "SP" /\ o + n < Len(text) /\ o + n + 1 < Len(text)
    BY <1>4, <1>12, <2>1
  <2>3. ASSUME NEW p \in o .. o + n - 1 PROVE Byte(p) # ":"
    <3> DEFINE j == p - o + 1
    <3>1. j \in 1 .. n /\ j \in 1 .. n + 2 + m /\ o + j - 1 = p
      BY <1>2, <1>4
    <3> HIDE DEF j
    <3> QED
      BY <1>4, <1>12, <3>1
  <2>4. ASSUME n # 0 PROVE ~BlankAt(o + n - 1)
    <3>1. n \in 1 .. n /\ n \in 1 .. n + 2 + m
      BY <1>4, <2>4
    <3>2. Byte(o + n - 1) \notin Blank
      BY <1>4, <1>5, <1>12, <2>4, <3>1
    <3> QED
      BY <3>2 DEF BlankAt, Blank
  <2>5. ASSUME m # 0 PROVE ~BlankAt(o + n + 2) /\ ~BlankAt(e - 1)
    <3>1. /\ 1 \in 1 .. m /\ m \in 1 .. m
          /\ n + 2 + 1 \in 1 .. n + 2 + m /\ n + 2 + m \in 1 .. n + 2 + m
          /\ o + (n + 2 + 1) - 1 = o + n + 2 /\ o + (n + 2 + m) - 1 = e - 1
      BY <1>2, <1>4, <1>11, <2>5
    <3>2. Byte(o + n + 2) = h[n + 2 + 1] /\ Byte(e - 1) = h[n + 2 + m]
      <4>1. /\ Byte(o + (n + 2 + 1) - 1) = h[n + 2 + 1]
            /\ Byte(o + (n + 2 + m) - 1) = h[n + 2 + m]
        BY <1>12, <3>1
      <4> QED
        BY <3>1, <4>1
    <3>3. Byte(o + n + 2) \notin Blank /\ Byte(e - 1) \notin Blank
      BY <1>4, <1>5, <2>5, <3>1, <3>2
    <3> QED
      BY <3>3 DEF BlankAt, Blank
  <2> QED
    BY <2>2, <2>3, <2>4, <2>5 DEF BlankAt
<1>14. colon = o + n
  <2>1. ~(o + n < a)
    BY <1>2, <1>4, <1>7, <1>9, <1>13
  <2>2. ~(colon < o + n)
    <3>1. ASSUME colon < o + n PROVE colon \in o .. o + n - 1
      BY <1>2, <1>4, <1>7, <1>9, <3>1
    <3> QED
      BY <1>9, <1>13, <3>1
  <2>3. ~(colon > o + n)
    <3>1. ASSUME colon > o + n PROVE o + n \in (a .. v - 1 \cup z .. e - 1) \ {colon}
      BY <1>2, <1>4, <1>7, <1>9, <2>1, <3>1
    <3> QED
      BY <1>9, <1>13, <3>1
  <2> QED
    BY <1>2, <1>4, <1>7, <1>9, <2>2, <2>3
<1>15. a = o + n
  <2>1. ASSUME a < o + n PROVE FALSE
    <3>1. o + n - 1 \in (a .. v - 1 \cup z .. e - 1) \ {colon} /\ n # 0
      BY <1>2, <1>4, <1>7, <1>9, <1>14, <2>1
    <3> QED
      BY <1>9, <1>13, <3>1
  <2>2. a <= o + n
    BY <1>7, <1>9, <1>14
  <2> QED
    BY <1>2, <1>4, <1>7, <2>1, <2>2
<1>16. ASSUME m # 0 PROVE v = o + n + 2 /\ z = e
  <2>1. ~(v = o + n + 1)
    <3>1. ASSUME v = o + n + 1 PROVE FALSE
      <4>1. z = v
        BY <1>7, <1>8, <1>13, <3>1
      <4>2. o + n + 2 \in (a .. v - 1 \cup z .. e - 1) \ {colon}
        BY <1>2, <1>4, <1>11, <1>14, <1>16, <3>1, <4>1
      <4> QED
        BY <1>9, <1>13, <1>16, <4>2
    <3> QED
      BY <3>1
  <2>2. ~(v > o + n + 2)
    <3>1. ASSUME v > o + n + 2 PROVE o + n + 2 \in (a .. v - 1 \cup z .. e - 1) \ {colon}
      BY <1>2, <1>4, <1>7, <1>14, <1>15, <3>1
    <3> QED
      BY <1>9, <1>13, <1>16, <3>1
  <2>3. ~(z < e)
    <3>1. ASSUME z < e PROVE e - 1 \in (a .. v - 1 \cup z .. e - 1) \ {colon}
      BY <1>2, <1>4, <1>7, <1>9, <1>14, <3>1
    <3> QED
      BY <1>9, <1>13, <1>16, <3>1
  <2>4. v >= o + n + 1
    BY <1>2, <1>4, <1>7, <1>15
  <2> QED
    BY <1>2, <1>4, <1>7, <2>1, <2>2, <2>3, <2>4
<1>17. ASSUME m = 0 PROVE v = z
  <2>1. v = o + n + 1 \/ v = o + n + 2
    BY <1>2, <1>4, <1>7, <1>11, <1>15, <1>17
  <2> QED
    BY <1>2, <1>4, <1>7, <1>8, <1>11, <1>13, <1>17, <2>1
<1>18. z - v = m /\ (m # 0 => v = o + n + 2)
  <2>1. CASE m = 0
    BY <1>7, <1>17, <2>1
  <2>2. CASE m # 0
    BY <1>2, <1>4, <1>7, <1>11, <1>16, <2>2
  <2> QED
    BY <2>1, <2>2
<1> QED
  BY <1>10, <1>15, <1>18 DEF f, n, m, o, a, v, z

LEMMA FieldFound ==
  ASSUME NEW C, NEW off, Again(C, off), NEW i \in DOMAIN fields
  PROVE  NameOf(fields[i]) = C[i][1] /\ ValueOf(fields[i]) = C[i][2]
<1> DEFINE f == fields[i]
           h == HeaderLine(C[i])
           name == C[i][1]
           value == C[i][2]
           n == Len(name)
           m == Len(value)
           o == off[i]
<1>1. i \in 1 .. Len(C) /\ f.begin = o
  BY FieldsAreHeaders
<1>2. o \in Nat /\ Len(text) \in Nat /\ Len(C) \in Nat
  BY <1>1, AgainIs
<1>3. GoodName(name) /\ GoodValue(value)
  BY <1>1, <1>2 DEF Again, Good
<1>4. /\ Len(h) = n + 2 + m /\ n \in Nat /\ m \in Nat
      /\ \A j \in 1 .. n : h[j] = name[j]
      /\ \A j \in 1 .. m : h[n + 2 + j] = value[j]
  BY <1>3, HeaderLineIs
<1>5. \A j \in 1 .. Len(h) : text[o + j] = h[j]
  BY <1>1, BytesOfLine
<1>6. /\ f.nameEnd = o + n /\ f.valueEnd - f.value = m
      /\ value # <<>> => f.value = o + n + 2
  BY FieldOfHeader
<1>7. /\ NameOf(f) \in Seq(Bytes) /\ Len(NameOf(f)) = f.nameEnd - f.begin
      /\ \A k \in 1 .. f.nameEnd - f.begin : NameOf(f)[k] = text[f.begin + k]
      /\ ValueOf(f) \in Seq(Bytes) /\ Len(ValueOf(f)) = f.valueEnd - f.value
      /\ \A k \in 1 .. f.valueEnd - f.value : ValueOf(f)[k] = text[f.value + k]
  BY ContentIs DEF Again
<1>8. name \in Seq(Bytes) /\ value \in Seq(Bytes)
  BY <1>3 DEF GoodName, GoodValue
<1> HIDE DEF f, h, name, value, o
<1>9. NameOf(f) = name
  <2>1. Len(NameOf(f)) = n /\ \A k \in 1 .. n : NameOf(f)[k] = text[o + k]
    <3>1. f.nameEnd - f.begin = n
      BY <1>1, <1>2, <1>4, <1>6
    <3> QED
      BY <1>1, <1>7, <3>1
  <2>2. \A k \in 1 .. n : k \in 1 .. Len(h)
    BY <1>4
  <2>3. \A k \in 1 .. n : NameOf(f)[k] = name[k]
    BY <1>4, <1>5, <2>1, <2>2
  <2> QED
    BY <1>7, <1>8, <2>1, <2>3, SeqEqual
<1>10. ValueOf(f) = value
  <2>1. Len(ValueOf(f)) = m /\ \A k \in 1 .. m : ValueOf(f)[k] = text[f.value + k]
    BY <1>6, <1>7
  <2>2. \A k \in 1 .. m : ValueOf(f)[k] = value[k]
    <3>1. SUFFICES ASSUME NEW k \in 1 .. m PROVE ValueOf(f)[k] = value[k]
      OBVIOUS
    <3>2. value # <<>>
      BY <1>8, <3>1
    <3>3. f.value + k = o + (n + 2 + k) /\ n + 2 + k \in 1 .. Len(h)
      BY <1>2, <1>4, <1>6, <3>1, <3>2
    <3> QED
      BY <1>4, <1>5, <2>1, <3>1, <3>3
  <2> QED
    BY <1>7, <1>8, <2>1, <2>2, SeqEqual
<1> QED
  BY <1>9, <1>10 DEF f, name, value

LEMMA AllFound ==
  ASSUME NEW C, NEW off, Again(C, off), state = "parsed"
  PROVE  Content = C
<1> DEFINE N == Len(C)
           l == Len(fields)
<1>1. l \in Nat /\ DOMAIN fields = 1 .. l /\ l # 0 /\ fields[l].end = Len(text)
  <2>1. fields \in Seq(Field) /\ fields # <<>>
    BY DEF Again, Parsing
  <2>2. fields[l].end = Len(text)
    BY DEF Again, Parsing, FieldsExact, SplitsAtFieldEnds
  <2> QED
    BY <2>1, <2>2
<1>2. /\ N \in Nat /\ Len(text) \in Nat /\ off[N + 1] = Len(text) + 2
      /\ \A i \in 1 .. N : off[i] \in Nat /\ off[i + 1] \in Nat /\ off[i] + 4 <= off[i + 1]
      /\ \A i \in 1 .. N : off[i + 1] <= Len(text) + 2
  BY AgainIs
<1> HIDE DEF N, l
<1>3. l \in 1 .. N /\ fields[l].end = off[l + 1] - 2
  <2>1. l \in DOMAIN fields
    BY <1>1
  <2> QED
    BY <2>1, FieldsAreHeaders DEF N
<1>4. l = N
  <2>1. ASSUME l # N PROVE FALSE
    <3> DEFINE j == l + 1
    <3>1. j \in 1 .. N
      BY <1>2, <1>3, <2>1
    <3>2. fields[l].end = off[j] - 2
      BY <1>3
    <3> HIDE DEF j
    <3>3. off[j] \in Nat /\ off[j + 1] \in Nat /\ off[j] + 4 <= off[j + 1] /\ off[j + 1] <= Len(text) + 2
      BY <1>2, <3>1
    <3> QED
      BY <1>1, <1>2, <3>2, <3>3
  <2> QED
    BY <2>1
<1>5. C = [i \in DOMAIN fields |-> <<C[i][1], C[i][2]>>]
  BY <1>1, <1>4 DEF N, Again, Good
<1>6. \A i \in DOMAIN fields : NameOf(fields[i]) = C[i][1] /\ ValueOf(fields[i]) = C[i][2]
  BY FieldFound
<1> QED
  BY <1>5, <1>6 DEF Content

LEMMA NoneWithoutColon ==
  ASSUME NEW C, NEW off, Again(C, off)
  PROVE  state # "failed"
<1> DEFINE N == Len(C)
<1>1. /\ N \in Nat /\ 1 <= N /\ off[1] = 0 /\ Len(text) \in Nat
      /\ off[N + 1] = Len(text) + 2
      /\ \A i \in 1 .. N : /\ off[i] \in Nat /\ off[i + 1] \in Nat
                           /\ off[i] + 4 <= off[i + 1] /\ off[i + 1] <= Len(text) + 2
      /\ \A i, j \in 1 .. N : i <= j => off[i + 1] <= off[j + 1]
  BY AgainIs
<1>2. SUFFICES ASSUME state = "failed" PROVE FALSE
  OBVIOUS
<1>3. FailsOnlyWithoutColon
  BY DEF Again, Parsing, FieldsExact
<1>4. PICK begin \in {0} \cup {p + 2 : p \in FieldEnds \ {Len(text)}} :
        \A p \in begin .. Len(text) - 1 :
          Byte(p) = ":" => \E q \in FieldEnds : begin <= q /\ q < p
  BY <1>2, <1>3 DEF FailsOnlyWithoutColon
<1>5. \E j \in 1 .. N : begin = off[j]
  <2>1. CASE begin = 0
    <3>1. 1 \in 1 .. N
      BY <1>1
    <3> QED
      BY <1>1, <2>1, <3>1
  <2>2. CASE begin # 0
    <3>1. PICK p \in FieldEnds : p # Len(text) /\ begin = p + 2
      BY <2>2
    <3>2. PICK i \in 1 .. N : p = off[i + 1] - 2
      BY FieldEndsOfLaid
    <3> DEFINE j == i + 1
    <3>3. i # N
      BY <1>1, <3>1, <3>2
    <3>4. j \in 1 .. N
      BY <1>1, <3>3
    <3>5. p = off[j] - 2
      BY <3>2
    <3> HIDE DEF j
    <3>6. begin = off[j]
      BY <1>1, <3>1, <3>4, <3>5, SMTT(30)
    <3> QED
      BY <3>4, <3>6
  <2> QED
    BY <2>1, <2>2
<1>6. PICK j \in 1 .. N : begin = off[j]
  BY <1>5
<1> DEFINE h == HeaderLine(C[j])
           n == Len(C[j][1])
           m == Len(C[j][2])
           o == off[j]
           p == o + n
<1>7. Len(h) = n + 2 + m /\ n \in Nat /\ m \in Nat /\ h[n + 1] = ":"
  <2>1. GoodName(C[j][1]) /\ GoodValue(C[j][2])
    BY DEF Again, Good
  <2> QED
    BY <2>1, HeaderLineIs
<1>8. off[j + 1] = o + Len(h) + 2 /\ \A k \in 1 .. Len(h) : text[o + k] = h[k]
  BY BytesOfLine
<1>9. o \in Nat /\ off[j + 1] \in Nat /\ off[j + 1] <= Len(text) + 2
  BY <1>1
<1> HIDE DEF h, n, m, o
<1>10. /\ p \in Nat /\ o <= p /\ p < Len(text) /\ p + 1 = o + (n + 1) /\ n + 1 \in 1 .. Len(h)
       /\ p <= off[j + 1] - 2
  BY <1>1, <1>7, <1>8, <1>9
<1>11. Byte(p) = ":"
  <2> HIDE DEF p
  <2> QED
    BY <1>7, <1>8, <1>10 DEF Byte
<1>12. o = begin
  BY <1>6 DEF o
<1> HIDE DEF p
<1>13. PICK q \in FieldEnds : o <= q /\ q < p
  <2>1. p \in begin .. Len(text) - 1
    BY <1>1, <1>9, <1>10, <1>12
  <2> QED
    BY <1>4, <1>11, <1>12, <2>1
<1>14. PICK k \in 1 .. N : q = off[k + 1] - 2
  BY FieldEndsOfLaid
<1>15. off[k + 1] \in Nat
  BY <1>1
<1>16. CASE j <= k
  <2>1. off[j + 1] <= off[k + 1]
    BY <1>1, <1>16
  <2> DEFINE x == off[k + 1]
             y == off[j + 1]
  <2>2. x \in Nat /\ y \in Nat /\ y <= x /\ p \in Nat /\ p <= y - 2 /\ x - 2 < p
    BY <1>9, <1>10, <1>13, <1>14, <1>15, <2>1
  <2> HIDE DEF x, y
  <2> QED
    BY <2>2
<1>17. CASE k < j
  <2> DEFINE i == j - 1
  <2>1. i \in 1 .. N /\ k <= i /\ i + 1 = j
    BY <1>1, <1>17
  <2>2. off[k + 1] <= o
    <3>1. off[k + 1] <= off[i + 1]
      BY <1>1, <2>1
    <3> QED
      BY <2>1, <3>1 DEF o
  <2> DEFINE x == off[k + 1]
  <2>3. x \in Nat /\ x <= o /\ o \in Nat /\ o <= x - 2
    BY <1>9, <1>13, <1>14, <1>15, <2>2
  <2> HIDE DEF x
  <2> QED
    BY <2>3
<1> QED
  BY <1>1, <1>16, <1>17

-----------------------------------------------------------------------------
(* What is written says what it is. *)

LEMMA HeaderGetsThrough ==
  ASSUME NEW c, c = <<c[1], c[2]>>, GoodName(c[1]), GoodValue(c[2]),
         ~Contains(c[1], "NUL"), ~Contains(c[2], "NUL"),
         c[1] # <<>> => c[1][1] # "."
  PROVE  /\ HeaderLine(c) \in Seq(Bytes) /\ HeaderLine(c) \o CrLf \in Seq(Bytes)
         /\ Line(c) = HeaderLine(c) \o CrLf
         /\ Unstuffed(HeaderLine(c) \o CrLf) = HeaderLine(c) \o CrLf
<1> DEFINE h == HeaderLine(c)
           r == h \o CrLf
<1>1. c[1] \in Seq(Bytes) /\ c[2] \in Seq(Bytes) /\ ~Contains(c[1], "LF") /\ GoesOn(c[2])
  BY DEF GoodName, GoodValue
<1>2. h \in Seq(Bytes) /\ Len(h) \in Nat
  <2>1. h \in Seq(Bytes)
    BY HeaderLineIs
  <2> HIDE DEF h
  <2> QED
    BY <2>1
<1>3. Line(c) = r
  <2>1. Printed(c[1]) = c[1] /\ Printed(c[2]) = c[2]
    BY <1>1, PrintedIs
  <2> QED
    BY <2>1 DEF Line, HeaderLine, ColonBlank
<1>4. \A i \in 1 .. Len(h) : LineBegins(h, i) => h[i] # "."
  BY <1>1, OnlyFirstDot DEF HeaderLine
<1> HIDE DEF h
<1>5. /\ r \in Seq(Bytes) /\ Len(r) = Len(h) + 2
      /\ \A i \in 1 .. Len(h) : r[i] = h[i]
      /\ r[Len(h) + 1] = "CR" /\ r[Len(h) + 2] = "LF"
  BY <1>2, CrLfAfter
<1>6. \A i \in 1 .. Len(h) + 1 : LineBegins(r, i) <=> LineBegins(h, i)
  BY <1>2, CrLfIs, LineBeginsConcat
<1> HIDE DEF r
<1>7. ASSUME NEW i \in 1 .. Len(r), LineBegins(r, i) PROVE r[i] # "."
  <2>1. CASE i \in 1 .. Len(h)
    <3>1. i \in 1 .. Len(h) + 1
      BY <1>2, <2>1
    <3> QED
      BY <1>4, <1>5, <1>6, <1>7, <2>1, <3>1
  <2>2. CASE i \notin 1 .. Len(h)
    <3>1. i = Len(h) + 1 \/ i = Len(h) + 2
      BY <1>2, <1>5, <2>2
    <3> QED
      BY <1>5, <3>1
  <2> QED
    BY <2>1, <2>2
<1>8. Unstuffed(r) = r
  BY <1>5, <1>7, UndottedSame DEF Undotted
<1> QED
  BY <1>2, <1>3, <1>5, <1>8 DEF h, r

\* A dot that begins a line of the body and is not the whole of it.
DotLost(s) == \E i \in DOMAIN s : s[i] = "." /\ LineBegins(s, i) /\ ~EndsAt(s \o CrLf, i)

LEMMA PieceGetsThrough ==
  ASSUME body \in Seq(Bytes), start \in Nat, start < Len(body),
         LineBegins(body, start + 1), ~DotLost(body)
  PROVE  Unstuffed(Stuffed \o PieceEnd) = Piece \o PieceEnd
<1>1. /\ Piece \in Seq(Bytes) /\ Stuffed \in Seq(Bytes) /\ PieceEnd \in {<<>>, CrLf}
      /\ \A k \in 1 .. Len(Stuffed) - 1 : ~(Stuffed[k] = "CR" /\ Stuffed[k + 1] = "LF")
      /\ Stuffed # <<".">>
      /\ Stuffed = IF Piece = <<".">> THEN <<".", ".">> ELSE Piece
  BY PieceProperties
<1>2. /\ LineEnd \in Nat /\ start <= LineEnd /\ LineEnd <= Len(body) /\ Len(body) \in Nat
      /\ \A p \in Nat : start <= p /\ p < LineEnd /\ p + 2 <= Len(body) =>
           ~(body[p + 1] = "CR" /\ body[p + 2] = "LF")
  BY LineEndIs
<1>3. Len(Piece) = LineEnd - start /\ \A k \in 1 .. LineEnd - start : Piece[k] = body[start + k]
  BY <1>2, PieceIs DEF Piece
<1>4. ASSUME Piece # <<>>, Piece[1] = "." PROVE Piece = <<".">>
  <2> DEFINE i == start + 1
             r == body \o CrLf
             n == Len(body)
  <2>1. Len(Piece) # 0 /\ 1 \in 1 .. LineEnd - start /\ start < LineEnd
    <3>1. Len(Piece) # 0
      BY <1>1, <1>4
    <3> QED
      BY <1>2, <1>3, <3>1
  <2>2. body[i] = "." /\ LineBegins(body, i) /\ i \in DOMAIN body
    BY <1>3, <1>4, <2>1
  <2>3. EndsAt(r, i)
    BY <2>2 DEF DotLost
  <2>4. /\ r \in Seq(Bytes) /\ Len(r) = n + 2 /\ n \in Nat
        /\ \A j \in 1 .. n : r[j] = body[j]
        /\ r[n + 1] = "CR" /\ r[n + 2] = "LF"
    BY CrLfAfter
  <2> HIDE DEF r, n
  <2>5. i \in 1 .. Len(r) /\ i \in Nat
    BY <2>2, <2>4 DEF n
  <2> HIDE DEF i
  <2>6. i + 2 <= Len(r) /\ r[i + 1] = "CR" /\ r[i + 2] = "LF"
    BY <2>3, <2>4, <2>5, EndsAtIs
  <2>7. LineEnd = i
    <3>1. ASSUME LineEnd # i PROVE FALSE
      <4>1. i < LineEnd /\ i < n
        BY <1>2, <2>1, <2>5, <3>1 DEF i, n
      <4>2. i + 2 <= n
        <5>1. ASSUME i + 1 = n PROVE FALSE
          <6>1. i + 2 = n + 1
            BY <2>4, <2>5, <5>1
          <6> QED
            BY <2>4, <2>6, <6>1
        <5> QED
          BY <2>4, <2>5, <4>1, <5>1
      <4>3. i + 1 \in 1 .. n /\ i + 2 \in 1 .. n
        BY <2>4, <2>5, <4>2
      <4>4. body[i + 1] = "CR" /\ body[i + 2] = "LF"
        BY <2>4, <2>6, <4>3
      <4>5. start <= i
        BY DEF i
      <4> QED
        BY <1>2, <2>5, <4>1, <4>2, <4>4, <4>5 DEF n
    <3> QED
      BY <3>1
  <2>8. Len(Piece) = 1
    BY <1>3, <2>7 DEF i
  <2>9. <<".">> \in Seq(Bytes) /\ Len(<<".">>) = 1 /\ <<".">>[1] = "."
    BY DEF Bytes
  <2>10. \A k \in 1 .. 1 : Piece[k] = <<".">>[k]
    BY <1>4, <2>9
  <2> QED
    BY <1>1, <2>8, <2>9, <2>10, SeqEqual
<1>5. Unstuffed(Stuffed) = Piece
  <2>1. CASE Piece = <<".">>
    BY <1>1, <2>1, UnstuffedDots
  <2>2. CASE Piece # <<".">>
    <3>1. Stuffed = Piece
      BY <1>1, <2>2
    <3>2. \A k \in 1 .. Len(Piece) : LineBegins(Piece, k) => k = 1
      BY <1>1, <2>2, <3>1, LineIs
    <3>3. Len(Piece) # 0 => Piece # <<>>
      BY <1>1
    <3>4. \A k \in 1 .. Len(Piece) : Len(Piece) # 0
      BY <1>1
    <3>5. Undotted(Piece)
      BY <1>4, <2>2, <3>2, <3>3, <3>4 DEF Undotted
    <3> QED
      BY <1>1, <3>1, <3>5, UndottedSame
  <2> QED
    BY <2>1, <2>2
<1>6. CASE PieceEnd = <<>>
  <2>1. Stuffed \o <<>> = Stuffed /\ Piece \o <<>> = Piece
    BY <1>1, ConcatEmptySeq
  <2> QED
    BY <1>5, <1>6, <2>1
<1>7. CASE PieceEnd = CrLf
  BY <1>1, <1>5, <1>7, UnstuffedCrLf
<1> QED
  BY <1>1, <1>6, <1>7

\* What has been written of the body, and where the next line begins.
LEMMA NextPiece ==
  ASSUME body \in Seq(Bytes), start \in Nat, start < Len(body)
  PROVE  /\ SubSeq(body, 1, start) \o (Piece \o PieceEnd) = SubSeq(body, 1, LineStart(LineEnd))
         /\ LineStart(LineEnd) < Len(body) => LineBegins(body, LineStart(LineEnd) + 1)
<1> DEFINE next == LineStart(LineEnd)
<1>1. /\ next \in Nat /\ start < next /\ next <= Len(body)
      /\ SubSeq(body, start + 1, next) = Piece \o PieceEnd
  BY PieceProperties
<1>2. /\ LineEnd \in Nat /\ LineEnd <= Len(body) /\ Len(body) \in Nat
      /\ LineEnd # Len(body) =>
           /\ LineEnd + 2 <= Len(body)
           /\ body[LineEnd + 1] = "CR" /\ body[LineEnd + 2] = "LF"
  BY LineEndIs
<1>3. ASSUME next < Len(body) PROVE LineBegins(body, next + 1)
  <2>1. LineEnd # Len(body) /\ next = LineEnd + 2
    BY <1>2, <1>3 DEF LineStart
  <2> DEFINE i == next + 1
  <2>2. i \in 1 .. Len(body) + 1 /\ i > 2 /\ i - 2 = LineEnd + 1 /\ i - 1 = LineEnd + 2
    BY <1>2, <2>1
  <2> HIDE DEF i
  <2>3. LineBegins(body, i)
    BY <1>2, <2>1, <2>2, LineBeginsIs
  <2> QED
    BY <2>3 DEF i
<1>4. SubSeq(body, 1, start) \o SubSeq(body, start + 1, next) = SubSeq(body, 1, next)
  <2>1. 1 \in 1 .. Len(body) + 1 /\ start \in 1 - 1 .. Len(body) /\ next \in start .. Len(body)
    BY <1>1, <1>2
  <2> HIDE DEF next
  <2> QED
    BY <2>1, ConcatAdjacentSubSeq
<1> QED
  BY <1>1, <1>3, <1>4

\* What the server takes for the data.
DataOf(s) == SubSeq(s, 1, Least({i \in DOMAIN s : EndsAt(s, i)}, 0) - 1)

LEMMA DataOfEnded ==
  ASSUME NEW t \in Seq(Bytes),
         LET s == t \o CrLf \o <<".">> \o CrLf
         IN  \A i \in DOMAIN s : EndsAt(s, i) <=> i = Len(s) - 2
  PROVE  DataOf(t \o CrLf \o <<".">> \o CrLf) = t \o CrLf
<1> DEFINE r == t \o CrLf
           d == <<".">>
           s == r \o d \o CrLf
           S == {i \in DOMAIN s : EndsAt(s, i)}
           n == Len(r)
<1>1. CrLf \in Seq(Bytes) /\ Len(CrLf) = 2 /\ d \in Seq(Bytes) /\ Len(d) = 1
  BY CrLfIs DEF Bytes
<1>2. r \in Seq(Bytes) /\ n \in Nat
  BY <1>1, ConcatProperties
<1> HIDE DEF r, d
<1>3. /\ r \o d \in Seq(Bytes) /\ Len(r \o d) = n + 1
      /\ \A j \in 1 .. n : (r \o d)[j] = r[j]
  <2>1. /\ r \o d \in Seq(Bytes) /\ Len(r \o d) = Len(r) + Len(d)
        /\ \A j \in 1 .. Len(r) : (r \o d)[j] = r[j]
    <3>1. r \in Seq(Bytes) /\ d \in Seq(Bytes)
      BY <1>1, <1>2
    <3> QED
      BY <3>1, ConcatIs
  <2> QED
    BY <1>1, <2>1
<1>4. /\ s \in Seq(Bytes) /\ Len(s) = n + 1 + 2
      /\ \A j \in 1 .. n + 1 : s[j] = (r \o d)[j]
  <2> DEFINE q == r \o d
  <2>1. q \in Seq(Bytes) /\ Len(q) = n + 1
    BY <1>3
  <2> HIDE DEF q
  <2>2. /\ q \o CrLf \in Seq(Bytes) /\ Len(q \o CrLf) = n + 1 + 2
        /\ \A j \in 1 .. n + 1 : (q \o CrLf)[j] = q[j]
    <3>1. /\ q \o CrLf \in Seq(Bytes) /\ Len(q \o CrLf) = Len(q) + 2
          /\ \A j \in 1 .. Len(q) : (q \o CrLf)[j] = q[j]
      BY <2>1, CrLfAfter
    <3> QED
      BY <2>1, <3>1
  <2> QED
    BY <2>2 DEF q
<1>5. \A i \in DOMAIN s : EndsAt(s, i) <=> i = Len(s) - 2
  BY DEF r, d
<1> HIDE DEF s
<1>6. DOMAIN s = 1 .. n + 3 /\ Len(s) - 2 = n + 1 /\ n + 1 \in 1 .. n + 3
  BY <1>2, <1>4
<1>7. S = {n + 1}
  BY <1>5, <1>6
<1>8. Least(S, 0) = n + 1
  <2>1. {n + 1} \in SUBSET Nat /\ {n + 1} # {}
    BY <1>2
  <2>2. Least({n + 1}, 0) \in {n + 1}
    BY <2>1, LeastProperties
  <2> QED
    BY <1>7, <2>2
<1> DEFINE q == SubSeq(s, 0 + 1, n)
<1>9. DataOf(s) = q
  <2>1. DataOf(s) = SubSeq(s, 1, Least(S, 0) - 1)
    BY DEF DataOf
  <2>2. Least(S, 0) - 1 = n
    <3>1. Least(S, 0) - 1 = (n + 1) - 1
      BY <1>8
    <3> QED
      BY <1>2, <3>1
  <2>3. q = SubSeq(s, 1, n)
    OBVIOUS
  <2> HIDE DEF S, n, q
  <2> QED
    BY <2>1, <2>2, <2>3
<1>10. q \in Seq(Bytes) /\ Len(q) = n /\ \A j \in 1 .. n : q[j] = s[j]
  <2>1. 0 \in Nat /\ 0 <= n /\ n <= Len(s) /\ n - 0 = n /\ \A j \in 1 .. n : 0 + j = j
    BY <1>2, <1>4
  <2> QED
    BY <1>2, <1>4, <2>1, PieceIs
<1> HIDE DEF q
<1>11. q = r
  <2>1. \A j \in 1 .. n : j \in 1 .. n + 1
    BY <1>2
  <2>2. \A j \in 1 .. n : q[j] = r[j]
    BY <1>3, <1>4, <1>10, <2>1
  <2> QED
    BY <1>2, <1>10, <2>2, SeqEqual
<1> QED
  BY <1>9, <1>11 DEF s, r, d

-----------------------------------------------------------------------------
(* A message that is none of the exceptions gets through. *)

Clean == ~HasNul /\ ~HasDottedLine /\ NamesOnOneLine /\ NoValueEndsALine

\* Without its dots s is the headers, an empty line and b.
Says(s, b) ==
  \E h \in Seq(Bytes) :
    (\E off : Laid(h, Content, Len(Content), off)) /\ Unstuffed(s) = h \o CrLf \o b

AtLines ==
  /\ phase = "headers" => start = 0 /\ (state # "parsed" => written = 0)
  /\ phase = "received" => sent # <<>>
  /\ phase # "received" /\ start < Len(body) => LineBegins(body, start + 1)

Passing ==
  Clean =>
    /\ phase = "headers" =>
         Unstuffed(stream) = stream /\ \E off : Laid(stream, Content, written, off)
    /\ phase = "body" => Says(stream, SubSeq(body, 1, start))
    /\ phase = "written" => Says(Data, body \o CrLf)
    /\ phase = "received" =>
         /\ Good(sent[1]) /\ body = sent[2] \o CrLf
         /\ \E off : Laid(text \o CrLf, sent[1], Len(sent[1]), off)

LEMMA SameClean ==
  ASSUME Source' = Source
  PROVE  Clean' = Clean
BY DEF Clean, HasNul, HasDottedLine, NamesOnOneLine, NoValueEndsALine

LEMMA CleanIs ==
  ASSUME Parsing, sent = <<>>, Clean
  PROVE  /\ \A i \in DOMAIN fields :
              LET c == Content[i]
              IN  /\ c = <<c[1], c[2]>> /\ GoodName(c[1]) /\ GoodValue(c[2])
                  /\ ~Contains(c[1], "NUL") /\ ~Contains(c[2], "NUL")
                  /\ c[1] # <<>> => c[1][1] # "."
         /\ fields # <<>> => Good(Content) /\ Len(Content) = Len(fields)
         /\ ~Contains(body, "NUL") /\ ~DotLost(body)
<1>1. Source[1] = Content /\ Source[2] = body
  BY DEF Source
<1>2. ~Contains(body, "NUL") /\ ~DotLost(body)
  BY <1>1 DEF Clean, HasNul, HasDottedLine, DotLost
<1>3. DOMAIN Content = DOMAIN fields
  BY DEF Content
<1>4. \A i \in DOMAIN Content :
        /\ ~Contains(Content[i][1], "LF") /\ ~Contains(Content[i][1], "NUL")
        /\ ~Contains(Content[i][2], "NUL")
        /\ Content[i][2] # <<>> => Last(Content[i][2]) # "LF"
        /\ Content[i][1] # <<>> => Head(Content[i][1]) # "."
  BY <1>1 DEF Clean, HasNul, HasDottedLine, NamesOnOneLine, NoValueEndsALine
<1>5. ASSUME NEW i \in DOMAIN fields
      PROVE  LET c == Content[i]
             IN  /\ c = <<c[1], c[2]>> /\ GoodName(c[1]) /\ GoodValue(c[2])
                 /\ ~Contains(c[1], "NUL") /\ ~Contains(c[2], "NUL")
                 /\ c[1] # <<>> => c[1][1] # "."
  <2>1. Content[i] = <<NameOf(fields[i]), ValueOf(fields[i])>>
    BY DEF Content
  <2>2. Content[i][1] = NameOf(fields[i]) /\ Content[i][2] = ValueOf(fields[i])
    BY <2>1
  <2>3. Content[i] = <<Content[i][1], Content[i][2]>>
    BY <2>1, <2>2
  <2>4. GoodName(Content[i][1]) /\ GoodValue(Content[i][2])
    BY <1>3, <1>4, <2>2, NameIsGood, ValueIsGood
  <2>5. Content[i][1] # <<>> => Content[i][1][1] # "."
    <3>1. Content[i][1] \in Seq(Bytes)
      BY <2>4 DEF GoodName
    <3>2. Content[i][1] # <<>> => Head(Content[i][1]) = Content[i][1][1]
      BY <3>1
    <3> QED
      BY <1>3, <1>4, <3>2
  <2> QED
    BY <1>3, <1>4, <2>3, <2>4, <2>5
<1>6. fields # <<>> => Good(Content) /\ Len(Content) = Len(fields)
  BY <1>3, <1>4, ContentIsGood
<1> QED
  BY <1>2, <1>5, <1>6

\* Before anything is written.
LEMMA NoneLaid ==
  ASSUME NEW C
  PROVE  Unstuffed(<<>>) = <<>> /\ \E off : Laid(<<>>, C, 0, off)
<1> DEFINE off == [i \in 1 .. 0 + 1 |-> 0]
<1>1. off \in [1 .. 0 + 1 -> Nat] /\ off[1] = 0 /\ off[0 + 1] = 0
  OBVIOUS
<1> HIDE DEF off
<1>2. Laid(<<>>, C, 0, off)
  BY <1>1 DEF Laid
<1> QED
  BY <1>2, UnstuffedSteps

LEMMA InitPassing == Init => AtLines /\ Passing
<1> SUFFICES ASSUME Init PROVE AtLines /\ Passing
  OBVIOUS
<1>1. /\ phase = "headers" /\ start = 0 /\ written = 0 /\ stream = <<>>
  BY DEF Init
<1>2. AtLines
  BY <1>1 DEF AtLines, LineBegins
<1>3. Passing
  BY <1>1, NoneLaid DEF Passing
<1> QED
  BY <1>2, <1>3

LEMMA LoadPassing ==
  ASSUME IInv, AtLines, Passing, Load
  PROVE  AtLines' /\ Passing'
<1>1. /\ state = "parsing" /\ text' = text
      /\ UNCHANGED <<body, written, phase, start, stream, sent>>
  BY DEF Load, Parse, Unfold, ParseHeader, payloadVars
<1>2. AtLines'
  BY <1>1 DEF AtLines
<1>3. CASE phase = "received"
  <2>1. Source' = Source
    BY <1>1, <1>3 DEF Source, AtLines
  <2>2. Clean' = Clean
    BY <2>1, SameClean
  <2> QED
    BY <1>1, <1>2, <1>3, <2>2 DEF Passing
<1>4. CASE phase # "received"
  <2>1. phase = "headers" /\ stream = <<>> /\ written = 0
    BY <1>1, <1>4 DEF IInv, Writing, AtLines
  <2>2. Unstuffed(stream') = stream' /\ \E off : Laid(stream', Content', written', off)
    BY <1>1, <2>1, NoneLaid
  <2> QED
    BY <1>1, <1>2, <2>1, <2>2 DEF Passing
<1> QED
  BY <1>3, <1>4

LEMMA WriteHeaderPassing ==
  ASSUME IInv, AtLines, Passing, WriteHeader
  PROVE  AtLines' /\ Passing'
<1> DEFINE w == written
           c == Content[w + 1]
           l == HeaderLine(c) \o CrLf
<1>1. /\ phase = "headers" /\ state = "parsed" /\ w < Len(fields)
      /\ stream' = stream \o Line(c) /\ written' = w + 1
      /\ UNCHANGED <<headerVars, body, phase, start, sent>>
  BY DEF WriteHeader
<1>2. Parsing /\ sent = <<>> /\ w \in Nat /\ stream \in Seq(Bytes) /\ w + 1 \in DOMAIN fields
  <2>1. Parsing /\ sent = <<>> /\ w \in Nat /\ stream \in Seq(Bytes) /\ fields \in Seq(Field)
    BY <1>1 DEF IInv, Writing, Parsing
  <2> QED
    BY <1>1, <2>1
<1>3. Content' = Content
  BY <1>1, SameSource
<1>4. Clean' = Clean
  BY <1>1, <1>3, SameClean DEF Source
<1>5. AtLines'
  BY <1>1 DEF AtLines, headerVars
<1>6. ASSUME Clean
      PROVE  Unstuffed(stream') = stream' /\ \E off : Laid(stream', Content, w + 1, off)
  <2>1. EndsLine(stream)
    BY <1>1, <1>6 DEF IInv, Sound, Clean
  <2>2. /\ c = <<c[1], c[2]>> /\ GoodName(c[1]) /\ GoodValue(c[2])
        /\ ~Contains(c[1], "NUL") /\ ~Contains(c[2], "NUL")
        /\ c[1] # <<>> => c[1][1] # "."
    BY <1>2, <1>6, CleanIs
  <2>3. HeaderLine(c) \in Seq(Bytes) /\ l \in Seq(Bytes) /\ Line(c) = l /\ Unstuffed(l) = l
    BY <2>2, HeaderGetsThrough
  <2>4. Unstuffed(stream) = stream /\ \E off : Laid(stream, Content, w, off)
    BY <1>1, <1>6 DEF Passing
  <2>5. Unstuffed(stream \o l) = stream \o l
    BY <1>2, <2>1, <2>3, <2>4, UnstuffedConcat
  <2>6. \E off : Laid(stream \o l, Content, w + 1, off)
    BY <1>2, <2>3, <2>4, LaidNext
  <2> QED
    BY <1>1, <2>3, <2>5, <2>6
<1> QED
  BY <1>1, <1>3, <1>4, <1>5, <1>6 DEF Passing

LEMMA WriteEmptyLinePassing ==
  ASSUME IInv, AtLines, Passing, WriteEmptyLine
  PROVE  AtLines' /\ Passing'
<1>1. /\ phase = "headers" /\ state = "parsed" /\ written = Len(fields)
      /\ stream' = stream \o CrLf /\ phase' = "body"
      /\ UNCHANGED <<headerVars, body, written, start, sent>>
  BY DEF WriteEmptyLine
<1>2. Parsing /\ sent = <<>> /\ stream \in Seq(Bytes) /\ fields # <<>>
  BY <1>1 DEF IInv, Writing, Parsing
<1>3. Content' = Content
  BY <1>1, SameSource
<1>4. Clean' = Clean
  BY <1>1, <1>3, SameClean DEF Source
<1>5. AtLines'
  BY <1>1 DEF AtLines
<1>6. ASSUME Clean PROVE Says(stream', SubSeq(body, 1, start))
  <2>1. Len(Content) = written
    BY <1>1, <1>2, <1>6, CleanIs
  <2>2. Unstuffed(stream) = stream /\ \E off : Laid(stream, Content, Len(Content), off)
    BY <1>1, <1>6, <2>1 DEF Passing
  <2>3. SubSeq(body, 1, start) = <<>>
    BY <1>1 DEF AtLines, IInv, Writing
  <2>4. stream \o CrLf \in Seq(Bytes)
    BY <1>2, CrLfAfter
  <2>5. stream \o CrLf \o <<>> = stream \o CrLf
    BY <2>4, ConcatEmptySeq
  <2>6. Unstuffed(stream \o CrLf) = stream \o CrLf
    BY <1>2, <2>2, UnstuffedCrLf
  <2> QED
    BY <1>1, <1>2, <2>2, <2>3, <2>5, <2>6 DEF Says
<1>7. Clean => Says(stream, SubSeq(body, 1, start))'
  BY <1>1, <1>3, <1>6 DEF Says
<1> QED
  BY <1>1, <1>4, <1>5, <1>7 DEF Passing

LEMMA WriteLinePassing ==
  ASSUME IInv, AtLines, Passing, WriteLine
  PROVE  AtLines' /\ Passing'
<1> DEFINE next == LineStart(LineEnd)
           st == Stuffing(LineEnd)
           p == SubSeq(body, start + 1, next)
           b == SubSeq(body, 1, start)
<1>1. /\ phase = "body" /\ start < Len(body)
      /\ start' = next
      /\ stream' = stream \o st \o Printed(p)
      /\ UNCHANGED <<headerVars, body, written, phase, sent>>
  BY DEF WriteLine
<1>2. /\ Parsing /\ sent = <<>> /\ body \in Seq(Bytes) /\ start \in Nat /\ start <= Len(body)
      /\ stream \in Seq(Bytes)
  BY <1>1 DEF IInv, Writing
<1>3. Content' = Content
  BY <1>1, SameSource
<1>4. Clean' = Clean
  BY <1>1, <1>3, SameClean DEF Source
<1>5. /\ Piece \in Seq(Bytes) /\ Stuffed \in Seq(Bytes) /\ PieceEnd \in Seq(Bytes) /\ st \in Seq(Bytes)
      /\ next \in Nat /\ start < next /\ next <= Len(body)
      /\ p = Piece \o PieceEnd
  BY <1>1, <1>2, PieceProperties
<1>6. /\ b \o (Piece \o PieceEnd) = SubSeq(body, 1, next)
      /\ next < Len(body) => LineBegins(body, next + 1)
  BY <1>1, <1>2, NextPiece
<1>7. Stuffed = st \o Piece
  BY DEF Stuffed
<1>8. b \in Seq(Bytes)
  <2>1. \A i \in 1 .. start : body[i] \in Bytes
    BY <1>2
  <2> QED
    BY <1>2, <2>1, SubSeqProperties
<1> HIDE DEF next, st, p, b
<1>9. AtLines'
  BY <1>1, <1>6 DEF AtLines
<1>10. ASSUME Clean PROVE Says(stream', SubSeq(body, 1, next))
  <2>1. EndsLine(stream)
    BY <1>1, <1>10 DEF IInv, Sound, Clean
  <2>2. ~Contains(body, "NUL") /\ ~DotLost(body)
    BY <1>2, <1>10, CleanIs
  <2>3. Printed(p) = p
    <3>1. /\ Len(p) = next - start /\ \A k \in 1 .. next - start : p[k] = body[start + k]
      <4>1. start <= next
        BY <1>2, <1>5
      <4> QED
        BY <1>2, <1>5, <4>1, PieceIs DEF p
    <3>2. \A k \in 1 .. next - start : start + k \in 1 .. Len(body)
      BY <1>2, <1>5
    <3>3. ~Contains(p, "NUL")
      BY <2>2, <3>1, <3>2 DEF Contains
    <3>4. p \in Seq(Bytes)
      BY <1>5, ConcatProperties
    <3> QED
      BY <3>3, <3>4, PrintedIs
  <2> DEFINE t == Stuffed \o PieceEnd
  <2>4. stream' = stream \o t /\ t \in Seq(Bytes)
    <3>1. t = st \o (Piece \o PieceEnd)
      BY <1>5, <1>7, BytesConcat
    <3>2. p \in Seq(Bytes) /\ t \in Seq(Bytes)
      BY <1>5, ConcatProperties
    <3>3. (stream \o st) \o p = stream \o (st \o p)
      <4>1. stream \in Seq(Bytes) /\ st \in Seq(Bytes) /\ p \in Seq(Bytes)
        BY <1>2, <1>5, <3>2
      <4> QED
        BY <4>1, BytesConcat
    <3> QED
      BY <1>1, <1>5, <2>3, <3>1, <3>2, <3>3
  <2>5. Unstuffed(t) = Piece \o PieceEnd
    BY <1>1, <1>2, <2>2, PieceGetsThrough DEF AtLines
  <2> HIDE DEF t
  <2>6. PICK h \in Seq(Bytes) :
          (\E off : Laid(h, Content, Len(Content), off)) /\ Unstuffed(stream) = h \o CrLf \o b
    BY <1>1, <1>10 DEF Passing, Says, b
  <2>7. Unstuffed(stream') = Unstuffed(stream) \o (Piece \o PieceEnd)
    BY <1>2, <2>1, <2>4, <2>5, UnstuffedConcat
  <2> DEFINE g == h \o CrLf
             q == Piece \o PieceEnd
  <2>8. g \in Seq(Bytes) /\ q \in Seq(Bytes)
    BY <1>5, CrLfAfter, ConcatProperties
  <2>9. (g \o b) \o q = g \o (b \o q)
    <3> HIDE DEF g, q
    <3> QED
      BY <1>8, <2>8, BytesConcat
  <2>10. Unstuffed(stream') = h \o CrLf \o SubSeq(body, 1, next)
    BY <1>6, <2>6, <2>7, <2>9
  <2> QED
    BY <2>6, <2>10 DEF Says
<1>11. Clean => Says(stream, SubSeq(body, 1, start))'
  BY <1>1, <1>3, <1>10 DEF Says
<1> QED
  BY <1>1, <1>4, <1>9, <1>11 DEF Passing

LEMMA WriteEndPassing ==
  ASSUME IInv, IInv', AtLines, Passing, WriteEnd
  PROVE  AtLines' /\ Passing'
<1>1. /\ phase = "body" /\ start = Len(body)
      /\ stream' = stream \o CrLf \o <<".">> \o CrLf
      /\ phase' = "written"
      /\ UNCHANGED <<headerVars, body, written, start, sent>>
  BY DEF WriteEnd
<1>2. Parsing /\ body \in Seq(Bytes) /\ stream \in Seq(Bytes)
  BY DEF IInv, Writing
<1>3. Content' = Content
  BY <1>1, SameSource
<1>4. Clean' = Clean
  BY <1>1, <1>3, SameClean DEF Source
<1>5. AtLines'
  BY <1>1 DEF AtLines
<1>6. ASSUME Clean PROVE Says(Data', body \o CrLf)
  <2>1. DataEndsOnce' /\ ~HasNul' /\ NamesOnOneLine'
    BY <1>1, <1>4, <1>6 DEF IInv, Sound, Clean
  <2>2. \A i \in DOMAIN stream' : EndsAt(stream', i) <=> i = Len(stream') - 2
    BY <1>1, <2>1 DEF DataEndsOnce
  <2>3. DataOf(stream') = stream \o CrLf
    BY <1>1, <1>2, <2>2, DataOfEnded
  <2>4. Data' = stream \o CrLf
    BY <2>3 DEF Data, DataOf
  <2>5. SubSeq(body, 1, start) = body
    BY <1>1, <1>2, SubSeqFull
  <2>6. PICK h \in Seq(Bytes) :
          (\E off : Laid(h, Content, Len(Content), off)) /\ Unstuffed(stream) = h \o CrLf \o body
    BY <1>1, <1>6, <2>5 DEF Passing, Says
  <2> DEFINE g == h \o CrLf
  <2>7. g \in Seq(Bytes) /\ CrLf \in Seq(Bytes)
    BY CrLfAfter, CrLfIs
  <2>8. (g \o body) \o CrLf = g \o (body \o CrLf)
    <3> HIDE DEF g
    <3>1. g \in Seq(Bytes) /\ body \in Seq(Bytes) /\ CrLf \in Seq(Bytes)
      BY <1>2, <2>7
    <3> QED
      BY <3>1, BytesConcat
  <2>9. Unstuffed(stream \o CrLf) = Unstuffed(stream) \o CrLf
    BY <1>2, UnstuffedCrLf
  <2>10. Unstuffed(Data') = h \o CrLf \o (body \o CrLf)
    BY <2>4, <2>6, <2>8, <2>9
  <2> QED
    BY <2>6, <2>10 DEF Says
<1>7. Clean => Says(Data, body \o CrLf)'
  BY <1>1, <1>3, <1>6 DEF Says
<1> QED
  BY <1>1, <1>4, <1>5, <1>7 DEF Passing

LEMMA ReceivePassing ==
  ASSUME IInv, AtLines, Passing, Receive
  PROVE  AtLines' /\ Passing'
<1> DEFINE mail == Unstuffed(Data)
<1>1. /\ phase = "written"
      /\ text' = SubSeq(mail, 1, EmptyLine(mail))
      /\ body' = SubSeq(mail, EmptyLine(mail) + 5, Len(mail))
      /\ sent' = <<Content, body>> /\ phase' = "received"
  BY DEF Receive
<1>2. Parsing /\ sent = <<>> /\ state = "parsed" /\ body \in Seq(Bytes) /\ fields # <<>>
  BY <1>1 DEF IInv, Writing, Parsing
<1>3. sent' # <<>> /\ sent'[1] = Content /\ sent'[2] = body
  BY <1>1
<1>4. Clean' = Clean
  BY <1>1, <1>2, <1>3, SameClean DEF Source
<1>5. AtLines'
  BY <1>1, <1>3 DEF AtLines
<1>6. ASSUME Clean
      PROVE  /\ Good(Content) /\ body' = body \o CrLf
             /\ \E off : Laid(text' \o CrLf, Content, Len(Content), off)
  <2>1. Good(Content)
    BY <1>2, <1>6, CleanIs
  <2>2. PICK h \in Seq(Bytes) :
          (\E off : Laid(h, Content, Len(Content), off)) /\ mail = h \o CrLf \o (body \o CrLf)
    BY <1>1, <1>6 DEF Passing, Says
  <2> DEFINE b == body \o CrLf
  <2>3. b \in Seq(Bytes)
    BY <1>2, CrLfAfter
  <2> HIDE DEF b, mail
  <2>4. mail = h \o CrLf \o b
    BY <2>2 DEF b
  <2>5. /\ SubSeq(mail, 1, EmptyLine(mail)) \o CrLf = h
        /\ SubSeq(mail, EmptyLine(mail) + 5, Len(mail)) = b
    BY <2>1, <2>2, <2>3, <2>4, EmptyLineFound, ZenonT(30)
  <2>6. text' \o CrLf = h /\ body' = b
    BY <1>1, <2>5
  <2> QED
    BY <2>1, <2>2, <2>6 DEF b
<1>7. Clean => /\ Good(sent'[1]) /\ body' = sent'[2] \o CrLf
               /\ \E off : Laid(text' \o CrLf, sent'[1], Len(sent'[1]), off)
  BY <1>3, <1>6
<1> QED
  BY <1>1, <1>4, <1>5, <1>7 DEF Passing

LEMMA StepPassing == IInv /\ IInv' /\ AtLines /\ Passing /\ [Next]_vars => AtLines' /\ Passing'
<1> SUFFICES ASSUME IInv, IInv', AtLines, Passing, [Next]_vars PROVE AtLines' /\ Passing'
  OBVIOUS
<1>1. CASE Load
  BY <1>1, LoadPassing
<1>2. CASE WriteHeader
  BY <1>2, WriteHeaderPassing
<1>3. CASE WriteEmptyLine
  BY <1>3, WriteEmptyLinePassing
<1>4. CASE WriteLine
  BY <1>4, WriteLinePassing
<1>5. CASE WriteEnd
  BY <1>5, WriteEndPassing
<1>6. CASE Receive
  BY <1>6, ReceivePassing
<1>7. CASE UNCHANGED vars
  <2>1. UNCHANGED <<headerVars, body, sent>> /\ UNCHANGED <<text, state, written, phase, start, stream>>
    BY <1>7 DEF vars, headerVars, payloadVars
  <2>2. Content' = Content /\ Data' = Data
    BY <2>1, SameSource DEF Data
  <2>3. Clean' = Clean
    BY <2>1, <2>2, SameClean DEF Source
  <2> QED
    BY <2>1, <2>2, <2>3 DEF AtLines, Passing, Says
<1> QED
  BY <1>1, <1>2, <1>3, <1>4, <1>5, <1>6, <1>7 DEF Next

\* The headers are the ones that were sent, and so is the body.
LEMMA PassingRecovers == IInv /\ Passing => MailRecovered
<1> SUFFICES ASSUME IInv, Passing, phase = "received", state # "parsing", Clean
             PROVE  state = "parsed" /\ Content = sent[1] /\ body = sent[2] \o CrLf
  BY DEF MailRecovered, Clean
<1>1. Parsing /\ state \in {"parsing", "parsed", "failed"}
  BY DEF IInv, Parsing
<1>2. /\ Good(sent[1]) /\ body = sent[2] \o CrLf
      /\ \E off : Laid(text \o CrLf, sent[1], Len(sent[1]), off)
  BY DEF Passing
<1>3. PICK off : Laid(text \o CrLf, sent[1], Len(sent[1]), off)
  BY <1>2
<1>4. Again(sent[1], off)
  BY <1>1, <1>2, <1>3 DEF Again
<1>5. state = "parsed"
  BY <1>1, <1>4, NoneWithoutColon
<1>6. Content = sent[1]
  BY <1>4, <1>5, AllFound
<1> QED
  BY <1>2, <1>5, <1>6

\* The invariant of the whole: what has been parsed, what has been written, and
\* what of the message is there again.
THEOREM PayloadInvariant == Spec => [](IInv /\ AtLines /\ Passing)
<1>1. Init => IInv /\ AtLines /\ Passing
  BY InitIInv, InitPassing
<1>2. IInv /\ AtLines /\ Passing /\ [Next]_vars => (IInv /\ AtLines /\ Passing)'
  BY StepIInv, StepPassing
<1> QED
  BY <1>1, <1>2, PTL DEF Spec

\* Wherever a message comes from, its headers are cut where their fields end and
\* nowhere else, and nothing but blanks and the colons is lost (parse_headers).
THEOREM PayloadFieldsExact == Spec => []FieldsExact
<1>1. IInv => FieldsExact
  BY DEF IInv, Parsing
<1> QED
  BY <1>1, PayloadInvariant, PTL

\* What write_data_payload writes ends the data once, and that is at its end.
THEOREM PayloadDataEndsOnce == Spec => []DataEndsOnce
<1>1. IInv => DataEndsOnce
  BY DEF IInv, Sound, DataEndsOnce
<1> QED
  BY <1>1, PayloadInvariant, PTL

\* A message that is none of the exceptions comes out of the other end as it was
\* parsed: every header with its name and its value, and the body, after which
\* write_data_payload adds a line's end.
THEOREM PayloadMailRecovered == Spec => []MailRecovered
BY PassingRecovers, PayloadInvariant, PTL
=============================================================================
