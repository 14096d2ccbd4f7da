-------------------------------- MODULE Headers --------------------------------
(***************************************************************************)
(* message.c: parse_headers and parse_header, which cut the text before the  *)
(* empty line into fields, each with a name and a value that are stretches   *)
(* of it.  One action is one turn of the loop of parse_headers.  Offsets      *)
(* count from 0, like the pointers of the code.                              *)
(***************************************************************************)
EXTENDS Integers, Sequences, SequencesExt

VARIABLES
  text,     \* the headers that are being parsed
  line,     \* where the current field begins
  lineEnd,  \* how far its end has been looked for
  fields,   \* the fields that have been parsed
  state     \* parsing, parsed or failed (LOADING_FAILED)

headerVars == <<text, line, lineEnd, fields, state>>

\* A colon, a dot and a blank stand for themselves, x for any other byte.
Bytes == {"CR", "LF", "SP", ":", ".", "NUL", "x"}

Byte(i) == text[i + 1]

CrLfAt(p) == p + 2 <= Len(text) /\ Byte(p) = "CR" /\ Byte(p + 1) = "LF"

\* strchr(" \t", c), which finds NUL, too.
BlankAt(p) == p < Len(text) /\ Byte(p) \in {"SP", "NUL"}

Least(S, default) == IF S = {} THEN default ELSE CHOOSE x \in S : \A y \in S : x <= y

-----------------------------------------------------------------------------
(* parse_headers and parse_header *)

\* The end of the line: the next CR LF, or the end of the headers.
EndOfLine == Least({p \in lineEnd .. Len(text) : CrLfAt(p)}, Len(text))

\* The next line begins with a blank: it goes on with the same field.
NeverFolded(end) == FALSE  \* fault: a field is a line
Folded(end) == end + 2 < Len(text) /\ BlankAt(end + 2)

Unfold ==
  /\ Folded(EndOfLine)
  /\ lineEnd' = EndOfLine + 3
  /\ UNCHANGED <<text, line, fields, state>>

Colon(end) == Least({p \in line .. end - 1 : Byte(p) = ":"}, end)

\* Blanks after the name, and around the value, are left out.
TrimEnd(from, end) ==
  Least({p \in from .. end : \A q \in p .. end - 1 : BlankAt(q)}, end)
TrimBegin(from, end) ==
  Least({p \in from .. end : ~BlankAt(p)}, end)

Parsed(end) ==
  LET value == TrimBegin(Colon(end) + 1, end)
  IN  [begin |-> line, end |-> end, nameEnd |-> TrimEnd(line, Colon(end)),
       value |-> value, valueEnd |-> TrimEnd(value, end)]

ParseHeader ==
  LET end == EndOfLine
  IN  /\ ~Folded(end)
      /\ IF Colon(end) = end
         THEN state' = "failed" /\ UNCHANGED <<fields, line, lineEnd>>
         ELSE /\ fields' = Append(fields, Parsed(end))
              /\ state' = IF end = Len(text) THEN "parsed" ELSE "parsing"
              /\ line' = IF end = Len(text) THEN line ELSE end + 2
              /\ lineEnd' = IF end = Len(text) THEN end ELSE end + 2
      /\ UNCHANGED text

Parse ==
  /\ state = "parsing"
  /\ Unfold \/ ParseHeader

-----------------------------------------------------------------------------
NameOf(f)  == SubSeq(text, f.begin + 1, f.nameEnd)
ValueOf(f) == SubSeq(text, f.value + 1, f.valueEnd)
Content    == [i \in DOMAIN fields |-> <<NameOf(fields[i]), ValueOf(fields[i])>>]

-----------------------------------------------------------------------------
(* Properties. *)

\* Where a field ends, said of the text alone: at a line's end that no blank
\* follows, or at the end of the headers.
FieldEnds == {p \in 0 .. Len(text) : p = Len(text) \/ (CrLfAt(p) /\ ~BlankAt(p + 2))}

SplitsAtFieldEnds ==
  /\ \A i \in DOMAIN fields :
       /\ fields[i].end \in FieldEnds
       /\ fields[i].begin = IF i = 1 THEN 0 ELSE fields[i - 1].end + 2
       /\ \A p \in FieldEnds : ~(fields[i].begin <= p /\ p < fields[i].end)
  /\ state = "parsed" => fields[Len(fields)].end = Len(text)

OnlyBlanksLost ==
  \A i \in DOMAIN fields :
    LET f == fields[i]
    IN  \E colon \in f.nameEnd .. f.value - 1 :
          /\ Byte(colon) = ":"
          /\ \A p \in f.begin .. f.nameEnd - 1 : Byte(p) # ":"
          /\ \A p \in (f.nameEnd .. f.value - 1 \cup f.valueEnd .. f.end - 1) \ {colon} :
               BlankAt(p)

FailsOnlyWithoutColon ==
  state = "failed" =>
    \E begin \in {0} \cup {p + 2 : p \in FieldEnds \ {Len(text)}} :
      \A p \in begin .. Len(text) - 1 :
        Byte(p) = ":" => \E q \in FieldEnds : begin <= q /\ q < p

\* The parser's turns, each of which goes on where the last one stopped, cut the
\* headers at the ends of their fields and nowhere else; nothing of a field is
\* lost but its first colon and the blanks beside that and at the end; and a
\* message is given up for its headers only when one of them has no colon.
FieldsExact == SplitsAtFieldEnds /\ OnlyBlanksLost /\ FailsOnlyWithoutColon
=============================================================================
