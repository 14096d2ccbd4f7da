------------------------------ MODULE MCPayload ------------------------------
(* Payload on every short text that an empty line can follow, with a fixed body,  *)
(* and on every short body after some headers.                                 *)
EXTENDS Payload

CONSTANTS MaxText, MaxBody, MaxNul

Upto(n, bytes) == UNION {[1 .. k -> bytes] : k \in 0 .. n}

\* What message_notify takes for headers: no empty line begins in it.
AllTexts ==
  {t \in Upto(MaxText, Bytes \ {".", "NUL"}) :
     \A p \in 1 .. Len(t) : SubSeq(t \o CrLf \o CrLf, p, p + 3) # CrLf \o CrLf}

Single == <<"x", ":", "x">>
Long   == <<"x", ":", "SP", "x", "CR", "LF", "SP", ".">>
Broken == <<".", "CR", "LF", "SP", ":">>
Texts  == {Single, Single \o CrLf \o Long, Long \o CrLf \o Single, Broken}

AllMails == (AllTexts \X {<<"x">>})
            \cup (Texts \X Upto(MaxBody, {"CR", "LF", ".", "x"}))
            \cup ({Single} \X Upto(MaxNul, {"CR", "LF", ".", "NUL"}))
=============================================================================
