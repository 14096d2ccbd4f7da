------------------------------ MODULE MCLoader ------------------------------
(* Loader on every file of at most MaxLength bytes. *)
EXTENDS Loader

CONSTANT MaxLength

AllTexts == UNION {[1 .. n -> Bytes] : n \in 0 .. MaxLength}
=============================================================================
