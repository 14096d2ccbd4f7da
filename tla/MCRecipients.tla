----------------------------- MODULE MCRecipients -----------------------------
(* Recipients on every list of at most MaxHeaders headers. *)
EXTENDS Recipients, TLC

CONSTANT MaxHeaders

AllInputs == UNION {[1 .. n -> Header] : n \in 0 .. MaxHeaders}
=============================================================================
