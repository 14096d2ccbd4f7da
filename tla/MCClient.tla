------------------------------ MODULE MCClient ------------------------------
(* Client on small instances. *)
EXTENDS Client, TLC

CONSTANTS f1, f2, h1, h2

Symmetry == Permutations(Objects)

AllDests == [f \in Files |-> Hosts]
=============================================================================
