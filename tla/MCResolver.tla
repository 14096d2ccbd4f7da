------------------------------ MODULE MCResolver ------------------------------
(* Resolver on small instances. *)
EXTENDS Resolver
=============================================================================
