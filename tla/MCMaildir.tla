------------------------------ MODULE MCMaildir ------------------------------
(* Maildir on a small instance. *)
EXTENDS Maildir
=============================================================================
