------------------------------ MODULE MCEventLoop ------------------------------
(* EventLoop on small instances. *)
EXTENDS EventLoop

CONSTANTS h1

AllDests == [f \in Files |-> Hosts]
=============================================================================
