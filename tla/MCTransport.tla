------------------------------ MODULE MCTransport ------------------------------
(* Model-checking instance of Transport. *)
EXTENDS Transport
=============================================================================
