----------------------------- MODULE MCHTTPClient -----------------------------
(* Model-checking instances of HTTPClient. *)
EXTENDS HTTPClient
=============================================================================
