------------------------- MODULE MCReconnectWebSocket -------------------------
(* Model-checking instances of ReconnectWebSocket. *)
EXTENDS ReconnectWebSocket

Unlimited == -1
=============================================================================
