-------------------------- MODULE MCWebSocketClient --------------------------
(* Model-checking instances of WebSocketClient. *)
EXTENDS WebSocketClient
=============================================================================
