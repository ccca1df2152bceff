---------------------------------- MODULE Dial ----------------------------------
(***************************************************************************)
(* What NewTCPClientAutoTLS promises its callers (HTTPClient, the          *)
(* WebSocket client): it returns once, with an open connection or with an  *)
(* error and nothing left open.                                            *)
(***************************************************************************)
VARIABLES
  result,   \* "pending", "ok" or "error"
  open      \* a socket is open

Init == result = "pending" /\ open = FALSE

Connect == result = "pending" /\ ~open /\ open' = TRUE /\ UNCHANGED result

Succeed == result = "pending" /\ result' = "ok" /\ open' = TRUE

Refuse == result = "pending" /\ result' = "error" /\ open' = FALSE

Next == Connect \/ Succeed \/ Refuse

Spec == Init /\ [][Next]_<<result, open>>
=============================================================================
