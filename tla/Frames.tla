------------------------------- MODULE Frames -------------------------------
(***************************************************************************)
(* WebSocketReader under names that no other component uses.               *)
(***************************************************************************)
EXTENDS Naturals, Sequences

CONSTANTS MaxPayload, Lengths, MaxFrames

ASSUME PayloadAssumption == MaxPayload \in Nat /\ Lengths \subseteq Nat

VARIABLES at, in, ahead, frag, got, end, server, sent, broke, torn
readerVars == <<at, in, ahead, frag, got, end, server, sent, broke, torn>>
Reader == INSTANCE WebSocketReader

\* ReadMessage returns the messages of the server, whole and in order.
MessagesInOrder == Reader!MessagesInOrder

=============================================================================
