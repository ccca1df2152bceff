------------------------------- MODULE Bodies -------------------------------
(***************************************************************************)
(* HTTPBody under names that no other component uses.                      *)
(***************************************************************************)
EXTENDS Integers, Sequences

CONSTANTS MaxContent, Limits

ASSUME ContentAssumption == MaxContent \in Nat /\ Limits \subseteq Nat

VARIABLES reply, unread, step, rem, body, outcome
bodyVars == <<reply, unread, step, rem, body, outcome>>
Body == INSTANCE HTTPBody WITH in <- unread, end <- outcome

\* A body is a prefix of the content, cut or refused only for a stated reason.
BodyExplained == Body!BodyExplained

=============================================================================
