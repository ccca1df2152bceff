------------------------------ MODULE MCStorage ------------------------------
(* Model-checking instances of Storage: an int becomes a float64 on disk. *)
EXTENDS Storage

CONSTANTS float64, int, chan

GoToJson == [v \in GoValues |-> float64]
=============================================================================
