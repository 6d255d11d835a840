--------------------------- MODULE MCCheckpoints ---------------------------
(* Instances of Checkpoints for TLC. *)
EXTENDS Checkpoints

LastOneBestTwo == [last |-> 1, best |-> 2]
=============================================================================
