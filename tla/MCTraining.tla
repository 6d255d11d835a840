----------------------------- MODULE MCTraining -----------------------------
(* Instances of Training for TLC. *)
EXTENDS Training, TLC

CONSTANTS a1, a2, a3, a4, r1, r2, r3, g, none

(* a1 and a2 are of a data group, a3 is started by hand for the run of a1,   *)
(* a4 is of no group.                                                        *)
ThreeNames == a1 :> r1 @@ a2 :> r2 @@ a3 :> r1 @@ a4 :> r3
OneGroup == a1 :> g @@ a2 :> g @@ a3 :> none @@ a4 :> none
OneGPU == [a \in Attempts |-> 1]
=============================================================================
