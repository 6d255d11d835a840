------------------------------ MODULE MCDaemon ------------------------------
(* Instances of Daemon for TLC. *)
EXTENDS Daemon, TLC

CONSTANTS u1, u2

DepthOne == <<1, 1>>
DepthTwo == <<2, 2>>

UserSymmetry == Permutations({u1, u2})
=============================================================================
