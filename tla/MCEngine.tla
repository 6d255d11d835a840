------------------------------ MODULE MCEngine ------------------------------
(* Instances of Engine for TLC. *)
EXTENDS Engine

AllIdle == {<<{}, 0>>}
IdleThenLoaded == {<<{}, 1>>}
IdleOrBusy == {<<{}, 1>>, <<{1, 2}, 0>>}
=============================================================================
