---------------------------- MODULE MCSubmission ----------------------------
(* Instances of Submission for TLC. *)
EXTENDS SubmissionInvariant, TLC

CONSTANTS c1, c2, p1, p2

TwoRuns == {1, 2}
(* One atomic specification over both runs. *)
PairSpec == {(1 :> p1 @@ 2 :> p1)}
(* A specification over both runs and one over the second alone. *)
OverlapSpecs == {(1 :> p1 @@ 2 :> p1), (2 :> p1)}

ClientSymmetry == Permutations({c1, c2})
=============================================================================
