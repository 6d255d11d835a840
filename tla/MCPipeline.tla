----------------------------- MODULE MCPipeline -----------------------------
(* One instance for TLC of the two algorithms without shared state between  *)
(* which the training loop alternates: an epoch over a SequenceDataset, and *)
(* the beam search that evaluates it. A behaviour is one of the two, the    *)
(* other one rests.                                                         *)
EXTENDS SequenceDataset, Decoding

Policy(window, max, min, stride, cap, rule) ==
  [window |-> window, max |-> max, min |-> min, stride |-> stride, cap |-> cap, rule |-> rule]
AllPolicies ==
  {Policy(window, max, min, 1, 1, "truncated") :
     window \in {"whole", "next_item"}, max \in 1..3, min \in 1..3}
  \cup {p \in {Policy("sliding", max, min, stride, 1, "truncated") :
                 max \in 1..3, min \in 1..2, stride \in 1..3} : p.stride <= p.max}
  \cup {Policy("bounded_prefix", max, min, 1, cap, rule) :
          max \in 1..3, min \in 1..3, cap \in 1..3, rule \in {"truncated", "required"}}
UpToSix == 0..6

(* A dataset without events, and a search that has not begun. *)
EpochRests ==
  /\ policy = Policy("whole", 1, 1, 1, 1, "truncated") /\ history = [u \in Users |-> 0]
  /\ buckets = <<>> /\ left = {} /\ bucket = 0 /\ undrawn = {} /\ delivered = EmptyBag
DecodingRests ==
  /\ catalog = WithoutCollisionSuffix([i \in Items |-> [l \in 1..Levels |-> 0]])
  /\ width = 1 /\ beams = <<[tokens |-> <<>>, live |-> TRUE]>>

Init == (EpochInit /\ DecodingRests) \/ (DecodeInit /\ EpochRests)
Next ==
  \/ EpochNext /\ UNCHANGED decodeVars
  \/ buckets = <<>> /\ Generate /\ UNCHANGED epochVars
Spec == Init /\ [][Next]_<<epochVars, decodeVars>>
=============================================================================
