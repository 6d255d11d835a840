---------------------- MODULE SequenceDatasetInvariant ----------------------
(***************************************************************************)
(* The inductive invariant of SequenceDataset that SequenceDatasetProofs   *)
(* proves.                                                                 *)
(***************************************************************************)
EXTENDS SequenceDataset

(* The sequences a policy promises of a history of n events. *)
Promised(p, n) ==
  {v \in PromisedWindows(p, n) : p.window = "whole" \/ Cardinality(v) >= p.min}

Record == [user : Users, events : SUBSET Int]
Delivery(p, h, u) == {[user |-> u, events |-> w] : w \in Promised(p, h[u])}

(* The buckets together hold what every user is promised, each sequence     *)
(* once. *)
FilesHold(p, h, files) ==
  /\ files \in Seq(Seq(Record))
  /\ \A b \in DOMAIN files : IsInjective(files[b])
  /\ \A b, c \in DOMAIN files : b # c => Range(files[b]) \cap Range(files[c]) = {}
  /\ UNION {Range(files[b]) : b \in DOMAIN files} = UNION {Delivery(p, h, u) : u \in Users}

(* The sampler: the epoch draws from a bucket it has begun. *)
SamplerOK ==
  /\ left \subseteq DOMAIN buckets
  /\ bucket = 0 => left = DOMAIN buckets /\ undrawn = {}
  /\ bucket # 0 => /\ bucket \in DOMAIN buckets \ left
                   /\ undrawn \subseteq 0..Len(buckets[bucket]) - 1

(* What the epoch has drawn of bucket b: all of it, none, or a part. *)
Drawn(b) ==
  IF b \in left THEN {}
  ELSE {buckets[b][i + 1] : i \in (0..Len(buckets[b]) - 1) \ (IF b = bucket THEN undrawn ELSE {})}

EpochInv ==
  /\ policy \in Policies /\ history \in [Users -> Lengths]
  /\ FilesHold(policy, history, buckets)
  /\ SamplerOK
  /\ delivered = SetToBag(UNION {Drawn(b) : b \in DOMAIN buckets})
=============================================================================
