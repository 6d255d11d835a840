--------------------------- MODULE SequenceDataset ---------------------------
(***************************************************************************)
(* An epoch over a SequenceDataset (src/dcn/data/sequence_dataset.py): the *)
(* histories are cut into sequences, stored in buckets by user, and read   *)
(* back by the global index that BucketShuffleSampler draws.  Module       *)
(* Windows has the cutting of one history; Caches and Training have the    *)
(* files of the cache and who builds them.                                 *)
(*                                                                         *)
(* A sequence is [user, events], its events being positions in the user's  *)
(* history.                                                                *)
(***************************************************************************)
EXTENDS Windows, FiniteSets, SequencesExt, Bags

CONSTANTS
  Users,       \* natural numbers
  Policies,    \* the window policies: records of Windows with a name
  Lengths,     \* the lengths a history may have
  BucketCount

ASSUME UserAssumption == IsFiniteSet(Users) /\ Users \subseteq Nat
ASSUME PolicyAssumption == \A p \in Policies :
  /\ p.window \in {"whole", "next_item", "bounded_prefix", "sliding"}
  /\ p.rule \in {"truncated", "required"}
  /\ {p.max, p.min, p.stride, p.cap} \subseteq Nat \ {0}
ASSUME LengthAssumption == Lengths \subseteq Nat
ASSUME BucketAssumption == BucketCount \in Nat \ {0}

VARIABLES
  policy,
  history,   \* history[u]: the length of user u's history
  buckets,   \* the bucket files: sequences of sequences
  left,      \* the buckets the epoch has not begun
  bucket,    \* the bucket it draws from
  undrawn,   \* the local indices it has not drawn from that bucket
  delivered  \* the bag of sequences the epoch has delivered

epochVars == <<policy, history, buckets, left, bucket, undrawn, delivered>>

-----------------------------------------------------------------------------
(* The cache: _build_time_sorted_user_sequences for every bucket. *)

Labels(p, n, e) ==
  CASE p.window = "next_item" -> NextItemLabels(p, n, e)
    [] p.window = "bounded_prefix" -> PrefixLabels(p, n, e)
    [] p.window = "sliding" -> SlidingLabels(p, n, e)
    [] p.window = "whole" -> IF n >= p.min /\ e >= n - p.max THEN {0} ELSE {}

(* A finite set of numbers as a sequence, by their ranks. *)
Ascending(S) ==
  [i \in 1..Cardinality(S) |-> CHOOSE x \in S : Cardinality({y \in S : y < x}) = i - 1]
Descending(S) ==
  [i \in 1..Cardinality(S) |-> CHOOSE x \in S : Cardinality({y \in S : y > x}) = i - 1]

(* Grouped by label, dropped when too short, the newest target first in     *)
(* bounded_prefix. A whole history is cut to its tail after that test.      *)
Sequences(p, n) ==
  LET events == 0..n - 1
      window(k) == {e \in events : k \in Labels(p, n, e)}
      kept == {k \in UNION {Labels(p, n, e) : e \in events} :
                 p.window = "whole" \/ Cardinality(window(k)) >= p.min}
      order == IF p.window = "bounded_prefix" THEN Descending(kept) ELSE Ascending(kept)
  IN [i \in DOMAIN order |-> window(order[i])]

(* The users of a bucket in order, each with its sequences. A bucket whose  *)
(* users have no events has no file; one whose windows are all dropped has  *)
(* an empty one.                                                            *)
BucketFile(p, h, users) ==
  FlattenSeq([i \in 1..Cardinality(users) |->
    LET u == Ascending(users)[i]
        cut == Sequences(p, h[u])
    IN [k \in DOMAIN cut |-> [user |-> u, events |-> cut[k]]]])

BucketFiles(p, h, place) ==
  LET usersOf(b) == {u \in Users : place[u] = b /\ h[u] > 0}
      filled == Ascending({b \in 1..BucketCount : usersOf(b) # {}})
  IN [i \in DOMAIN filled |-> BucketFile(p, h, usersOf(filled[i]))]

EpochInit ==
  /\ policy \in Policies /\ history \in [Users -> Lengths]
  /\ \E place \in [Users -> 1..BucketCount] : buckets = BucketFiles(policy, history, place)
  /\ left = DOMAIN buckets /\ bucket = 0 /\ undrawn = {} /\ delivered = EmptyBag

-----------------------------------------------------------------------------
(* Reading by a global index. *)

(* _cumulative_bucket_lengths: so many sequences precede bucket b+1. *)
Cumulative[b \in 0..Len(buckets)] == IF b = 0 THEN 0 ELSE Cumulative[b - 1] + Len(buckets[b])

(* searchsorted(side="right") - 1: equal sums, of empty buckets, are passed.*)
BucketOf(index) == Cardinality({b \in 0..Len(buckets) : Cumulative[b] <= index}) - 1

(* Python counts a negative position from the end. *)
Item(seq, position) == seq[IF position >= 0 THEN position + 1 ELSE Len(seq) + position + 1]
GetItem(index) ==
  LET b == BucketOf(index) IN Item(Item(buckets, b), index - Cumulative[b])

BeginBucket ==
  /\ undrawn = {}
  /\ \E b \in left :
       left' = left \ {b} /\ bucket' = b /\ undrawn' = 0..Len(buckets[b]) - 1
  /\ UNCHANGED <<policy, history, buckets, delivered>>

Draw ==
  /\ \E i \in undrawn :
       /\ undrawn' = undrawn \ {i}
       /\ delivered' = delivered (+) SetToBag({GetItem(Cumulative[bucket - 1] + i)})
  /\ UNCHANGED <<policy, history, buckets, left, bucket>>

EpochNext == BeginBucket \/ Draw
EpochSpec == EpochInit /\ [][EpochNext]_epochVars

-----------------------------------------------------------------------------
(* Properties. *)

EpochEnded == bucket # 0 /\ left = {} /\ undrawn = {}

(* What the policy promises of a history, without labels. *)
Newest(p, targets) == {t \in targets : Cardinality({s \in targets : s > t}) < p.cap}
PromisedTargets(p, n) ==
  IF p.rule = "truncated" THEN Newest(p, 1..n - 1)
  ELSE IF n <= p.max THEN {n - 1}
  ELSE Newest(p, p.max..n - 1)
PromisedWindows(p, n) ==
  CASE p.window = "next_item" -> {NextItemWindow(p, n, k) : k \in 0..n}
    [] p.window = "bounded_prefix" -> {PrefixWindow(p, n, t) : t \in PromisedTargets(p, n)}
    [] p.window = "sliding" ->
         {SlidingWindow(p, n, k) : k \in {j \in 0..n : j = 0 \/ 0 \notin SlidingWindow(p, n, j - 1)}}
    [] p.window = "whole" -> IF n >= p.min THEN {Greatest(0, n - p.max)..n - 1} ELSE {}

(* An epoch delivers every sequence of the policy once and nothing else,    *)
(* whatever bucket a user is in and however many buckets are empty.         *)
EpochDelivers ==
  EpochEnded =>
    delivered = SetToBag(
      UNION {{[user |-> u, events |-> w] :
               w \in {v \in PromisedWindows(policy, history[u]) :
                        policy.window = "whole" \/ Cardinality(v) >= policy.min}} : u \in Users})

(* In an epoch of next_item windows every event but the first one of a      *)
(* history is predicted exactly once, from the event before it.             *)
PredictsOnce ==
  EpochEnded /\ policy.window = "next_item" /\ policy.min <= 2 =>
    \A u \in Users : \A e \in 1..history[u] - 1 :
      \E s \in DOMAIN delivered :
        /\ {x \in DOMAIN delivered : x.user = u /\ {e - 1, e} \subseteq x.events} = {s}
        /\ delivered[s] = 1
=============================================================================
