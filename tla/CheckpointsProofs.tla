-------------------------- MODULE CheckpointsProofs --------------------------
(***************************************************************************)
(* Proofs about Checkpoints for every number of epochs, every patience,    *)
(* every set of scores and every number of processes and kills.            *)
(***************************************************************************)
EXTENDS CheckpointsInvariant, SequenceTheorems, NaturalsInduction, WellFoundedInduction, TLAPS

-----------------------------------------------------------------------------
(* A set of natural numbers that is not empty has a least one. *)
LEMMA Least ==
  ASSUME NEW S \in SUBSET Nat, S # {}
  PROVE  \E n \in S : \A m \in S : n <= m
<1> DEFINE R == {ss \in Nat \X Nat : ss[1] < ss[2]}
<1>1. IsWellFoundedOn(R, Nat)
  BY NatLessThanWellFounded DEF OpToRel
<1>2. \A x, y \in Nat : y < x => <<y, x>> \in R
  OBVIOUS
<1> HIDE DEF R
<1>3. PICK x \in S : \A y \in S : ~(<<y, x>> \in R)
  BY <1>1, WFMin
<1>4. \A y \in S : ~(y < x)
  BY <1>2, <1>3
<1> QED  BY <1>4

-----------------------------------------------------------------------------
(* The list of checkpoints. *)

(* Every entry that stays was in the list, and without one of this epoch    *)
(* the list is unchanged.                                                   *)
LEMMA OthersType ==
  ASSUME NEW E, metadata[at] \in Seq(E)
  PROVE  /\ Others \in Seq(E)
         /\ \A i \in 1..Len(Others) : \E j \in 1..Len(metadata[at]) : Others[i] = metadata[at][j]
         /\ (\A i \in DOMAIN metadata[at] : metadata[at][i].epoch # Epoch) => Others = metadata[at]
<1> DEFINE list == metadata[at]
<1>1. DOMAIN list = 1..Len(list) /\ Len(list) \in Nat
  BY LenProperties
<1>2. CASE Recorded = {}
  BY <1>1, <1>2 DEF Others
<1>3. CASE Recorded # {}
  <2> DEFINE r == CHOOSE i \in Recorded : TRUE
             n == Len(list) - 1
             from(j) == IF j < r THEN j ELSE j + 1
  <2>1. r \in 1..Len(list) /\ ~(\A i \in DOMAIN list : list[i].epoch # Epoch)
    BY <1>1, <1>3 DEF Recorded
  <2>2. Others = [j \in 1..n |-> list[from(j)]]
    BY <1>3 DEF Others
  <2>3. n \in Nat /\ \A j \in 1..n : from(j) \in 1..Len(list)
    BY <1>1, <2>1
  <2>4. \A j \in 1..n : list[from(j)] \in E
    BY <2>3, ElementOfSeq
  <2> HIDE DEF r, n, from, list
  <2>5. Others \in Seq(E) /\ Len(Others) = n
    BY <2>2, <2>3, <2>4
  <2>6. \A i \in 1..Len(Others) : \E j \in 1..Len(list) : Others[i] = list[j]
    BY <2>2, <2>3, <2>5
  <2> QED  BY <2>1, <2>5, <2>6 DEF list
<1> QED  BY <1>2, <1>3

(* There is a place for the new entry: before the first one that it comes   *)
(* before.                                                                  *)
LEMMA PlaceExists ==
  ASSUME NEW E, Others \in Seq(E)
  PROVE  /\ Place \in 1..Len(Others) + 1
         /\ \A j \in 1..Place - 1 : Before(Others[j], Entry)
         /\ Place <= Len(Others) => ~Before(Others[Place], Entry)
<1> DEFINE U == {i \in 1..Len(Others) + 1 : i <= Len(Others) => ~Before(Others[i], Entry)}
           IsPlace(i) == /\ \A j \in 1..i - 1 : Before(Others[j], Entry)
                         /\ i <= Len(Others) => ~Before(Others[i], Entry)
<1>1. Len(Others) \in Nat
  BY LenProperties
<1>2. Len(Others) + 1 \in U /\ U \in SUBSET Nat
  BY <1>1
<1>3. PICK i \in U : \A j \in U : i <= j
  BY <1>2, Least
<1>4. i \in 1..Len(Others) + 1 /\ (i <= Len(Others) => ~Before(Others[i], Entry))
  BY <1>3
<1>5. ASSUME NEW j \in 1..i - 1  PROVE  Before(Others[j], Entry)
  <2>1. j \in 1..Len(Others) + 1 /\ j <= Len(Others) /\ ~(i <= j)
    BY <1>1, <1>4
  <2>2. j \notin U
    BY <1>3, <2>1
  <2> QED  BY <2>1, <2>2
<1>6. IsPlace(i) /\ i \in 1..Len(Others) + 1
  BY <1>4, <1>5
<1>7. Place = CHOOSE k \in 1..Len(Others) + 1 : IsPlace(k)
  BY DEF Place
<1> HIDE DEF IsPlace
<1>8. Place \in 1..Len(Others) + 1 /\ IsPlace(Place)
  BY <1>6, <1>7
<1> QED  BY <1>8 DEF IsPlace

(* The sorted list has the new entry at its place and the others around it. *)
LEMMA SortedType ==
  ASSUME NEW E, Others \in Seq(E), Entry \in E
  PROVE  /\ Sorted \in Seq(E) /\ Len(Sorted) = Len(Others) + 1
         /\ \A i \in 1..Len(Sorted) :
              Sorted[i] = Entry \/ \E j \in 1..Len(Others) : Sorted[i] = Others[j]
         /\ \E i \in 1..Len(Sorted) : Sorted[i] = Entry
         /\ Sorted[1] = IF Place = 1 THEN Entry ELSE Others[1]
<1> DEFINE standing(i) == IF i < Place THEN Others[i] ELSE IF i = Place THEN Entry ELSE Others[i - 1]
           n == Len(Others) + 1
<1>1. n \in Nat \ {0} /\ n = Len(Others) + 1 /\ Place \in 1..n
  BY LenProperties, PlaceExists
<1>2. Sorted = [i \in 1..n |-> standing(i)]
  BY DEF Sorted
<1>3. ASSUME NEW i \in 1..n
      PROVE  standing(i) = Entry \/ \E j \in 1..Len(Others) : standing(i) = Others[j]
  <2>1. CASE i < Place
    BY <1>1, <2>1
  <2>2. CASE i = Place
    BY <1>1, <2>2
  <2>3. CASE i > Place
    BY <1>1, <2>3
  <2> QED  BY <1>1, <2>1, <2>2, <2>3
<1>4. standing(Place) = Entry /\ standing(1) = IF Place = 1 THEN Entry ELSE Others[1]
  BY <1>1
<1>5. \A i \in 1..n : standing(i) \in E
  BY <1>3, ElementOfSeq
<1> HIDE DEF standing, n
<1>6. Sorted \in Seq(E) /\ Len(Sorted) = n
  BY <1>1, <1>2, <1>5
<1>7. Sorted[1] = standing(1) /\ Sorted[Place] = standing(Place)
  BY <1>1, <1>2
<1>8. \A i \in 1..Len(Sorted) : Sorted[i] = Entry \/ \E j \in 1..Len(Others) : Sorted[i] = Others[j]
  BY <1>2, <1>3, <1>6
<1> QED  BY <1>1, <1>4, <1>6, <1>7, <1>8

(* The first ones of a list that is not empty begin with its first one. *)
LEMMA FirstType ==
  ASSUME NEW E, NEW list \in Seq(E), list # <<>>, at \in Prefixes
  PROVE  /\ First(list) \in Seq(E) /\ Len(First(list)) >= 1 /\ First(list)[1] = list[1]
         /\ \A i \in 1..Len(First(list)) : \E j \in 1..Len(list) : First(list)[i] = list[j]
<1>1. Kept[at] \in Nat \ {0}
  BY KeptAssumption DEF Prefixes
<1>2. Len(list) \in Nat \ {0}
  BY EmptySeq
<1> DEFINE n == IF Len(list) < Kept[at] THEN Len(list) ELSE Kept[at]
<1>3. n \in 1..Len(list) /\ First(list) = SubSeq(list, 1, n)
  BY <1>1, <1>2 DEF First
<1> HIDE DEF n
<1>4. \A i \in 1..n : list[i] \in E
  BY <1>2, <1>3, ElementOfSeq
<1>5. /\ SubSeq(list, 1, n) \in Seq(E) /\ Len(SubSeq(list, 1, n)) = n
      /\ \A i \in 1..n : SubSeq(list, 1, n)[i] = list[i]
  BY <1>3, <1>4, SubSeqProperties
<1> QED  BY <1>2, <1>3, <1>5

-----------------------------------------------------------------------------
(* Replaying scores. *)

Replays(f, how, scores, n) ==
  f = [k \in 0..n |-> IF k = 0 THEN Fresh ELSE Followed(how, f[k - 1], scores[k])]

(* The recursion has a solution for every number of scores. *)
LEMMA ReplayExists ==
  ASSUME NEW how, NEW scores, NEW n \in Nat
  PROVE  \E f : Replays(f, how, scores, n)
<1> DEFINE Bad == {k \in Nat : ~\E f : Replays(f, how, scores, k)}
<1>1. SUFFICES ASSUME Bad # {}  PROVE FALSE
  OBVIOUS
<1>2. PICK k \in Bad : \A l \in Bad : k <= l
  BY <1>1, Least
<1>3. k # 0
  <2> DEFINE f == [l \in 0..0 |-> Fresh]
  <2>1. \A l \in 0..0 : f[l] = IF l = 0 THEN Fresh ELSE Followed(how, f[l - 1], scores[l])
    OBVIOUS
  <2>2. Replays(f, how, scores, 0)
    BY <2>1 DEF Replays
  <2> QED  BY <2>2
<1>4. k - 1 \in Nat /\ k - 1 \notin Bad
  BY <1>2, <1>3
<1>5. PICK g : Replays(g, how, scores, k - 1)
  BY <1>4
<1> DEFINE f == [l \in 0..k |-> IF l = 0 THEN Fresh ELSE Followed(how, g[l - 1], scores[l])]
<1>6. \A l \in 0..k - 1 : f[l] = g[l]
  BY <1>4, <1>5 DEF Replays
<1>7. \A l \in 0..k : f[l] = IF l = 0 THEN Fresh ELSE Followed(how, f[l - 1], scores[l])
  BY <1>4, <1>6
<1>8. Replays(f, how, scores, k)
  BY <1>7 DEF Replays
<1> QED  BY <1>2, <1>8

(* A replay agrees with one of more scores that begin with its own. *)
LEMMA ReplaysAgree ==
  ASSUME NEW how, NEW s, NEW t, NEW n \in Nat, NEW m \in Nat, NEW f, NEW g,
         Replays(f, how, s, n), Replays(g, how, t, m), n <= m, \A i \in 1..n : s[i] = t[i]
  PROVE  \A i \in 0..n : f[i] = g[i]
<1> DEFINE Bad == {i \in 0..n : f[i] # g[i]}
<1>1. SUFFICES ASSUME Bad # {}  PROVE FALSE
  OBVIOUS
<1>2. Bad \in SUBSET Nat
  OBVIOUS
<1>3. PICK i \in Bad : \A j \in Bad : i <= j
  BY <1>1, <1>2, Least
<1>4. /\ f[i] = IF i = 0 THEN Fresh ELSE Followed(how, f[i - 1], s[i])
      /\ g[i] = IF i = 0 THEN Fresh ELSE Followed(how, g[i - 1], t[i])
  BY DEF Replays
<1>5. i # 0
  BY <1>4
<1>6. i - 1 \in 0..n /\ i \in 1..n /\ i - 1 \notin Bad
  BY <1>3, <1>5
<1> QED  BY <1>4, <1>5, <1>6

(* ReplayOf is the replay of its scores. *)
LEMMA ReplayOfReplays ==
  ASSUME NEW how, NEW scores, Len(scores) \in Nat
  PROVE  Replays(ReplayOf(how, scores), how, scores, Len(scores))
<1>1. \E f : Replays(f, how, scores, Len(scores))
  BY ReplayExists
<1> QED  BY <1>1 DEF ReplayOf, Replays

(* An epoch that is trained on from where nothing has stopped is replayed   *)
(* after the ones before it.                                                *)
LEMMA OneMoreEpoch ==
  ASSUME NEW how, NEW m \in Memory, Uninterrupted(how, m), ~m.stopping.stop, NEW score \in Values
  PROVE  Uninterrupted(how, Followed(how, m, score))
<1> DEFINE n == Len(m.scores)
           longer == Append(m.scores, score)
           f == ReplayOf(how, m.scores)
           g == ReplayOf(how, longer)
<1>1. n \in Nat /\ Len(longer) = n + 1 /\ longer[n + 1] = score /\ \A i \in 1..n : m.scores[i] = longer[i]
  BY AppendProperties, LenProperties DEF Memory
<1>2. Followed(how, m, score).scores = longer
  BY DEF Followed
<1>3. m = f[n] /\ \A i \in 0..n - 1 : ~f[i].stopping.stop
  BY DEF Uninterrupted
<1>4. Replays(f, how, m.scores, n) /\ Replays(g, how, longer, n + 1)
  <2>1. Replays(f, how, m.scores, Len(m.scores))
    BY <1>1, ReplayOfReplays
  <2>2. Len(longer) \in Nat
    BY <1>1
  <2> HIDE DEF longer
  <2>3. Replays(g, how, longer, Len(longer))
    BY <2>2, ReplayOfReplays
  <2> QED  BY <1>1, <2>1, <2>3
<1> HIDE DEF n, longer, f, g
<1>5. \A i \in 0..n : f[i] = g[i]
  <2> DEFINE short == m.scores
             k == n + 1
  <2>1. n \in Nat /\ k \in Nat /\ n <= k
    BY <1>1
  <2>2. /\ Replays(f, how, short, n) /\ Replays(g, how, longer, k)
        /\ \A i \in 1..n : short[i] = longer[i]
    BY <1>1, <1>4
  <2> HIDE DEF short, k
  <2> QED  BY <2>1, <2>2, ReplaysAgree
<1>6. g[n + 1] = Followed(how, g[n], longer[n + 1])
  BY <1>1, <1>4 DEF Replays
<1>7. g[n + 1] = Followed(how, m, score)
  BY <1>1, <1>3, <1>5, <1>6
<1>8. ASSUME NEW i \in 0..n + 1 - 1  PROVE  ~g[i].stopping.stop
  <2>1. CASE i = n
    BY <1>1, <1>3, <1>5, <2>1
  <2>2. CASE i # n
    BY <1>1, <1>3, <1>5, <2>2
  <2> QED  BY <2>1, <2>2
<1> QED  BY <1>1, <1>2, <1>7, <1>8 DEF Uninterrupted, g

(* Nothing has been trained, or an epoch more. *)
LEMMA FreshType == Fresh \in Memory /\ Len(Fresh.scores) = 0 /\ \A how : Uninterrupted(how, Fresh)
<1>1. Fresh \in Memory /\ Fresh.scores = <<>> /\ Len(Fresh.scores) = 0
  BY DEF Fresh, Memory, Values
<1>2. ASSUME NEW how  PROVE  Uninterrupted(how, Fresh)
  <2>1. Replays(ReplayOf(how, Fresh.scores), how, Fresh.scores, 0)
    BY <1>1, ReplayOfReplays
  <2>2. ReplayOf(how, Fresh.scores)[0] = Fresh
    BY <2>1 DEF Replays
  <2> QED  BY <1>1, <2>2 DEF Uninterrupted
<1> QED  BY <1>1, <1>2

(* An epoch more is an epoch more in every callback.                        *)
LEMMA FollowedType ==
  ASSUME NEW how, NEW m \in Memory, NEW score \in Values
  PROVE  /\ Followed(how, m, score) \in Memory
         /\ Len(Followed(how, m, score).scores) = Len(m.scores) + 1
         /\ Followed(how, m, score).scores[Len(m.scores) + 1] = score
         /\ Followed(how, m, score).best = Improved(m.best, score, Len(m.scores))
<1>1. /\ m.scores \in Seq(Values) /\ m.best \in [score : Values, epoch : Int]
      /\ m.stopping \in [score : Values, bad : Nat, stop : BOOLEAN]
  BY DEF Memory
<1>2. /\ Append(m.scores, score) \in Seq(Values) /\ Len(Append(m.scores, score)) = Len(m.scores) + 1
      /\ Append(m.scores, score)[Len(m.scores) + 1] = score /\ Len(m.scores) \in Nat
  BY <1>1, AppendProperties, LenProperties
<1>3. Improved(m.best, score, Len(m.scores)) \in [score : Values, epoch : Int]
  BY <1>1, <1>2 DEF Improved
<1>4. Watched(m.stopping, score) \in [score : Values, bad : Nat, stop : BOOLEAN]
  <2>1. CASE score = NoScore
    BY <1>1, <2>1 DEF Watched
  <2>2. CASE score # NoScore /\ (m.stopping.score = NoScore \/ score > m.stopping.score + MinDelta)
    BY <1>1, <2>2 DEF Watched
  <2>3. CASE score # NoScore /\ ~(m.stopping.score = NoScore \/ score > m.stopping.score + MinDelta)
    <3>1. Watched(m.stopping, score) =
            [m.stopping EXCEPT !.bad = @ + 1, !.stop = m.stopping.bad + 1 >= Patience]
      BY <2>3 DEF Watched
    <3>2. m.stopping.bad + 1 \in Nat /\ (m.stopping.bad + 1 >= Patience) \in BOOLEAN
      BY <1>1
    <3> QED  BY <1>1, <3>1, <3>2
  <2> QED  BY <2>1, <2>2, <2>3
<1> QED  BY <1>1, <1>2, <1>3, <1>4 DEF Followed, Memory

(* Whoever holds what an uninterrupted run would hold has Replay's state.    *)
LEMMA ReplayIsUninterrupted == TypeOK /\ TrainedAsOne => ResumesAsUninterrupted
<1> SUFFICES ASSUME TypeOK, TrainedAsOne  PROVE ResumesAsUninterrupted
  OBVIOUS
<1> DEFINE n == Len(mem.scores)
           f == ReplayOf(rule, mem.scores)
           g == Replay
           scores == mem.scores
<1>1. n \in Nat /\ Epochs \in Nat /\ n <= Epochs /\ n = Len(scores)
  BY LenProperties, EpochAssumption DEF TypeOK, Memory
<1>2. Replays(f, rule, scores, n)
  BY <1>1, ReplayOfReplays
<1>3. Replays(g, rule, scores, Epochs)
  <2>1. \E h : Replays(h, rule, scores, Epochs)
    BY <1>1, ReplayExists
  <2> QED  BY <2>1 DEF Replay, Replays
<1>4. mem = f[n] /\ \A k \in 0..n - 1 : ~f[k].stopping.stop
  BY DEF TrainedAsOne, Uninterrupted
<1> HIDE DEF n, f, g, scores
<1>5. \A k \in 0..n : f[k] = g[k]
  BY <1>1, <1>2, <1>3, ReplaysAgree
<1>6. mem = g[n] /\ \A k \in 0..n - 1 : ~g[k].stopping.stop
  BY <1>1, <1>4, <1>5
<1> QED  BY <1>6 DEF ResumesAsUninterrupted, n, g

-----------------------------------------------------------------------------
(* What a callback records. *)

(* While a callback saves, there is an epoch, and its entry for the list.   *)
LEMMA EpochType ==
  ASSUME TypeOK, Saving
  PROVE  /\ Epoch \in Rounds /\ Epoch + 1 = Len(mem.scores)
         /\ Entry \in Entries /\ Entry.epoch = Epoch /\ Entry.score = mem.scores[Epoch + 1]
         /\ at = "best" => Entry \in Scored
<1>1. /\ Epochs \in Nat /\ Len(mem.scores) \in 1..Epochs /\ mem.scores \in Seq(Values)
      /\ at = "best" => mem.scores[Len(mem.scores)] \in Scores
  BY EpochAssumption, LenProperties DEF TypeOK, Memory
<1>2. Epoch \in Rounds /\ Epoch + 1 = Len(mem.scores)
  BY <1>1 DEF Epoch, Rounds
<1>3. mem.scores[Epoch + 1] \in Values /\ (at = "best" => mem.scores[Epoch + 1] \in Scores)
  BY <1>1, <1>2, ElementOfSeq
<1> QED  BY <1>2, <1>3 DEF Entry, Entries, Scored

(* What is recorded is the new entry and some of those recorded before.     *)
LEMMA RecordedList ==
  ASSUME TypeOK, Saving
  PROVE  /\ First(Sorted) \in Seq(Entries) /\ (at = "best" => First(Sorted) \in Seq(Scored))
         /\ Len(First(Sorted)) >= 1 /\ First(Sorted) # <<>> /\ First(Sorted)[1] = Sorted[1]
         /\ \A i \in DOMAIN First(Sorted) :
              First(Sorted)[i] = Entry \/ \E j \in DOMAIN metadata[at] : First(Sorted)[i] = metadata[at][j]
<1>1. at \in Prefixes /\ metadata[at] \in Seq(Entries) /\ (at = "best" => metadata[at] \in Seq(Scored))
  BY DEF TypeOK
<1>2. Entry \in Entries /\ (at = "best" => Entry \in Scored)
  BY EpochType
<1>3. ASSUME NEW E, metadata[at] \in Seq(E), Entry \in E
      PROVE  /\ First(Sorted) \in Seq(E) /\ Len(First(Sorted)) >= 1 /\ First(Sorted) # <<>>
             /\ First(Sorted)[1] = Sorted[1] /\ DOMAIN First(Sorted) = 1..Len(First(Sorted))
             /\ \A i \in 1..Len(First(Sorted)) : \E j \in 1..Len(Sorted) : First(Sorted)[i] = Sorted[j]
             /\ \A j \in 1..Len(Sorted) :
                  Sorted[j] = Entry \/ \E k \in 1..Len(metadata[at]) : Sorted[j] = metadata[at][k]
  <2>1. /\ Others \in Seq(E)
        /\ \A i \in 1..Len(Others) : \E j \in 1..Len(metadata[at]) : Others[i] = metadata[at][j]
    BY <1>3, OthersType
  <2>2. /\ Sorted \in Seq(E) /\ Len(Sorted) = Len(Others) + 1
        /\ \A i \in 1..Len(Sorted) :
             Sorted[i] = Entry \/ \E j \in 1..Len(Others) : Sorted[i] = Others[j]
    BY <1>3, <2>1, SortedType
  <2>3. Sorted # <<>>
    BY <2>1, <2>2, LenProperties
  <2>4. /\ First(Sorted) \in Seq(E) /\ Len(First(Sorted)) >= 1 /\ First(Sorted)[1] = Sorted[1]
        /\ \A i \in 1..Len(First(Sorted)) : \E j \in 1..Len(Sorted) : First(Sorted)[i] = Sorted[j]
    BY <1>1, <2>2, <2>3, FirstType
  <2>5. First(Sorted) # <<>> /\ DOMAIN First(Sorted) = 1..Len(First(Sorted))
    BY <2>4, LenProperties
  <2>6. \A j \in 1..Len(Sorted) :
          Sorted[j] = Entry \/ \E k \in 1..Len(metadata[at]) : Sorted[j] = metadata[at][k]
    BY <2>1, <2>2
  <2> QED  BY <2>4, <2>5, <2>6
<1>4. DOMAIN metadata[at] = 1..Len(metadata[at])
  BY <1>1, LenProperties
<1> QED  BY <1>1, <1>2, <1>3, <1>4

(* The latest epoch comes first in the list of "last". *)
LEMMA LatestFirst ==
  ASSUME TypeOK, Saving, at = "last",
         \A i \in DOMAIN metadata["last"] : metadata["last"][i].epoch <= Epoch - 1
  PROVE  Sorted[1] = Entry
<1>1. metadata[at] \in Seq(Entries) /\ DOMAIN metadata[at] = 1..Len(metadata[at]) /\ Entry \in Entries
  BY EpochType, LenProperties DEF TypeOK
<1>2. \A i \in 1..Len(metadata[at]) : metadata[at][i].epoch \in Int /\ metadata[at][i].epoch <= Epoch - 1
  <2>1. \A i \in 1..Len(metadata[at]) : metadata[at][i] \in Entries
    BY <1>1, ElementOfSeq
  <2>2. \A i \in 1..Len(metadata[at]) : metadata[at][i].epoch <= Epoch - 1
    BY <1>1
  <2> QED  BY <2>1, <2>2, EpochAssumption DEF Entries, Rounds
<1>3. Epoch \in Int /\ Entry.epoch = Epoch
  BY EpochType, EpochAssumption DEF Rounds
<1>4. Others = metadata[at]
  <2>1. \A i \in DOMAIN metadata[at] : metadata[at][i].epoch # Epoch
    BY <1>1, <1>2, <1>3
  <2> QED  BY <1>1, <2>1, OthersType
<1>5. Place \in 1..Len(Others) + 1 /\ \A j \in 1..Place - 1 : Before(Others[j], Entry)
  BY <1>1, <1>4, PlaceExists
<1>6. \A j \in 1..Len(Others) : ~Before(Others[j], Entry)
  BY <1>2, <1>3, <1>4 DEF Before
<1>7. Len(Others) \in Nat
  BY <1>1, <1>4, LenProperties
<1>8. Place = 1
  <2> SUFFICES ASSUME Place # 1  PROVE FALSE
    OBVIOUS
  <2>1. 1 \in 1..Place - 1 /\ 1 \in 1..Len(Others)
    BY <1>5, <1>7
  <2> QED  BY <1>5, <1>6, <2>1
<1> QED  BY <1>1, <1>4, <1>8, SortedType

(* The best epoch stays first in the list of "best" unless the new one is   *)
(* better.                                                                  *)
LEMMA BestFirst ==
  ASSUME TypeOK, Saving, at = "best",
         \A i \in DOMAIN metadata["best"] : metadata["best"][i].epoch <= Epoch - 1
  PROVE  Sorted[1] = IF metadata["best"] # <<>> /\ metadata["best"][1].score >= Entry.score
                       THEN metadata["best"][1] ELSE Entry
<1>1. metadata[at] \in Seq(Scored) /\ DOMAIN metadata[at] = 1..Len(metadata[at]) /\ Entry \in Scored
  BY EpochType, LenProperties DEF TypeOK
<1>2. \A i \in 1..Len(metadata[at]) : metadata[at][i].epoch \in Int /\ metadata[at][i].epoch <= Epoch - 1
  <2>1. \A i \in 1..Len(metadata[at]) : metadata[at][i] \in Scored
    BY <1>1, ElementOfSeq
  <2>2. \A i \in 1..Len(metadata[at]) : metadata[at][i].epoch <= Epoch - 1
    BY <1>1
  <2> QED  BY <2>1, <2>2, EpochAssumption DEF Scored, Rounds
<1>3. Epoch \in Int
  BY EpochType, EpochAssumption DEF Rounds
<1>4. Others = metadata[at]
  <2>1. \A i \in DOMAIN metadata[at] : metadata[at][i].epoch # Epoch
    BY <1>1, <1>2, <1>3
  <2> QED  BY <1>1, <2>1, OthersType
<1>5. /\ Place \in 1..Len(Others) + 1 /\ Len(Others) \in Nat
      /\ \A j \in 1..Place - 1 : Before(Others[j], Entry)
      /\ Place <= Len(Others) => ~Before(Others[Place], Entry)
  BY <1>1, <1>4, PlaceExists, LenProperties
<1>6. Sorted[1] = IF Place = 1 THEN Entry ELSE Others[1]
  BY <1>1, <1>4, SortedType
<1>7. metadata["best"] # <<>> <=> Len(Others) >= 1
  BY <1>1, <1>4, <1>5
<1>8. CASE Place = 1
  <2>1. Len(Others) >= 1 => ~Before(Others[1], Entry)
    BY <1>5, <1>8
  <2> QED  BY <1>4, <1>6, <1>7, <1>8, <2>1 DEF Before
<1>9. CASE Place # 1
  <2>1. 1 \in 1..Place - 1 /\ Len(Others) >= 1
    BY <1>5, <1>9
  <2>2. Before(Others[1], Entry)
    BY <1>5, <2>1
  <2> QED  BY <1>4, <1>6, <1>7, <1>9, <2>1, <2>2 DEF Before
<1> QED  BY <1>8, <1>9

-----------------------------------------------------------------------------
(* The first state. *)
LEMMA InvInit == Init => IInv
<1> SUFFICES ASSUME Init  PROVE IInv
  OBVIOUS
<1>1. /\ mem = Fresh /\ spent = FALSE /\ pc = "idle" /\ at = "last" /\ link = -1
      /\ rule \in {"patience", "horizon"} /\ runs = 0 /\ kills = 0 /\ again = "first"
      /\ files = [p \in Prefixes |-> [e \in Rounds |-> Absent]]
      /\ metadata = [p \in Prefixes |-> <<>>] /\ cut = {} /\ "last" \in Prefixes /\ "best" \in Prefixes
  BY DEF Init, Prefixes
<1>2. TypeOK
  <2>1. mem \in Memory /\ Len(mem.scores) <= Epochs
    BY <1>1, FreshType, EpochAssumption
  <2>2. files \in [Prefixes -> [Rounds -> FileStates]]
    BY <1>1 DEF FileStates
  <2>3. metadata \in [Prefixes -> Seq(Entries)] /\ metadata["best"] \in Seq(Scored)
    BY <1>1
  <2> QED  BY <1>1, <2>1, <2>2, <2>3 DEF TypeOK, Saving, Steps
<1>3. TrainedAsOne
  BY <1>1, FreshType DEF TrainedAsOne, HoldsItsEpoch, Absent
<1>4. StartsEmpty
  BY <1>1 DEF StartsEmpty
<1>5. OneLineage
  <2>1. Ended /\ metadata["last"] = <<>> /\ Len(mem.scores) = 0
    BY <1>1, FreshType DEF Ended
  <2> QED  BY <2>1 DEF OneLineage, CheckpointSurvives
<1>6. BestFollows
  BY <1>1 DEF BestFollows, Saving
<1> QED  BY <1>2, <1>3, <1>4, <1>5, <1>6 DEF IInv

-----------------------------------------------------------------------------
(* A process starts. *)

(* A whole file holds the state of a process.                               *)
LEMMA FileType ==
  ASSUME NEW file \in FileStates, file.is = "whole"
  PROVE  file.of \in Memory
BY DEF FileStates, Absent, Torn

(* The latest recorded epoch, and what a process resumes from. *)
LEMMA LatestType ==
  ASSUME TypeOK, TrainedAsOne, metadata["last"] # <<>>
  PROVE  \E e \in Rounds :
           /\ LatestFile = files["last"][e]
           /\ \A i \in DOMAIN metadata["last"] : metadata["last"][i].epoch <= e
           /\ LatestFile.is = "whole" =>
                /\ LatestFile.of \in Memory /\ Len(LatestFile.of.scores) = e + 1
                /\ Uninterrupted(rule, LatestFile.of)
<1> DEFINE list == metadata["last"]
           U == {Epochs - list[i].epoch : i \in DOMAIN list}
           IsLatest(i) == \A j \in DOMAIN list : list[j].epoch <= list[i].epoch
<1>1. list \in Seq(Entries) /\ "last" \in Prefixes
  BY DEF TypeOK, Prefixes
<1>2. DOMAIN list = 1..Len(list) /\ 1 \in DOMAIN list /\ \A i \in DOMAIN list : list[i] \in Entries
  BY <1>1, LenProperties, ElementOfSeq, EmptySeq
<1>3. \A i \in DOMAIN list : list[i].epoch \in Rounds
  BY <1>2 DEF Entries
<1> HIDE DEF list
<1>4. \A e \in Rounds : e \in Int /\ Epochs - e \in Nat
  BY EpochAssumption DEF Rounds
<1>5. U \in SUBSET Nat /\ U # {}
  BY <1>2, <1>3, <1>4
<1>6. PICK u \in U : \A v \in U : u <= v
  BY <1>5, Least
<1>7. PICK i \in DOMAIN list : u = Epochs - list[i].epoch
  BY <1>6
<1>8. ASSUME NEW j \in DOMAIN list  PROVE list[j].epoch <= list[i].epoch
  <2>1. Epochs - list[i].epoch <= Epochs - list[j].epoch
    BY <1>6, <1>7
  <2> QED  BY <1>3, <1>4, <2>1, EpochAssumption
<1>9. Latest = CHOOSE k \in DOMAIN list : IsLatest(k)
  BY DEF Latest, list
<1>10. IsLatest(i)
  BY <1>8
<1> HIDE DEF IsLatest
<1>11. Latest \in DOMAIN list /\ IsLatest(Latest)
  BY <1>9, <1>10
<1> DEFINE e == list[Latest].epoch
<1>12. e \in Rounds /\ \A j \in DOMAIN list : list[j].epoch <= e
  BY <1>3, <1>11 DEF IsLatest
<1>13. LatestFile = files["last"][e]
  BY DEF LatestFile, list
<1> HIDE DEF e
<1>14. LatestFile \in FileStates /\ HoldsItsEpoch(LatestFile, e)
  BY <1>1, <1>12, <1>13 DEF TypeOK, TrainedAsOne
<1>15. LatestFile.is = "whole" =>
         /\ LatestFile.of \in Memory /\ Len(LatestFile.of.scores) = e + 1
         /\ Uninterrupted(rule, LatestFile.of)
  BY <1>14, FileType DEF HoldsItsEpoch
<1> QED  BY <1>12, <1>13, <1>15 DEF list

(* What a process starts with was trained as one run, and as long as nobody *)
(* starts over it is the latest of what is recorded.                        *)
LEMMA StartsFrom ==
  ASSUME IInv, StartOver \/ Resume
  PROVE  /\ mem' \in Memory /\ Len(mem'.scores) <= Epochs /\ Uninterrupted(rule, mem')
         /\ pc' \in {"loop", "raised"} /\ again' \in {"first", "resumed", "over"}
         /\ again' # "over" => again # "over"
         /\ again' # "over" /\ pc' = "loop" =>
              /\ Len(mem'.scores) > 0 => files["last"][Len(mem'.scores) - 1].is = "whole"
              /\ \A i \in DOMAIN metadata["last"] : metadata["last"][i].epoch <= Len(mem'.scores) - 1
         /\ pc' = "raised" => mem' = Fresh
         /\ again' = "first" => runs = 0 /\ mem' = Fresh /\ pc' = "loop"
<1>1. /\ Fresh \in Memory /\ Len(Fresh.scores) = 0 /\ Uninterrupted(rule, Fresh)
      /\ Epochs \in Nat \ {0}
  BY FreshType, EpochAssumption
<1>2. runs \in Nat /\ again \in {"first", "resumed", "over"} /\ (runs = 0 => again = "first")
  BY DEF IInv, TypeOK, StartsEmpty
<1>3. runs = 0 => metadata["last"] = <<>> /\ "last" \notin cut
  BY DEF IInv, StartsEmpty, Prefixes
<1>4. CASE StartOver
  BY <1>1, <1>2, <1>3, <1>4 DEF StartOver
<1>5. CASE Resume /\ metadata["last"] = <<>> /\ pc' = "loop"
  BY <1>1, <1>2, <1>5 DEF Resume
<1>6. CASE Resume /\ "last" \in cut /\ mem' = Fresh /\ pc' = "raised"
  BY <1>1, <1>2, <1>3, <1>6 DEF Resume
<1>7. CASE Resume /\ metadata["last"] # <<>> /\ ~("last" \in cut /\ mem' = Fresh /\ pc' = "raised")
  <2>1. runs # 0 /\ again' \in {"resumed", "over"} /\ (again' # "over" => again # "over")
    BY <1>2, <1>3, <1>7 DEF Resume
  <2>2. PICK e \in Rounds :
          /\ LatestFile = files["last"][e]
          /\ \A i \in DOMAIN metadata["last"] : metadata["last"][i].epoch <= e
          /\ LatestFile.is = "whole" =>
               /\ LatestFile.of \in Memory /\ Len(LatestFile.of.scores) = e + 1
               /\ Uninterrupted(rule, LatestFile.of)
    BY <1>7, LatestType DEF IInv
  <2>3. e \in 0..Epochs - 1
    BY DEF Rounds
  <2>4. CASE LatestFile.is = "whole"
    <3>1. mem' = LatestFile.of /\ pc' = "loop"
      BY <1>7, <2>4 DEF Resume, Restored
    <3>2. Len(mem'.scores) = e + 1 /\ Len(mem'.scores) - 1 = e /\ Len(mem'.scores) <= Epochs
      BY <1>1, <2>2, <2>3, <2>4, <3>1
    <3> QED  BY <2>1, <2>2, <2>4, <3>1, <3>2
  <2>5. CASE LatestFile.is # "whole"
    <3>1. mem' = Fresh /\ pc' = "raised"
      BY <1>7, <2>5 DEF Resume
    <3> QED  BY <1>1, <1>7, <2>1, <3>1
  <2> QED  BY <2>4, <2>5
<1> QED  BY <1>4, <1>5, <1>6, <1>7 DEF Resume

(* A process that starts, over or from a checkpoint, keeps the invariant.   *)
LEMMA StartInv == IInv /\ (StartOver \/ Resume) => IInv'
<1> SUFFICES ASSUME IInv, StartOver \/ Resume  PROVE IInv'
  OBVIOUS
<1>1. /\ runs' = runs + 1 /\ at' = "last" /\ spent' = FALSE
      /\ UNCHANGED <<files, metadata, cut, link, rule, kills>>
  BY DEF StartOver, Resume, Started, disk
<1>2. TypeOK /\ TrainedAsOne /\ StartsEmpty
  BY DEF IInv
<1> DEFINE n == Len(mem'.scores)
<1>3. /\ mem' \in Memory /\ n <= Epochs /\ Uninterrupted(rule, mem')
      /\ pc' \in {"loop", "raised"} /\ again' \in {"first", "resumed", "over"}
      /\ again' # "over" => again # "over"
      /\ again' # "over" /\ pc' = "loop" =>
           /\ n > 0 => files["last"][n - 1].is = "whole"
           /\ \A i \in DOMAIN metadata["last"] : metadata["last"][i].epoch <= n - 1
      /\ pc' = "raised" => mem' = Fresh
      /\ again' = "first" => runs = 0 /\ mem' = Fresh /\ pc' = "loop"
  BY StartsFrom
<1>4. n \in Nat
  BY <1>3, LenProperties DEF Memory
<1>5. TypeOK'
  <2>1. /\ files' \in [Prefixes -> [Rounds -> FileStates]]
        /\ metadata' \in [Prefixes -> Seq(Entries)] /\ metadata'["best"] \in Seq(Scored)
        /\ cut' \in SUBSET Prefixes
        /\ link' \in Rounds \cup {-1} /\ rule' \in {"patience", "horizon"}
        /\ runs' \in Nat /\ kills' \in Nat
    BY <1>1, <1>2 DEF TypeOK
  <2>2. pc' \in Steps /\ at' \in Prefixes /\ ~Saving' /\ pc' # "link" /\ spent' \in BOOLEAN
    BY <1>1, <1>3 DEF Steps, Prefixes, Saving
  <2> QED  BY <1>3, <2>1, <2>2 DEF TypeOK
<1>6. TrainedAsOne'
  BY <1>1, <1>2, <1>3 DEF TrainedAsOne, HoldsItsEpoch
<1>7. StartsEmpty'
  BY <1>1, <1>2 DEF StartsEmpty, TypeOK
<1>8. OneLineage'
  <2> SUFFICES ASSUME again' # "over"
               PROVE  IF Ended' THEN CheckpointSurvives'
                      ELSE /\ SureEpoch' >= 0 => files'["last"][SureEpoch'].is = "whole"
                           /\ \A i \in DOMAIN metadata'["last"] :
                                metadata'["last"][i].epoch <= LastRecorded'
    BY DEF OneLineage
  <2>1. CASE pc' = "loop"
    <3>1. ~Ended' /\ SureEpoch' = n - 1 /\ LastRecorded' = n - 1
      BY <2>1 DEF Ended, SureEpoch, LastRecorded, Saving, Epoch
    <3> QED  BY <1>1, <1>3, <1>4, <2>1, <3>1
  <2>2. CASE pc' = "raised"
    <3>1. Ended' /\ again # "over" /\ Len(mem'.scores) = 0
      BY <1>3, <2>2, FreshType DEF Ended
    <3>2. Ended
      BY DEF StartOver, Resume, Started
    <3>3. CheckpointSurvives
      BY <3>1, <3>2 DEF IInv, OneLineage
    <3> QED  BY <1>1, <3>1, <3>3 DEF CheckpointSurvives
  <2> QED  BY <1>3, <2>1, <2>2
<1>9. BestFollows'
  <2> SUFFICES ASSUME again' = "first"  PROVE BestFollows'
    BY DEF BestFollows
  <2>1. pc' = "loop" /\ mem' = Fresh /\ metadata["best"] = <<>> /\ link = -1
    BY <1>2, <1>3 DEF StartsEmpty, Prefixes
  <2>2. ~Saving' /\ BestRecorded' = Fresh.best
    BY <1>1, <2>1 DEF Saving, BestRecorded
  <2> QED  BY <1>1, <2>1, <2>2 DEF BestFollows
<1> QED  BY <1>5, <1>6, <1>7, <1>8, <1>9 DEF IInv

-----------------------------------------------------------------------------
(* The process trains an epoch. *)
LEMMA TrainInv == IInv /\ TrainEpoch => IInv'
<1> SUFFICES ASSUME IInv, TrainEpoch  PROVE IInv'
  OBVIOUS
<1>1. /\ pc = "loop" /\ ~mem.stopping.stop /\ ~(Len(mem.scores) >= Epochs)
      /\ pc' = "save" /\ at' = "last" /\ spent' = Spends
      /\ UNCHANGED <<files, metadata, cut, link, rule, runs, kills, again>>
  BY DEF TrainEpoch, Stops, disk, counts
<1>2. PICK score \in Values : mem' = Followed(rule, mem, score)
  BY DEF TrainEpoch, Values
<1>3. TypeOK /\ TrainedAsOne /\ StartsEmpty /\ OneLineage /\ BestFollows
  BY DEF IInv
<1> DEFINE n == Len(mem.scores)
<1>4. mem \in Memory /\ n \in Nat /\ n < Epochs /\ Epochs \in Nat
  BY <1>1, <1>3, LenProperties, EpochAssumption DEF TypeOK, Memory
<1>5. /\ mem' \in Memory /\ Len(mem'.scores) = n + 1 /\ mem'.scores[n + 1] = score
      /\ mem'.best = Improved(mem.best, score, n)
  BY <1>2, <1>4, FollowedType
<1> HIDE DEF n
<1>6. Epoch = n - 1 /\ Epoch' = n /\ Saving' /\ ~Saving
  BY <1>1, <1>4, <1>5 DEF Epoch, Saving, n
<1>7. TypeOK'
  <2>1. spent' \in BOOLEAN
    BY <1>1 DEF Spends
  <2>2. mem' \in Memory /\ Len(mem'.scores) <= Epochs /\ Len(mem'.scores) > 0
    BY <1>4, <1>5
  <2>3. /\ files' \in [Prefixes -> [Rounds -> FileStates]]
        /\ metadata' \in [Prefixes -> Seq(Entries)] /\ metadata'["best"] \in Seq(Scored)
        /\ cut' \in SUBSET Prefixes
        /\ link' \in Rounds \cup {-1} /\ rule' \in {"patience", "horizon"}
        /\ runs' \in Nat /\ kills' \in Nat /\ again' \in {"first", "resumed", "over"}
    BY <1>1, <1>3 DEF TypeOK
  <2>4. pc' \in Steps /\ at' \in Prefixes /\ at' # "best" /\ pc' # "link"
    BY <1>1 DEF Steps, Prefixes
  <2> QED  BY <2>1, <2>2, <2>3, <2>4 DEF TypeOK
<1>8. TrainedAsOne'
  <2>1. Uninterrupted(rule, mem')
    BY <1>1, <1>2, <1>3, <1>4, OneMoreEpoch DEF TrainedAsOne
  <2> QED  BY <1>1, <1>3, <2>1 DEF TrainedAsOne, HoldsItsEpoch
<1>9. StartsEmpty'
  BY <1>1, <1>3 DEF StartsEmpty
<1>10. OneLineage'
  <2>1. SureEpoch' = n - 1 /\ LastRecorded' = n - 1 /\ SureEpoch = n - 1 /\ LastRecorded = n - 1
    BY <1>1, <1>4, <1>6 DEF SureEpoch, LastRecorded
  <2> QED  BY <1>1, <1>3, <2>1 DEF OneLineage, Ended
<1>11. BestFollows'
  <2> SUFFICES ASSUME again = "first", kills = 0  PROVE BestFollows'
    BY <1>1 DEF BestFollows
  <2>1. /\ link = -1 /\ mem.best = BestRecorded
        /\ \A i \in DOMAIN metadata["best"] :
             /\ metadata["best"][i].score <= metadata["best"][1].score
             /\ metadata["best"][i].epoch <= n - 1
    BY <1>1, <1>3, <1>6 DEF BestFollows
  <2>2. BestRecorded' = BestRecorded
    BY <1>1 DEF BestRecorded
  <2>3. mem'.best = Improved(BestRecorded', mem'.scores[Epoch' + 1], Epoch')
    BY <1>5, <1>6, <2>1, <2>2
  <2>4. Epoch' - 1 = n - 1
    BY <1>4, <1>6
  <2> QED  BY <1>1, <1>6, <2>1, <2>3, <2>4 DEF BestFollows
<1> QED  BY <1>7, <1>8, <1>9, <1>10, <1>11 DEF IInv

-----------------------------------------------------------------------------
(* A callback saves the epoch. *)

(* The file of the epoch is written: from here on it is certain to be whole. *)
LEMMA SaveInv == IInv /\ Save => IInv'
<1> SUFFICES ASSUME IInv, Save  PROVE IInv'
  OBVIOUS
<1>1. /\ pc = "save" /\ pc' = "prune" /\ files' = [files EXCEPT ![at][Epoch] = Whole(mem)]
      /\ UNCHANGED <<mem, spent, metadata, cut, link, rule, at, runs, kills, again>>
  BY DEF Save, counts
<1>2. TypeOK /\ TrainedAsOne /\ StartsEmpty /\ OneLineage /\ BestFollows /\ Saving
  BY <1>1 DEF IInv, Saving
<1>3. /\ Epoch \in Rounds /\ Epoch + 1 = Len(mem.scores) /\ at \in Prefixes /\ mem \in Memory
      /\ files \in [Prefixes -> [Rounds -> FileStates]]
  BY <1>2, EpochType DEF TypeOK
<1>4. Whole(mem) \in FileStates /\ Whole(mem).is = "whole" /\ Whole(mem).of = mem
  BY <1>3 DEF Whole, FileStates
<1>5. /\ files' \in [Prefixes -> [Rounds -> FileStates]] /\ files'[at][Epoch] = Whole(mem)
      /\ \A p \in Prefixes : \A e \in Rounds :
           files'[p][e] = IF p = at /\ e = Epoch THEN Whole(mem) ELSE files[p][e]
  BY <1>1, <1>3, <1>4
<1>6. Epoch' = Epoch /\ Saving'
  BY <1>1 DEF Epoch, Saving
<1>7. TypeOK'
  BY <1>1, <1>2, <1>5, <1>6 DEF TypeOK, Steps
<1>8. TrainedAsOne'
  <2>1. ASSUME NEW p \in Prefixes, NEW e \in Rounds  PROVE HoldsItsEpoch(files[p][e], e)'
    <3>1. CASE p = at /\ e = Epoch
      <4>1. files'[p][e] = Whole(mem) /\ Len(mem.scores) = e + 1
        BY <1>3, <1>5, <3>1
      <4> QED  BY <1>1, <1>2, <1>4, <4>1 DEF HoldsItsEpoch, TrainedAsOne
    <3>2. CASE ~(p = at /\ e = Epoch)
      <4>1. files'[p][e] = files[p][e]
        BY <1>5, <3>2
      <4> QED  BY <1>1, <1>2, <4>1 DEF HoldsItsEpoch, TrainedAsOne
    <3> QED  BY <3>1, <3>2
  <2> QED  BY <1>1, <1>2, <2>1 DEF TrainedAsOne
<1>9. StartsEmpty'
  BY <1>1, <1>2 DEF StartsEmpty
<1>10. OneLineage'
  <2>1. CASE at = "last"
    <3>1. SureEpoch' = Epoch /\ LastRecorded' = LastRecorded /\ ~Ended' /\ ~Ended
      BY <1>1, <1>2, <1>6, <2>1 DEF SureEpoch, LastRecorded, Ended
    <3>2. files'["last"][SureEpoch'].is = "whole"
      BY <1>4, <1>5, <2>1, <3>1
    <3> QED  BY <1>1, <1>2, <3>1, <3>2 DEF OneLineage
  <2>2. CASE at # "last"
    <3>1. SureEpoch' = SureEpoch /\ LastRecorded' = LastRecorded /\ ~Ended' /\ ~Ended
      BY <1>1, <1>2, <1>6, <2>2 DEF SureEpoch, LastRecorded, Ended
    <3>2. files'["last"] = files["last"]
      BY <1>1, <1>3, <2>2 DEF Prefixes
    <3> QED  BY <1>1, <1>2, <3>1, <3>2 DEF OneLineage
  <2> QED  BY <2>1, <2>2
<1>11. BestFollows'
  BY <1>1, <1>2, <1>6 DEF BestFollows, BestRecorded
<1> QED  BY <1>7, <1>8, <1>9, <1>10, <1>11 DEF IInv

(* Pruning "last" spares the epoch just saved, which is first in its list.  *)
LEMMA PruneInv == IInv /\ Prune => IInv'
<1> SUFFICES ASSUME IInv, Prune  PROVE IInv'
  OBVIOUS
<1> DEFINE pruned == EpochsOf(Sorted) \ EpochsOf(First(Sorted))
<1>1. /\ pc = "prune" /\ pc' = "metadata"
      /\ files' = [files EXCEPT ![at] = [e \in Rounds |-> IF e \in pruned THEN Absent ELSE files[at][e]]]
      /\ UNCHANGED <<mem, spent, metadata, cut, link, rule, at, runs, kills, again>>
  BY DEF Prune, counts
<1>2. TypeOK /\ TrainedAsOne /\ StartsEmpty /\ OneLineage /\ BestFollows /\ Saving
  BY <1>1 DEF IInv, Saving
<1>3. /\ Epoch \in Rounds /\ at \in Prefixes /\ files \in [Prefixes -> [Rounds -> FileStates]]
      /\ Entry.epoch = Epoch
  BY <1>2, EpochType DEF TypeOK
<1>4. /\ First(Sorted)[1] = Sorted[1] /\ DOMAIN First(Sorted) = 1..Len(First(Sorted))
      /\ 1 \in DOMAIN First(Sorted)
  BY <1>2, RecordedList, LenProperties
<1> HIDE DEF pruned
<1>5. /\ files' \in [Prefixes -> [Rounds -> FileStates]]
      /\ \A p \in Prefixes : \A e \in Rounds :
           files'[p][e] = IF p = at /\ e \in pruned THEN Absent ELSE files[p][e]
  <2>1. Absent \in FileStates
    BY DEF FileStates
  <2> QED  BY <1>1, <1>3, <2>1
<1>6. Epoch' = Epoch /\ Saving'
  BY <1>1 DEF Epoch, Saving
<1>7. TypeOK'
  BY <1>1, <1>2, <1>5, <1>6 DEF TypeOK, Steps
<1>8. TrainedAsOne'
  <2>1. Absent.is # "whole"
    BY DEF Absent
  <2>2. ASSUME NEW p \in Prefixes, NEW e \in Rounds  PROVE HoldsItsEpoch(files[p][e], e)'
    <3>1. CASE p = at /\ e \in pruned
      BY <1>5, <2>1, <3>1 DEF HoldsItsEpoch
    <3>2. CASE ~(p = at /\ e \in pruned)
      <4>1. files'[p][e] = files[p][e]
        BY <1>5, <3>2
      <4> QED  BY <1>1, <1>2, <4>1 DEF HoldsItsEpoch, TrainedAsOne
    <3> QED  BY <3>1, <3>2
  <2> QED  BY <1>1, <1>2, <2>2 DEF TrainedAsOne
<1>9. StartsEmpty'
  BY <1>1, <1>2 DEF StartsEmpty
<1>10. OneLineage'
  <2> SUFFICES ASSUME again # "over"  PROVE OneLineage'
    BY <1>1 DEF OneLineage
  <2>1. /\ SureEpoch = Epoch /\ SureEpoch' = Epoch /\ LastRecorded' = LastRecorded
        /\ ~Ended' /\ ~Ended
    BY <1>1, <1>2, <1>6 DEF SureEpoch, LastRecorded, Ended
  <2>2. /\ files["last"][Epoch].is = "whole"
        /\ \A i \in DOMAIN metadata["last"] : metadata["last"][i].epoch <= LastRecorded
    BY <1>2, <1>3, <2>1, EpochAssumption DEF OneLineage, Rounds
  <2>3. files'["last"][Epoch] = files["last"][Epoch]
    <3>1. CASE at = "last"
      <4>1. Sorted[1] = Entry
        BY <1>2, <2>2, <3>1, LatestFirst DEF LastRecorded
      <4>2. Epoch \in EpochsOf(First(Sorted))
        BY <1>3, <1>4, <4>1 DEF EpochsOf
      <4>3. Epoch \notin pruned
        BY <4>2 DEF pruned
      <4> QED  BY <1>3, <1>5, <3>1, <4>3
    <3>2. CASE at # "last"
      BY <1>3, <1>5, <3>2 DEF Prefixes
    <3> QED  BY <3>1, <3>2
  <2> QED  BY <1>1, <2>1, <2>2, <2>3 DEF OneLineage
<1>11. BestFollows'
  BY <1>1, <1>2, <1>6 DEF BestFollows, BestRecorded
<1> QED  BY <1>7, <1>8, <1>9, <1>10, <1>11 DEF IInv

(* The list is written, and the next callback or the loop goes on.          *)
LEMMA RecordInv == IInv /\ Record => IInv'
<1> SUFFICES ASSUME IInv, Record  PROVE IInv'
  OBVIOUS
<1> DEFINE first == First(Sorted)
<1>1. /\ pc = "metadata" /\ metadata' = [metadata EXCEPT ![at] = first]
      /\ IF at = "last" /\ mem.scores[Epoch + 1] # NoScore
           THEN pc' = "save" /\ at' = "best" ELSE pc' = "loop" /\ at' = at
      /\ UNCHANGED <<mem, spent, files, cut, link, rule, runs, kills, again>>
  BY DEF Record, NextCallback, counts
<1>2. TypeOK /\ TrainedAsOne /\ StartsEmpty /\ OneLineage /\ BestFollows /\ Saving
  BY <1>1 DEF IInv, Saving
<1>3. /\ Epoch \in Rounds /\ Epoch + 1 = Len(mem.scores) /\ Entry.epoch = Epoch
      /\ Entry.score = mem.scores[Epoch + 1] /\ (at = "best" => Entry \in Scored) /\ Entry \in Entries
      /\ Epoch \in Int
  BY <1>2, EpochType, EpochAssumption DEF Rounds
<1>4. /\ first \in Seq(Entries) /\ (at = "best" => first \in Seq(Scored))
      /\ first # <<>> /\ first[1] = Sorted[1] /\ 1 \in DOMAIN first
      /\ \A i \in DOMAIN first : first[i] = Entry \/ \E j \in DOMAIN metadata[at] : first[i] = metadata[at][j]
  BY <1>2, RecordedList, LenProperties
<1>5. at \in Prefixes /\ metadata \in [Prefixes -> Seq(Entries)] /\ metadata["best"] \in Seq(Scored)
  BY <1>2 DEF TypeOK
<1> HIDE DEF first
<1>6. /\ metadata' \in [Prefixes -> Seq(Entries)] /\ metadata'[at] = first
      /\ at = "last" => metadata'["best"] = metadata["best"]
      /\ at = "best" => metadata'["last"] = metadata["last"]
  BY <1>1, <1>4, <1>5 DEF Prefixes
<1>7. Epoch' = Epoch /\ at \in {"last", "best"}
  BY <1>1, <1>5 DEF Epoch, Prefixes
<1>8. /\ pc' = "save" => at = "last" /\ at' = "best" /\ mem.scores[Epoch + 1] # NoScore
      /\ pc' # "save" => pc' = "loop" /\ (at = "last" => mem.scores[Epoch + 1] = NoScore)
      /\ pc' \in {"save", "loop"} /\ (Saving' <=> pc' = "save")
  BY <1>1 DEF Saving
<1>9. TypeOK'
  <2>1. metadata'["best"] \in Seq(Scored)
    BY <1>4, <1>5, <1>6, <1>7
  <2>2. /\ mem' \in Memory /\ Len(mem'.scores) <= Epochs /\ spent' \in BOOLEAN
        /\ files' \in [Prefixes -> [Rounds -> FileStates]]
        /\ cut' \in SUBSET Prefixes /\ link' \in Rounds \cup {-1} /\ rule' \in {"patience", "horizon"}
        /\ runs' \in Nat /\ kills' \in Nat /\ again' \in {"first", "resumed", "over"}
        /\ Len(mem'.scores) > 0
    BY <1>1, <1>2 DEF TypeOK
  <2>3. pc' \in Steps /\ at' \in Prefixes /\ pc' # "link"
    BY <1>1, <1>5 DEF Steps, Prefixes
  <2>4. Saving' => mem'.scores[Len(mem'.scores)] \in Scores
    <3> SUFFICES ASSUME pc' = "save"  PROVE mem.scores[Epoch + 1] \in Scores
      BY <1>1, <1>3, <1>8
    <3> QED  BY <1>3, <1>8 DEF Entries, Values
  <2> QED  BY <1>6, <2>1, <2>2, <2>3, <2>4 DEF TypeOK
<1>10. TrainedAsOne'
  BY <1>1, <1>2 DEF TrainedAsOne, HoldsItsEpoch
<1>11. StartsEmpty'
  BY <1>1, <1>2 DEF StartsEmpty
<1>12. OneLineage'
  <2> SUFFICES ASSUME again # "over"  PROVE OneLineage'
    BY <1>1 DEF OneLineage
  <2>1. SureEpoch = Epoch /\ ~Ended /\ ~Ended' /\ SureEpoch' = Epoch /\ LastRecorded' = Epoch
    BY <1>1, <1>7, <1>8 DEF SureEpoch, LastRecorded, Ended
  <2>2. /\ Epoch >= 0 => files["last"][Epoch].is = "whole"
        /\ \A i \in DOMAIN metadata["last"] : metadata["last"][i].epoch <= LastRecorded
    BY <1>2, <2>1 DEF OneLineage
  <2>3. ASSUME NEW i \in DOMAIN metadata["last"]  PROVE metadata["last"][i].epoch <= Epoch
    <3>1. metadata["last"][i] \in Entries
      BY <1>5, ElementOfSeq, LenProperties DEF Prefixes
    <3>2. metadata["last"][i].epoch \in Int
      BY <3>1, EpochAssumption DEF Entries, Rounds
    <3> QED  BY <1>3, <2>2, <3>2 DEF LastRecorded
  <2>4. \A i \in DOMAIN metadata'["last"] : metadata'["last"][i].epoch <= Epoch
    <3>1. CASE at = "last"
      <4>1. metadata'["last"] = first
        BY <1>6, <3>1
      <4>2. \A i \in DOMAIN first :
              first[i] = Entry \/ \E j \in DOMAIN metadata["last"] : first[i] = metadata["last"][j]
        BY <1>4, <3>1
      <4>3. ASSUME NEW i \in DOMAIN first  PROVE first[i].epoch <= Epoch
        BY <1>3, <2>3, <4>2
      <4> QED  BY <4>1, <4>3
    <3>2. CASE at = "best"
      BY <1>6, <2>3, <3>2
    <3> QED  BY <1>7, <3>1, <3>2
  <2> QED  BY <1>1, <2>1, <2>2, <2>4 DEF OneLineage
<1>13. BestFollows'
  <2> SUFFICES ASSUME again = "first", kills = 0  PROVE BestFollows'
    BY <1>1 DEF BestFollows
  <2> DEFINE best == metadata["best"]
  <2>1. /\ link = -1 /\ mem.best = Improved(BestRecorded, mem.scores[Epoch + 1], Epoch)
        /\ \A i \in DOMAIN best : best[i].score <= best[1].score /\ best[i].epoch <= Epoch - 1
    BY <1>1, <1>2 DEF BestFollows
  <2>2. /\ best \in Seq(Scored) /\ (best # <<>> => 1 \in DOMAIN best)
        /\ \A i \in DOMAIN best : best[i] \in Scored
    BY <1>5, ElementOfSeq, LenProperties, EmptySeq
  <2>3. \A x \in Scored : x.score \in Int /\ x.score # NoScore /\ x.epoch \in Int
    <3> SUFFICES ASSUME NEW x \in Scored
                 PROVE  x.score \in Int /\ x.score # NoScore /\ x.epoch \in Int
      OBVIOUS
    <3>1. x.score \in Scores /\ x.epoch \in 0..Epochs - 1
      BY DEF Scored, Rounds
    <3>2. x.score \in Int
      BY <3>1, ScoreAssumption
    <3>3. x.score # NoScore
      BY <3>2, ScoreAssumption
    <3>4. x.epoch \in Int
      BY <3>1, EpochAssumption
    <3> QED  BY <3>2, <3>3, <3>4
  <2>4. CASE at = "last"
    <3>1. metadata'["best"] = best /\ BestRecorded' = BestRecorded
      BY <1>6, <2>4 DEF BestRecorded
    <3>2. CASE pc' = "save"
      BY <1>1, <1>7, <1>8, <2>1, <3>1, <3>2 DEF BestFollows
    <3>3. CASE pc' = "loop"
      <4>1. mem.best = BestRecorded'
        BY <1>8, <2>1, <2>4, <3>1, <3>3 DEF Improved
      <4>2. \A i \in DOMAIN best : best[i].epoch <= Epoch
        BY <1>3, <2>1, <2>2, <2>3
      <4>3. ~Saving'
        BY <1>8, <3>3
      <4> QED  BY <1>1, <1>7, <2>1, <3>1, <3>3, <4>1, <4>2, <4>3 DEF BestFollows
    <3> QED  BY <1>8, <3>2, <3>3
  <2>5. CASE at = "best"
    <3> DEFINE old == best # <<>> /\ best[1].score >= Entry.score
    <3>1. pc' = "loop" /\ ~Saving' /\ metadata'["best"] = first /\ Entry \in Scored
      BY <1>3, <1>6, <1>8, <2>5
    <3>2. first[1] = IF old THEN best[1] ELSE Entry
      BY <1>2, <1>4, <2>1, <2>5, BestFirst
    <3>3. \A i \in DOMAIN first : first[i] = Entry \/ \E j \in DOMAIN best : first[i] = best[j]
      BY <1>4, <2>5
    <3> HIDE DEF best
    <3>4. ASSUME NEW i \in DOMAIN first
          PROVE  first[i].score <= first[1].score /\ first[i].epoch <= Epoch
      <4>1. CASE first[i] = Entry
        BY <1>3, <2>2, <2>3, <3>1, <3>2, <4>1
      <4>2. CASE \E j \in DOMAIN best : first[i] = best[j]
        <5>1. PICK j \in DOMAIN best : first[i] = best[j]
          BY <4>2
        <5>2. best # <<>> /\ best[1] \in Scored /\ best[j] \in Scored
          BY <2>2, <5>1
        <5>3. best[j].score <= best[1].score /\ best[j].epoch <= Epoch
          BY <1>3, <2>1, <2>3, <5>2
        <5> QED  BY <2>3, <3>1, <3>2, <5>1, <5>2, <5>3
      <4> QED  BY <3>3, <4>1, <4>2
    <3>5. BestRecorded' = [score |-> first[1].score, epoch |-> first[1].epoch]
      BY <1>4, <3>1 DEF BestRecorded
    <3>6. mem.best = BestRecorded'
      <4>1. CASE best = <<>>
        <5>1. BestRecorded.score = NoScore
          BY <4>1 DEF BestRecorded, Fresh, best
        <5> QED  BY <1>3, <2>1, <2>3, <3>1, <3>2, <3>5, <4>1, <5>1 DEF Improved
      <4>2. CASE best # <<>>
        <5>1. BestRecorded = [score |-> best[1].score, epoch |-> best[1].epoch] /\ best[1] \in Scored
          BY <2>2, <4>2 DEF BestRecorded, best
        <5>2. CASE best[1].score >= Entry.score
          <6>1. mem.best = BestRecorded
            BY <1>3, <2>1, <2>3, <3>1, <5>1, <5>2 DEF Improved
          <6> QED  BY <3>2, <3>5, <4>2, <5>1, <5>2, <6>1
        <5>3. CASE ~(best[1].score >= Entry.score)
          <6>1. mem.best = [score |-> Entry.score, epoch |-> Epoch]
            BY <1>3, <2>1, <2>3, <3>1, <5>1, <5>3 DEF Improved
          <6> QED  BY <1>3, <3>2, <3>5, <5>3, <6>1
        <5> QED  BY <5>2, <5>3
      <4> QED  BY <4>1, <4>2
    <3> QED  BY <1>1, <1>7, <2>1, <3>1, <3>4, <3>6 DEF BestFollows
  <2> QED  BY <1>7, <2>4, <2>5
<1> QED  BY <1>9, <1>10, <1>11, <1>12, <1>13 DEF IInv

-----------------------------------------------------------------------------
(* While a process runs, what is recorded or trained before this epoch      *)
(* means that a whole file of "last" is there.                              *)
LEMMA SureIsThere ==
  ASSUME IInv, ~Ended, again # "over", metadata["last"] # <<>> \/ Len(mem.scores) > 1
  PROVE  SureEpoch \in Rounds /\ files["last"][SureEpoch].is = "whole"
<1>1. TypeOK /\ OneLineage
  BY DEF IInv
<1>2. /\ Len(mem.scores) \in 0..Epochs /\ Epochs \in Nat /\ pc \in Steps /\ at \in Prefixes
      /\ metadata["last"] \in Seq(Entries)
  BY <1>1, LenProperties, EpochAssumption DEF TypeOK, Memory, Prefixes
<1>3. /\ SureEpoch >= 0 => files["last"][SureEpoch].is = "whole"
      /\ \A i \in DOMAIN metadata["last"] : metadata["last"][i].epoch <= LastRecorded
  BY <1>1 DEF OneLineage
<1>4. /\ SureEpoch \in Int /\ SureEpoch <= Epochs - 1 /\ LastRecorded \in Int /\ LastRecorded <= SureEpoch
      /\ Len(mem.scores) > 1 => SureEpoch >= 0
  BY <1>2 DEF SureEpoch, LastRecorded, Epoch, Saving
<1>5. CASE metadata["last"] # <<>>
  <2>1. 1 \in DOMAIN metadata["last"] /\ metadata["last"][1] \in Entries
    BY <1>2, <1>5, LenProperties, ElementOfSeq, EmptySeq
  <2>2. metadata["last"][1].epoch \in Nat
    BY <1>2, <2>1 DEF Entries, Rounds
  <2>3. SureEpoch >= 0
    BY <1>3, <1>4, <2>1, <2>2
  <2> QED  BY <1>2, <1>3, <1>4, <2>3 DEF Rounds
<1>6. CASE Len(mem.scores) > 1
  BY <1>2, <1>3, <1>4, <1>6 DEF Rounds
<1> QED  BY <1>5, <1>6

(* So a whole checkpoint survives.                                          *)
LEMMA SurvivesWithinRun == IInv /\ ~Ended => CheckpointSurvives
BY SureIsThere DEF CheckpointSurvives

-----------------------------------------------------------------------------
(* The end of a run, and a kill. *)

(* save_best at the end of a run changes nothing but the link.              *)
LEMMA FinishInv == IInv /\ (Unlink \/ Link) => IInv'
<1> SUFFICES ASSUME IInv, Unlink \/ Link  PROVE IInv'
  OBVIOUS
<1>1. /\ pc \in {"loop", "link"} /\ pc' \in {"done", "link"}
      /\ UNCHANGED <<mem, spent, files, metadata, cut, rule, at, runs, kills, again>>
  BY DEF Unlink, Link, counts
<1>2. TypeOK /\ TrainedAsOne /\ StartsEmpty /\ OneLineage /\ BestFollows
  BY DEF IInv
<1>3. ~Saving /\ ~Saving' /\ ~Ended /\ Epoch' = Epoch
  BY <1>1 DEF Saving, Ended, Epoch
<1>4. /\ metadata["best"] # <<>> => metadata["best"][1] \in Scored
      /\ pc' = "link" => metadata["best"] # <<>> /\ link' = -1
      /\ pc' = "done" => \/ pc = "loop" /\ metadata["best"] = <<>> /\ link' = link
                         \/ pc = "link" /\ metadata["best"] # <<>> /\ link' = metadata["best"][1].epoch
  <2>1. metadata["best"] # <<>> => metadata["best"][1] \in Scored
    BY <1>2, ElementOfSeq, EmptySeq DEF TypeOK
  <2> QED  BY <1>2, <2>1 DEF Unlink, Link, TypeOK
<1>5. TypeOK'
  <2>1. link' \in Rounds \cup {-1}
    BY <1>1, <1>2, <1>4 DEF TypeOK, Scored
  <2>2. /\ mem' \in Memory /\ Len(mem'.scores) <= Epochs /\ spent' \in BOOLEAN
        /\ files' \in [Prefixes -> [Rounds -> FileStates]]
        /\ metadata' \in [Prefixes -> Seq(Entries)] /\ metadata'["best"] \in Seq(Scored)
        /\ cut' \in SUBSET Prefixes
        /\ rule' \in {"patience", "horizon"} /\ at' \in Prefixes
        /\ runs' \in Nat /\ kills' \in Nat /\ again' \in {"first", "resumed", "over"}
    BY <1>1, <1>2 DEF TypeOK
  <2>3. pc' \in Steps /\ (pc' = "link" => metadata'["best"] # <<>>)
    BY <1>1, <1>4 DEF Steps
  <2> QED  BY <1>3, <2>1, <2>2, <2>3 DEF TypeOK
<1>6. TrainedAsOne'
  BY <1>1, <1>2 DEF TrainedAsOne, HoldsItsEpoch
<1>7. StartsEmpty'
  BY <1>1, <1>2 DEF StartsEmpty
<1>8. OneLineage'
  <2> SUFFICES ASSUME again # "over"  PROVE OneLineage'
    BY <1>1 DEF OneLineage
  <2>1. /\ Epoch >= 0 => files["last"][Epoch].is = "whole"
        /\ \A i \in DOMAIN metadata["last"] : metadata["last"][i].epoch <= Epoch
    BY <1>1, <1>2, <1>3 DEF OneLineage, SureEpoch, LastRecorded
  <2>2. CASE pc' = "link"
    <3>1. ~Ended' /\ SureEpoch' = Epoch /\ LastRecorded' = Epoch
      BY <1>3, <2>2 DEF Ended, SureEpoch, LastRecorded
    <3> QED  BY <1>1, <2>1, <3>1 DEF OneLineage
  <2>3. CASE pc' = "done"
    <3>1. Ended'
      BY <2>3 DEF Ended
    <3>2. CheckpointSurvives
      BY <1>1, <1>2, <1>3, SurvivesWithinRun DEF IInv
    <3>3. CheckpointSurvives'
      BY <1>1, <3>2 DEF CheckpointSurvives
    <3> QED  BY <3>1, <3>3 DEF OneLineage
  <2> QED  BY <1>1, <2>2, <2>3
<1>9. BestFollows'
  <2> SUFFICES ASSUME again = "first", kills = 0  PROVE BestFollows'
    BY <1>1 DEF BestFollows
  <2>1. /\ link = -1 /\ mem.best = BestRecorded
        /\ \A i \in DOMAIN metadata["best"] :
             /\ metadata["best"][i].score <= metadata["best"][1].score
             /\ metadata["best"][i].epoch <= Epoch
    BY <1>1, <1>2, <1>3 DEF BestFollows
  <2>2. BestRecorded' = BestRecorded
    BY <1>1 DEF BestRecorded
  <2>3. pc' = "done" => link' = mem.best.epoch
    BY <1>4, <2>1 DEF BestRecorded, Fresh
  <2> QED  BY <1>1, <1>3, <1>4, <2>1, <2>2, <2>3 DEF BestFollows
<1> QED  BY <1>5, <1>6, <1>7, <1>8, <1>9 DEF IInv

(* The beginning of a list. *)
LEMMA Beginning ==
  ASSUME NEW E, NEW list \in Seq(E), NEW n \in 0..Len(list) - 1
  PROVE  /\ SubSeq(list, 1, n) \in Seq(E) /\ DOMAIN SubSeq(list, 1, n) = 1..n
         /\ 1..n \subseteq DOMAIN list /\ \A i \in 1..n : SubSeq(list, 1, n)[i] = list[i]
<1>1. Len(list) \in Nat /\ DOMAIN list = 1..Len(list)
  BY LenProperties
<1>2. \A i \in 1..n : list[i] \in E
  BY <1>1, ElementOfSeq
<1>3. n \in Nat /\ 1 \in Int
  BY <1>1
<1>4. /\ SubSeq(list, 1, n) \in Seq(E) /\ Len(SubSeq(list, 1, n)) = n
      /\ \A i \in 1..n : SubSeq(list, 1, n)[i] = list[i]
  BY <1>2, <1>3, SubSeqProperties
<1>5. DOMAIN SubSeq(list, 1, n) = 1..n
  BY <1>4, LenProperties
<1> QED  BY <1>1, <1>4, <1>5

(* What is left of metadata that a kill cuts short is a list of checkpoints. *)
LEMMA CutShortList ==
  ASSUME TypeOK, Saving, CutShort
  PROVE  \E list : /\ metadata' = [metadata EXCEPT ![at] = list]
                   /\ list \in Seq(Entries) /\ (at = "best" => list \in Seq(Scored))
<1>1. First(Sorted) \in Seq(Entries) /\ (at = "best" => First(Sorted) \in Seq(Scored))
  BY RecordedList
<1>2. PICK n \in 0..Len(First(Sorted)) - 1 : metadata' = [metadata EXCEPT ![at] = SubSeq(First(Sorted), 1, n)]
  BY DEF CutShort
<1>3. SubSeq(First(Sorted), 1, n) \in Seq(Entries)
  BY <1>1, Beginning
<1>4. at = "best" => SubSeq(First(Sorted), 1, n) \in Seq(Scored)
  BY <1>1, Beginning
<1> QED  BY <1>2, <1>3, <1>4

(* Whoever cannot read the metadata changes nothing on disk.                *)
LEMMA MisreadInv == IInv /\ Misread => IInv'
<1> SUFFICES ASSUME IInv, Misread  PROVE IInv'
  OBVIOUS
<1>1. /\ ~Ended /\ pc' = "raised" /\ Ended' /\ ~Saving' /\ cut # {} /\ kills' = kills
      /\ UNCHANGED <<mem, spent, files, metadata, cut, link, rule, at, runs, kills, again>>
  BY DEF Misread, Ended, Saving, disk, counts
<1>2. TypeOK /\ TrainedAsOne /\ StartsEmpty /\ OneLineage
  BY DEF IInv
<1>3. TypeOK'
  BY <1>1, <1>2 DEF TypeOK, Steps
<1>4. TrainedAsOne' /\ StartsEmpty'
  BY <1>1, <1>2 DEF TrainedAsOne, HoldsItsEpoch, StartsEmpty
<1>5. OneLineage'
  <2>1. CheckpointSurvives
    BY <1>1, SurvivesWithinRun
  <2> QED  BY <1>1, <2>1 DEF OneLineage, CheckpointSurvives
<1>6. BestFollows'
  BY <1>1, <1>2 DEF BestFollows, StartsEmpty
<1> QED  BY <1>3, <1>4, <1>5, <1>6 DEF IInv

(* A kill may tear the file that is being written, and no file before it.   *)
LEMMA KillInv == IInv /\ Kill => IInv'
<1> SUFFICES ASSUME IInv, Kill  PROVE IInv'
  OBVIOUS
<1>1. /\ ~Ended /\ kills' = kills + 1 /\ pc' = "killed"
      /\ UNCHANGED <<mem, spent, link, rule, at, runs, again>>
  BY DEF Kill
<1>2. TypeOK /\ TrainedAsOne /\ StartsEmpty /\ OneLineage
  BY DEF IInv
<1>3. /\ at \in Prefixes /\ kills \in Nat /\ files \in [Prefixes -> [Rounds -> FileStates]]
      /\ metadata \in [Prefixes -> Seq(Entries)] /\ metadata["best"] \in Seq(Scored)
      /\ "last" \in Prefixes /\ "best" \in Prefixes
  BY <1>2 DEF TypeOK, Prefixes
<1>4. \/ UNCHANGED <<files, metadata, cut>>
      \/ pc = "save" /\ files' = [files EXCEPT ![at][Epoch] = Torn] /\ UNCHANGED <<metadata, cut>>
      \/ pc = "metadata" /\ CutShort /\ UNCHANGED files
  BY DEF Kill
<1>5. Torn \in FileStates /\ Torn.is # "whole"
  BY DEF FileStates, Torn
<1>6. /\ files' \in [Prefixes -> [Rounds -> FileStates]]
      /\ \A p \in Prefixes : \A e \in Rounds :
           files'[p][e] # files[p][e] => files'[p][e] = Torn /\ p = at /\ e = Epoch /\ pc = "save"
  <2>1. CASE files' = files
    BY <1>3, <2>1
  <2>2. CASE pc = "save" /\ files' = [files EXCEPT ![at][Epoch] = Torn]
    <3>1. Epoch \in Rounds
      BY <1>2, <2>2, EpochType DEF Saving
    <3> QED  BY <1>3, <1>5, <2>2, <3>1
  <2> QED  BY <1>4, <2>1, <2>2
<1>7. /\ metadata' \in [Prefixes -> Seq(Entries)] /\ metadata'["best"] \in Seq(Scored)
      /\ cut' \in SUBSET Prefixes
      /\ metadata'["last"] # metadata["last"] => pc = "metadata" /\ at = "last"
  <2>1. CASE UNCHANGED <<metadata, cut>>
    BY <1>2, <1>3, <2>1 DEF TypeOK
  <2>2. CASE pc = "metadata" /\ CutShort
    <3>1. PICK list : /\ metadata' = [metadata EXCEPT ![at] = list]
                      /\ list \in Seq(Entries) /\ (at = "best" => list \in Seq(Scored))
      BY <1>2, <2>2, CutShortList DEF Saving
    <3>2. cut' \in SUBSET Prefixes
      BY <1>2, <1>3, <2>2 DEF CutShort, TypeOK
    <3>3. at = "last" \/ at = "best"
      BY <1>3 DEF Prefixes
    <3> QED  BY <1>3, <2>2, <3>1, <3>2, <3>3
  <2> QED  BY <1>4, <2>1, <2>2
<1>8. TypeOK'
  <2>1. ~Saving' /\ pc' # "link" /\ pc' \in Steps /\ kills' \in Nat
    BY <1>1, <1>3 DEF Saving, Steps
  <2>2. /\ mem' \in Memory /\ Len(mem'.scores) <= Epochs /\ spent' \in BOOLEAN
        /\ link' \in Rounds \cup {-1} /\ rule' \in {"patience", "horizon"} /\ at' \in Prefixes
        /\ runs' \in Nat /\ again' \in {"first", "resumed", "over"}
    BY <1>1, <1>2 DEF TypeOK
  <2> QED  BY <1>6, <1>7, <2>1, <2>2 DEF TypeOK
<1>9. TrainedAsOne'
  BY <1>1, <1>2, <1>5, <1>6 DEF TrainedAsOne, HoldsItsEpoch
<1>10. StartsEmpty'
  BY <1>1, <1>2, <1>3 DEF StartsEmpty, Ended
<1>11. OneLineage'
  <2> SUFFICES ASSUME again # "over", metadata'["last"] # <<>> \/ Len(mem.scores) > 1
               PROVE  \E e \in Rounds : files'["last"][e].is = "whole"
    BY <1>1 DEF OneLineage, CheckpointSurvives, Ended
  <2>1. SureEpoch \in Rounds /\ files["last"][SureEpoch].is = "whole"
    <3>1. CASE metadata'["last"] = metadata["last"]
      BY <1>1, <1>2, <3>1, SureIsThere DEF IInv
    <3>2. CASE metadata'["last"] # metadata["last"]
      <4>1. pc = "metadata" /\ at = "last" /\ SureEpoch = Epoch
        BY <1>7, <3>2 DEF SureEpoch
      <4>2. Epoch \in Rounds
        BY <1>2, <4>1, EpochType DEF Saving
      <4> QED  BY <1>1, <1>2, <4>1, <4>2, EpochAssumption DEF OneLineage, Rounds
    <3> QED  BY <3>1, <3>2
  <2>2. pc = "save" /\ at = "last" => SureEpoch # Epoch
    BY <1>2, EpochType, EpochAssumption DEF SureEpoch, Saving, Rounds
  <2>3. files'["last"][SureEpoch] = files["last"][SureEpoch]
    BY <1>3, <1>6, <2>1, <2>2
  <2> QED  BY <2>1, <2>3
<1>12. BestFollows'
  BY <1>1, <1>3 DEF BestFollows
<1> QED  BY <1>8, <1>9, <1>10, <1>11, <1>12 DEF IInv

-----------------------------------------------------------------------------
(* Every step. *)
LEMMA InvStep == IInv /\ [Next]_vars => IInv'
<1> SUFFICES ASSUME IInv, [Next]_vars  PROVE IInv'
  OBVIOUS
<1>1. CASE StartOver \/ Resume
  BY <1>1, StartInv
<1>2. CASE TrainEpoch
  BY <1>2, TrainInv
<1>3. CASE Save
  BY <1>3, SaveInv
<1>4. CASE Prune
  BY <1>4, PruneInv
<1>5. CASE Record
  BY <1>5, RecordInv
<1>6. CASE Unlink \/ Link
  BY <1>6, FinishInv
<1>7. CASE Kill
  BY <1>7, KillInv
<1>8. CASE Misread
  BY <1>8, MisreadInv
<1>9. CASE UNCHANGED vars
  BY <1>9 DEF vars, disk, counts, IInv, TypeOK, TrainedAsOne, HoldsItsEpoch, StartsEmpty, OneLineage,
     CheckpointSurvives, BestFollows, BestRecorded, Saving, Ended, Epoch, SureEpoch, LastRecorded
<1> QED  BY <1>1, <1>2, <1>3, <1>4, <1>5, <1>6, <1>7, <1>8, <1>9 DEF Next

(* The invariant holds in every state of every behaviour. *)
THEOREM InvariantCorrect == Spec => []IInv
BY InvInit, InvStep, PTL DEF Spec

(* However often a run is killed and resumed, what it holds is what an      *)
(* uninterrupted run with the same scores would hold (the checkpoint        *)
(* callbacks, BestWeights and EarlyStopping).                               *)
THEOREM ResumesCorrect == Spec => []ResumesAsUninterrupted
<1>1. IInv => ResumesAsUninterrupted
  BY ReplayIsUninterrupted DEF IInv
<1> QED  BY <1>1, InvariantCorrect, PTL

(* As long as nobody starts over, a kill leaves a whole checkpoint once     *)
(* there has been one (save_checkpoint, load_latest).                       *)
THEOREM SurvivalCorrect == Spec => []CheckpointSurvives
<1>1. IInv => CheckpointSurvives
  <2>1. IInv /\ ~Ended => CheckpointSurvives
    BY SurvivesWithinRun
  <2>2. IInv /\ Ended => CheckpointSurvives
    BY DEF IInv, OneLineage, CheckpointSurvives
  <2> QED  BY <2>1, <2>2
<1> QED  BY <1>1, InvariantCorrect, PTL

(* Without kills and reruns the link of save_best and BestWeights name one  *)
(* epoch.                                                                   *)
THEOREM BestCorrect == Spec => []BestAgrees
<1>1. IInv => BestAgrees
  BY DEF IInv, BestFollows, BestAgrees
<1> QED  BY <1>1, InvariantCorrect, PTL

-----------------------------------------------------------------------------
(* The lists stay in order. *)

(* Whatever is left of an ordered list is in order and names another epoch. *)
LEMMA OthersOrdered ==
  ASSUME NEW E, metadata[at] \in Seq(E), Ordered(at, metadata[at])
  PROVE  Ordered(at, Others) /\ \A i \in DOMAIN Others : Others[i].epoch # Epoch
<1> DEFINE list == metadata[at]
<1>1. DOMAIN list = 1..Len(list) /\ Len(list) \in Nat
  BY LenProperties
<1>2. CASE Recorded = {}
  BY <1>2 DEF Others, Recorded
<1>3. CASE Recorded # {}
  <2> DEFINE r == CHOOSE i \in Recorded : TRUE
             n == Len(list) - 1
             from(j) == IF j < r THEN j ELSE j + 1
  <2>1. r \in 1..Len(list) /\ list[r].epoch = Epoch
    BY <1>1, <1>3 DEF Recorded
  <2>2. Others = [j \in 1..n |-> list[from(j)]]
    BY <1>3 DEF Others
  <2>3. /\ \A j \in 1..n : from(j) \in 1..Len(list) /\ from(j) # r
        /\ \A j, k \in 1..n : j < k => from(j) < from(k)
    <3>1. r \in Int /\ 1 <= r /\ r <= n + 1 /\ n \in Int /\ Len(list) = n + 1
      <4> HIDE DEF r, list
      <4> QED  BY <1>1, <2>1
    <3>2. Len(list) \in Nat
      BY <1>1
    <3> HIDE DEF r, n, list
    <3>3. ASSUME NEW j \in 1..n  PROVE from(j) \in 1..Len(list) /\ from(j) # r
      BY <3>1, <3>2, <3>3
    <3>4. ASSUME NEW j \in 1..n, NEW k \in 1..n, j < k  PROVE from(j) < from(k)
      BY <3>1, <3>4
    <3> QED  BY <3>3, <3>4
  <2>4. \A j, k \in 1..Len(list) : j < k =>
          /\ list[j].epoch # list[k].epoch
          /\ IF at = "last" THEN list[j].epoch >= list[k].epoch ELSE list[j].score >= list[k].score
    BY <1>1 DEF Ordered
  <2>5. r \in Int /\ \A j \in 1..n : from(j) \in Int
    <3> HIDE DEF r, n, from, list
    <3> QED  BY <1>1, <2>1, <2>3
  <2> HIDE DEF r, n, from, list
  <2>6. ASSUME NEW j \in DOMAIN Others  PROVE Others[j].epoch # Epoch
    <3>1. j \in 1..n /\ Others[j] = list[from(j)]
      BY <2>2
    <3>2. from(j) < r \/ r < from(j)
      BY <2>3, <2>5, <3>1
    <3> QED  BY <2>1, <2>3, <2>4, <3>1, <3>2
  <2>7. Ordered(at, Others)
    BY <2>2, <2>3, <2>4 DEF Ordered
  <2> QED  BY <2>6, <2>7
<1> QED  BY <1>2, <1>3

(* The new entry is put where it keeps the order. *)
LEMMA SortedOrdered ==
  ASSUME NEW E, Others \in Seq(E), Entry \in E, E \in {Entries, Scored}, at = "best" => E = Scored,
         at \in Prefixes, Ordered(at, Others), \A i \in DOMAIN Others : Others[i].epoch # Epoch
  PROVE  Ordered(at, Sorted)
<1> DEFINE n == Len(Others)
           key(x) == IF at = "last" THEN x.epoch ELSE x.score
<1>1. n \in Nat /\ DOMAIN Others = 1..n /\ \A i \in 1..n : Others[i] \in E
  BY LenProperties, ElementOfSeq
<1>2. ASSUME NEW x \in E  PROVE key(x) \in Int
  <2>1. CASE at = "last"
    <3>1. CASE E = Entries
      BY <2>1, <3>1, EpochAssumption DEF Entries, Rounds
    <3>2. CASE E = Scored
      BY <2>1, <3>2, EpochAssumption DEF Scored, Rounds
    <3> QED  BY <3>1, <3>2
  <2>2. CASE at = "best"
    <3>1. x.score \in Scores
      BY <2>2 DEF Scored
    <3> QED  BY <2>2, <3>1, ScoreAssumption
  <2> QED  BY <2>1, <2>2 DEF Prefixes
<1>3. key(Entry) \in Int /\ Entry.epoch = Epoch /\ \A i \in 1..n : key(Others[i]) \in Int
  BY <1>1, <1>2 DEF Entry
<1>4. \A i, j \in 1..n : i < j => Others[i].epoch # Others[j].epoch /\ key(Others[i]) >= key(Others[j])
  BY <1>1 DEF Ordered
<1>5. /\ Place \in 1..n + 1 /\ \A j \in 1..Place - 1 : key(Others[j]) >= key(Entry)
      /\ Place <= n => ~(key(Others[Place]) >= key(Entry))
  BY PlaceExists DEF Before
<1>6. ASSUME NEW j \in 1..n, j >= Place  PROVE key(Entry) >= key(Others[j])
  <2>1. Place \in 1..n /\ ~(key(Others[Place]) >= key(Entry))
    BY <1>1, <1>5, <1>6
  <2>2. Place = j \/ key(Others[Place]) >= key(Others[j])
    BY <1>4, <1>6, <2>1
  <2> QED  BY <1>3, <2>1, <2>2
<1>7. /\ DOMAIN Sorted = 1..n + 1
      /\ \A i \in 1..n + 1 : Sorted[i] = IF i < Place THEN Others[i] ELSE IF i = Place THEN Entry ELSE Others[i - 1]
  BY DEF Sorted
<1>8. ASSUME NEW i \in 1..n + 1, NEW j \in 1..n + 1, i < j
      PROVE  Sorted[i].epoch # Sorted[j].epoch /\ key(Sorted[i]) >= key(Sorted[j])
  <2> HIDE DEF key, n
  <2>1. CASE i < Place /\ j < Place
    <3>1. i \in 1..n /\ j \in 1..n /\ Sorted[i] = Others[i] /\ Sorted[j] = Others[j]
      BY <1>1, <1>5, <1>7, <2>1
    <3> QED  BY <1>4, <1>8, <3>1
  <2>2. CASE i < Place /\ j = Place
    <3>1. i \in 1..n /\ i \in 1..Place - 1 /\ Sorted[i] = Others[i] /\ Sorted[j] = Entry
      BY <1>1, <1>5, <1>7, <2>2
    <3> QED  BY <1>1, <1>3, <1>5, <3>1
  <2>3. CASE i < Place /\ j > Place
    <3>1. i \in 1..n /\ j - 1 \in 1..n /\ i < j - 1 /\ Sorted[i] = Others[i] /\ Sorted[j] = Others[j - 1]
      BY <1>1, <1>5, <1>7, <2>3
    <3> QED  BY <1>4, <3>1
  <2>4. CASE i = Place
    <3>1. j - 1 \in 1..n /\ j - 1 >= Place /\ Sorted[i] = Entry /\ Sorted[j] = Others[j - 1]
      BY <1>1, <1>5, <1>7, <1>8, <2>4
    <3> QED  BY <1>1, <1>3, <1>6, <3>1
  <2>5. CASE i > Place
    <3>1. /\ i - 1 \in 1..n /\ j - 1 \in 1..n /\ i - 1 < j - 1
          /\ Sorted[i] = Others[i - 1] /\ Sorted[j] = Others[j - 1]
      BY <1>1, <1>5, <1>7, <1>8, <2>5
    <3> QED  BY <1>4, <3>1
  <2>6. i < Place \/ i = Place \/ i > Place
    BY <1>1, <1>5
  <2>7. j < Place \/ j = Place \/ j > Place
    BY <1>1, <1>5
  <2> QED  BY <2>1, <2>2, <2>3, <2>4, <2>5, <2>6, <2>7
<1> QED  BY <1>7, <1>8 DEF Ordered

(* The beginning of an ordered list is ordered. *)
LEMMA FirstOrdered ==
  ASSUME NEW E, NEW list \in Seq(E), list # <<>>, at \in Prefixes, Ordered(at, list)
  PROVE  Ordered(at, First(list))
<1>1. Kept[at] \in Nat \ {0} /\ Len(list) \in Nat \ {0} /\ DOMAIN list = 1..Len(list)
  BY KeptAssumption, EmptySeq, LenProperties DEF Prefixes
<1> DEFINE n == IF Len(list) < Kept[at] THEN Len(list) ELSE Kept[at]
<1>2. n \in 1..Len(list) /\ First(list) = SubSeq(list, 1, n)
  BY <1>1 DEF First
<1> HIDE DEF n
<1>3. \A i \in 1..n : list[i] \in E
  BY <1>1, <1>2, ElementOfSeq
<1>4. /\ SubSeq(list, 1, n) \in Seq(E) /\ Len(SubSeq(list, 1, n)) = n
      /\ \A i \in 1..n : SubSeq(list, 1, n)[i] = list[i]
  BY <1>2, <1>3, SubSeqProperties
<1>5. DOMAIN First(list) = 1..n /\ \A i \in 1..n : First(list)[i] = list[i]
  BY <1>2, <1>4, LenProperties
<1>6. \A i \in 1..n : i \in DOMAIN list
  BY <1>1, <1>2
<1> QED  BY <1>5, <1>6 DEF Ordered

(* What is recorded next is in order. *)
LEMMA RecordedOrdered ==
  ASSUME TypeOK, ListsOrdered, Saving
  PROVE  Ordered(at, First(Sorted))
<1>1. at \in Prefixes /\ metadata \in [Prefixes -> Seq(Entries)]
  BY DEF TypeOK
<1>2. Entry \in Entries /\ (at = "best" => Entry \in Scored)
  BY EpochType
<1>3. PICK E \in {Entries, Scored} : (at = "best" => E = Scored) /\ Entry \in E /\ metadata[at] \in Seq(E)
  <2>1. CASE at = "best"
    BY <1>2, <2>1 DEF TypeOK
  <2>2. CASE at # "best"
    BY <1>1, <1>2, <2>2
  <2> QED  BY <2>1, <2>2
<1>4. Ordered(at, metadata[at])
  BY <1>1 DEF ListsOrdered
<1>5. Others \in Seq(E) /\ Ordered(at, Others) /\ \A i \in DOMAIN Others : Others[i].epoch # Epoch
  BY <1>3, <1>4, OthersType, OthersOrdered
<1>6. Sorted \in Seq(E) /\ Len(Sorted) = Len(Others) + 1
  BY <1>3, <1>5, SortedType
<1>7. Ordered(at, Sorted)
  BY <1>1, <1>3, <1>5, SortedOrdered
<1>8. Sorted # <<>>
  BY <1>5, <1>6, LenProperties
<1> QED  BY <1>1, <1>6, <1>7, <1>8, FirstOrdered

(* Every step keeps the lists in order. *)
LEMMA OrderStep == IInv /\ ListsOrdered /\ [Next]_vars => ListsOrdered'
<1> SUFFICES ASSUME IInv, ListsOrdered, [Next]_vars  PROVE ListsOrdered'
  OBVIOUS
<1>1. TypeOK /\ at \in Prefixes /\ metadata \in [Prefixes -> Seq(Entries)]
  BY DEF IInv, TypeOK
<1>2. CASE metadata' = metadata
  BY <1>2 DEF ListsOrdered, Ordered
<1>3. CASE Kill /\ metadata' # metadata
  <2>1. Saving /\ CutShort
    BY <1>3 DEF Kill, Saving
  <2>2. First(Sorted) \in Seq(Entries) /\ Ordered(at, First(Sorted))
    BY <1>1, <2>1, RecordedOrdered, RecordedList
  <2>3. PICK n \in 0..Len(First(Sorted)) - 1 :
          metadata' = [metadata EXCEPT ![at] = SubSeq(First(Sorted), 1, n)]
    BY <2>1 DEF CutShort
  <2> DEFINE left == SubSeq(First(Sorted), 1, n)
  <2>4. Ordered(at, left)
    BY <2>2, Beginning DEF Ordered
  <2> HIDE DEF left
  <2>5. \A p \in Prefixes : Ordered(p, metadata'[p])
    BY <1>1, <2>3, <2>4 DEF ListsOrdered, left
  <2> QED  BY <2>5 DEF ListsOrdered, Ordered
<1>4. CASE Record
  <2>1. Saving /\ metadata' = [metadata EXCEPT ![at] = First(Sorted)]
    BY <1>4 DEF Record, Saving
  <2>2. Ordered(at, First(Sorted))
    BY <1>1, <2>1, RecordedOrdered
  <2>3. \A p \in Prefixes : Ordered(p, metadata'[p])
    BY <1>1, <2>1, <2>2 DEF ListsOrdered
  <2> QED  BY <2>3 DEF ListsOrdered, Ordered
<1>5. StartOver \/ Resume \/ TrainEpoch \/ Save \/ Prune \/ Unlink \/ Link \/ Misread => metadata' = metadata
  BY DEF StartOver, Resume, Started, TrainEpoch, Save, Prune, Unlink, Link, Misread, disk
<1>6. UNCHANGED vars => metadata' = metadata
  BY DEF vars, disk
<1> QED  BY <1>2, <1>3, <1>4, <1>5, <1>6 DEF Next

(* A list of checkpoints names no path twice and is in the order of its     *)
(* callback, whatever was killed: sorting it with one more is an insertion, *)
(* and what save_best links is the first one (save_checkpoint).             *)
THEOREM OrderCorrect == Spec => []ListsOrdered
<1>1. Init => ListsOrdered
  BY DEF Init, ListsOrdered, Ordered
<1> QED  BY <1>1, OrderStep, InvariantCorrect, PTL DEF Spec
================================================================================
