------------------------ MODULE SequenceDatasetProofs ------------------------
(***************************************************************************)
(* Proofs about SequenceDataset and Windows for every policy, history,     *)
(* number of users and buckets: the windows a policy promises are cut, put *)
(* into the buckets and delivered, once each.                              *)
(***************************************************************************)
EXTENDS SequenceDatasetInvariant, FiniteSetTheorems, SequenceTheorems, NaturalsInduction,
        WellFoundedInduction, TLAPS

-----------------------------------------------------------------------------
(* A set of natural numbers that is not empty has a least one. *)
LEMMA LeastElement ==
  ASSUME NEW S \in SUBSET Nat, S # {}
  PROVE  \E n \in S : \A m \in S : n <= m
<1> DEFINE R == {ss \in Nat \X Nat : ss[1] < ss[2]}
<1>1. IsWellFoundedOn(R, Nat)
  BY NatLessThanWellFounded DEF OpToRel
<1>2. \A x, y \in Nat : y < x => <<y, x>> \in R
  OBVIOUS
<1> HIDE DEF R
<1>3. PICK x \in S : \A y \in S : ~(<<y, x>> \in R)
  BY <1>1, WFMin
<1>4. \A y \in S : ~(y < x)
  BY <1>2, <1>3
<1> QED  BY <1>4

(* A function on 0..n that starts with base and takes a step to each next   *)
(* number. *)
Unfolds(f, n, base, step) ==
  f = [k \in 0..n |-> IF k = 0 THEN base ELSE step[k][f[k - 1]]]

(* There is one for every number of steps. *)
LEMMA UnfoldingExists ==
  ASSUME NEW n \in Nat, NEW base, NEW step
  PROVE  \E f : Unfolds(f, n, base, step)
<1> DEFINE Bad == {k \in Nat : ~\E f : Unfolds(f, k, base, step)}
<1>1. SUFFICES ASSUME Bad # {}  PROVE FALSE
  OBVIOUS
<1>2. PICK k \in Bad : \A l \in Bad : k <= l
  BY <1>1, LeastElement
<1>3. k # 0
  <2> DEFINE f == [l \in 0..0 |-> base]
  <2>1. \A l \in 0..0 : f[l] = IF l = 0 THEN base ELSE step[l][f[l - 1]]
    OBVIOUS
  <2>2. Unfolds(f, 0, base, step)
    BY <2>1 DEF Unfolds
  <2> QED  BY <2>2
<1>4. k - 1 \in Nat /\ k - 1 \notin Bad
  BY <1>2, <1>3
<1>5. PICK g : Unfolds(g, k - 1, base, step)
  BY <1>4
<1> DEFINE f == [l \in 0..k |-> IF l = 0 THEN base ELSE step[l][g[l - 1]]]
<1>6. \A l \in 0..k - 1 : f[l] = g[l]
  BY <1>4, <1>5 DEF Unfolds
<1>7. \A l \in 0..k : f[l] = IF l = 0 THEN base ELSE step[l][f[l - 1]]
  BY <1>4, <1>6
<1>8. Unfolds(f, k, base, step)
  BY <1>7 DEF Unfolds
<1> QED  BY <1>2, <1>8

(* What starts in a set and takes steps within it stays there. *)
LEMMA UnfoldingIn ==
  ASSUME NEW n \in Nat, NEW f, NEW V, f[0] \in V, \A k \in 1..n : f[k - 1] \in V => f[k] \in V
  PROVE  \A k \in 0..n : f[k] \in V
<1> DEFINE Bad == {k \in 0..n : f[k] \notin V}
<1>1. SUFFICES ASSUME Bad # {}  PROVE FALSE
  OBVIOUS
<1>2. Bad \in SUBSET Nat
  OBVIOUS
<1>3. PICK k \in Bad : \A l \in Bad : k <= l
  BY <1>1, <1>2, LeastElement
<1>4. k # 0
  OBVIOUS
<1>5. k \in 1..n /\ k - 1 \in 0..n /\ k - 1 \notin Bad
  BY <1>3, <1>4
<1> QED  BY <1>5

-----------------------------------------------------------------------------
(* One sequence after the other. *)

(* The sequences that FlattenSeq puts together one by one. *)
Flattens(f, seqs, n, T) ==
  /\ \A k \in 1..n : f[k] \in Seq(T)
  /\ f[1] = seqs[1] /\ \A k \in 2..n : f[k] = f[k - 1] \o seqs[k]

(* FlattenSeq gives the last of them. *)
LEMMA FlattenIsLast ==
  ASSUME NEW T, NEW n \in Nat, n >= 1, NEW seqs \in [1..n -> Seq(T)]
  PROVE  \E f : Flattens(f, seqs, n, T) /\ FlattenSeq(seqs) = f[n]
<1> DEFINE S == Seq(T)
           step == [k \in 1..n |-> [v \in S |-> v \o seqs[k]]]
           Is(g) == g = [k \in 1..n |-> IF k = 1 THEN seqs[k] ELSE g[k - 1] \o seqs[k]]
           flatten == CHOOSE g : Is(g)
<1>1. \A k \in 1..n : \A v \in S : step[k][v] = v \o seqs[k]
  OBVIOUS
<1>2. /\ <<>> \in S /\ \A v \in S : <<>> \o v = v
      /\ \A k \in 1..n : seqs[k] \in S
      /\ \A v \in S, k \in 1..n : v \o seqs[k] \in S
  OBVIOUS
<1>3. /\ Len(seqs) = n /\ n \in Nat /\ 1 \in 1..n
      /\ \A k \in 1..n : k \in 0..n /\ k # 0
      /\ \A k \in 1..n : k # 1 => k \in 2..n /\ k - 1 \in 1..n
      /\ \A k \in 2..n : k \in 1..n /\ k # 1 /\ k - 1 \in 1..n
  OBVIOUS
<1> HIDE DEF step, S
<1>4. PICK f : Unfolds(f, n, <<>>, step)
  BY UnfoldingExists
<1>5. f[0] = <<>> /\ \A k \in 1..n : f[k - 1] \in S => f[k] = f[k - 1] \o seqs[k]
  <2>1. \A k \in 0..n : f[k] = IF k = 0 THEN <<>> ELSE step[k][f[k - 1]]
    BY <1>4 DEF Unfolds
  <2>2. f[0] = <<>>
    BY <1>3, <2>1
  <2>3. \A k \in 1..n : f[k] = step[k][f[k - 1]]
    BY <1>3, <2>1
  <2> QED  BY <1>1, <2>2, <2>3
<1>6. \A k \in 0..n : f[k] \in S
  <2>1. f[0] \in S /\ \A k \in 1..n : f[k - 1] \in S => f[k] \in S
    BY <1>2, <1>5
  <2> QED  BY <1>3, <2>1, UnfoldingIn
<1>7. \E g : Is(g)
  <2> DEFINE g == [k \in 1..n |-> f[k]]
  <2>1. f[1] = seqs[1]
    <3>1. 1 - 1 = 0
      OBVIOUS
    <3>2. f[1] = f[0] \o seqs[1]
      BY <1>2, <1>3, <1>5, <3>1
    <3> QED  BY <1>2, <1>3, <1>5, <3>2
  <2>2. ASSUME NEW k \in 1..n, k # 1  PROVE g[k] = g[k - 1] \o seqs[k]
    <3>1. k - 1 \in 1..n /\ k - 1 \in 0..n
      BY <1>3, <2>2
    <3>2. f[k] = f[k - 1] \o seqs[k]
      BY <1>5, <1>6, <3>1
    <3> QED  BY <3>1, <3>2
  <2>3. \A k \in 1..n : g[k] = IF k = 1 THEN seqs[k] ELSE g[k - 1] \o seqs[k]
    BY <2>1, <2>2
  <2>4. Is(g)
    BY <2>3
  <2> HIDE DEF g, Is
  <2> QED  BY <2>4
<1>8. Is(flatten)
  <2> HIDE DEF Is
  <2> QED  BY <1>7
<1>9. FlattenSeq(seqs) = flatten[n]
  BY <1>3 DEF FlattenSeq
<1> HIDE DEF flatten
<1>10. flatten[1] = seqs[1] /\ \A k \in 2..n : flatten[k] = flatten[k - 1] \o seqs[k]
  <2>1. \A k \in 1..n : flatten[k] = IF k = 1 THEN seqs[k] ELSE flatten[k - 1] \o seqs[k]
    BY <1>8
  <2> QED  BY <1>3, <2>1
<1>11. \A k \in 1..n : flatten[k] \in S
  <2> DEFINE h == [k \in 0..n |-> IF k = 0 THEN <<>> ELSE flatten[k]]
  <2>1. h[0] \in S
    BY <1>2
  <2>2. ASSUME NEW k \in 1..n, h[k - 1] \in S  PROVE h[k] \in S
    <3>1. CASE k = 1
      BY <1>2, <1>3, <1>10, <3>1
    <3>2. CASE k # 1
      <4>1. k \in 2..n /\ h[k - 1] = flatten[k - 1] /\ h[k] = flatten[k]
        BY <1>3, <3>2
      <4> QED  BY <1>2, <1>10, <2>2, <4>1
    <3> QED  BY <3>1, <3>2
  <2>3. \A k \in 0..n : h[k] \in S
    <3> HIDE DEF h
    <3> QED  BY <1>3, <2>1, <2>2, UnfoldingIn
  <2> QED  BY <2>3
<1> QED  BY <1>9, <1>10, <1>11 DEF Flattens, S

(* Sequences that repeat nothing and share nothing give one that repeats    *)
(* nothing. *)
LEMMA FlattenRepeatsNothing ==
  ASSUME NEW T, NEW n \in Nat, n >= 1, NEW seqs \in [1..n -> Seq(T)],
         \A b \in 1..n : IsInjective(seqs[b]),
         \A b, c \in 1..n : b # c =>
           \A i \in DOMAIN seqs[b], k \in DOMAIN seqs[c] : seqs[b][i] # seqs[c][k]
  PROVE  IsInjective(FlattenSeq(seqs))
<1>1. PICK f : Flattens(f, seqs, n, T) /\ FlattenSeq(seqs) = f[n]
  BY FlattenIsLast
<1> DEFINE Good(k) == /\ IsInjective(f[k])
                      /\ \A i \in DOMAIN f[k] : \E b \in 1..k : \E j \in DOMAIN seqs[b] : f[k][i] = seqs[b][j]
           Bad == {k \in 1..n : ~Good(k)}
<1>2. Bad = {}
  <2> SUFFICES ASSUME Bad # {}  PROVE FALSE
    OBVIOUS
  <2>1. Bad \in SUBSET Nat
    OBVIOUS
  <2>2. PICK k \in Bad : \A l \in Bad : k <= l
    BY <2>1, LeastElement
  <2>3. k # 1
    <3>1. f[1] = seqs[1] /\ 1 \in 1..1 /\ 1 \in 1..n
      BY <1>1 DEF Flattens
    <3>2. IsInjective(f[1])
      BY <3>1
    <3>3. \A i \in DOMAIN f[1] : \E b \in 1..1 : \E j \in DOMAIN seqs[b] : f[1][i] = seqs[b][j]
      BY <3>1
    <3> QED  BY <3>2, <3>3
  <2>4. k \in 2..n /\ k \in 1..n /\ k - 1 \in 1..n /\ k - 1 \notin Bad
    <3>1. k \in 1..n
      OBVIOUS
    <3>2. k \in Nat /\ k \in 2..n /\ k - 1 \in 1..n /\ ~(k <= k - 1)
      BY <2>3, <3>1
    <3> HIDE DEF Bad
    <3> QED  BY <2>2, <3>1, <3>2
  <2> DEFINE s == f[k - 1]
             t == seqs[k]
             m == Len(s)
  <2>5. f[k] = s \o t /\ s \in Seq(T) /\ t \in Seq(T)
    BY <1>1, <2>4 DEF Flattens
  <2>6. Good(k - 1)
    BY <2>4
  <2>7. IsInjective(s) /\ \A i \in DOMAIN s : \E b \in 1..k - 1 : \E j \in DOMAIN seqs[b] : s[i] = seqs[b][j]
    BY <2>6
  <2>8. /\ DOMAIN s = 1..m /\ m \in Nat /\ DOMAIN t = 1..Len(t) /\ Len(t) \in Nat
        /\ DOMAIN f[k] = 1..m + Len(t)
        /\ \A i \in 1..m + Len(t) : f[k][i] = IF i <= m THEN s[i] ELSE t[i - m]
    <3> HIDE DEF s, t
    <3>1. /\ s \o t \in Seq(T) /\ Len(s \o t) = Len(s) + Len(t)
          /\ \A i \in 1..Len(s) + Len(t) : (s \o t)[i] = IF i <= Len(s) THEN s[i] ELSE t[i - Len(s)]
      BY <2>5, ConcatProperties
    <3>2. DOMAIN s = 1..Len(s) /\ Len(s) \in Nat /\ DOMAIN t = 1..Len(t) /\ Len(t) \in Nat
      BY <2>5, LenProperties
    <3>3. DOMAIN (s \o t) = 1..Len(s) + Len(t)
      BY <3>1, LenProperties
    <3> QED  BY <2>5, <3>1, <3>2, <3>3
  <2>9. IsInjective(t)
    BY <2>4
  <2>10. \A i \in DOMAIN s, j \in DOMAIN t : s[i] # t[j]
    <3> SUFFICES ASSUME NEW i \in DOMAIN s, NEW j \in DOMAIN t  PROVE s[i] # t[j]
      OBVIOUS
    <3>1. PICK b \in 1..k - 1 : \E l \in DOMAIN seqs[b] : s[i] = seqs[b][l]
      BY <2>7
    <3>2. b \in 1..n /\ k \in 1..n /\ b # k
      BY <2>4
    <3> QED  BY <3>1, <3>2
  <2> HIDE DEF s, t, m
  <2>11. ASSUME NEW i \in DOMAIN f[k], NEW j \in DOMAIN f[k], f[k][i] = f[k][j]  PROVE i = j
    <3>1. i \in 1..m + Len(t) /\ j \in 1..m + Len(t)
      BY <2>8
    <3>2. \A l \in 1..m + Len(t) : IF l <= m THEN l \in DOMAIN s /\ f[k][l] = s[l]
                                   ELSE l - m \in DOMAIN t /\ f[k][l] = t[l - m]
      BY <2>8
    <3>3. CASE i <= m /\ j <= m
      BY <2>7, <2>11, <3>1, <3>2, <3>3 DEF IsInjective
    <3>4. CASE ~(i <= m) /\ ~(j <= m)
      <4>1. i - m = j - m
        BY <2>9, <2>11, <3>1, <3>2, <3>4 DEF IsInjective
      <4> QED  BY <2>8, <3>1, <4>1
    <3>5. CASE i <= m /\ ~(j <= m)
      BY <2>10, <2>11, <3>1, <3>2, <3>5
    <3>6. CASE ~(i <= m) /\ j <= m
      BY <2>10, <2>11, <3>1, <3>2, <3>6
    <3> QED  BY <3>3, <3>4, <3>5, <3>6
  <2>12. ASSUME NEW i \in DOMAIN f[k]
         PROVE  \E b \in 1..k : \E j \in DOMAIN seqs[b] : f[k][i] = seqs[b][j]
    <3>1. CASE i <= m
      <4>1. i \in DOMAIN s /\ f[k][i] = s[i]
        BY <2>8, <3>1
      <4>2. \A b \in 1..k - 1 : b \in 1..k
        BY <2>4
      <4> QED  BY <2>7, <4>1, <4>2
    <3>2. CASE ~(i <= m)
      <4>1. i - m \in DOMAIN t /\ f[k][i] = t[i - m]
        BY <2>8, <3>2
      <4>2. k \in 1..k
        BY <2>4
      <4> QED  BY <4>1, <4>2 DEF t
    <3> QED  BY <3>1, <3>2
  <2>13. Good(k)
    BY <2>11, <2>12 DEF IsInjective
  <2> QED  BY <2>2, <2>13
<1>3. n \in 1..n
  OBVIOUS
<1> QED  BY <1>1, <1>2, <1>3

-----------------------------------------------------------------------------
(* The labels of events. *)

(* Division by a positive number, as the two facts the proofs need. *)
LEMMA Quotient ==
  ASSUME NEW a \in Int, NEW d \in Nat \ {0}
  PROVE  /\ a \div d \in Int /\ a % d \in 0..d - 1
         /\ a = d * (a \div d) + (a % d)
  BY SMT

(* A bound on a quotient is a bound on the dividend.                        *)
LEMMA QuotientBound ==
  ASSUME NEW a \in Int, NEW d \in Nat \ {0}, NEW k \in Int
  PROVE  k <= a \div d <=> k * d <= a
<1> DEFINE q == a \div d
           r == a % d
<1>1. q \in Int /\ r \in 0..d - 1 /\ a = d * q + r
  BY Quotient
<1> HIDE DEF q, r
<1>2. ASSUME k <= q PROVE k * d <= a
  <2>1. (q - k) * d >= 0 /\ (q - k) * d = q * d - k * d
    BY <1>1, <1>2, SMT
  <2> QED BY <2>1, <1>1, SMT
<1>3. ASSUME k > q PROVE k * d > a
  <2>1. (k - q - 1) * d >= 0 /\ (k - q - 1) * d = k * d - q * d - d
    BY <1>1, <1>3, SMT
  <2> QED BY <2>1, <1>1, SMT
<1> QED BY <1>1, <1>2, <1>3 DEF q

(* _group_into_sliding_windows: event e has the label k exactly when it is  *)
(* in the k-th slice of max events counted back from the newest one.        *)
THEOREM SlidingWindowIsSlice ==
  ASSUME NEW p, p.max \in Nat \ {0}, p.stride \in Nat \ {0},
         NEW n \in Nat, NEW e \in 0..n - 1, NEW k \in 0..OldestWindow(p, n)
  PROVE  k \in SlidingLabels(p, n, e) <=> e \in SlidingWindow(p, n, k)
<1> DEFINE f == n - 1 - e
           m == p.max
           s == p.stride
<1>1. f \in Nat /\ m \in Nat \ {0} /\ s \in Nat \ {0} /\ k \in Nat /\ k <= OldestWindow(p, n)
      /\ OldestWindow(p, n) \in Int
  <2>1. n - m + s - 1 \in Int
    OBVIOUS
  <2>2. (n - m + s - 1) \div s \in Int
    BY <2>1, Quotient, Zenon
  <2> QED BY <2>2 DEF OldestWindow, Greatest
<1>2. k <= f \div s <=> k * s <= f
  BY <1>1, QuotientBound
<1>3. f \div s \in Int /\ (f - m) \div s \in Int
  <2>1. f \in Int /\ f - m \in Int
    BY <1>1
  <2> QED BY <1>1, <2>1, Quotient, Zenon
<1>4. f >= m => ((f - m) \div s + 1 <= k <=> f < k * s + m)
  <2>1. k <= (f - m) \div s <=> k * s <= f - m
    BY <1>1, QuotientBound
  <2> QED BY <1>1, <1>3, <2>1
<1>5. f < m => f < k * s + m
  <2>1. k * s >= 0 /\ k * s \in Int
    BY <1>1, SMT
  <2> QED BY <1>1, <2>1
<1>6. k * s \in Int
  BY <1>1
<1>7. k \in SlidingLabels(p, n, e) <=> k * s <= f /\ f < k * s + m
  BY <1>1, <1>2, <1>3, <1>4, <1>5, <1>6 DEF SlidingLabels, Least
<1>8. e \in SlidingWindow(p, n, k) <=> k * s <= f /\ f < k * s + m
  BY <1>1, <1>6 DEF SlidingWindow, Greatest
<1> QED BY <1>7, <1>8

(* _group_into_bounded_prefix_windows: the window of a target is the target *)
(* and the events before it, at most max of them.                           *)
THEOREM PrefixWindowIsSlice ==
  ASSUME NEW p, p.max \in Nat \ {0}, p.cap \in Nat \ {0},
         NEW n \in Nat, NEW e \in 0..n - 1, NEW t \in EarliestTarget(p, n)..n - 1
  PROVE  t \in PrefixLabels(p, n, e) <=> e \in PrefixWindow(p, n, t)
<1>1. EarliestTarget(p, n) \in Int
  BY DEF EarliestTarget, Greatest
<1> QED BY <1>1 DEF PrefixLabels, PrefixWindow, Least, Greatest

(* No event is given a label of a target older than the cap allows, so that *)
(* a history has at most cap windows.                                       *)
THEOREM PrefixTargetsAreCapped ==
  ASSUME NEW p, p.max \in Nat \ {0}, p.cap \in Nat \ {0},
         NEW n \in Nat, NEW e \in 0..n - 1
  PROVE  PrefixLabels(p, n, e) \subseteq (n - p.cap)..n - 1
BY DEF PrefixLabels, EarliestTarget, Least, Greatest

(* The labels of an event in a window w: two when it begins the window.     *)
LEMMA NextItemLabelsOf ==
  ASSUME NEW p, NEW n, NEW x \in Int, NEW w \in Int, x \div p.max = w
  PROVE  /\ x > 0 /\ x % p.max = 0 => NextItemLabels(p, n, x) = {w - 1, w}
         /\ ~(x > 0 /\ x % p.max = 0) => NextItemLabels(p, n, x) = {w}
<1>1. w - 1..w = {w - 1, w} /\ w..w = {w}
  OBVIOUS
<1> QED BY <1>1, Zenon DEF NextItemLabels

(* _group_into_next_item_windows: whatever max, an event and the one before *)
(* it are together in exactly one window, so that it is predicted once.     *)
THEOREM NextItemPredictsOnce ==
  ASSUME NEW p, p.max \in Nat \ {0}, NEW n \in Nat, NEW e \in 1..n - 1
  PROVE  NextItemLabels(p, n, e - 1) \cap NextItemLabels(p, n, e) = {(e - 1) \div p.max}
<1> DEFINE q == (e - 1) \div p.max
           r == (e - 1) % p.max
<1>1. q \in Int /\ r \in 0..p.max - 1 /\ e - 1 = p.max * q + r /\ p.max \in Nat \ {0} /\ e \in Int /\ e - 1 \in Int
  <2>1. e - 1 \in Int
    OBVIOUS
  <2>2. q \in Int /\ r \in 0..p.max - 1 /\ e - 1 = p.max * q + r
    BY <2>1, Quotient, Zenon
  <2> QED BY <2>1, <2>2
<1>2. NextItemLabels(p, n, e - 1) \in {{q - 1, q}, {q}}
  <2>1. e - 1 \in Int /\ q \in Int
    BY <1>1
  <2> QED BY <2>1, NextItemLabelsOf
<1> HIDE DEF q, r
<1>3. e \div p.max \in Int /\ e % p.max \in 0..p.max - 1 /\ e = p.max * (e \div p.max) + (e % p.max)
  BY <1>1, Quotient
<1>4. /\ q + 1 <= e \div p.max <=> (q + 1) * p.max <= e
      /\ q + 2 <= e \div p.max <=> (q + 2) * p.max <= e
      /\ q <= e \div p.max <=> q * p.max <= e
  BY <1>1, QuotientBound
<1>5. (q + 1) * p.max = q * p.max + p.max /\ (q + 2) * p.max = q * p.max + 2 * p.max /\ q * p.max = p.max * q /\ q * p.max \in Int
  BY <1>1, SMT
<1>6. CASE r + 1 < p.max
  <2>1. e \div p.max = q
    BY <1>1, <1>3, <1>4, <1>5, <1>6
  <2>2. e % p.max # 0
    BY <1>1, <1>3, <1>5, <2>1
  <2>3. NextItemLabels(p, n, e) = {q}
    BY <1>1, <2>1, <2>2, NextItemLabelsOf
  <2>4. NextItemLabels(p, n, e - 1) \cap NextItemLabels(p, n, e) = {q}
    BY <1>1, <1>2, <2>3
  <2> QED BY <2>4 DEF q
<1>7. CASE r + 1 = p.max
  <2>1. e \div p.max = q + 1
    BY <1>1, <1>3, <1>4, <1>5, <1>7
  <2>2. e % p.max = 0
    <3>1. p.max * (e \div p.max) = (q + 1) * p.max
      BY <1>1, <2>1, SMT
    <3>2. e = (q + 1) * p.max /\ (q + 1) * p.max \in Int
      BY <1>1, <1>5, <1>7
    <3>3. ASSUME NEW y \in Int, NEW z \in Int, e = y + z, e = y PROVE z = 0
      BY <1>1, <3>3
    <3>4. e % p.max \in Int
      BY <1>3
    <3> QED BY <1>3, <3>1, <3>2, <3>3, <3>4, Zenon
  <2>3. NextItemLabels(p, n, e) = {q, q + 1}
    <3> DEFINE w == q + 1
    <3>1. e \in Int /\ e > 0 /\ w \in Int
      BY <1>1
    <3>2. w - 1 = q
      BY <1>1
    <3>3. e \div p.max = w
      BY <2>1
    <3> HIDE DEF w
    <3>4. NextItemLabels(p, n, e) = {w - 1, w}
      BY <2>2, <3>1, <3>3, NextItemLabelsOf
    <3>5. NextItemLabels(p, n, e) = {q, w}
      BY <3>2, <3>4, Zenon
    <3> QED BY <3>5 DEF w
  <2>4. NextItemLabels(p, n, e - 1) \cap NextItemLabels(p, n, e) = {q}
    BY <1>1, <1>2, <2>3
  <2> QED BY <2>4 DEF q
<1>8. r + 1 < p.max \/ r + 1 = p.max
  BY <1>1
<1> QED BY <1>6, <1>7, <1>8

-----------------------------------------------------------------------------
(* The elements of a set in order. *)

Lists(s, S) ==
  /\ s \in [1..Cardinality(S) -> S] /\ IsInjective(s)
  /\ \A x \in S : \E i \in 1..Cardinality(S) : s[i] = x

(* The elements below each one, in a total order. *)
Orders(below, S) ==
  /\ below \in [S -> SUBSET S] /\ \A x \in S : x \notin below[x]
  /\ \A x, z \in S : x # z => \/ x \in below[z] /\ below[x] \subseteq below[z]
                              \/ z \in below[x] /\ below[z] \subseteq below[x]

ByRank(s, below, S) ==
  /\ s = [i \in 1..Cardinality(S) |-> s[i]]
  /\ \A i \in 1..Cardinality(S) : (\E x \in S : Cardinality(below[x]) = i - 1)
       => s[i] \in S /\ Cardinality(below[s[i]]) = i - 1

(* Elements are told by the number of those below them. *)
LEMMA RanksList ==
  ASSUME NEW S, IsFiniteSet(S), NEW below, Orders(below, S), NEW s, ByRank(s, below, S)
  PROVE  Lists(s, S)
<1> DEFINE n == Cardinality(S)
           rank == [x \in S |-> Cardinality(below[x])]
<1> USE DEF Orders, ByRank
<1>1. n \in Nat
  BY FS_CardinalityType
<1>2. \A x \in S : IsFiniteSet(below[x]) /\ Cardinality(below[x]) \in Nat
  BY FS_Subset, FS_CardinalityType
<1>3. \A x \in S : rank[x] \in 0..n - 1
  <2> SUFFICES ASSUME NEW x \in S  PROVE Cardinality(below[x]) \in 0..n - 1
    OBVIOUS
  <2>1. below[x] \in SUBSET (S \ {x})
    OBVIOUS
  <2>2. IsFiniteSet(S \ {x}) /\ Cardinality(S \ {x}) = n - 1
    BY FS_RemoveElement
  <2>3. Cardinality(below[x]) <= n - 1
    BY <2>1, <2>2, FS_Subset
  <2> QED  BY <1>1, <1>2, <2>3
<1>4. ASSUME NEW x \in S, NEW z \in S, x \in below[z], below[x] \subseteq below[z]
      PROVE  Cardinality(below[x]) < Cardinality(below[z])
  <2>1. IsFiniteSet(below[x] \cup {x}) /\ Cardinality(below[x] \cup {x}) = Cardinality(below[x]) + 1
    BY <1>2, FS_AddElement
  <2>2. below[x] \cup {x} \in SUBSET below[z]
    BY <1>4
  <2>3. Cardinality(below[x] \cup {x}) <= Cardinality(below[z])
    BY <1>2, <2>2, FS_Subset
  <2> QED  BY <1>2, <2>1, <2>3
<1>5. \A x, z \in S : Cardinality(below[x]) = Cardinality(below[z]) => x = z
  <2> SUFFICES ASSUME NEW x \in S, NEW z \in S, x # z
               PROVE  Cardinality(below[x]) # Cardinality(below[z])
    OBVIOUS
  <2>1. CASE x \in below[z] /\ below[x] \subseteq below[z]
    BY <1>2, <1>4, <2>1
  <2>2. CASE z \in below[x] /\ below[z] \subseteq below[x]
    BY <1>2, <1>4, <2>2
  <2> QED  BY <2>1, <2>2
<1>6. rank \in Surjection(S, 0..n - 1)
  <2>1. rank \in Injection(S, 0..n - 1)
    BY <1>3, <1>5 DEF Injection, IsInjective
  <2>2. IsFiniteSet(0..n - 1) /\ Cardinality(0..n - 1) = n
    <3> HIDE DEF n
    <3>1. 0 \in Int /\ n - 1 \in Int
      BY <1>1
    <3>2. IsFiniteSet(0..n - 1) /\ Cardinality(0..n - 1) = IF 0 > n - 1 THEN 0 ELSE n - 1 - 0 + 1
      BY <3>1, FS_Interval
    <3> QED  BY <1>1, <3>2
  <2> HIDE DEF rank
  <2> QED  BY <2>1, <2>2, FS_Injection
<1>7. \A i \in 1..n : \E x \in S : Cardinality(below[x]) = i - 1
  <2> SUFFICES ASSUME NEW i \in 1..n  PROVE \E x \in S : Cardinality(below[x]) = i - 1
    OBVIOUS
  <2>1. i - 1 \in 0..n - 1
    BY <1>1
  <2>2. PICK x \in S : rank[x] = i - 1
    BY <1>6, <2>1 DEF Surjection
  <2> QED  BY <2>2
<1>8. \A i \in 1..n : s[i] \in S /\ Cardinality(below[s[i]]) = i - 1
  BY <1>7
<1>9. s \in [1..n -> S]
  BY <1>8
<1>10. IsInjective(s)
  <2>1. ASSUME NEW i \in 1..n, NEW k \in 1..n, s[i] = s[k]  PROVE i = k
    <3>1. i - 1 = k - 1
      BY <1>8, <2>1
    <3> QED  BY <1>1, <3>1
  <2> QED  BY <1>9, <2>1 DEF IsInjective
<1>11. ASSUME NEW x \in S  PROVE \E i \in 1..n : s[i] = x
  <2>1. PICK i \in 1..n : i - 1 = Cardinality(below[x])
    <3> DEFINE r == Cardinality(below[x])
    <3>1. r \in 0..n - 1
      BY <1>3
    <3> HIDE DEF r, n
    <3>2. r + 1 \in 1..n /\ (r + 1) - 1 = r
      BY <1>1, <3>1
    <3> QED  BY <3>2 DEF r, n
  <2>2. s[i] = x
    BY <1>5, <1>8, <2>1
  <2> QED  BY <2>2
<1> QED  BY <1>9, <1>10, <1>11 DEF Lists

(* Ascending and Descending list a finite set of numbers. *)
LEMMA OrderLists ==
  ASSUME NEW S, IsFiniteSet(S), S \subseteq Int
  PROVE  Lists(Ascending(S), S) /\ Lists(Descending(S), S)
<1>1. Lists(Ascending(S), S)
  <2> DEFINE below == [x \in S |-> {y \in S : y < x}]
             s == Ascending(S)
  <2>1. below \in [S -> SUBSET S] /\ \A x \in S : x \notin below[x]
    OBVIOUS
  <2>2. \A x, z \in S : x # z => \/ x \in below[z] /\ below[x] \subseteq below[z]
                                 \/ z \in below[x] /\ below[z] \subseteq below[x]
    <3>1. \A x, z \in S : x < z => x \in below[z] /\ below[x] \subseteq below[z]
      <4>1. \A z \in S : \A y : y \in below[z] <=> y \in S /\ y < z
        OBVIOUS
      <4> HIDE DEF below
      <4>2. \A x, y, z \in S : y < x /\ x < z => y < z
        OBVIOUS
      <4> QED  BY <4>1, <4>2
    <3>2. \A x, z \in S : x # z => x < z \/ z < x
      OBVIOUS
    <3> QED  BY <3>1, <3>2
  <2>3. s = [i \in 1..Cardinality(S) |-> s[i]]
    BY DEF Ascending
  <2>4. ASSUME NEW i \in 1..Cardinality(S), \E x \in S : Cardinality(below[x]) = i - 1
        PROVE  s[i] \in S /\ Cardinality(below[s[i]]) = i - 1
    <3>1. s[i] = CHOOSE x \in S : Cardinality({y \in S : y < x}) = i - 1
      BY DEF Ascending
    <3>2. \E x \in S : Cardinality({y \in S : y < x}) = i - 1
      BY <2>4
    <3>3. s[i] \in S /\ Cardinality({y \in S : y < s[i]}) = i - 1
      BY <3>1, <3>2
    <3> QED  BY <3>3
  <2>5. \A i \in 1..Cardinality(S) : (\E x \in S : Cardinality(below[x]) = i - 1)
          => s[i] \in S /\ Cardinality(below[s[i]]) = i - 1
    BY <2>4
  <2>6. Orders(below, S) /\ ByRank(s, below, S)
    BY <2>1, <2>2, <2>3, <2>5 DEF Orders, ByRank
  <2> HIDE DEF below, s
  <2>7. Lists(s, S)
    BY <2>6, RanksList
  <2> QED  BY <2>7 DEF s
<1>2. Lists(Descending(S), S)
  <2> DEFINE below == [x \in S |-> {y \in S : y > x}]
             s == Descending(S)
  <2>1. below \in [S -> SUBSET S] /\ \A x \in S : x \notin below[x]
    OBVIOUS
  <2>2. \A x, z \in S : x # z => \/ x \in below[z] /\ below[x] \subseteq below[z]
                                 \/ z \in below[x] /\ below[z] \subseteq below[x]
    <3>1. \A x, z \in S : x > z => x \in below[z] /\ below[x] \subseteq below[z]
      <4>1. \A z \in S : \A y : y \in below[z] <=> y \in S /\ y > z
        OBVIOUS
      <4> HIDE DEF below
      <4>2. \A x, y, z \in S : y > x /\ x > z => y > z
        OBVIOUS
      <4> QED  BY <4>1, <4>2
    <3>2. \A x, z \in S : x # z => x > z \/ z > x
      OBVIOUS
    <3> QED  BY <3>1, <3>2
  <2>3. s = [i \in 1..Cardinality(S) |-> s[i]]
    BY DEF Descending
  <2>4. ASSUME NEW i \in 1..Cardinality(S), \E x \in S : Cardinality(below[x]) = i - 1
        PROVE  s[i] \in S /\ Cardinality(below[s[i]]) = i - 1
    <3>1. s[i] = CHOOSE x \in S : Cardinality({y \in S : y > x}) = i - 1
      BY DEF Descending
    <3>2. \E x \in S : Cardinality({y \in S : y > x}) = i - 1
      BY <2>4
    <3>3. s[i] \in S /\ Cardinality({y \in S : y > s[i]}) = i - 1
      BY <3>1, <3>2
    <3> QED  BY <3>3
  <2>5. \A i \in 1..Cardinality(S) : (\E x \in S : Cardinality(below[x]) = i - 1)
          => s[i] \in S /\ Cardinality(below[s[i]]) = i - 1
    BY <2>4
  <2>6. Orders(below, S) /\ ByRank(s, below, S)
    BY <2>1, <2>2, <2>3, <2>5 DEF Orders, ByRank
  <2> HIDE DEF below, s
  <2>7. Lists(s, S)
    BY <2>6, RanksList
  <2> QED  BY <2>7 DEF s
<1> QED  BY <1>1, <1>2

(* What two sequences hold together. *)
LEMMA RangeOfConcat ==
  ASSUME NEW T, NEW s \in Seq(T), NEW t \in Seq(T)
  PROVE  Range(s \o t) = Range(s) \cup Range(t)
<1> DEFINE m == Len(s)
           u == s \o t
<1>1. /\ u \in Seq(T) /\ Len(u) = Len(s) + Len(t)
      /\ \A i \in 1..Len(s) + Len(t) : u[i] = IF i <= Len(s) THEN s[i] ELSE t[i - Len(s)]
  BY ConcatProperties
<1>2. DOMAIN s = 1..m /\ m \in Nat /\ DOMAIN t = 1..Len(t) /\ Len(t) \in Nat /\ DOMAIN u = 1..m + Len(t)
  BY <1>1, LenProperties
<1> HIDE DEF m, u
<1>3. \A i \in DOMAIN u : u[i] \in Range(s) \cup Range(t)
  <2> SUFFICES ASSUME NEW i \in DOMAIN u  PROVE u[i] \in Range(s) \cup Range(t)
    OBVIOUS
  <2>1. CASE i <= m
    <3>1. i \in DOMAIN s /\ u[i] = s[i]
      BY <1>1, <1>2, <2>1 DEF m
    <3> QED  BY <3>1 DEF Range
  <2>2. CASE ~(i <= m)
    <3>1. i - m \in DOMAIN t /\ u[i] = t[i - m]
      BY <1>1, <1>2, <2>2 DEF m
    <3> QED  BY <3>1 DEF Range
  <2> QED  BY <2>1, <2>2
<1>4. \A i \in DOMAIN s : i \in DOMAIN u /\ u[i] = s[i]
  BY <1>1, <1>2 DEF m
<1>5. \A i \in DOMAIN t : i + m \in DOMAIN u /\ u[i + m] = t[i]
  <2> SUFFICES ASSUME NEW i \in DOMAIN t  PROVE i + m \in DOMAIN u /\ u[i + m] = t[i]
    OBVIOUS
  <2>1. i + m \in 1..m + Len(t) /\ ~(i + m <= m) /\ (i + m) - m = i
    BY <1>2
  <2> QED  BY <1>1, <1>2, <2>1 DEF m
<1>6. Range(s) \subseteq Range(u)
  BY <1>4 DEF Range
<1>7. Range(t) \subseteq Range(u)
  BY <1>5 DEF Range
<1>8. Range(u) \subseteq Range(s) \cup Range(t)
  BY <1>3 DEF Range
<1> QED  BY <1>6, <1>7, <1>8 DEF u

(* Nothing is lost and nothing added. *)
LEMMA FlattenHolds ==
  ASSUME NEW T, NEW n \in Nat, n >= 1, NEW seqs \in [1..n -> Seq(T)]
  PROVE  /\ FlattenSeq(seqs) \in Seq(T)
         /\ Range(FlattenSeq(seqs)) = UNION {Range(seqs[b]) : b \in 1..n}
<1>1. PICK f : Flattens(f, seqs, n, T) /\ FlattenSeq(seqs) = f[n]
  BY FlattenIsLast
<1> DEFINE upTo(k) == UNION {Range(seqs[b]) : b \in 1..k}
           Bad == {k \in 1..n : Range(f[k]) # upTo(k)}
<1>2. Bad = {}
  <2> SUFFICES ASSUME Bad # {}  PROVE FALSE
    OBVIOUS
  <2>1. Bad \in SUBSET Nat
    OBVIOUS
  <2>2. PICK k \in Bad : \A l \in Bad : k <= l
    BY <2>1, LeastElement
  <2>3. k # 1
    <3>1. f[1] = seqs[1] /\ 1..1 = {1}
      BY <1>1 DEF Flattens
    <3>2. Range(f[1]) = upTo(1)
      BY <3>1
    <3> QED  BY <3>2
  <2>4. k \in 2..n /\ k \in 1..n /\ k - 1 \in 1..n /\ k - 1 \notin Bad
    <3>1. k \in 1..n
      OBVIOUS
    <3>2. k \in Nat /\ k \in 2..n /\ k - 1 \in 1..n /\ ~(k <= k - 1)
      BY <2>3, <3>1
    <3> HIDE DEF Bad
    <3> QED  BY <2>2, <3>1, <3>2
  <2>5. f[k] = f[k - 1] \o seqs[k] /\ f[k - 1] \in Seq(T) /\ seqs[k] \in Seq(T)
    BY <1>1, <2>4 DEF Flattens
  <2>6. Range(f[k]) = Range(f[k - 1]) \cup Range(seqs[k])
    BY <2>5, RangeOfConcat
  <2>7. Range(f[k - 1]) = upTo(k - 1)
    BY <2>4
  <2>8. upTo(k) = upTo(k - 1) \cup Range(seqs[k])
    <3>1. 1..k = (1..k - 1) \cup {k}
      BY <2>4
    <3> QED  BY <3>1
  <2>9. Range(f[k]) = upTo(k)
    BY <2>6, <2>7, <2>8
  <2> QED  BY <2>2, <2>9
<1>3. n \in 1..n /\ f[n] \in Seq(T)
  BY <1>1 DEF Flattens
<1> QED  BY <1>1, <1>2, <1>3

-----------------------------------------------------------------------------
(* The windows of a history. *)

PolicyOK(p) ==
  /\ p.window \in {"whole", "next_item", "bounded_prefix", "sliding"}
  /\ p.rule \in {"truncated", "required"}
  /\ p.max \in Nat \ {0} /\ p.min \in Nat \ {0} /\ p.stride \in Nat \ {0} /\ p.cap \in Nat \ {0}

(* What Sequences calls window and kept. *)
Window(p, n, k) == {e \in 0..n - 1 : k \in Labels(p, n, e)}
Kept(p, n) ==
  {k \in UNION {Labels(p, n, e) : e \in 0..n - 1} :
     p.window = "whole" \/ Cardinality(Window(p, n, k)) >= p.min}

(* The labels K name slices, those of P are promised. *)
Slices(p, n, K, P, slice) ==
  /\ K \subseteq Int /\ P \subseteq Int
  /\ \A e \in 0..n - 1 : \A k : k \in Labels(p, n, e) <=> k \in K /\ e \in slice[k]
  /\ \A k \in K : slice[k] \subseteq 0..n - 1
  /\ \A k \in Int : slice[k] # {} => (k \in K <=> k \in P)
  /\ \A j, k \in K : slice[j] = slice[k] /\ slice[k] # {} => j = k
  /\ PromisedWindows(p, n) = {slice[k] : k \in P}
  /\ p.window = "whole" => \A k \in P : slice[k] # {}

(* The windows that are cut are those promised. *)
WindowsKept(p, n) ==
  /\ {Window(p, n, k) : k \in Kept(p, n)} = Promised(p, n)
  /\ \A j, k \in Kept(p, n) : Window(p, n, j) = Window(p, n, k) => j = k
  /\ IsFiniteSet(Kept(p, n)) /\ Kept(p, n) \subseteq Int

(* Slices that are told apart are kept when the policy promises them. *)
LEMMA SlicesAreKept ==
  ASSUME NEW p, PolicyOK(p), NEW n \in Nat, NEW K, NEW P, NEW slice, Slices(p, n, K, P, slice)
  PROVE  WindowsKept(p, n)
<1>1. ASSUME NEW k \in K  PROVE Window(p, n, k) = slice[k]
  BY <1>1 DEF Window, Slices
<1>2. \A k : k \in UNION {Labels(p, n, e) : e \in 0..n - 1} <=> k \in K /\ slice[k] # {}
  <2>1. ASSUME NEW k, k \in UNION {Labels(p, n, e) : e \in 0..n - 1}
        PROVE  k \in K /\ slice[k] # {}
    BY <2>1 DEF Slices
  <2>2. ASSUME NEW k \in K, NEW e \in slice[k]
        PROVE  k \in UNION {Labels(p, n, e2) : e2 \in 0..n - 1}
    <3>1. e \in 0..n - 1 /\ k \in Labels(p, n, e)
      BY <2>2 DEF Slices
    <3> QED  BY <3>1
  <2> QED  BY <2>1, <2>2
<1> DEFINE long(k) == p.window = "whole" \/ Cardinality(slice[k]) >= p.min
<1>3. \A k : k \in Kept(p, n) <=> k \in K /\ slice[k] # {} /\ long(k)
  BY <1>1, <1>2 DEF Kept
<1>4. ASSUME NEW k \in P, long(k)  PROVE slice[k] # {}
  <2>1. CASE p.window = "whole"
    BY <2>1 DEF Slices
  <2>2. CASE Cardinality(slice[k]) >= p.min
    <3>1. Cardinality({}) = 0 /\ ~(0 >= p.min)
      BY FS_EmptySet DEF PolicyOK
    <3> QED  BY <2>2, <3>1
  <2> QED  BY <1>4, <2>1, <2>2
<1>5. \A k : k \in Kept(p, n) <=> k \in P /\ long(k)
  <2>1. \A k \in Int : slice[k] # {} => (k \in K <=> k \in P)
    BY DEF Slices
  <2>2. K \subseteq Int /\ P \subseteq Int
    BY DEF Slices
  <2> HIDE DEF long
  <2> QED  BY <1>3, <1>4, <2>1, <2>2
<1>6. {Window(p, n, k) : k \in Kept(p, n)} = Promised(p, n)
  <2>1. ASSUME NEW k \in Kept(p, n)  PROVE Window(p, n, k) \in Promised(p, n)
    <3>1. k \in K /\ k \in P /\ long(k)
      BY <1>3, <1>5
    <3>2. Window(p, n, k) = slice[k] /\ slice[k] \in PromisedWindows(p, n)
      BY <1>1, <3>1 DEF Slices
    <3> QED  BY <3>1, <3>2 DEF Promised
  <2>2. ASSUME NEW v \in Promised(p, n)  PROVE \E k \in Kept(p, n) : v = Window(p, n, k)
    <3>1. v \in PromisedWindows(p, n) /\ (p.window = "whole" \/ Cardinality(v) >= p.min)
      BY DEF Promised
    <3>2. PICK k \in P : v = slice[k]
      BY <3>1 DEF Slices
    <3>3. k \in Kept(p, n) /\ k \in K
      BY <1>3, <1>5, <3>1, <3>2
    <3> QED  BY <1>1, <3>2, <3>3
  <2> QED  BY <2>1, <2>2
<1>7. \A j, k \in Kept(p, n) : Window(p, n, j) = Window(p, n, k) => j = k
  <2>1. \A k \in Kept(p, n) : k \in K /\ Window(p, n, k) = slice[k] /\ slice[k] # {}
    BY <1>1, <1>3
  <2> QED  BY <2>1 DEF Slices
<1>8. IsFiniteSet(Kept(p, n)) /\ Kept(p, n) \subseteq Int
  <2> DEFINE f == [k \in Kept(p, n) |-> Window(p, n, k)]
  <2>1. f \in Injection(Kept(p, n), SUBSET (0..n - 1))
    BY <1>7 DEF Injection, IsInjective, Window
  <2>2. IsFiniteSet(SUBSET (0..n - 1))
    <3>1. 0 \in Int /\ n - 1 \in Int
      OBVIOUS
    <3>2. IsFiniteSet(0..n - 1)
      BY <3>1, FS_Interval
    <3> QED  BY <3>2, FS_SUBSET
  <2>3. Kept(p, n) \subseteq Int
    BY <1>3 DEF Slices
  <2> HIDE DEF f
  <2> QED  BY <2>1, <2>2, <2>3, FS_Injection
<1> QED  BY <1>6, <1>7, <1>8 DEF WindowsKept

(* A whole history: one window, its newest events. *)
LEMMA WholeKept ==
  ASSUME NEW p, PolicyOK(p), p.window = "whole", NEW n \in Nat, n >= 1
  PROVE  WindowsKept(p, n)
<1> DEFINE K == IF n >= p.min THEN {0} ELSE {}
           slice == [k \in Int |-> Greatest(0, n - p.max)..n - 1]
<1>1. p.max \in Nat /\ p.max >= 1 /\ p.min \in Nat
  BY DEF PolicyOK
<1>2. \A e \in 0..n - 1 : \A k : k \in Labels(p, n, e) <=> k \in K /\ e \in slice[k]
  <2>1. \A e \in 0..n - 1 : e \in Greatest(0, n - p.max)..n - 1 <=> e >= n - p.max
    BY <1>1 DEF Greatest
  <2>2. \A e : Labels(p, n, e) = IF n >= p.min /\ e >= n - p.max THEN {0} ELSE {}
    BY DEF Labels
  <2> QED  BY <2>1, <2>2
<1>3. slice[0] # {} /\ \A k \in Int : slice[k] \subseteq 0..n - 1
  <2>1. n - 1 \in Greatest(0, n - p.max)..n - 1 /\ Greatest(0, n - p.max)..n - 1 \subseteq 0..n - 1
    BY <1>1 DEF Greatest
  <2> QED  BY <2>1
<1>4. PromisedWindows(p, n) = {slice[k] : k \in K}
  <2>1. PromisedWindows(p, n) = IF n >= p.min THEN {Greatest(0, n - p.max)..n - 1} ELSE {}
    BY DEF PromisedWindows
  <2> QED  BY <2>1
<1>5. Slices(p, n, K, K, slice)
  <2>1. K \subseteq {0} /\ 0 \in Int
    OBVIOUS
  <2> HIDE DEF K, slice
  <2> QED  BY <1>2, <1>3, <1>4, <2>1 DEF Slices
<1> HIDE DEF K, slice
<1> QED  BY <1>5, SlicesAreKept

(* The newest targets are the last cap ones. *)
LEMMA NewestAre ==
  ASSUME NEW p, p.cap \in Nat \ {0}, NEW a \in Int, NEW b \in Int
  PROVE  Newest(p, a..b) = {t \in a..b : t > b - p.cap}
<1>1. ASSUME NEW t \in a..b  PROVE Cardinality({s \in a..b : s > t}) = b - t
  <2>1. {s \in a..b : s > t} = t + 1..b
    OBVIOUS
  <2>2. t + 1 \in Int /\ b \in Int /\ t <= b
    OBVIOUS
  <2>3. Cardinality(t + 1..b) = IF t + 1 > b THEN 0 ELSE b - (t + 1) + 1
    BY <2>2, FS_Interval
  <2>4. Cardinality(t + 1..b) = b - t
    BY <2>2, <2>3
  <2> QED  BY <2>1, <2>4
<1>2. \A t \in a..b : b - t < p.cap <=> t > b - p.cap
  OBVIOUS
<1> QED  BY <1>1, <1>2 DEF Newest

(* bounded_prefix: the newest targets, each with the events before it. *)
LEMMA PrefixKept ==
  ASSUME NEW p, PolicyOK(p), p.window = "bounded_prefix", NEW n \in Nat, n >= 1
  PROVE  WindowsKept(p, n)
<1> DEFINE K == EarliestTarget(p, n)..n - 1
           P == PromisedTargets(p, n)
           slice == [t \in Int |-> PrefixWindow(p, n, t)]
<1>1. /\ p.max \in Nat /\ p.max >= 1 /\ p.cap \in Nat /\ p.cap >= 1
      /\ p.max \in Nat \ {0} /\ p.cap \in Nat \ {0}
      /\ p.rule \in {"truncated", "required"}
  BY DEF PolicyOK
<1>2. EarliestTarget(p, n) \in Nat
  BY <1>1 DEF EarliestTarget, Greatest
<1>3. \A e \in 0..n - 1 : \A t : t \in Labels(p, n, e) <=> t \in K /\ e \in slice[t]
  <2> SUFFICES ASSUME NEW e \in 0..n - 1, NEW t
               PROVE  t \in Labels(p, n, e) <=> t \in K /\ e \in slice[t]
    OBVIOUS
  <2>1. Labels(p, n, e) = PrefixLabels(p, n, e)
    BY DEF Labels
  <2>2. t \in PrefixLabels(p, n, e) => t \in K
    BY <1>1, <1>2 DEF PrefixLabels, Greatest, Least
  <2>3. ASSUME t \in K  PROVE t \in PrefixLabels(p, n, e) <=> e \in slice[t]
    <3>1. t \in EarliestTarget(p, n)..n - 1 /\ t \in Int
      BY <1>2, <2>3
    <3>2. t \in PrefixLabels(p, n, e) <=> e \in PrefixWindow(p, n, t)
      BY <1>1, <3>1, PrefixWindowIsSlice
    <3> QED  BY <3>1, <3>2
  <2> QED  BY <2>1, <2>2, <2>3
<1>4. \A t \in K : slice[t] \subseteq 0..n - 1
  BY <1>1, <1>2 DEF PrefixWindow, Greatest
<1>5. P = {t \in 0..n - 1 : t \in K}
  <2>1. CASE p.rule = "truncated"
    <3>1. P = {t \in 1..n - 1 : t > n - 1 - p.cap}
      BY <1>1, <2>1, NewestAre DEF PromisedTargets
    <3>2. EarliestTarget(p, n) = Greatest(1, n - p.cap)
      BY <2>1 DEF EarliestTarget
    <3> QED  BY <1>1, <3>1, <3>2 DEF Greatest
  <2>2. CASE p.rule # "truncated" /\ n <= p.max
    <3>1. P = {n - 1}
      BY <2>2 DEF PromisedTargets
    <3>2. EarliestTarget(p, n) = n - 1
      BY <1>1, <2>2 DEF EarliestTarget
    <3> QED  BY <3>1, <3>2
  <2>3. CASE p.rule # "truncated" /\ ~(n <= p.max)
    <3>1. P = {t \in p.max..n - 1 : t > n - 1 - p.cap}
      BY <1>1, <2>3, NewestAre DEF PromisedTargets
    <3>2. EarliestTarget(p, n) = Greatest(p.max, n - p.cap)
      BY <1>1, <2>3 DEF EarliestTarget
    <3> QED  BY <1>1, <3>1, <3>2 DEF Greatest
  <2> QED  BY <2>1, <2>2, <2>3
<1>6. K = P /\ K \subseteq Int
  BY <1>2, <1>5
<1>7. \A j, k \in K : slice[j] = slice[k] => j = k
  <2>1. \A j \in K : j \in Int /\ \A e : e \in slice[j] <=> e \in Greatest(0, j - p.max)..j
    BY <1>2 DEF PrefixWindow
  <2>2. \A j \in K : j \in slice[j] /\ \A e \in slice[j] : e <= j
    BY <1>1, <1>2, <2>1 DEF Greatest
  <2> HIDE DEF slice, K
  <2> SUFFICES ASSUME NEW j \in K, NEW k \in K, slice[j] = slice[k]  PROVE j = k
    OBVIOUS
  <2>3. j <= k /\ k <= j
    BY <2>2
  <2> QED  BY <2>1, <2>3
<1>8. PromisedWindows(p, n) = {slice[k] : k \in P}
  <2>1. PromisedWindows(p, n) = {PrefixWindow(p, n, t) : t \in P}
    BY DEF PromisedWindows
  <2>2. \A t \in P : slice[t] = PrefixWindow(p, n, t)
    BY <1>6
  <2> QED  BY <2>1, <2>2
<1>9. Slices(p, n, K, P, slice)
  <2> HIDE DEF K, P, slice
  <2> QED  BY <1>3, <1>4, <1>6, <1>7, <1>8 DEF Slices
<1> HIDE DEF K, P, slice
<1> QED  BY <1>9, SlicesAreKept

(* next_item: event e is in window k when it lies between its first event   *)
(* and the first one of the next window.                                    *)
LEMMA NextItemWindowIsSlice ==
  ASSUME NEW p, p.max \in Nat \ {0}, NEW n \in Nat, NEW e \in 0..n - 1, NEW k \in Int
  PROVE  k \in NextItemLabels(p, n, e) <=> k >= 0 /\ e \in NextItemWindow(p, n, k)
<1> DEFINE m == p.max
           w == e \div m
           r == e % m
<1>1. m \in Nat /\ m >= 1 /\ m \in Nat \ {0} /\ e \in Int /\ e >= 0 /\ e <= n - 1 /\ n \in Int
  OBVIOUS
<1>2. w \in Int /\ r \in Int /\ r >= 0 /\ r < m /\ e = m * w + r
  <2>1. w \in Int /\ r \in 0..m - 1 /\ e = m * w + r
    BY <1>1, Quotient, Zenon
  <2> HIDE DEF w, r
  <2> QED  BY <1>1, <2>1
<1>3. k <= w <=> k * m <= e
  BY <1>1, QuotientBound
<1>4. k + 1 <= w <=> (k + 1) * m <= e
  <2>1. k + 1 \in Int
    OBVIOUS
  <2> QED  BY <1>1, <2>1, QuotientBound
<1>5. /\ k * m \in Int /\ (k + 1) * m \in Int /\ m * w \in Int
      /\ (k = w => k * m = m * w) /\ (k + 1 = w => (k + 1) * m = m * w)
      /\ (k + 1) * m = k * m + m
  <2> HIDE DEF w, m
  <2>1. k * m \in Int /\ (k + 1) * m \in Int /\ m * w \in Int /\ (k + 1) * m = k * m + m
    BY <1>1, <1>2, SMT
  <2>2. m * w = w * m
    BY <1>1, <1>2, SMT
  <2> QED  BY <2>1, <2>2
<1>6. e > 0 /\ r = 0 /\ k + 1 = w => k >= 0
  <2>1. SUFFICES ASSUME e > 0, r = 0, k + 1 = w, k < 0  PROVE FALSE
    BY <1>2
  <2>2. 1 * m <= e => 1 <= w
    BY <1>1, QuotientBound
  <2>3. w = 0 /\ e < m
    <3>1. 0 * m <= e => 0 <= w
      BY <1>1, QuotientBound
    <3> QED  BY <1>1, <1>2, <2>1, <2>2, <3>1
  <2>4. m * w = 0
    BY <1>1, <2>3
  <2> HIDE DEF w, r, m
  <2> QED  BY <1>2, <2>1, <2>4
<1>7. k = w => k >= 0
  <2>1. 0 * m <= e => 0 <= w
    BY <1>1, QuotientBound
  <2> QED  BY <1>1, <2>1
<1>8. k \in NextItemLabels(p, n, e) <=> k = w \/ (e > 0 /\ r = 0 /\ k = w - 1)
  <2>1. e \in Int /\ w \in Int
    BY <1>1, <1>2
  <2>2. (e > 0 /\ e % p.max = 0 => NextItemLabels(p, n, e) = {w - 1, w})
        /\ (~(e > 0 /\ e % p.max = 0) => NextItemLabels(p, n, e) = {w})
    BY <2>1, NextItemLabelsOf
  <2> QED  BY <2>2
<1>9. e \in NextItemWindow(p, n, k) <=> k * m <= e /\ e <= (k + 1) * m
  <2> HIDE DEF w, r
  <2>1. NextItemWindow(p, n, k) = (k * m)..Least((k + 1) * m, n - 1)
    BY DEF NextItemWindow
  <2> HIDE DEF m
  <2> QED  BY <1>1, <1>5, <2>1 DEF Least
<1> HIDE DEF m, w, r
<1>10. ASSUME k = w \/ (e > 0 /\ r = 0 /\ k = w - 1)
       PROVE  k >= 0 /\ k * m <= e /\ e <= (k + 1) * m
  <2>1. CASE k = w
    BY <1>1, <1>2, <1>5, <1>7, <2>1
  <2>2. CASE e > 0 /\ r = 0 /\ k = w - 1
    BY <1>1, <1>2, <1>5, <1>6, <2>2
  <2> QED  BY <1>10, <2>1, <2>2
<1>11. ASSUME k >= 0, k * m <= e, e <= (k + 1) * m
       PROVE  k = w \/ (e > 0 /\ r = 0 /\ k = w - 1)
  <2>1. k <= w
    BY <1>3, <1>11
  <2>2. CASE k + 1 <= w
    <3>1. e = (k + 1) * m /\ e > 0
      <4>1. (k + 1) * m <= e
        BY <1>4, <2>2
      <4>2. k * m >= 0
        BY <1>1, <1>11, SMT
      <4> QED  BY <1>1, <1>5, <1>11, <4>1, <4>2
    <3>2. k + 1 = w
      <4>1. k + 2 <= w <=> (k + 2) * m <= e
        <5>1. k + 2 \in Int
          OBVIOUS
        <5> QED  BY <1>1, <5>1, QuotientBound DEF w
      <4>2. (k + 2) * m = (k + 1) * m + m
        BY <1>1, SMT
      <4> QED  BY <1>1, <1>2, <1>5, <2>2, <3>1, <4>1, <4>2
    <3>3. r = 0
      BY <1>1, <1>2, <1>5, <3>1, <3>2
    <3> QED  BY <1>2, <3>1, <3>2, <3>3
  <2> QED  BY <1>2, <2>1, <2>2
<1> QED  BY <1>8, <1>9, <1>10, <1>11

(* next_item: consecutive windows that share one event. *)
LEMMA NextItemKept ==
  ASSUME NEW p, PolicyOK(p), p.window = "next_item", NEW n \in Nat, n >= 1
  PROVE  WindowsKept(p, n)
<1> DEFINE slice == [k \in Int |-> NextItemWindow(p, n, k)]
<1>1. p.max \in Nat /\ p.max >= 1 /\ p.max \in Nat \ {0}
  BY DEF PolicyOK
<1>2. \A e \in 0..n - 1 : \A k : k \in Labels(p, n, e) <=> k \in Nat /\ e \in slice[k]
  <2> SUFFICES ASSUME NEW e \in 0..n - 1, NEW k
               PROVE  k \in Labels(p, n, e) <=> k \in Nat /\ e \in slice[k]
    OBVIOUS
  <2>1. Labels(p, n, e) = NextItemLabels(p, n, e)
    BY DEF Labels
  <2>2. k \in NextItemLabels(p, n, e) => k \in Int
    BY DEF NextItemLabels
  <2>3. ASSUME k \in Int  PROVE k \in NextItemLabels(p, n, e) <=> k >= 0 /\ e \in NextItemWindow(p, n, k)
    BY <1>1, <2>3, NextItemWindowIsSlice
  <2> QED  BY <2>1, <2>2, <2>3
<1>3. \A k \in Int : k * p.max \in Int /\ (k + 1) * p.max = k * p.max + p.max
  BY <1>1, SMT
<1>4. ASSUME NEW k \in Int
      PROVE  \A e : e \in slice[k] <=> e \in Int /\ k * p.max <= e /\ e <= (k + 1) * p.max /\ e <= n - 1
  <2> DEFINE a == k * p.max
             b == (k + 1) * p.max
  <2>1. a \in Int /\ b \in Int
    BY <1>3
  <2>2. slice[k] = a..Least(b, n - 1)
    BY DEF NextItemWindow
  <2> HIDE DEF a, b, slice
  <2>3. \A e : e \in slice[k] <=> e \in Int /\ a <= e /\ e <= b /\ e <= n - 1
    BY <2>1, <2>2 DEF Least
  <2> QED  BY <2>3 DEF a, b
<1> HIDE DEF slice
<1>5. \A k \in Nat : slice[k] \subseteq 0..n - 1
  <2>1. \A k \in Nat : k * p.max >= 0
    BY <1>1, SMT
  <2> QED  BY <1>3, <1>4, <2>1
<1>6. ASSUME NEW k \in Int, slice[k] # {}  PROVE k * p.max \in slice[k] /\ k * p.max <= n - 1
  <2> DEFINE a == k * p.max
             b == (k + 1) * p.max
  <2>1. a \in Int /\ b = a + p.max
    BY <1>3
  <2>2. PICK e : e \in slice[k]
    BY <1>6
  <2>3. \A f : f \in slice[k] <=> f \in Int /\ a <= f /\ f <= b /\ f <= n - 1
    BY <1>4
  <2> HIDE DEF a, b
  <2>4. a \in slice[k] /\ a <= n - 1
    BY <1>1, <2>1, <2>2, <2>3
  <2> QED  BY <2>4 DEF a
<1>7. ASSUME NEW k \in Int, slice[k] # {}  PROVE k \in Nat <=> k \in 0..n
  <2>1. k * p.max <= n - 1
    BY <1>6, <1>7
  <2>2. k >= 0 => k <= k * p.max
    BY <1>1, SMT
  <2> QED  BY <1>3, <2>1, <2>2
<1>8. ASSUME NEW j \in Nat, NEW k \in Nat, slice[j] = slice[k], slice[k] # {}  PROVE j = k
  <2>1. j * p.max \in slice[k] /\ k * p.max \in slice[j]
    BY <1>6, <1>8
  <2>2. j * p.max = k * p.max
    <3>1. k * p.max <= j * p.max /\ j * p.max <= k * p.max
      BY <1>4, <2>1
    <3>2. j * p.max \in Int /\ k * p.max \in Int
      BY <1>3
    <3> QED  BY <3>1, <3>2
  <2>3. j < k => j * p.max < k * p.max
    BY <1>1, SMT
  <2>4. k < j => k * p.max < j * p.max
    BY <1>1, SMT
  <2> QED  BY <1>3, <2>2, <2>3, <2>4
<1>9. PromisedWindows(p, n) = {slice[k] : k \in 0..n}
  BY DEF PromisedWindows, slice
<1>10. Slices(p, n, Nat, 0..n, slice)
  BY <1>2, <1>5, <1>7, <1>8, <1>9 DEF Slices
<1> QED  BY <1>10, SlicesAreKept

(* The oldest sliding window is the first to reach the oldest event. *)
LEMMA OldestWindowIs ==
  ASSUME NEW p, PolicyOK(p), NEW n \in Nat, NEW k \in Nat
  PROVE  k <= OldestWindow(p, n) <=> k = 0 \/ n - (k - 1) * p.stride - p.max > 0
<1> DEFINE m == p.max
           s == p.stride
           a == n - m + s - 1
<1>1. m \in Nat /\ s \in Nat /\ s >= 1 /\ s \in Nat \ {0} /\ a \in Int
  BY DEF PolicyOK
<1>2. a \div s \in Int
  BY <1>1, Quotient, Zenon
<1>3. k <= a \div s <=> k * s <= a
  BY <1>1, QuotientBound
<1>4. OldestWindow(p, n) = Greatest(0, a \div s)
  BY DEF OldestWindow
<1>5. k * s \in Int /\ (k - 1) * s = k * s - s
  BY <1>1, SMT
<1>6. k <= OldestWindow(p, n) <=> k = 0 \/ k * s <= a
  <2> DEFINE q == a \div s
  <2> HIDE DEF q, a
  <2> QED  BY <1>2, <1>3, <1>4 DEF Greatest
<1>7. k * s <= a <=> n - (k - 1) * s - m > 0
  <2> DEFINE c == k * s
             d == (k - 1) * s
  <2>1. c \in Int /\ d = c - s
    BY <1>5
  <2> HIDE DEF c, d
  <2>2. c <= a <=> n - d - m > 0
    BY <1>1, <2>1
  <2> QED  BY <2>2 DEF c, d
<1> QED  BY <1>6, <1>7

(* sliding: windows counted back from the newest event until one reaches    *)
(* the oldest. *)
LEMMA SlidingKept ==
  ASSUME NEW p, PolicyOK(p), p.window = "sliding", NEW n \in Nat, n >= 1
  PROVE  WindowsKept(p, n)
<1> DEFINE last == OldestWindow(p, n)
           slice == [k \in Int |-> SlidingWindow(p, n, k)]
           P == {j \in 0..n : j = 0 \/ 0 \notin SlidingWindow(p, n, j - 1)}
<1>1. /\ p.max \in Nat /\ p.max >= 1 /\ p.stride \in Nat /\ p.stride >= 1
      /\ p.max \in Nat \ {0} /\ p.stride \in Nat \ {0}
  BY DEF PolicyOK
<1>2. last \in Nat
  <2>1. n - p.max + p.stride - 1 \in Int
    BY <1>1
  <2>2. (n - p.max + p.stride - 1) \div p.stride \in Int
    BY <1>1, <2>1, Quotient, Zenon
  <2> QED  BY <2>2 DEF OldestWindow, Greatest
<1>3. \A e \in 0..n - 1 : \A k : k \in Labels(p, n, e) <=> k \in 0..last /\ e \in slice[k]
  <2> SUFFICES ASSUME NEW e \in 0..n - 1, NEW k
               PROVE  k \in Labels(p, n, e) <=> k \in 0..last /\ e \in slice[k]
    OBVIOUS
  <2>1. Labels(p, n, e) = SlidingLabels(p, n, e)
    BY DEF Labels
  <2>2. k \in SlidingLabels(p, n, e) => k \in 0..last
    <3> DEFINE f == n - 1 - e
               older == (f - p.max) \div p.stride
               newest == f \div p.stride
    <3>1. f \in Int /\ f - p.max \in Int
      BY <1>1
    <3>2. older \in Int /\ newest \in Int
      BY <1>1, <3>1, Quotient, Zenon
    <3>3. 0 <= older <=> 0 * p.stride <= f - p.max
      BY <1>1, <3>1, QuotientBound
    <3>4. 0 * p.stride = 0
      BY <1>1
    <3>5. SlidingLabels(p, n, e) = (IF f >= p.max THEN older + 1 ELSE 0)..Least(newest, last)
      BY DEF SlidingLabels
    <3> HIDE DEF f, older, newest, last
    <3> QED  BY <1>1, <1>2, <3>1, <3>2, <3>3, <3>4, <3>5 DEF Least
  <2>3. ASSUME k \in 0..last  PROVE k \in SlidingLabels(p, n, e) <=> e \in slice[k]
    <3>1. k \in Int
      BY <1>2, <2>3
    <3>2. k \in SlidingLabels(p, n, e) <=> e \in SlidingWindow(p, n, k)
      BY <1>1, <2>3, SlidingWindowIsSlice
    <3> QED  BY <3>1, <3>2
  <2> QED  BY <2>1, <2>2, <2>3
<1>4. \A k \in Int : k * p.stride \in Int /\ (k - 1) * p.stride = k * p.stride - p.stride
  BY <1>1, SMT
<1>5. ASSUME NEW k \in Int
      PROVE  \A e : e \in SlidingWindow(p, n, k) <=>
               /\ e \in Int /\ 0 <= e
               /\ n - k * p.stride - p.max <= e /\ e <= n - k * p.stride - 1
  <2> DEFINE c == k * p.stride
  <2>1. c \in Int
    BY <1>4
  <2>2. SlidingWindow(p, n, k) = Greatest(0, n - c - p.max)..(n - c - 1)
    BY DEF SlidingWindow
  <2> HIDE DEF c
  <2>3. \A e : e \in SlidingWindow(p, n, k) <=>
          e \in Int /\ 0 <= e /\ n - c - p.max <= e /\ e <= n - c - 1
    BY <1>1, <2>1, <2>2 DEF Greatest
  <2> QED  BY <2>3 DEF c
<1>6. ASSUME NEW k \in Int
      PROVE  \A e : e \in slice[k] <=>
               /\ e \in Int /\ 0 <= e
               /\ n - k * p.stride - p.max <= e /\ e <= n - k * p.stride - 1
  BY <1>5
<1> HIDE DEF slice, last
<1>7. ASSUME NEW k \in Nat  PROVE slice[k] \subseteq 0..n - 1
  <2>1. k * p.stride >= 0 /\ k * p.stride \in Int
    BY <1>1, SMT
  <2> QED  BY <1>6, <2>1
<1>8. ASSUME NEW k \in Int, slice[k] # {}
      PROVE  n - k * p.stride - 1 \in slice[k] /\ n - k * p.stride - 1 >= 0
  <2> DEFINE c == k * p.stride
  <2>1. c \in Int
    BY <1>4
  <2>2. PICK e : e \in slice[k]
    BY <1>8
  <2>3. \A f : f \in slice[k] <=> f \in Int /\ 0 <= f /\ n - c - p.max <= f /\ f <= n - c - 1
    BY <1>6
  <2> HIDE DEF c
  <2>4. n - c - 1 \in slice[k] /\ n - c - 1 >= 0
    BY <1>1, <2>1, <2>2, <2>3
  <2> QED  BY <2>4 DEF c
<1>9. ASSUME NEW k \in Int, slice[k] # {}  PROVE k \in 0..last <=> k \in P
  <2> DEFINE c == k * p.stride
             d == (k - 1) * p.stride
  <2>1. c \in Int /\ d = c - p.stride /\ d \in Int
    BY <1>1, <1>4
  <2>2. n - c - 1 >= 0
    BY <1>8, <1>9
  <2>3. k >= 0 => k <= c
    BY <1>1, SMT
  <2>4. k - 1 \in Int
    OBVIOUS
  <2>5. 0 \in SlidingWindow(p, n, k - 1) <=> n - d - p.max <= 0 /\ 0 <= n - d - 1
    BY <1>5, <2>4
  <2>6. k \in Nat => (k <= last <=> k = 0 \/ n - d - p.max > 0)
    BY OldestWindowIs DEF last
  <2>7. k \in P <=> k \in 0..n /\ (k = 0 \/ 0 \notin SlidingWindow(p, n, k - 1))
    OBVIOUS
  <2> HIDE DEF c, d, P
  <2> QED  BY <1>1, <1>2, <2>1, <2>2, <2>3, <2>5, <2>6, <2>7
<1>10. ASSUME NEW j \in 0..last, NEW k \in 0..last, slice[j] = slice[k], slice[k] # {}
       PROVE  j = k
  <2> DEFINE b == j * p.stride
             c == k * p.stride
  <2>1. j \in Int /\ k \in Int
    BY <1>2
  <2>2. b \in Int /\ c \in Int
    BY <1>4, <2>1
  <2>3. n - b - 1 \in slice[k] /\ n - c - 1 \in slice[j]
    BY <1>8, <1>10, <2>1
  <2>4. n - b - 1 <= n - c - 1 /\ n - c - 1 <= n - b - 1
    BY <1>6, <2>1, <2>3
  <2>5. (j < k => b < c) /\ (k < j => c < b)
    <3>1. j < k => b < c
      BY <1>1, <2>1, SMT
    <3>2. k < j => c < b
      BY <1>1, <2>1, SMT
    <3> QED  BY <3>1, <3>2
  <2> HIDE DEF b, c
  <2> QED  BY <2>1, <2>2, <2>4, <2>5
<1>11. PromisedWindows(p, n) = {slice[k] : k \in P}
  <2>1. PromisedWindows(p, n) = {SlidingWindow(p, n, k) : k \in P}
    BY DEF PromisedWindows
  <2>2. \A k \in P : slice[k] = SlidingWindow(p, n, k)
    BY DEF slice
  <2> QED  BY <2>1, <2>2
<1>12. 0..last \subseteq Int /\ P \subseteq Int /\ \A k \in 0..last : k \in Nat
  BY <1>2
<1>13. Slices(p, n, 0..last, P, slice)
  <2> HIDE DEF P
  <2> QED  BY <1>3, <1>7, <1>9, <1>10, <1>11, <1>12 DEF Slices
<1> HIDE DEF P
<1> QED  BY <1>13, SlicesAreKept

(* Every policy cuts the windows it promises. *)
LEMMA PolicyKept ==
  ASSUME NEW p, PolicyOK(p), NEW n \in Nat, n >= 1
  PROVE  WindowsKept(p, n)
<1>1. p.window \in {"whole", "next_item", "bounded_prefix", "sliding"}
  BY DEF PolicyOK
<1> QED  BY <1>1, WholeKept, NextItemKept, PrefixKept, SlidingKept

(* A history without events is promised nothing. *)
LEMMA NothingPromised ==
  ASSUME NEW p, PolicyOK(p)
  PROVE  Promised(p, 0) = {}
<1>1. /\ p.max \in Nat /\ p.max >= 1 /\ p.min \in Nat /\ p.min >= 1 /\ p.stride \in Nat
      /\ p.cap \in Nat \ {0}
      /\ p.window \in {"whole", "next_item", "bounded_prefix", "sliding"}
  BY DEF PolicyOK
<1>2. CASE p.window = "whole"
  BY <1>1, <1>2 DEF Promised, PromisedWindows
<1>3. ASSUME p.window # "whole", NEW v \in PromisedWindows(p, 0)  PROVE v = {}
  <2>1. CASE p.window = "next_item"
    <3>1. PICK k \in 0..0 : v = NextItemWindow(p, 0, k)
      BY <1>3, <2>1 DEF PromisedWindows
    <3>2. k * p.max = 0 /\ (k + 1) * p.max = p.max
      BY <1>1, <3>1
    <3> QED  BY <1>1, <3>1, <3>2 DEF NextItemWindow, Least
  <2>2. CASE p.window = "sliding"
    <3>1. PICK k \in 0..0 : v = SlidingWindow(p, 0, k)
      BY <1>3, <2>2 DEF PromisedWindows
    <3>2. k * p.stride = 0
      BY <1>1, <3>1
    <3> QED  BY <1>1, <3>1, <3>2 DEF SlidingWindow, Greatest
  <2>3. CASE p.window = "bounded_prefix"
    <3>1. PICK t \in PromisedTargets(p, 0) : v = PrefixWindow(p, 0, t)
      BY <1>3, <2>3 DEF PromisedWindows
    <3>2. t = -1
      BY <1>1 DEF PromisedTargets, Newest
    <3> QED  BY <1>1, <3>1, <3>2 DEF PrefixWindow, Greatest
  <2> QED  BY <1>1, <1>3, <2>1, <2>2, <2>3
<1>4. Cardinality({}) = 0
  BY FS_EmptySet
<1>5. CASE p.window # "whole"
  <2>1. ASSUME NEW v \in Promised(p, 0)  PROVE FALSE
    <3>1. v \in PromisedWindows(p, 0) /\ Cardinality(v) >= p.min
      BY <1>5 DEF Promised
    <3>2. v = {}
      BY <1>3, <1>5, <3>1
    <3> QED  BY <1>1, <1>4, <3>1, <3>2
  <2> QED  BY <2>1
<1> QED  BY <1>2, <1>5

(* The sequences of a history are its promised windows, each once. *)
LEMMA SequencesHold ==
  ASSUME NEW p, PolicyOK(p), NEW n \in Nat, n >= 1
  PROVE  /\ Sequences(p, n) \in Seq(SUBSET Int) /\ IsInjective(Sequences(p, n))
         /\ Range(Sequences(p, n)) = Promised(p, n)
<1> DEFINE kept == Kept(p, n)
           order == IF p.window = "bounded_prefix" THEN Descending(kept) ELSE Ascending(kept)
           m == Cardinality(kept)
           s == Sequences(p, n)
<1>1. WindowsKept(p, n)
  BY PolicyKept
<1>2. Lists(order, kept)
  <2>1. Lists(Ascending(kept), kept) /\ Lists(Descending(kept), kept)
    BY <1>1, OrderLists DEF WindowsKept
  <2> QED  BY <2>1
<1>3. s = [i \in DOMAIN order |-> Window(p, n, order[i])]
  BY DEF Sequences, Kept, Window
<1> HIDE DEF s, order
<1>4. m \in Nat /\ order \in [1..m -> kept] /\ IsInjective(order)
      /\ \A x \in kept : \E i \in 1..m : order[i] = x
  BY <1>1, <1>2, FS_CardinalityType DEF Lists, WindowsKept
<1> HIDE DEF m, kept
<1>5. s = [i \in 1..m |-> Window(p, n, order[i])] /\ \A i \in 1..m : order[i] \in kept
  BY <1>3, <1>4
<1>6. s \in Seq(SUBSET Int)
  <2>1. \A k : Window(p, n, k) \in SUBSET Int
    BY DEF Window
  <2>2. s \in [1..m -> SUBSET Int]
    BY <1>5, <2>1
  <2> QED  BY <1>4, <2>2
<1>7. IsInjective(s)
  <2>1. ASSUME NEW i \in 1..m, NEW k \in 1..m, s[i] = s[k]  PROVE i = k
    <3>1. Window(p, n, order[i]) = Window(p, n, order[k])
      BY <1>5, <2>1
    <3>2. order[i] = order[k]
      BY <1>1, <1>5, <3>1 DEF WindowsKept, kept
    <3> QED  BY <1>4, <3>2 DEF IsInjective
  <2> QED  BY <1>5, <2>1 DEF IsInjective
<1>8. Range(s) = {Window(p, n, k) : k \in kept}
  <2>1. \A i \in 1..m : s[i] \in {Window(p, n, k) : k \in kept}
    BY <1>5
  <2>2. \A k \in kept : \E i \in 1..m : s[i] = Window(p, n, k)
    BY <1>4, <1>5
  <2> QED  BY <1>5, <2>1, <2>2 DEF Range
<1> QED  BY <1>1, <1>6, <1>7, <1>8 DEF s, kept, WindowsKept

-----------------------------------------------------------------------------
(* The buckets. *)

(* A bucket holds what its users are promised, each sequence once. *)
LEMMA BucketFileHolds ==
  ASSUME NEW p, PolicyOK(p), NEW h \in [Users -> Nat], NEW users \in SUBSET Users, users # {},
         \A u \in users : h[u] >= 1
  PROVE  /\ BucketFile(p, h, users) \in Seq(Record) /\ IsInjective(BucketFile(p, h, users))
         /\ Range(BucketFile(p, h, users)) = UNION {Delivery(p, h, u) : u \in users}
<1> DEFINE m == Cardinality(users)
           us == Ascending(users)
           cut(u) == Sequences(p, h[u])
           block(u) == [k \in DOMAIN cut(u) |-> [user |-> u, events |-> cut(u)[k]]]
           seqs == [i \in 1..m |-> block(us[i])]
<1>1. IsFiniteSet(users) /\ users \subseteq Int /\ users \subseteq Users
  <2>1. IsFiniteSet(users)
    BY UserAssumption, FS_Subset
  <2>2. users \subseteq Int
    BY UserAssumption
  <2> QED  BY <2>1, <2>2
<1>2. m \in Nat /\ m >= 1
  BY <1>1, FS_CardinalityType, FS_EmptySet
<1>3. Lists(us, users)
  BY <1>1, OrderLists
<1>4. BucketFile(p, h, users) = FlattenSeq(seqs)
  BY DEF BucketFile
<1>5. us \in [1..m -> users] /\ IsInjective(us) /\ \A u \in users : \E i \in 1..m : us[i] = u
  BY <1>3 DEF Lists
<1>6. ASSUME NEW u \in users
      PROVE  block(u) \in Seq(Record) /\ IsInjective(block(u)) /\ Range(block(u)) = Delivery(p, h, u)
  <2>1. h[u] \in Nat /\ h[u] >= 1 /\ u \in Users
    OBVIOUS
  <2>2. /\ cut(u) \in Seq(SUBSET Int) /\ IsInjective(cut(u))
        /\ Range(cut(u)) = Promised(p, h[u])
    BY <2>1, SequencesHold
  <2> DEFINE c == cut(u)
             b == block(u)
             l == Len(c)
  <2>3. DOMAIN c = 1..l /\ l \in Nat /\ \A k \in 1..l : c[k] \in SUBSET Int
    BY <2>2, LenProperties, ElementOfSeq
  <2>4. b = [k \in 1..l |-> [user |-> u, events |-> c[k]]]
    BY <2>3
  <2> HIDE DEF b, c, l
  <2>5. b \in [1..l -> Record]
    BY <2>1, <2>3, <2>4 DEF Record
  <2>6. b \in Seq(Record)
    BY <2>3, <2>5
  <2>7. IsInjective(b)
    <3>1. ASSUME NEW i \in 1..l, NEW k \in 1..l, b[i] = b[k]  PROVE i = k
      <4>1. c[i] = c[k]
        BY <2>4, <3>1
      <4> QED  BY <2>2, <2>3, <4>1 DEF IsInjective, c
    <3> QED  BY <2>4, <3>1 DEF IsInjective
  <2>8. Range(b) = {[user |-> u, events |-> w] : w \in Range(c)}
    <3>1. Range(c) = {c[k] : k \in 1..l} /\ Range(b) = {b[k] : k \in 1..l}
      BY <2>3, <2>4 DEF Range
    <3> QED  BY <2>4, <3>1
  <2> QED  BY <2>2, <2>6, <2>7, <2>8 DEF b, c, Delivery
<1> HIDE DEF us, m, block
<1>7. \A i \in 1..m : us[i] \in users /\ seqs[i] = block(us[i])
  BY <1>5
<1>8. seqs \in [1..m -> Seq(Record)]
  BY <1>6, <1>7
<1>9. ASSUME NEW i \in 1..m, NEW k \in 1..m, i # k,
             NEW a \in DOMAIN seqs[i], NEW b \in DOMAIN seqs[k]
      PROVE  seqs[i][a] # seqs[k][b]
  <2>1. us[i] # us[k]
    BY <1>5, <1>9 DEF IsInjective
  <2>2. seqs[i][a] \in Delivery(p, h, us[i]) /\ seqs[k][b] \in Delivery(p, h, us[k])
    BY <1>6, <1>7 DEF Range
  <2>3. \A u : \A r \in Delivery(p, h, u) : r.user = u
    BY DEF Delivery
  <2> HIDE DEF seqs
  <2> QED  BY <2>1, <2>2, <2>3
<1>10. \A i \in 1..m : IsInjective(seqs[i])
  BY <1>6, <1>7
<1> HIDE DEF seqs
<1>11. IsInjective(FlattenSeq(seqs))
  BY <1>2, <1>8, <1>9, <1>10, FlattenRepeatsNothing
<1>12. FlattenSeq(seqs) \in Seq(Record) /\ Range(FlattenSeq(seqs)) = UNION {Range(seqs[i]) : i \in 1..m}
  BY <1>2, <1>8, FlattenHolds
<1>13. UNION {Range(seqs[i]) : i \in 1..m} = UNION {Delivery(p, h, u) : u \in users}
  <2>1. \A i \in 1..m : us[i] \in users /\ Range(seqs[i]) = Delivery(p, h, us[i])
    BY <1>6, <1>7
  <2> QED  BY <1>5, <2>1
<1> QED  BY <1>4, <1>11, <1>12, <1>13

(* The users of a bucket. *)
UsersOf(h, place, b) == {u \in Users : place[u] = b /\ h[u] > 0}

(* The bucket files hold what every user is promised, each sequence once. *)
LEMMA BucketFilesHold ==
  ASSUME NEW p, PolicyOK(p), NEW h \in [Users -> Nat], NEW place \in [Users -> 1..BucketCount]
  PROVE  FilesHold(p, h, BucketFiles(p, h, place))
<1> DEFINE usersOf(b) == UsersOf(h, place, b)
           nonempty == {b \in 1..BucketCount : usersOf(b) # {}}
           filled == Ascending(nonempty)
           files == BucketFiles(p, h, place)
           m == Cardinality(nonempty)
<1>1. IsFiniteSet(nonempty) /\ nonempty \subseteq Int
  <2>1. 1 \in Int /\ BucketCount \in Int
    BY BucketAssumption
  <2>2. IsFiniteSet(1..BucketCount)
    BY <2>1, FS_Interval
  <2>3. nonempty \in SUBSET (1..BucketCount)
    OBVIOUS
  <2> HIDE DEF nonempty
  <2>4. IsFiniteSet(nonempty)
    BY <2>2, <2>3, FS_Subset
  <2>5. nonempty \subseteq Int
    BY <2>1, <2>3
  <2> QED  BY <2>4, <2>5
<1>2. Lists(filled, nonempty) /\ m \in Nat
  BY <1>1, OrderLists, FS_CardinalityType
<1>3. files = [i \in DOMAIN filled |-> BucketFile(p, h, usersOf(filled[i]))]
  BY DEF BucketFiles, UsersOf
<1> HIDE DEF files, filled
<1>4. /\ filled \in [1..m -> nonempty] /\ IsInjective(filled)
      /\ \A b \in nonempty : \E i \in 1..m : filled[i] = b
  BY <1>2 DEF Lists
<1> HIDE DEF m
<1>5. DOMAIN files = 1..m /\ files = [i \in 1..m |-> BucketFile(p, h, usersOf(filled[i]))]
  BY <1>3, <1>4
<1>6. ASSUME NEW i \in 1..m
      PROVE  /\ files[i] \in Seq(Record) /\ IsInjective(files[i])
             /\ Range(files[i]) = UNION {Delivery(p, h, u) : u \in usersOf(filled[i])}
  <2> DEFINE users == usersOf(filled[i])
  <2>1. users \in SUBSET Users /\ \A u \in users : h[u] >= 1
    BY DEF UsersOf
  <2>2. users # {}
    BY <1>4
  <2>3. files[i] = BucketFile(p, h, users)
    BY <1>5
  <2> HIDE DEF users
  <2>4. /\ BucketFile(p, h, users) \in Seq(Record) /\ IsInjective(BucketFile(p, h, users))
        /\ Range(BucketFile(p, h, users)) = UNION {Delivery(p, h, u) : u \in users}
    BY <2>1, <2>2, BucketFileHolds
  <2> QED  BY <2>3, <2>4 DEF users
<1>7. files \in Seq(Seq(Record))
  <2>1. files \in [1..m -> Seq(Record)]
    BY <1>5, <1>6
  <2> QED  BY <1>2, <2>1
<1>8. ASSUME NEW b \in 1..m, NEW c \in 1..m, b # c
      PROVE  Range(files[b]) \cap Range(files[c]) = {}
  <2>1. filled[b] # filled[c]
    BY <1>4, <1>8 DEF IsInjective
  <2>2. \A r \in Range(files[b]) : place[r.user] = filled[b]
    BY <1>6 DEF Delivery, UsersOf
  <2>3. \A r \in Range(files[c]) : place[r.user] = filled[c]
    BY <1>6 DEF Delivery, UsersOf
  <2> QED  BY <2>1, <2>2, <2>3
<1>9. UNION {Range(files[b]) : b \in 1..m} = UNION {Delivery(p, h, u) : u \in Users}
  <2>1. ASSUME NEW b \in 1..m, NEW r \in Range(files[b])
        PROVE  r \in UNION {Delivery(p, h, u) : u \in Users}
    <3>1. PICK u \in usersOf(filled[b]) : r \in Delivery(p, h, u)
      BY <1>6, <2>1
    <3> QED  BY <3>1 DEF UsersOf
  <2>2. ASSUME NEW u \in Users, NEW r \in Delivery(p, h, u)
        PROVE  r \in UNION {Range(files[b]) : b \in 1..m}
    <3>1. h[u] > 0
      <4>1. Promised(p, h[u]) # {}
        BY <2>2 DEF Delivery
      <4> QED  BY <4>1, NothingPromised
    <3>2. place[u] \in nonempty /\ u \in usersOf(place[u])
      BY <3>1 DEF UsersOf
    <3>3. PICK b \in 1..m : filled[b] = place[u]
      BY <1>4, <3>2
    <3>4. r \in Range(files[b])
      BY <1>6, <2>2, <3>2, <3>3
    <3> QED  BY <3>4
  <2> QED  BY <2>1, <2>2
<1> QED  BY <1>5, <1>6, <1>7, <1>8, <1>9 DEF FilesHold, files

-----------------------------------------------------------------------------
(* Reading by a global index. *)

(* The cumulative lengths are sums. *)
LEMMA CumulativeIs ==
  ASSUME NEW T, buckets \in Seq(Seq(T))
  PROVE  /\ Cumulative[0] = 0 /\ \A b \in 0..Len(buckets) : Cumulative[b] \in Nat
         /\ \A b \in 1..Len(buckets) : Cumulative[b] = Cumulative[b - 1] + Len(buckets[b])
<1> DEFINE n == Len(buckets)
           len(b) == Len(buckets[b])
           step == [b \in 1..n |-> [v \in Nat |-> v + len(b)]]
           Is(g) == g = [b \in 0..n |-> IF b = 0 THEN 0 ELSE g[b - 1] + len(b)]
           sum == CHOOSE g : Is(g)
<1>1. n \in Nat /\ \A b \in 1..n : len(b) \in Nat
  BY LenProperties, ElementOfSeq
<1>2. \A b \in 1..n : \A v \in Nat : step[b][v] = v + len(b)
  OBVIOUS
<1> HIDE DEF step, n, len
<1>3. PICK f : Unfolds(f, n, 0, step)
  BY <1>1, UnfoldingExists
<1>4. /\ f[0] = 0 /\ f = [b \in 0..n |-> f[b]]
      /\ \A b \in 1..n : f[b - 1] \in Nat => f[b] = f[b - 1] + len(b)
  <2>1. \A b \in 0..n : f[b] = IF b = 0 THEN 0 ELSE step[b][f[b - 1]]
    BY <1>3 DEF Unfolds
  <2>2. f[0] = 0
    BY <1>1, <2>1
  <2>3. \A b \in 1..n : f[b] = step[b][f[b - 1]]
    BY <1>1, <2>1
  <2>4. f = [b \in 0..n |-> f[b]]
    BY <1>3 DEF Unfolds
  <2> QED  BY <1>2, <2>2, <2>3, <2>4
<1>5. \A b \in 0..n : f[b] \in Nat
  <2>1. f[0] \in Nat
    BY <1>4
  <2>2. ASSUME NEW b \in 1..n, f[b - 1] \in Nat  PROVE f[b] \in Nat
    <3>1. f[b] = f[b - 1] + len(b) /\ len(b) \in Nat
      BY <1>1, <1>4, <2>2
    <3> QED  BY <2>2, <3>1
  <2> QED  BY <1>1, <2>1, <2>2, UnfoldingIn
<1>6. Is(f)
  <2>1. \A b \in 0..n : f[b] = IF b = 0 THEN 0 ELSE f[b - 1] + len(b)
    BY <1>1, <1>4, <1>5
  <2> QED  BY <1>4, <2>1
<1>7. Is(sum)
  BY <1>6
<1>8. Cumulative = sum
  BY DEF Cumulative, n, len
<1> HIDE DEF sum
<1>9. \A b \in 0..n : sum[b] = IF b = 0 THEN 0 ELSE sum[b - 1] + len(b)
  BY <1>7
<1>10. sum[0] = 0 /\ \A b \in 1..n : sum[b] = sum[b - 1] + len(b)
  BY <1>1, <1>9
<1>11. \A b \in 0..n : sum[b] \in Nat
  <2>1. sum[0] \in Nat /\ \A b \in 1..n : sum[b - 1] \in Nat => sum[b] \in Nat
    BY <1>1, <1>10
  <2> QED  BY <1>1, <2>1, UnfoldingIn
<1> QED  BY <1>8, <1>10, <1>11 DEF n, len

(* They never fall. *)
LEMMA CumulativeRises ==
  ASSUME NEW T, buckets \in Seq(Seq(T)), NEW a \in 0..Len(buckets)
  PROVE  \A b \in a..Len(buckets) : Cumulative[a] <= Cumulative[b]
<1> DEFINE n == Len(buckets)
           Bad == {b \in a..n : ~(Cumulative[a] <= Cumulative[b])}
<1>1. n \in Nat /\ \A b \in 1..n : Len(buckets[b]) \in Nat
  BY LenProperties, ElementOfSeq
<1>2. /\ \A b \in 0..n : Cumulative[b] \in Nat
      /\ \A b \in 1..n : Cumulative[b] = Cumulative[b - 1] + Len(buckets[b])
  BY CumulativeIs
<1> HIDE DEF n
<1>3. SUFFICES ASSUME Bad # {}  PROVE FALSE
  BY DEF n
<1>4. Bad \in SUBSET Nat
  BY <1>1 DEF n
<1>5. PICK b \in Bad : \A l \in Bad : b <= l
  BY <1>3, <1>4, LeastElement
<1>6. a \in Nat /\ a <= n
  BY <1>1 DEF n
<1>7. b # a
  BY <1>2, <1>6
<1>8. b \in a + 1..n /\ b \in 1..n /\ b - 1 \in a..n /\ b - 1 \in 0..n /\ b - 1 \notin Bad
  <2>1. b \in a..n
    OBVIOUS
  <2>2. b \in a + 1..n /\ b \in 1..n /\ b - 1 \in a..n /\ b - 1 \in 0..n /\ ~(b <= b - 1)
    BY <1>1, <1>6, <1>7, <2>1
  <2> HIDE DEF Bad
  <2> QED  BY <1>5, <2>2
<1>9. Cumulative[a] <= Cumulative[b - 1]
  BY <1>8
<1>10. Cumulative[b] = Cumulative[b - 1] + Len(buckets[b]) /\ Len(buckets[b]) \in Nat
  BY <1>1, <1>2, <1>8
<1>11. Cumulative[a] \in Nat /\ Cumulative[b - 1] \in Nat
  BY <1>2, <1>6, <1>8
<1>12. Cumulative[a] <= Cumulative[b]
  BY <1>9, <1>10, <1>11
<1> QED  BY <1>12

(* The sampler's index of a bucket's i-th sequence reads that sequence,     *)
(* whatever buckets before it are empty (SequenceDataset.__getitem__).      *)
LEMMA IndexReads ==
  ASSUME NEW T, buckets \in Seq(Seq(T)), NEW b \in 1..Len(buckets),
         NEW i \in 0..Len(buckets[b]) - 1
  PROVE  GetItem(Cumulative[b - 1] + i) = buckets[b][i + 1]
<1> DEFINE n == Len(buckets)
           index == Cumulative[b - 1] + i
           before == {c \in 0..n : Cumulative[c] <= index}
<1>1. n \in Nat /\ Len(buckets[b]) \in Nat /\ b \in Nat /\ b >= 1 /\ b <= n
      /\ i \in Nat /\ i < Len(buckets[b])
  BY LenProperties, ElementOfSeq
<1>2. /\ \A c \in 0..n : Cumulative[c] \in Nat
      /\ Cumulative[b] = Cumulative[b - 1] + Len(buckets[b])
  BY CumulativeIs
<1>3. \A c \in 0..b - 1 : Cumulative[c] <= Cumulative[b - 1]
  <2>1. ASSUME NEW c \in 0..b - 1  PROVE Cumulative[c] <= Cumulative[b - 1]
    <3>1. c \in 0..n /\ b - 1 \in c..n
      BY <1>1
    <3> QED  BY <3>1, CumulativeRises
  <2> QED  BY <2>1
<1>4. \A c \in b..n : Cumulative[b] <= Cumulative[c]
  BY CumulativeRises, <1>1
<1>5. Cumulative[b - 1] \in Nat /\ Cumulative[b] \in Nat /\ index \in Nat
  BY <1>1, <1>2
<1>6. before = 0..b - 1
  <2>1. ASSUME NEW c \in 0..b - 1  PROVE c \in 0..n /\ Cumulative[c] <= index
    BY <1>1, <1>2, <1>3, <1>5
  <2>2. ASSUME NEW c \in 0..n, c \notin 0..b - 1  PROVE ~(Cumulative[c] <= index)
    <3>1. c \in b..n
      BY <1>1, <2>2
    <3> QED  BY <1>1, <1>2, <1>4, <1>5, <3>1
  <2> QED  BY <2>1, <2>2
<1>7. Cardinality(before) = b
  <2>1. 0 \in Int /\ b - 1 \in Int /\ ~(0 > b - 1) /\ b - 1 - 0 + 1 = b
    BY <1>1
  <2>2. Cardinality(0..b - 1) = b
    BY <2>1, FS_Interval
  <2> QED  BY <1>6, <2>2
<1>8. BucketOf(index) = b - 1
  BY <1>1, <1>7 DEF BucketOf
<1>9. Item(buckets, b - 1) = buckets[b]
  BY <1>1 DEF Item
<1>10. index - Cumulative[b - 1] = i
  BY <1>1, <1>5
<1>11. Item(buckets[b], i) = buckets[b][i + 1]
  BY <1>1 DEF Item
<1> QED  BY <1>8, <1>9, <1>10, <1>11 DEF GetItem

-----------------------------------------------------------------------------
(* The epoch. *)

(* Constants are what the proofs above ask of a policy and a history. *)
LEMMA PolicyIsOK ==
  ASSUME policy \in Policies, history \in [Users -> Lengths]
  PROVE  PolicyOK(policy) /\ history \in [Users -> Nat]
<1>1. PolicyOK(policy)
  BY PolicyAssumption DEF PolicyOK
<1>2. history \in [Users -> Nat]
  BY LengthAssumption
<1> QED  BY <1>1, <1>2

(* An epoch that has not begun has drawn nothing. *)
LEMMA EpochInitInv == EpochInit => EpochInv
<1> SUFFICES ASSUME EpochInit  PROVE EpochInv
  OBVIOUS
<1>1. policy \in Policies /\ history \in [Users -> Lengths]
  BY DEF EpochInit
<1>2. FilesHold(policy, history, buckets)
  <2>1. PICK place \in [Users -> 1..BucketCount] : buckets = BucketFiles(policy, history, place)
    BY DEF EpochInit
  <2> QED  BY <1>1, <2>1, PolicyIsOK, BucketFilesHold
<1>3. SamplerOK
  BY DEF EpochInit, SamplerOK
<1>4. delivered = SetToBag(UNION {Drawn(b) : b \in DOMAIN buckets})
  <2>1. \A b \in DOMAIN buckets : Drawn(b) = {}
    BY DEF EpochInit, Drawn
  <2>2. UNION {Drawn(b) : b \in DOMAIN buckets} = {}
    BY <2>1
  <2> QED  BY <2>2 DEF EpochInit, EmptyBag
<1> QED  BY <1>1, <1>2, <1>3, <1>4 DEF EpochInv

(* Beginning a bucket draws nothing: the one before is spent. *)
LEMMA BeginBucketInv == EpochInv /\ BeginBucket => EpochInv'
<1> SUFFICES ASSUME EpochInv, BeginBucket  PROVE EpochInv'
  OBVIOUS
<1>1. PICK c \in left :
        left' = left \ {c} /\ bucket' = c /\ undrawn' = 0..Len(buckets[c]) - 1
  BY DEF BeginBucket
<1>2. /\ undrawn = {} /\ policy' = policy /\ history' = history /\ buckets' = buckets
      /\ delivered' = delivered
  BY DEF BeginBucket
<1>3. SamplerOK /\ c \in DOMAIN buckets /\ c # 0
  <2>1. buckets \in Seq(Seq(Record)) /\ SamplerOK
    BY DEF EpochInv, FilesHold
  <2>2. c \in DOMAIN buckets
    BY <2>1 DEF SamplerOK
  <2>3. DOMAIN buckets = 1..Len(buckets) /\ Len(buckets) \in Nat
    BY <2>1, LenProperties
  <2> QED  BY <2>1, <2>2, <2>3
<1>4. SamplerOK'
  BY <1>1, <1>2, <1>3 DEF SamplerOK
<1>5. \A b \in DOMAIN buckets : Drawn(b)' = Drawn(b)
  <2>1. ASSUME NEW b \in DOMAIN buckets  PROVE Drawn(b)' = Drawn(b)
    <3>1. CASE b = c
      BY <1>1, <1>2, <3>1 DEF Drawn
    <3>2. CASE b # c
      BY <1>1, <1>2, <3>2 DEF Drawn
    <3> QED  BY <3>1, <3>2
  <2> QED  BY <2>1
<1>6. (UNION {Drawn(b) : b \in DOMAIN buckets})' = UNION {Drawn(b) : b \in DOMAIN buckets}
  BY <1>2, <1>5
<1>7. FilesHold(policy, history, buckets)'
  BY <1>2 DEF EpochInv
<1> QED  BY <1>2, <1>4, <1>6, <1>7 DEF EpochInv

(* The bag of a set and of one more element. *)
LEMMA BagAdds ==
  ASSUME NEW S, NEW x, x \notin S
  PROVE  SetToBag(S) (+) SetToBag({x}) = SetToBag(S \cup {x})
BY DEF SetToBag, (+)

(* A draw delivers a sequence that was not delivered before. *)
LEMMA DrawInv == EpochInv /\ Draw => EpochInv'
<1> SUFFICES ASSUME EpochInv, Draw  PROVE EpochInv'
  OBVIOUS
<1> DEFINE got == UNION {Drawn(b) : b \in DOMAIN buckets}
<1>1. PICK i \in undrawn :
        /\ undrawn' = undrawn \ {i}
        /\ delivered' = delivered (+) SetToBag({GetItem(Cumulative[bucket - 1] + i)})
  BY DEF Draw
<1> DEFINE x == buckets[bucket][i + 1]
<1>2. /\ policy' = policy /\ history' = history /\ buckets' = buckets
      /\ left' = left /\ bucket' = bucket
  BY DEF Draw
<1>3. FilesHold(policy, history, buckets) /\ SamplerOK /\ delivered = SetToBag(got)
  BY DEF EpochInv
<1>4. bucket # 0 /\ bucket \in DOMAIN buckets \ left /\ undrawn \subseteq 0..Len(buckets[bucket]) - 1
  BY <1>1, <1>3 DEF SamplerOK
<1>5. buckets \in Seq(Seq(Record)) /\ DOMAIN buckets = 1..Len(buckets) /\ Len(buckets) \in Nat
  BY <1>3, LenProperties DEF FilesHold
<1>6. \A b \in DOMAIN buckets : /\ Len(buckets[b]) \in Nat /\ DOMAIN buckets[b] = 1..Len(buckets[b])
  BY <1>5, ElementOfSeq, LenProperties
<1>7. GetItem(Cumulative[bucket - 1] + i) = x
  <2>1. bucket \in 1..Len(buckets) /\ i \in 0..Len(buckets[bucket]) - 1
    BY <1>4, <1>5
  <2> QED  BY <1>5, <2>1, IndexReads
<1>8. \A b \in DOMAIN buckets : Drawn(b) \subseteq Range(buckets[b])
  <2>1. ASSUME NEW b \in DOMAIN buckets, NEW k \in 0..Len(buckets[b]) - 1
        PROVE  buckets[b][k + 1] \in Range(buckets[b])
    <3>1. k + 1 \in DOMAIN buckets[b]
      BY <1>6
    <3> QED  BY <3>1 DEF Range
  <2> QED  BY <2>1 DEF Drawn
<1>9. x \notin got
  <2>1. ASSUME NEW b \in DOMAIN buckets, b # bucket  PROVE x \notin Drawn(b)
    <3>1. x \in Range(buckets[bucket])
      <4>1. i + 1 \in DOMAIN buckets[bucket]
        BY <1>4, <1>6
      <4> QED  BY <4>1 DEF Range
    <3>2. Range(buckets[b]) \cap Range(buckets[bucket]) = {}
      BY <1>3, <1>4, <2>1 DEF FilesHold
    <3> QED  BY <1>8, <3>1, <3>2
  <2>2. x \notin Drawn(bucket)
    <3>1. Drawn(bucket) = {buckets[bucket][k + 1] : k \in (0..Len(buckets[bucket]) - 1) \ undrawn}
      BY <1>4 DEF Drawn
    <3>2. ASSUME NEW k \in (0..Len(buckets[bucket]) - 1) \ undrawn, buckets[bucket][k + 1] = x
          PROVE  FALSE
      <4>1. i + 1 \in DOMAIN buckets[bucket] /\ k + 1 \in DOMAIN buckets[bucket] /\ k # i
        BY <1>4, <1>6
      <4>2. IsInjective(buckets[bucket])
        BY <1>3, <1>4 DEF FilesHold
      <4>3. k + 1 = i + 1
        BY <3>2, <4>1, <4>2 DEF IsInjective
      <4>4. i \in Int /\ k \in Int
        BY <1>4
      <4> QED  BY <4>1, <4>3, <4>4
    <3> HIDE DEF x
    <3> QED  BY <3>1, <3>2
  <2> HIDE DEF x
  <2> QED  BY <2>1, <2>2
<1>10. got' = got \cup {x}
  <2>1. ASSUME NEW b \in DOMAIN buckets, b # bucket  PROVE Drawn(b)' = Drawn(b)
    BY <1>2, <2>1 DEF Drawn
  <2>2. Drawn(bucket)' = Drawn(bucket) \cup {x}
    <3> DEFINE all == 0..Len(buckets[bucket]) - 1
    <3>1. /\ Drawn(bucket) = {buckets[bucket][k + 1] : k \in all \ undrawn}
          /\ Drawn(bucket)' = {buckets[bucket][k + 1] : k \in all \ undrawn'}
      BY <1>2, <1>4 DEF Drawn
    <3>2. all \ undrawn' = (all \ undrawn) \cup {i}
      BY <1>1, <1>4
    <3> HIDE DEF all
    <3> QED  BY <3>1, <3>2
  <2> DEFINE before == [b \in DOMAIN buckets |-> Drawn(b)]
             after == [b \in DOMAIN buckets |-> Drawn(b)']
  <2>3. got = UNION {before[b] : b \in DOMAIN buckets}
    OBVIOUS
  <2>4. got' = UNION {after[b] : b \in DOMAIN buckets}
    BY <1>2
  <2>5. \A b \in DOMAIN buckets : b # bucket => after[b] = before[b]
    BY <2>1
  <2>6. after[bucket] = before[bucket] \cup {x}
    BY <1>2, <1>4, <2>2
  <2> HIDE DEF x, got, before, after
  <2> QED  BY <1>4, <2>3, <2>4, <2>5, <2>6
<1>11. delivered' = SetToBag(got)'
  <2>1. delivered' = SetToBag(got) (+) SetToBag({x})
    BY <1>1, <1>3, <1>7
  <2>2. SetToBag(got) (+) SetToBag({x}) = SetToBag(got \cup {x})
    <3> HIDE DEF got, x
    <3> QED  BY <1>9, BagAdds
  <2>3. SetToBag(got') = SetToBag(got \cup {x})
    BY <1>10
  <2>4. SetToBag(got)' = SetToBag(got')
    BY DEF SetToBag
  <2> HIDE DEF got, x
  <2> QED  BY <2>1, <2>2, <2>3, <2>4
<1>12. SamplerOK'
  BY <1>1, <1>2, <1>3, <1>4 DEF SamplerOK
<1>13. FilesHold(policy, history, buckets)' /\ (policy \in Policies /\ history \in [Users -> Lengths])'
  BY <1>2 DEF EpochInv
<1> QED  BY <1>11, <1>12, <1>13 DEF EpochInv

(* What the epoch has delivered is what it has drawn of each bucket, each   *)
(* sequence once, and the buckets together are what the policy promises.    *)
THEOREM EpochInvariantCorrect == EpochSpec => []EpochInv
<1>1. EpochInv /\ [EpochNext]_epochVars => EpochInv'
  <2> SUFFICES ASSUME EpochInv, [EpochNext]_epochVars  PROVE EpochInv'
    OBVIOUS
  <2>1. CASE BeginBucket
    BY <2>1, BeginBucketInv
  <2>2. CASE Draw
    BY <2>2, DrawInv
  <2>3. CASE UNCHANGED epochVars
    BY <2>3 DEF EpochInv, epochVars, SamplerOK, Drawn
  <2> QED  BY <2>1, <2>2, <2>3 DEF EpochNext
<1> QED  BY <1>1, EpochInitInv, PTL DEF EpochSpec

(* At the end every bucket is drawn whole. *)
LEMMA EndedIsWhole ==
  ASSUME EpochInv, EpochEnded
  PROVE  delivered = SetToBag(UNION {Delivery(policy, history, u) : u \in Users})
<1>1. FilesHold(policy, history, buckets) /\ left = {} /\ undrawn = {}
      /\ delivered = SetToBag(UNION {Drawn(b) : b \in DOMAIN buckets})
  BY DEF EpochInv, EpochEnded
<1>2. \A b \in DOMAIN buckets : Len(buckets[b]) \in Nat /\ DOMAIN buckets[b] = 1..Len(buckets[b])
  <2>1. buckets \in Seq(Seq(Record)) /\ DOMAIN buckets = 1..Len(buckets)
    BY <1>1, LenProperties DEF FilesHold
  <2> QED  BY <2>1, ElementOfSeq, LenProperties
<1>3. ASSUME NEW b \in DOMAIN buckets  PROVE Drawn(b) = Range(buckets[b])
  <2> DEFINE f == buckets[b]
             l == Len(buckets[b])
  <2>1. Drawn(b) = {f[i + 1] : i \in 0..l - 1}
    BY <1>1 DEF Drawn
  <2>2. l \in Nat /\ Range(f) = {f[i] : i \in 1..l}
    BY <1>2 DEF Range
  <2> HIDE DEF f, l
  <2>3. \A i \in 1..l : i - 1 \in 0..l - 1 /\ f[i] = f[(i - 1) + 1]
    BY <2>2
  <2>4. \A i \in 0..l - 1 : i + 1 \in 1..l
    BY <2>2
  <2>5. {f[i + 1] : i \in 0..l - 1} = {f[i] : i \in 1..l}
    BY <2>3, <2>4
  <2> QED  BY <2>1, <2>2, <2>5 DEF f
<1>4. UNION {Drawn(b) : b \in DOMAIN buckets} = UNION {Delivery(policy, history, u) : u \in Users}
  BY <1>1, <1>3 DEF FilesHold
<1> QED  BY <1>1, <1>4

(* An epoch delivers every window of the policy once and nothing else       *)
(* (BucketShuffleSampler, SequenceDataset.__getitem__). *)
THEOREM EpochCorrect == EpochSpec => []EpochDelivers
<1>1. EpochInv => EpochDelivers
  BY EndedIsWhole DEF EpochDelivers, Delivery, Promised
<1> QED  BY <1>1, EpochInvariantCorrect, PTL

(* Two neighbouring events are together in one next_item window, which is   *)
(* long enough to be kept. *)
LEMMA NeighboursInOneWindow ==
  ASSUME NEW p, PolicyOK(p), p.window = "next_item", p.min <= 2,
         NEW n \in Nat, NEW e \in 1..n - 1
  PROVE  \E w \in Promised(p, n) : {v \in Promised(p, n) : {e - 1, e} \subseteq v} = {w}
<1> DEFINE q == (e - 1) \div p.max
           w == NextItemWindow(p, n, q)
<1>1. /\ p.max \in Nat \ {0} /\ p.max >= 1 /\ p.min \in Nat
      /\ e \in Int /\ e >= 1 /\ e <= n - 1 /\ e - 1 \in 0..n - 1 /\ e \in 0..n - 1 /\ e - 1 \in Int
  BY DEF PolicyOK
<1>2. q \in Int
  BY <1>1, Quotient
<1>3. NextItemLabels(p, n, e - 1) \cap NextItemLabels(p, n, e) = {q}
  BY <1>1, NextItemPredictsOnce
<1> HIDE DEF q
<1>4. ASSUME NEW k \in Int
      PROVE  k >= 0 /\ {e - 1, e} \subseteq NextItemWindow(p, n, k) <=> k = q
  <2>1. k \in NextItemLabels(p, n, e - 1) <=> k >= 0 /\ e - 1 \in NextItemWindow(p, n, k)
    BY <1>1, NextItemWindowIsSlice
  <2>2. k \in NextItemLabels(p, n, e) <=> k >= 0 /\ e \in NextItemWindow(p, n, k)
    BY <1>1, NextItemWindowIsSlice
  <2> QED  BY <1>3, <2>1, <2>2
<1>5. q >= 0 /\ {e - 1, e} \subseteq w
  BY <1>2, <1>4
<1>6. q \in 0..n
  <2>1. q * p.max <= e - 1
    BY <1>1, <1>2, <1>5 DEF NextItemWindow
  <2>2. q * p.max >= q /\ q * p.max \in Int
    <3>1. q * (p.max - 1) >= 0 /\ q * (p.max - 1) = q * p.max - q /\ q * p.max \in Int
      BY <1>1, <1>2, <1>5, SMT
    <3> QED  BY <1>2, <3>1
  <2> QED  BY <1>1, <1>2, <1>5, <2>1, <2>2
<1>7. w \in PromisedWindows(p, n)
  BY <1>6 DEF PromisedWindows
<1>8. IsFiniteSet(w)
  <2> DEFINE last == Least((q + 1) * p.max, n - 1)
  <2>1. q * p.max \in Int /\ (q + 1) * p.max \in Int
    BY <1>1, <1>2
  <2>2. last \in Int
    BY <2>1 DEF Least
  <2>3. w = (q * p.max)..last
    BY DEF NextItemWindow
  <2> HIDE DEF last, w
  <2> QED  BY <2>1, <2>2, <2>3, FS_Interval
<1>9. Cardinality(w) >= 2
  <2>1. Cardinality({e - 1, e}) = 2
    <3>1. IsFiniteSet({e}) /\ Cardinality({e}) = 1
      BY FS_Singleton
    <3>2. e - 1 \notin {e}
      BY <1>1
    <3>3. Cardinality({e} \cup {e - 1}) = 1 + 1
      BY <3>1, <3>2, FS_AddElement
    <3>4. {e} \cup {e - 1} = {e - 1, e}
      OBVIOUS
    <3> QED  BY <3>3, <3>4
  <2>2. Cardinality({e - 1, e}) <= Cardinality(w)
    <3> HIDE DEF w
    <3> QED  BY <1>5, <1>8, FS_Subset
  <2> HIDE DEF w
  <2>3. Cardinality(w) \in Nat
    BY <1>8, FS_CardinalityType
  <2> QED  BY <2>1, <2>2, <2>3
<1>10. w \in Promised(p, n)
  <2>1. Cardinality(w) \in Nat
    <3> HIDE DEF w
    <3> QED  BY <1>8, FS_CardinalityType
  <2>2. Cardinality(w) >= p.min
    <3> HIDE DEF w
    <3> QED  BY <1>1, <1>9, <2>1
  <2> QED  BY <1>7, <2>2 DEF Promised
<1>11. ASSUME NEW v \in Promised(p, n), {e - 1, e} \subseteq v  PROVE v = w
  <2>1. PICK k \in 0..n : v = NextItemWindow(p, n, k)
    BY DEF Promised, PromisedWindows
  <2>2. k = q
    BY <1>4, <1>11, <2>1
  <2> QED  BY <2>1, <2>2
<1> HIDE DEF w
<1> QED  BY <1>5, <1>10, <1>11

(* In an epoch of next_item windows every event but the first of a history  *)
(* is predicted from the one before it by one sequence, delivered once      *)
(* (_group_into_next_item_windows). *)
THEOREM PredictionCorrect == EpochSpec => []PredictsOnce
<1>1. ASSUME EpochInv, EpochEnded, policy.window = "next_item", policy.min <= 2,
             NEW u \in Users, NEW e \in 1..history[u] - 1
      PROVE  \E s \in DOMAIN delivered :
               /\ {x \in DOMAIN delivered : x.user = u /\ {e - 1, e} \subseteq x.events} = {s}
               /\ delivered[s] = 1
  <2> DEFINE all == UNION {Delivery(policy, history, v) : v \in Users}
             mine == Promised(policy, history[u])
  <2>1. delivered = SetToBag(all)
    BY <1>1, EndedIsWhole
  <2>2. DOMAIN delivered = all /\ \A x \in all : delivered[x] = 1
    BY <2>1 DEF SetToBag
  <2>3. PolicyOK(policy) /\ history[u] \in Nat
    BY <1>1, PolicyIsOK DEF EpochInv
  <2>4. PICK w \in mine : {v \in mine : {e - 1, e} \subseteq v} = {w}
    BY <1>1, <2>3, NeighboursInOneWindow
  <2>5. ASSUME NEW x  PROVE x \in all /\ x.user = u <=> \E v \in mine : x = [user |-> u, events |-> v]
    BY DEF Delivery
  <2> HIDE DEF all, mine
  <2> DEFINE s == [user |-> u, events |-> w]
  <2>6. s \in all
    BY <2>5
  <2>7. ASSUME NEW x \in all  PROVE x.user = u /\ {e - 1, e} \subseteq x.events <=> x = s
    <3>1. ASSUME x.user = u, {e - 1, e} \subseteq x.events  PROVE x = s
      <4>1. PICK v \in mine : x = [user |-> u, events |-> v]
        BY <2>5, <3>1
      <4>2. {e - 1, e} \subseteq v
        BY <3>1, <4>1
      <4>3. v = w
        BY <2>4, <4>2
      <4> QED  BY <4>1, <4>3
    <3>2. s.user = u /\ {e - 1, e} \subseteq s.events
      BY <2>4
    <3> QED  BY <3>1, <3>2
  <2> HIDE DEF s
  <2> QED  BY <2>2, <2>6, <2>7
<1>2. EpochInv => PredictsOnce
  BY <1>1 DEF PredictsOnce
<1> QED  BY <1>2, EpochInvariantCorrect, PTL
================================================================================
