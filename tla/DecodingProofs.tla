--------------------------- MODULE DecodingProofs ---------------------------
(***************************************************************************)
(* Proofs about Decoding for every catalog, every number of levels and     *)
(* codes, and every width of the beam.                                     *)
(***************************************************************************)
EXTENDS DecodingInvariant, FiniteSetTheorems, SequenceTheorems, NaturalsInduction,
        WellFoundedInduction, TLAPS

-----------------------------------------------------------------------------
(* A set of natural numbers that is not empty has a least one. *)
LEMMA Least ==
  ASSUME NEW S \in SUBSET Nat, S # {}
  PROVE  \E n \in S : \A m \in S : n <= m
<1> DEFINE R == {ss \in Nat \X Nat : ss[1] < ss[2]}
<1>1. IsWellFoundedOn(R, Nat)
  BY NatLessThanWellFounded DEF OpToRel
<1>2. \A x, y \in Nat : y < x => <<y, x>> \in R
  OBVIOUS
<1> HIDE DEF R
<1>3. PICK x \in S : \A y \in S : ~(<<y, x>> \in R)
  BY <1>1, WFMin
<1>4. \A y \in S : ~(y < x)
  BY <1>2, <1>3
<1> QED  BY <1>4

(* A function on 0..n that starts with base and takes a step to each next   *)
(* number. *)
Unfolds(f, n, base, step) ==
  f = [k \in 0..n |-> IF k = 0 THEN base ELSE step[k][f[k - 1]]]

(* There is one for every number of steps. *)
LEMMA UnfoldingExists ==
  ASSUME NEW n \in Nat, NEW base, NEW step
  PROVE  \E f : Unfolds(f, n, base, step)
<1> DEFINE Bad == {k \in Nat : ~\E f : Unfolds(f, k, base, step)}
<1>1. SUFFICES ASSUME Bad # {}  PROVE FALSE
  OBVIOUS
<1>2. PICK k \in Bad : \A l \in Bad : k <= l
  BY <1>1, Least
<1>3. k # 0
  <2> DEFINE f == [l \in 0..0 |-> base]
  <2>1. \A l \in 0..0 : f[l] = IF l = 0 THEN base ELSE step[l][f[l - 1]]
    OBVIOUS
  <2>2. Unfolds(f, 0, base, step)
    BY <2>1 DEF Unfolds
  <2> QED  BY <2>2
<1>4. k - 1 \in Nat /\ k - 1 \notin Bad
  BY <1>2, <1>3
<1>5. PICK g : Unfolds(g, k - 1, base, step)
  BY <1>4
<1> DEFINE f == [l \in 0..k |-> IF l = 0 THEN base ELSE step[l][g[l - 1]]]
<1>6. \A l \in 0..k - 1 : f[l] = g[l]
  BY <1>4, <1>5 DEF Unfolds
<1>7. \A l \in 0..k : f[l] = IF l = 0 THEN base ELSE step[l][f[l - 1]]
  BY <1>4, <1>6
<1>8. Unfolds(f, k, base, step)
  BY <1>7 DEF Unfolds
<1> QED  BY <1>2, <1>8

(* What starts in a set and takes steps within it stays there. *)
LEMMA UnfoldingIn ==
  ASSUME NEW n \in Nat, NEW f, NEW V, f[0] \in V, \A k \in 1..n : f[k - 1] \in V => f[k] \in V
  PROVE  \A k \in 0..n : f[k] \in V
<1> DEFINE Bad == {k \in 0..n : f[k] \notin V}
<1>1. SUFFICES ASSUME Bad # {}  PROVE FALSE
  OBVIOUS
<1>2. Bad \in SUBSET Nat
  OBVIOUS
<1>3. PICK k \in Bad : \A l \in Bad : k <= l
  BY <1>1, <1>2, Least
<1>4. k # 0
  OBVIOUS
<1>5. k \in 1..n /\ k - 1 \in 0..n /\ k - 1 \notin Bad
  BY <1>3, <1>4
<1> QED  BY <1>5

-----------------------------------------------------------------------------
(* The keys of the trie. *)

(* The keys of the prefixes of a code tuple. *)
Keys(f, codes, n) ==
  /\ f[0] = 0 /\ \A l \in 0..n : f[l] \in Int
  /\ \A l \in 1..n : f[l] = f[l - 1] * catalog.perLevel[l] + codes[l]

(* Key is the last of them. *)
LEMMA KeyIsLast ==
  ASSUME NEW n \in Nat, NEW codes, \A l \in 1..n : catalog.perLevel[l] \in Int /\ codes[l] \in Int
  PROVE  \E f : Keys(f, codes, n) /\ Key(codes, n) = f[n]
<1> DEFINE w == catalog.perLevel
           step == [l \in 1..n |-> [v \in Int |-> v * w[l] + codes[l]]]
           Is(g) == g = [l \in 0..n |-> IF l = 0 THEN 0 ELSE g[l - 1] * w[l] + codes[l]]
           key == CHOOSE g : Is(g)
<1>1. \A l \in 1..n : \A v \in Int : step[l][v] = v * w[l] + codes[l]
  OBVIOUS
<1> HIDE DEF step
<1>2. PICK f : Unfolds(f, n, 0, step)
  BY UnfoldingExists
<1>3. /\ f[0] = 0
      /\ \A l \in 1..n : f[l - 1] \in Int => f[l] = f[l - 1] * w[l] + codes[l]
  <2>1. \A l \in 0..n : f[l] = IF l = 0 THEN 0 ELSE step[l][f[l - 1]]
    BY <1>2 DEF Unfolds
  <2>2. f[0] = 0
    BY <2>1
  <2> SUFFICES ASSUME NEW l \in 1..n, f[l - 1] \in Int  PROVE f[l] = f[l - 1] * w[l] + codes[l]
    BY <2>2
  <2>3. f[l] = step[l][f[l - 1]]
    BY <2>1
  <2> QED  BY <1>1, <2>3
<1>4. \A l \in 0..n : f[l] \in Int
  <2>1. f[0] \in Int
    BY <1>3
  <2>2. \A k \in 1..n : f[k - 1] \in Int => f[k] \in Int
    BY <1>3
  <2> QED  BY <2>1, <2>2, UnfoldingIn
<1>5. Is(f)
  <2>1. \A l \in 0..n : f[l] = IF l = 0 THEN 0 ELSE f[l - 1] * w[l] + codes[l]
    BY <1>3, <1>4
  <2>2. f = [l \in 0..n |-> f[l]]
    BY <1>2 DEF Unfolds
  <2> QED  BY <2>1, <2>2
<1>6. Is(key)
  BY <1>5
<1>7. Key(codes, n) = key[n]
  BY DEF Key
<1> HIDE DEF key
<1>8. \A l \in 0..n : key[l] = IF l = 0 THEN 0 ELSE key[l - 1] * w[l] + codes[l]
  BY <1>6
<1>9. \A l \in 0..n : key[l] \in Int
  <2>1. key[0] \in Int
    BY <1>8
  <2>2. \A k \in 1..n : key[k - 1] \in Int => key[k] \in Int
    BY <1>8
  <2> QED  BY <2>1, <2>2, UnfoldingIn
<1>10. Keys(key, codes, n)
  BY <1>8, <1>9 DEF Keys
<1> QED  BY <1>7, <1>10

(* A number has one last digit. *)
LEMMA OneLastDigit ==
  ASSUME NEW p \in Int, NEW q \in Int, NEW w \in Nat, NEW a \in 0..w - 1, NEW b \in 0..w - 1,
         p * w + a = q * w + b
  PROVE  p = q /\ a = b
<1>1. \A d \in Int, v \in Nat : d >= 1 => d * v >= v
  <2> SUFFICES ASSUME NEW d \in Int, NEW v \in Nat, d >= 1  PROVE d * v >= v
    OBVIOUS
  <2>1. (d - 1) * v >= 0 /\ (d - 1) * v = d * v - v
    BY SMT
  <2> QED  BY <2>1
<1>2. (p - q) * w = p * w - q * w /\ (q - p) * w = q * w - p * w
  BY SMT
<1>3. p * w \in Int /\ q * w \in Int /\ (p - q) * w \in Int /\ (q - p) * w \in Int
  OBVIOUS
<1>4. ~(p - q >= 1)
  <2> SUFFICES ASSUME p - q >= 1  PROVE FALSE
    OBVIOUS
  <2>1. (p - q) * w >= w
    BY <1>1
  <2> HIDE DEF Key
  <2> QED  BY <1>2, <1>3, <2>1
<1>5. ~(q - p >= 1)
  <2> SUFFICES ASSUME q - p >= 1  PROVE FALSE
    OBVIOUS
  <2>1. (q - p) * w >= w
    BY <1>1
  <2> QED  BY <1>2, <1>3, <2>1
<1>6. p = q
  BY <1>4, <1>5
<1> QED  BY <1>3, <1>6

(* The keys of a prefix are the first keys of what it begins. *)
LEMMA KeysAgree ==
  ASSUME NEW n \in Nat, NEW m \in Nat, n <= m, NEW f, NEW g, NEW c, NEW d,
         Keys(f, c, n), Keys(g, d, m), \A l \in 1..n : c[l] = d[l]
  PROVE  f[n] = g[n]
<1> DEFINE Bad == {l \in 0..n : f[l] # g[l]}
<1>1. Bad = {}
  <2> SUFFICES ASSUME Bad # {}  PROVE FALSE
    OBVIOUS
  <2>1. Bad \in SUBSET Nat
    OBVIOUS
  <2>2. PICK l \in Bad : \A k \in Bad : l <= k
    BY <2>1, Least
  <2>3. l # 0
    BY DEF Keys
  <2>4. l \in 1..n /\ l \in 1..m /\ l - 1 \in 0..n /\ l - 1 \notin Bad
    BY <2>2, <2>3
  <2>5. f[l - 1] = g[l - 1]
    BY <2>4
  <2> QED  BY <2>4, <2>5 DEF Keys
<1>2. n \in 0..n
  OBVIOUS
<1> QED  BY <1>1, <1>2

(* Prefixes of codes within their levels have one key if and only if they   *)
(* are equal. *)
LEMMA KeyTellsPrefixes ==
  ASSUME NEW n \in Nat, NEW c, NEW d,
         \A l \in 1..n : catalog.perLevel[l] \in Nat /\ {c[l], d[l]} \subseteq 0..catalog.perLevel[l] - 1
  PROVE  Key(c, n) = Key(d, n) <=> \A l \in 1..n : c[l] = d[l]
<1> DEFINE w == catalog.perLevel
<1>1. \A l \in 1..n : w[l] \in Int /\ c[l] \in Int /\ d[l] \in Int
  OBVIOUS
<1>2. PICK f : Keys(f, c, n) /\ Key(c, n) = f[n]
  BY <1>1, KeyIsLast
<1>3. PICK g : Keys(g, d, n) /\ Key(d, n) = g[n]
  BY <1>1, KeyIsLast
<1>4. ASSUME f[n] = g[n]  PROVE \A l \in 1..n : c[l] = d[l]
  <2> DEFINE Bad == {k \in 0..n : f[n - k] # g[n - k]}
  <2>1. Bad = {}
    <3> SUFFICES ASSUME Bad # {}  PROVE FALSE
      OBVIOUS
    <3>1. Bad \in SUBSET Nat
      OBVIOUS
    <3>2. PICK k \in Bad : \A l \in Bad : k <= l
      BY <3>1, Least
    <3>3. k # 0
      BY <1>4
    <3>4. k - 1 \in 0..n /\ k - 1 \notin Bad /\ n - k + 1 \in 1..n
      BY <3>2, <3>3
    <3> DEFINE l == n - k + 1
    <3>5. l \in 1..n /\ l - 1 = n - k /\ n - (k - 1) = l
      BY <3>4
    <3>6. f[l] = g[l]
      BY <3>4, <3>5
    <3> HIDE DEF l
    <3>7. f[l - 1] * w[l] + c[l] = g[l - 1] * w[l] + d[l]
      BY <1>2, <1>3, <3>5, <3>6 DEF Keys
    <3>8. f[l - 1] \in Int /\ g[l - 1] \in Int
      BY <1>2, <1>3, <3>5 DEF Keys
    <3>9. f[l - 1] = g[l - 1]
      BY <3>5, <3>7, <3>8, OneLastDigit
    <3> QED  BY <3>2, <3>5, <3>9
  <2>2. \A l \in 0..n : f[l] = g[l]
    <3> SUFFICES ASSUME NEW l \in 0..n  PROVE f[l] = g[l]
      OBVIOUS
    <3>1. n - l \in 0..n /\ n - (n - l) = l
      OBVIOUS
    <3> QED  BY <2>1, <3>1
  <2> SUFFICES ASSUME NEW l \in 1..n  PROVE c[l] = d[l]
    OBVIOUS
  <2>3. l \in 0..n /\ l - 1 \in 0..n
    OBVIOUS
  <2>4. f[l - 1] * w[l] + c[l] = g[l - 1] * w[l] + d[l]
    BY <1>2, <1>3, <2>2, <2>3 DEF Keys
  <2>5. f[l - 1] \in Int /\ g[l - 1] \in Int
    BY <1>2, <1>3, <2>3 DEF Keys
  <2> QED  BY <2>4, <2>5, OneLastDigit
<1>5. ASSUME \A l \in 1..n : c[l] = d[l]  PROVE f[n] = g[n]
  BY <1>2, <1>3, <1>5, KeysAgree
<1> QED  BY <1>2, <1>3, <1>4, <1>5

(* The tokens of a level begin at a natural number. *)
LEMMA LevelOffsetNat ==
  ASSUME NEW n \in Nat, \A l \in 1..n : catalog.perLevel[l] \in Nat
  PROVE  LevelOffset(n) \in Nat
<1> DEFINE w == catalog.perLevel
           step == [l \in 1..n |-> [v \in Nat |-> v + w[l]]]
           Is(g) == g = [l \in 0..n |-> IF l = 0 THEN 2 ELSE g[l - 1] + w[l]]
           first == CHOOSE g : Is(g)
<1>1. \A l \in 1..n : \A v \in Nat : step[l][v] = v + w[l]
  OBVIOUS
<1> HIDE DEF step
<1>2. PICK f : Unfolds(f, n, 2, step)
  BY UnfoldingExists
<1>3. /\ f[0] = 2
      /\ \A l \in 1..n : f[l - 1] \in Nat => f[l] = f[l - 1] + w[l]
  <2>1. \A l \in 0..n : f[l] = IF l = 0 THEN 2 ELSE step[l][f[l - 1]]
    BY <1>2 DEF Unfolds
  <2>2. f[0] = 2
    BY <2>1
  <2> SUFFICES ASSUME NEW l \in 1..n, f[l - 1] \in Nat  PROVE f[l] = f[l - 1] + w[l]
    BY <2>2
  <2>3. f[l] = step[l][f[l - 1]]
    BY <2>1
  <2> QED  BY <1>1, <2>3
<1>4. \A l \in 0..n : f[l] \in Nat
  <2>1. f[0] \in Nat
    BY <1>3
  <2>2. \A k \in 1..n : f[k - 1] \in Nat => f[k] \in Nat
    BY <1>3
  <2> QED  BY <2>1, <2>2, UnfoldingIn
<1>5. Is(f)
  <2>1. \A l \in 0..n : f[l] = IF l = 0 THEN 2 ELSE f[l - 1] + w[l]
    BY <1>3, <1>4
  <2>2. f = [l \in 0..n |-> f[l]]
    BY <1>2 DEF Unfolds
  <2> QED  BY <2>1, <2>2
<1>6. Is(first)
  BY <1>5
<1>7. LevelOffset(n) = first[n]
  BY DEF LevelOffset
<1> HIDE DEF first
<1>8. \A l \in 0..n : first[l] = IF l = 0 THEN 2 ELSE first[l - 1] + w[l]
  BY <1>6
<1>9. first[0] \in Nat /\ \A k \in 1..n : first[k - 1] \in Nat => first[k] \in Nat
  BY <1>8
<1>10. n \in 0..n
  OBVIOUS
<1>11. \A k \in 0..n : first[k] \in Nat
  BY <1>9, UnfoldingIn
<1> QED  BY <1>7, <1>10, <1>11

-----------------------------------------------------------------------------
(* The beams and the items they begin. *)

(* The values of a catalog and of the tokens of a beam. *)
LEMMA CatalogValues ==
  ASSUME CatalogOK
  PROVE  /\ NumLevels \in Nat
         /\ \A l \in 1..NumLevels : catalog.perLevel[l] \in Nat \ {0}
         /\ \A i \in Items : \A l \in 1..NumLevels :
              catalog.codes[i][l] \in 0..catalog.perLevel[l] - 1
<1>1. catalog.perLevel \in Seq(Nat \ {0}) /\ \A i \in Items : catalog.codes[i] \in Seq(Nat)
  BY DEF CatalogOK
<1>2. NumLevels \in Nat /\ \A l \in 1..NumLevels : catalog.perLevel[l] \in Nat \ {0}
  BY <1>1, LenProperties, ElementOfSeq DEF NumLevels
<1>3. ASSUME NEW i \in Items, NEW l \in 1..NumLevels
      PROVE  catalog.codes[i][l] \in 0..catalog.perLevel[l] - 1
  <2>1. catalog.codes[i] \in Seq(Nat) /\ Len(catalog.codes[i]) = NumLevels
        /\ catalog.codes[i][l] < catalog.perLevel[l]
    BY <1>1 DEF CatalogOK
  <2>2. catalog.codes[i][l] \in Nat
    BY <2>1, ElementOfSeq
  <2> QED  BY <1>2, <2>1, <2>2
<1> QED  BY <1>2, <1>3

(* A beam has integers for tokens, as many as the search has steps. *)
LEMMA BeamValues ==
  ASSUME BeamsOK
  PROVE  /\ width \in Nat \ {0} /\ Depth \in Nat
         /\ \A b \in 1..width : /\ beams[b].tokens \in Seq(Int)
                                /\ DOMAIN beams[b].tokens = 1..Depth
                                /\ \A l \in 1..Depth : beams[b].tokens[l] \in Int
         /\ DOMAIN beams = 1..width /\ LiveBeams = {b \in 1..width : beams[b].live}
<1>1. DOMAIN beams = 1..width /\ width \in Nat \ {0}
  BY DEF BeamsOK
<1>2. \A b \in 1..width : beams[b].tokens \in Seq(Int) /\ Len(beams[b].tokens) = Depth
  BY DEF BeamsOK
<1>3. Depth \in Nat
  <2>1. 1 \in 1..width
    BY <1>1
  <2> QED  BY <1>2, <2>1, LenProperties
<1>4. \A b \in 1..width : DOMAIN beams[b].tokens = 1..Depth
  BY <1>2, LenProperties
<1>5. \A b \in 1..width : \A l \in 1..Depth : beams[b].tokens[l] \in Int
  BY <1>2, ElementOfSeq
<1> QED  BY <1>1, <1>2, <1>3, <1>4, <1>5 DEF LiveBeams

(* The key of a live beam is that of the items it begins. *)
LEMMA KeyIsSpelling ==
  ASSUME IInv, NEW b \in LiveBeams, NEW i \in Items
  PROVE  Key(catalog.codes[i], Depth) = Key(CodesOf(beams[b].tokens), Depth) <=> Spells(b, i)
<1> DEFINE codes == CodesOf(beams[b].tokens)
<1>1. CatalogOK /\ BeamsOK /\ BeamsSpell
  BY DEF IInv
<1>2. /\ NumLevels \in Nat /\ Depth \in Nat /\ b \in 1..width
      /\ \A j \in Items : \A l \in 1..Depth :
           catalog.perLevel[l] \in Nat /\ catalog.codes[j][l] \in 0..catalog.perLevel[l] - 1
  <2>1. NumLevels \in Nat /\ Depth \in Nat /\ b \in 1..width /\ Depth <= NumLevels
    BY <1>1, CatalogValues, BeamValues DEF BeamsOK
  <2>2. \A l \in 1..Depth : l \in 1..NumLevels
    BY <2>1
  <2> QED  BY <1>1, <2>1, <2>2, CatalogValues
<1>3. \A l \in 1..Depth : codes[l] = beams[b].tokens[l] - LevelOffset(l - 1)
  BY <1>1, <1>2, BeamValues DEF CodesOf
<1> HIDE DEF codes
<1>4. \A j \in Items : Spells(b, j) <=> \A l \in 1..Depth : codes[l] = catalog.codes[j][l]
  BY <1>3 DEF Spells
<1>5. PICK first \in Items : \A l \in 1..Depth : codes[l] = catalog.codes[first][l]
  BY <1>1, <1>4 DEF BeamsSpell
<1> DEFINE c == catalog.codes[i]
<1>6. \A l \in 1..Depth : catalog.perLevel[l] \in Nat /\ {c[l], codes[l]} \subseteq 0..catalog.perLevel[l] - 1
  BY <1>2, <1>5
<1> HIDE DEF c
<1>7. Key(c, Depth) = Key(codes, Depth) <=> \A l \in 1..Depth : c[l] = codes[l]
  BY <1>2, <1>6, KeyTellsPrefixes
<1> QED  BY <1>4, <1>7 DEF c, codes

(* What may follow a live beam: the codes of the items it begins. *)
LEMMA FollowingTokens ==
  ASSUME IInv, NEW b \in LiveBeams
  PROVE  NextTokens(Depth, beams[b].tokens) =
           {LevelOffset(Depth) + catalog.codes[i][Depth + 1] : i \in {j \in Items : Spells(b, j)}}
<1>1. AllowedCodes(Depth, CodesOf(beams[b].tokens)) =
        {catalog.codes[i][Depth + 1] : i \in {j \in Items : Spells(b, j)}}
  BY KeyIsSpelling DEF AllowedCodes
<1> QED  BY <1>1 DEF NextTokens

(* The candidates: each live beam with the next code of each item it        *)
(* begins. *)
LEMMA CandidatesAre ==
  ASSUME IInv, Depth < NumLevels
  PROVE  /\ \A x \in Candidates : \E b \in LiveBeams, i \in Items :
              Spells(b, i) /\ x = <<b, LevelOffset(Depth) + catalog.codes[i][Depth + 1]>>
         /\ \A b \in LiveBeams, i \in Items :
              Spells(b, i) => <<b, LevelOffset(Depth) + catalog.codes[i][Depth + 1]>> \in Candidates
<1>1. \A b \in LiveBeams : NextTokens(Depth, beams[b].tokens) =
        {LevelOffset(Depth) + catalog.codes[i][Depth + 1] : i \in {j \in Items : Spells(b, j)}}
  BY FollowingTokens
<1> QED  BY <1>1 DEF Candidates

(* There are finitely many, and one at least for every live beam. *)
LEMMA CandidatesFinite ==
  ASSUME IInv, Depth < NumLevels
  PROVE  /\ IsFiniteSet(Candidates) /\ Cardinality(Candidates) \in Nat
         /\ LiveBeams = 1..width => width <= Cardinality(Candidates)
<1> DEFINE pair(b, i) == <<b, LevelOffset(Depth) + catalog.codes[i][Depth + 1]>>
           all == LiveBeams \X Items
           f == [p \in all |-> pair(p[1], p[2])]
           image == {f[p] : p \in all}
<1>1. BeamsOK /\ BeamsSpell /\ width \in Nat \ {0}
  BY BeamValues DEF IInv
<1>2. IsFiniteSet(LiveBeams)
  <2>1. LiveBeams \subseteq 1..width
    BY <1>1, BeamValues
  <2>2. IsFiniteSet(1..width)
    BY <1>1, FS_Interval
  <2> QED  BY <2>1, <2>2, FS_Subset
<1>3. IsFiniteSet(all)
  BY <1>2, ItemAssumption, FS_Product
<1>4. f \in Surjection(all, image)
  BY DEF Surjection
<1>5. IsFiniteSet(image)
  BY <1>3, <1>4, FS_Surjection
<1>6. Candidates \subseteq image
  <2> SUFFICES ASSUME NEW x \in Candidates  PROVE x \in image
    OBVIOUS
  <2>1. PICK b \in LiveBeams, i \in Items : x = pair(b, i)
    BY CandidatesAre
  <2>2. <<b, i>> \in all /\ f[<<b, i>>] = x
    BY <2>1
  <2> QED  BY <2>2
<1>7. IsFiniteSet(Candidates) /\ Cardinality(Candidates) \in Nat
  BY <1>5, <1>6, FS_Subset, FS_CardinalityType
<1>8. ASSUME LiveBeams = 1..width  PROVE width <= Cardinality(Candidates)
  <2> DEFINE item(b) == CHOOSE i \in Items : Spells(b, i)
             g == [b \in 1..width |-> pair(b, item(b))]
  <2>1. \A b \in 1..width : item(b) \in Items /\ Spells(b, item(b))
    BY <1>1, <1>8 DEF BeamsSpell
  <2>2. \A b \in 1..width : pair(b, item(b)) \in Candidates
    BY <1>8, <2>1, CandidatesAre
  <2>3. g \in Injection(1..width, Candidates)
    <3> HIDE DEF item
    <3> QED  BY <2>2 DEF Injection, IsInjective
  <2>4. Cardinality(1..width) = width
    BY <1>1, FS_Interval
  <2> QED  BY <1>7, <2>3, <2>4, FS_Injection
<1> QED  BY <1>7, <1>8

-----------------------------------------------------------------------------
(* The search begins. *)

(* The greatest of bounded numbers. *)
LEMMA MaxIsGreatest ==
  ASSUME NEW S \in SUBSET Nat, S # {}, NEW n \in Nat, \A x \in S : x <= n
  PROVE  Max(S) \in S /\ \A x \in S : x <= Max(S)
<1> DEFINE R == {n - x : x \in S}
<1>1. R \in SUBSET Nat /\ R # {}
  OBVIOUS
<1>2. PICK r \in R : \A q \in R : r <= q
  BY <1>1, Least
<1>3. PICK x \in S : r = n - x
  OBVIOUS
<1>4. \A y \in S : x >= y
  <2> SUFFICES ASSUME NEW y \in S  PROVE x >= y
    OBVIOUS
  <2>1. n - y \in R
    OBVIOUS
  <2>2. n - x <= n - y
    BY <1>2, <1>3, <2>1
  <2> QED  BY <2>2
<1> HIDE DEF R
<1>5. Max(S) \in S /\ \A y \in S : Max(S) >= y
  BY <1>4 DEF Max
<1> QED  BY <1>5

(* The suffixes of a group are counted from one. *)
LEMMA SuffixBound ==
  ASSUME NEW base, NEW i \in Items
  PROVE  Suffix(base, i) \in Nat /\ Suffix(base, i) <= Cardinality(Items)
<1> DEFINE T == {j \in Items : j <= i /\ base[j] = base[i]}
<1>1. T \in SUBSET Items
  OBVIOUS
<1> HIDE DEF T
<1>2. IsFiniteSet(T) /\ Cardinality(T) <= Cardinality(Items)
  BY <1>1, ItemAssumption, FS_Subset
<1> QED  BY <1>2, FS_CardinalityType DEF Suffix, T

(* In a group no two items have one suffix. *)
LEMMA SuffixTells ==
  ASSUME NEW base, NEW i \in Items, NEW j \in Items, base[i] = base[j],
         Suffix(base, i) = Suffix(base, j)
  PROVE  i = j
<1> DEFINE T(k) == {l \in Items : l <= k /\ base[l] = base[k]}
<1>1. Items \subseteq Int
  <2>1. Cardinality(Items) \in Nat
    BY ItemAssumption, FS_CardinalityType
  <2> QED  BY <2>1, ItemAssumption
<1>2. ASSUME NEW a \in Items, NEW b \in Items, base[a] = base[b], Suffix(base, a) = Suffix(base, b), a < b
      PROVE  FALSE
  <2>1. T(b) \in SUBSET Items /\ T(a) \in SUBSET T(b) /\ b \in T(b) /\ b \notin T(a)
    <3>1. a \in Int /\ b \in Int
      BY <1>1
    <3>2. ASSUME NEW l \in T(a)  PROVE l \in T(b)
      <4>1. l \in Items /\ l \in Int /\ l <= a /\ base[l] = base[a]
        BY <1>1
      <4> QED  BY <1>2, <3>1, <4>1
    <3>3. b \in T(b) /\ b \notin T(a)
      BY <1>2, <3>1
    <3> QED  BY <3>2, <3>3
  <2>2. Cardinality(T(a)) = Cardinality(T(b))
    BY <1>2 DEF Suffix
  <2> HIDE DEF T
  <2>3. IsFiniteSet(T(b))
    BY <2>1, ItemAssumption, FS_Subset
  <2>4. T(a) = T(b)
    BY <2>1, <2>2, <2>3, FS_Subset
  <2> QED  BY <2>1, <2>4
<1>3. i < j \/ j < i \/ i = j
  BY <1>1
<1> QED  BY <1>2, <1>3

(* Both kinds of catalogs are as SemanticCodes asserts. *)
LEMMA CatalogInit ==
  ASSUME NEW base \in [Items -> [1..Levels -> 0..NumCodes - 1]],
         catalog \in {WithoutCollisionSuffix(base), WithCollisionSuffix(base)}
  PROVE  CatalogOK
<1> DEFINE widths == [l \in 1..Levels |-> NumCodes]
<1>1. Levels \in Nat /\ NumCodes \in Nat \ {0}
  BY CodeAssumption
<1>2. widths \in Seq(Nat \ {0}) /\ Len(widths) = Levels /\ \A l \in 1..Levels : widths[l] = NumCodes
  BY <1>1
<1>3. \A i \in Items : /\ base[i] \in Seq(Nat) /\ Len(base[i]) = Levels
                       /\ \A l \in 1..Levels : base[i][l] \in Nat /\ base[i][l] < NumCodes
  <2> SUFFICES ASSUME NEW i \in Items
               PROVE  /\ base[i] \in Seq(Nat) /\ Len(base[i]) = Levels
                      /\ \A l \in 1..Levels : base[i][l] \in Nat /\ base[i][l] < NumCodes
    OBVIOUS
  <2>1. base[i] \in [1..Levels -> 0..NumCodes - 1]
    OBVIOUS
  <2>2. \A l \in 1..Levels : base[i][l] \in Nat /\ base[i][l] < NumCodes
    BY <1>1, <2>1
  <2>3. base[i] \in [1..Levels -> Nat]
    BY <2>1, <2>2
  <2> QED  BY <1>1, <2>2, <2>3
<1> HIDE DEF widths
<1>4. CASE catalog = WithoutCollisionSuffix(base)
  <2>1. catalog = [codes |-> base, perLevel |-> widths]
    BY <1>4 DEF WithoutCollisionSuffix, widths
  <2>2. base \in [Items -> Seq(Nat)]
    BY <1>3
  <2> QED  BY <1>2, <1>3, <2>1, <2>2 DEF CatalogOK, NumLevels
<1>5. CASE catalog = WithCollisionSuffix(base)
  <2> DEFINE S == {Suffix(base, i) : i \in Items}
             most == 1 + Max(S)
             codes == [i \in Items |-> Append(base[i], Suffix(base, i))]
  <2>1. catalog = [codes |-> codes, perLevel |-> Append(widths, most)]
    BY <1>5 DEF WithCollisionSuffix, widths
  <2>2. S \in SUBSET Nat /\ S # {} /\ Cardinality(Items) \in Nat /\ \A x \in S : x <= Cardinality(Items)
    BY SuffixBound, ItemAssumption, FS_CardinalityType
  <2>3. most \in Nat \ {0} /\ \A i \in Items : Suffix(base, i) \in Nat /\ Suffix(base, i) < most
    <3> HIDE DEF S
    <3>1. Max(S) \in S /\ \A x \in S : x <= Max(S)
      BY <2>2, MaxIsGreatest
    <3>2. \A i \in Items : Suffix(base, i) \in S
      BY DEF S
    <3>3. Max(S) \in Nat /\ \A i \in Items : Suffix(base, i) \in Nat /\ Suffix(base, i) <= Max(S)
      BY <2>2, <3>1, <3>2
    <3> DEFINE m == Max(S)
    <3>4. m \in Nat /\ most = 1 + m /\ \A i \in Items : Suffix(base, i) \in Nat /\ Suffix(base, i) <= m
      BY <3>3
    <3> HIDE DEF m, most
    <3> QED  BY <3>4
  <2> HIDE DEF S, most
  <2>4. /\ Append(widths, most) \in Seq(Nat \ {0}) /\ Len(Append(widths, most)) = Levels + 1
        /\ \A l \in 1..Levels : Append(widths, most)[l] = NumCodes
        /\ Append(widths, most)[Levels + 1] = most
    BY <1>1, <1>2, <2>3, AppendProperties
  <2>5. ASSUME NEW i \in Items
        PROVE  /\ codes[i] \in Seq(Nat) /\ Len(codes[i]) = Levels + 1
               /\ \A l \in 1..Levels : codes[i][l] = base[i][l]
               /\ codes[i][Levels + 1] = Suffix(base, i)
    <3> DEFINE s == Suffix(base, i)
    <3>1. base[i] \in Seq(Nat) /\ Len(base[i]) = Levels /\ s \in Nat /\ codes[i] = Append(base[i], s)
      BY <1>3, <2>3
    <3> HIDE DEF s, codes
    <3>2. /\ Append(base[i], s) \in Seq(Nat) /\ Len(Append(base[i], s)) = Levels + 1
          /\ \A l \in 1..Levels : Append(base[i], s)[l] = base[i][l]
          /\ Append(base[i], s)[Levels + 1] = s
      BY <1>1, <3>1, AppendProperties
    <3> QED  BY <3>1, <3>2 DEF s
  <2>6. codes \in [Items -> Seq(Nat)]
    BY <2>5
  <2> HIDE DEF codes
  <2>7. ASSUME NEW i \in Items, NEW l \in 1..Levels + 1  PROVE codes[i][l] < Append(widths, most)[l]
    <3>1. CASE l = Levels + 1
      BY <2>3, <2>4, <2>5, <3>1
    <3>2. CASE l # Levels + 1
      <4>1. l \in 1..Levels
        BY <1>1, <3>2
      <4> QED  BY <1>3, <2>4, <2>5, <4>1
    <3> QED  BY <3>1, <3>2
  <2>8. ASSUME NEW i \in Items, NEW j \in Items, \A l \in 1..Levels + 1 : codes[i][l] = codes[j][l]
        PROVE  i = j
    <3>1. Levels + 1 \in 1..Levels + 1 /\ \A l \in 1..Levels : l \in 1..Levels + 1
      BY <1>1
    <3>2. \A l \in 1..Levels : base[i][l] = base[j][l]
      BY <2>5, <2>8, <3>1
    <3>3. base[i] = base[j]
      <4> DEFINE x == base[i]
                 y == base[j]
                 Tuples == [1..Levels -> 0..NumCodes - 1]
      <4>1. x \in Tuples /\ y \in Tuples
        OBVIOUS
      <4>2. \A l \in 1..Levels : x[l] = y[l]
        BY <3>2
      <4> HIDE DEF x, y
      <4>3. x = [l \in 1..Levels |-> x[l]] /\ y = [l \in 1..Levels |-> y[l]]
        BY <4>1
      <4>4. x = y
        BY <4>2, <4>3
      <4> QED  BY <4>4 DEF x, y
    <3>4. Suffix(base, i) = Suffix(base, j)
      BY <2>5, <2>8, <3>1
    <3> QED  BY <3>3, <3>4, SuffixTells
  <2> QED  BY <2>1, <2>4, <2>5, <2>6, <2>7, <2>8 DEF CatalogOK, NumLevels
<1> QED  BY <1>4, <1>5

(* The first beam is the empty beginning of every item, the others are dead. *)
LEMMA InvInit == DecodeInit => IInv
<1> SUFFICES ASSUME DecodeInit  PROVE IInv
  OBVIOUS
<1>1. CatalogOK
  BY CatalogInit DEF DecodeInit
<1>2. width \in Nat \ {0} /\ beams = [b \in 1..width |-> [tokens |-> <<>>, live |-> b = 1]]
  BY WidthAssumption DEF DecodeInit
<1>3. Depth = 0 /\ \A b \in 1..width : Len(beams[b].tokens) = 0
  BY <1>2 DEF Depth
<1>4. BeamsOK
  <2>1. beams \in [1..width -> [tokens : Seq(Int), live : BOOLEAN]]
    BY <1>2
  <2> QED  BY <1>1, <1>2, <1>3, <2>1, CatalogValues DEF BeamsOK
<1>5. LiveBeams = {1} /\ 1 \in 1..width
  <2>1. DOMAIN beams = 1..width /\ 1 \in 1..width
    BY <1>2
  <2>2. \A b \in 1..width : beams[b].live = (b = 1)
    BY <1>2, Zenon
  <2> QED  BY <2>1, <2>2 DEF LiveBeams
<1>6. BeamsSpell
  BY <1>3, <1>5, ItemAssumption DEF BeamsSpell, Spells
<1> QED  BY <1>1, <1>4, <1>6 DEF IInv

-----------------------------------------------------------------------------
(* The beams grow. *)

(* The smaller of two numbers, as Generate counts the beams that stay live. *)
LEMMA MinOfTwo ==
  ASSUME NEW a \in Nat, NEW b \in Nat
  PROVE  Min({a, b}) = IF a <= b THEN a ELSE b
<1> DEFINE m == Min({a, b})
<1>1. m \in {a, b} /\ \A y \in {a, b} : m <= y
  <2>1. \E x \in {a, b} : \A y \in {a, b} : x <= y
    <3>1. CASE a <= b
      BY <3>1
    <3>2. CASE ~(a <= b)
      BY <3>2
    <3> QED  BY <3>1, <3>2
  <2> QED  BY <2>1 DEF Min
<1> HIDE DEF m
<1>2. m = IF a <= b THEN a ELSE b
  BY <1>1
<1> QED  BY <1>2 DEF m

(* One step of the search.  Beams die only when there are fewer candidates  *)
(* than beams.  Then each candidate is taken, since an injection between     *)
(* finite sets of one size leaves nothing out.                               *)
LEMMA GrowInv == IInv /\ Generate => IInv'
<1> SUFFICES ASSUME IInv, Generate  PROVE IInv'
  OBVIOUS
<1> DEFINE d == Depth
           count == Min({width, Cardinality(Candidates)})
           next(i) == LevelOffset(d) + catalog.codes[i][d + 1]
<1>1. /\ CatalogOK /\ BeamsOK /\ BeamsSpell
      /\ d \in Nat /\ NumLevels \in Nat /\ d < NumLevels /\ width \in Nat \ {0}
      /\ catalog' = catalog /\ width' = width
  BY CatalogValues, BeamValues DEF IInv, Generate
<1>2. /\ LevelOffset(d) \in Int /\ \A l \in 1..d : LevelOffset(l - 1) \in Int
      /\ \A i \in Items : \A l \in 1..d + 1 : catalog.codes[i][l] \in Int
  <2>1. \A l \in 1..NumLevels : catalog.perLevel[l] \in Nat
    BY <1>1, CatalogValues
  <2>2. \A n \in 0..d : LevelOffset(n) \in Int
    <3> SUFFICES ASSUME NEW n \in 0..d  PROVE LevelOffset(n) \in Int
      OBVIOUS
    <3>1. n \in Nat /\ \A l \in 1..n : l \in 1..NumLevels
      BY <1>1
    <3> QED  BY <2>1, <3>1, LevelOffsetNat
  <2>3. \A l \in 1..d + 1 : l \in 1..NumLevels
    BY <1>1
  <2>4. \A i \in Items : \A l \in 1..d + 1 : catalog.codes[i][l] \in 0..catalog.perLevel[l] - 1
    BY <1>1, <2>3, CatalogValues
  <2> HIDE DEF d
  <2>5. d \in 0..d /\ \A l \in 1..d : l - 1 \in 0..d
    BY <1>1
  <2> QED  BY <1>1, <2>1, <2>2, <2>3, <2>4, <2>5
<1>3. /\ count \in Nat /\ count <= width /\ count <= Cardinality(Candidates)
      /\ count < width => count = Cardinality(Candidates)
  <2>1. Cardinality(Candidates) \in Nat
    BY <1>1, CandidatesFinite
  <2>2. count = IF width <= Cardinality(Candidates) THEN width ELSE Cardinality(Candidates)
    BY <1>1, <2>1, MinOfTwo
  <2> HIDE DEF count
  <2> QED  BY <1>1, <2>1, <2>2
<1>4. PICK best \in [1..count -> Candidates] :
        /\ IsInjective(best)
        /\ \E source \in 1..width, token \in DeadTokens :
             beams' = [b \in 1..width |->
               IF b <= count THEN [tokens |-> Grown(best[b]), live |-> TRUE]
               ELSE [tokens |-> Grown(<<source, token>>), live |-> FALSE]]
  BY DEF Generate
<1>5. PICK source \in 1..width, token \in DeadTokens :
        beams' = [b \in 1..width |->
          IF b <= count THEN [tokens |-> Grown(best[b]), live |-> TRUE]
          ELSE [tokens |-> Grown(<<source, token>>), live |-> FALSE]]
  BY <1>4
<1> HIDE DEF count
<1>6. token \in Int
  BY <1>2 DEF DeadTokens, PaddingToken
<1>7. ASSUME NEW x \in Candidates
      PROVE  \E b \in LiveBeams, i \in Items : Spells(b, i) /\ x = <<b, next(i)>>
  BY <1>1, <1>7, CandidatesAre
<1>8. ASSUME NEW b \in 1..width, NEW t \in Int
      PROVE  LET grown == Grown(<<b, t>>)
             IN  /\ grown \in Seq(Int) /\ Len(grown) = d + 1 /\ grown[d + 1] = t
                 /\ \A l \in 1..d : grown[l] = beams[b].tokens[l]
  <2> DEFINE tokens == beams[b].tokens
  <2>1. tokens \in Seq(Int) /\ Len(tokens) = d
    BY <1>1, BeamValues, LenProperties DEF BeamsOK
  <2>2. Grown(<<b, t>>) = Append(tokens, t)
    BY DEF Grown
  <2> HIDE DEF tokens, d
  <2>3. /\ Append(tokens, t) \in Seq(Int) /\ Len(Append(tokens, t)) = d + 1
        /\ Append(tokens, t)[d + 1] = t /\ \A l \in 1..d : Append(tokens, t)[l] = tokens[l]
    BY <2>1, AppendProperties
  <2> QED  BY <2>2, <2>3 DEF tokens
<1> DEFINE from(b) == best[b][1]
           last(b) == best[b][2]
<1>9. ASSUME NEW b \in 1..count
      PROVE  /\ from(b) \in LiveBeams /\ from(b) \in 1..width /\ last(b) \in Int
             /\ best[b] = <<from(b), last(b)>> /\ b \in 1..width
             /\ \E i \in Items : Spells(from(b), i) /\ last(b) = next(i)
  <2>1. best[b] \in Candidates
    OBVIOUS
  <2>2. PICK c \in LiveBeams, i \in Items : Spells(c, i) /\ best[b] = <<c, next(i)>>
    BY <1>7, <2>1
  <2>3. c \in 1..width /\ next(i) \in Int
    <3>1. d + 1 \in 1..d + 1
      BY <1>1
    <3>2. catalog.codes[i][d + 1] \in Int
      BY <1>2, <3>1
    <3> QED  BY <1>1, <1>2, <3>2, BeamValues
  <2>4. b \in 1..width
    BY <1>1, <1>3
  <2> QED  BY <2>2, <2>3, <2>4
<1> HIDE DEF next
<1>10. \A b \in 1..width :
         /\ beams'[b].tokens \in Seq(Int) /\ Len(beams'[b].tokens) = d + 1
         /\ beams'[b].live \in BOOLEAN
  <2> SUFFICES ASSUME NEW b \in 1..width
               PROVE  /\ beams'[b].tokens \in Seq(Int) /\ Len(beams'[b].tokens) = d + 1
                      /\ beams'[b].live \in BOOLEAN
    OBVIOUS
  <2>1. CASE b <= count
    <3>1. b \in 1..count
      BY <2>1
    <3>2. beams'[b] = [tokens |-> Grown(<<from(b), last(b)>>), live |-> TRUE]
      BY <1>5, <1>9, <2>1, <3>1
    <3>3. from(b) \in 1..width /\ last(b) \in Int
      BY <1>9, <3>1
    <3> HIDE DEF from, last
    <3> QED  BY <1>8, <3>2, <3>3
  <2>2. CASE ~(b <= count)
    <3>1. beams'[b] = [tokens |-> Grown(<<source, token>>), live |-> FALSE]
      BY <1>5, <2>2
    <3> QED  BY <1>6, <1>8, <3>1
  <2> QED  BY <2>1, <2>2
<1>11. Depth' = d + 1
  <2>1. 1 \in 1..width
    BY <1>1
  <2> QED  BY <1>10, <2>1 DEF Depth
<1>12. LiveBeams' = 1..count
  <2>1. DOMAIN beams' = 1..width
    BY <1>5
  <2>2. \A b \in 1..width : b <= count => beams'[b].live
    BY <1>5
  <2>3. \A b \in 1..width : ~(b <= count) => ~beams'[b].live
    BY <1>5
  <2>4. \A b : b \in 1..count <=> b \in 1..width /\ b <= count
    BY <1>1, <1>3
  <2> QED  BY <2>1, <2>2, <2>3, <2>4 DEF LiveBeams
<1>13. ASSUME NEW b \in 1..count
       PROVE  /\ \A l \in 1..d : beams'[b].tokens[l] = beams[from(b)].tokens[l]
              /\ beams'[b].tokens[d + 1] = last(b)
  <2>1. beams'[b].tokens = Grown(<<from(b), last(b)>>)
    BY <1>5, <1>9
  <2>2. from(b) \in 1..width /\ last(b) \in Int
    BY <1>9
  <2> HIDE DEF from, last
  <2> QED  BY <1>8, <2>1, <2>2
<1>14. ASSUME NEW b \in 1..count, NEW i \in Items, Spells(from(b), i), last(b) = next(i)
       PROVE  Spells(b, i)'
  <2>1. ASSUME NEW l \in 1..d + 1
        PROVE  beams'[b].tokens[l] - LevelOffset(l - 1) = catalog.codes[i][l]
    <3>1. CASE l = d + 1
      <4>1. beams'[b].tokens[d + 1] = LevelOffset(d) + catalog.codes[i][d + 1]
        BY <1>13, <1>14 DEF next
      <4>2. catalog.codes[i][d + 1] \in Int /\ d + 1 - 1 = d
        BY <1>1, <1>2
      <4>3. l - 1 = d
        BY <1>1, <3>1
      <4>4. LevelOffset(l - 1) = LevelOffset(d)
        BY <4>3
      <4> HIDE DEF d
      <4> QED  BY <1>2, <3>1, <4>1, <4>2, <4>4
    <3>2. CASE l # d + 1
      <4>1. l \in 1..d
        BY <1>1, <3>2
      <4>2. beams'[b].tokens[l] = beams[from(b)].tokens[l]
        BY <1>13, <4>1
      <4> QED  BY <1>14, <4>1, <4>2 DEF Spells
    <3> QED  BY <3>1, <3>2
  <2>2. \A l : LevelOffset(l)' = LevelOffset(l)
    BY <1>1 DEF LevelOffset
  <2> QED  BY <1>1, <1>11, <2>1, <2>2 DEF Spells
<1>15. CatalogOK'
  BY <1>1 DEF CatalogOK, NumLevels
<1>16. BeamsOK'
  <2>1. beams' \in [1..width -> [tokens : Seq(Int), live : BOOLEAN]]
    BY <1>5, <1>10
  <2>2. NumLevels' = NumLevels
    BY <1>1 DEF NumLevels
  <2>3. d + 1 <= NumLevels
    BY <1>1
  <2> QED  BY <1>1, <1>10, <1>11, <2>1, <2>2, <2>3 DEF BeamsOK
<1>17. \A b \in LiveBeams' : \E i \in Items : Spells(b, i)'
  BY <1>9, <1>12, <1>14
<1>18. ASSUME NEW b \in 1..count, NEW c \in 1..count,
              \A l \in 1..d + 1 : beams'[b].tokens[l] = beams'[c].tokens[l]
       PROVE  b = c
  <2>1. d + 1 \in 1..d + 1 /\ \A l \in 1..d : l \in 1..d + 1
    BY <1>1
  <2>2. last(b) = last(c)
    BY <1>13, <1>18, <2>1
  <2>3. \A l \in 1..d : beams[from(b)].tokens[l] = beams[from(c)].tokens[l]
    BY <1>13, <1>18, <2>1
  <2>4. from(b) = from(c)
    BY <1>1, <1>9, <2>3 DEF BeamsSpell
  <2>5. best[b] = best[c]
    BY <1>9, <2>2, <2>4
  <2> QED  BY <1>4, <2>5 DEF IsInjective
<1>19. ASSUME LiveBeams' # 1..width, NEW i \in Items
       PROVE  \E b \in LiveBeams' : Spells(b, i)'
  <2>1. count < width /\ count = Cardinality(Candidates)
    BY <1>1, <1>3, <1>12, <1>19
  <2>2. LiveBeams # 1..width
    BY <1>1, <2>1, CandidatesFinite
  <2>3. PICK b \in LiveBeams : Spells(b, i)
    BY <1>1, <2>2 DEF BeamsSpell
  <2>4. <<b, next(i)>> \in Candidates
    BY <1>1, <2>3, CandidatesAre DEF next
  <2>5. best \in Surjection(1..count, Candidates)
    <3>1. best \in Injection(1..count, Candidates)
      BY <1>4 DEF Injection
    <3>2. Cardinality(1..count) = count
      BY <1>3, FS_Interval
    <3>3. IsFiniteSet(Candidates)
      BY <1>1, CandidatesFinite
    <3> QED  BY <2>1, <3>1, <3>2, <3>3, FS_Injection
  <2>6. PICK k \in 1..count : best[k] = <<b, next(i)>>
    BY <2>4, <2>5 DEF Surjection
  <2>7. from(k) = b /\ last(k) = next(i)
    BY <2>6
  <2> QED  BY <1>12, <1>14, <2>3, <2>7
<1>20. BeamsSpell'
  BY <1>1, <1>11, <1>12, <1>17, <1>18, <1>19 DEF BeamsSpell
<1> QED  BY <1>15, <1>16, <1>20 DEF IInv

-----------------------------------------------------------------------------
(* What the invariant says in sets. *)

(* Beams that begin an item name it. *)
LEMMA SpellsPrefix ==
  ASSUME IInv, NEW b \in LiveBeams, NEW i \in Items
  PROVE  Spells(b, i) <=> CodesOf(beams[b].tokens) = SubSeq(catalog.codes[i], 1, Depth)
<1> DEFINE codes == CodesOf(beams[b].tokens)
           prefix == SubSeq(catalog.codes[i], 1, Depth)
<1>1. CatalogOK /\ BeamsOK /\ Depth \in Nat /\ b \in 1..width
  BY BeamValues DEF IInv
<1>2. /\ codes = [l \in 1..Depth |-> codes[l]]
      /\ \A l \in 1..Depth : codes[l] = beams[b].tokens[l] - LevelOffset(l - 1)
  BY <1>1, BeamValues DEF CodesOf
<1>3. \A l \in 1..Depth : catalog.codes[i][l] \in Nat
  <2>1. Depth <= NumLevels /\ NumLevels \in Nat
    BY <1>1, CatalogValues DEF BeamsOK
  <2>2. \A l \in 1..Depth : l \in 1..NumLevels
    BY <1>1, <2>1
  <2>3. \A l \in 1..NumLevels : catalog.codes[i][l] \in 0..catalog.perLevel[l] - 1
    BY <1>1, CatalogValues
  <2> QED  BY <2>2, <2>3
<1>4. /\ prefix \in Seq(Nat) /\ Len(prefix) = Depth
      /\ \A l \in 1..Depth : prefix[l] = catalog.codes[i][l]
  <2> DEFINE s == catalog.codes[i]
  <2>1. \A l \in 1..Depth : s[l] \in Nat
    BY <1>3
  <2> HIDE DEF s
  <2>2. /\ SubSeq(s, 1, Depth) \in Seq(Nat)
        /\ Len(SubSeq(s, 1, Depth)) = IF 1 <= Depth THEN Depth - 1 + 1 ELSE 0
        /\ \A l \in 1..Depth - 1 + 1 : SubSeq(s, 1, Depth)[l] = s[1 + l - 1]
    BY <1>1, <2>1, SubSeqProperties
  <2>3. Len(SubSeq(s, 1, Depth)) = Depth /\ \A l \in 1..Depth : SubSeq(s, 1, Depth)[l] = s[l]
    BY <1>1, <2>2
  <2> QED  BY <2>2, <2>3 DEF s
<1>5. prefix = [l \in 1..Depth |-> prefix[l]]
  BY <1>4, LenProperties
<1> HIDE DEF codes, prefix
<1>6. codes = prefix <=> \A l \in 1..Depth : codes[l] = prefix[l]
  BY <1>2, <1>5
<1>7. Spells(b, i) <=> \A l \in 1..Depth : codes[l] = prefix[l]
  BY <1>2, <1>4 DEF Spells
<1> QED  BY <1>6, <1>7 DEF codes, prefix

(* The invariant speaks of tokens, the property of codes. *)
LEMMA InvIsBeamsAreItems == IInv => BeamsAreItems
<1> SUFFICES ASSUME IInv  PROVE BeamsAreItems
  OBVIOUS
<1> DEFINE codes(b) == CodesOf(beams[b].tokens)
           found == {codes(b) : b \in LiveBeams}
           f == [b \in LiveBeams |-> codes(b)]
<1>1. BeamsOK /\ BeamsSpell /\ width \in Nat \ {0} /\ LiveBeams \subseteq 1..width /\ Depth \in Nat
  BY BeamValues DEF IInv
<1>2. IsFiniteSet(1..width) /\ Cardinality(1..width) = width
  BY <1>1, FS_Interval
<1>3. IsFiniteSet(LiveBeams)
  BY <1>1, <1>2, FS_Subset
<1>4. ASSUME NEW b \in LiveBeams, NEW c \in LiveBeams, codes(b) = codes(c)  PROVE b = c
  <2>1. PICK i \in Items : Spells(b, i)
    BY <1>1 DEF BeamsSpell
  <2>2. Spells(c, i)
    BY <1>4, <2>1, SpellsPrefix
  <2>3. ASSUME NEW l \in 1..Depth  PROVE beams[b].tokens[l] = beams[c].tokens[l]
    <3>1. beams[b].tokens[l] - LevelOffset(l - 1) = beams[c].tokens[l] - LevelOffset(l - 1)
      BY <2>1, <2>2 DEF Spells
    <3>2. beams[b].tokens[l] \in Int /\ beams[c].tokens[l] \in Int
      BY <1>1, BeamValues
    <3>3. LevelOffset(l - 1) \in Int
      <4>1. CatalogOK /\ Depth <= NumLevels /\ NumLevels \in Nat
        BY <1>1, CatalogValues DEF IInv, BeamsOK
      <4>2. l - 1 \in Nat /\ \A k \in 1..l - 1 : k \in 1..NumLevels
        BY <1>1, <4>1
      <4>3. \A k \in 1..NumLevels : catalog.perLevel[k] \in Nat
        BY <4>1, CatalogValues
      <4> QED  BY <4>2, <4>3, LevelOffsetNat
    <3> QED  BY <3>1, <3>2, <3>3
  <2> QED  BY <1>1, <2>3 DEF BeamsSpell
<1>5. f \in Bijection(LiveBeams, found)
  <2> HIDE DEF codes
  <2>1. f \in Injection(LiveBeams, found)
    BY <1>4 DEF Injection, IsInjective
  <2>2. f \in Surjection(LiveBeams, found)
    BY DEF Surjection
  <2> QED  BY <2>1, <2>2 DEF Bijection
<1>6. Cardinality(found) = Cardinality(LiveBeams)
  <2> HIDE DEF f, found
  <2>1. ExistsBijection(LiveBeams, found)
    BY <1>5 DEF ExistsBijection
  <2> QED  BY <1>3, <2>1, FS_Bijection
<1>7. found \subseteq ItemPrefixes(Depth)
  BY <1>1, SpellsPrefix DEF BeamsSpell, ItemPrefixes
<1>8. ASSUME Cardinality(LiveBeams) < width  PROVE ItemPrefixes(Depth) \subseteq found
  <2>1. LiveBeams # 1..width
    BY <1>1, <1>2, <1>8
  <2> QED  BY <1>1, <2>1, SpellsPrefix DEF BeamsSpell, ItemPrefixes
<1> QED  BY <1>6, <1>7, <1>8 DEF BeamsAreItems

-----------------------------------------------------------------------------
(* The invariant holds in every state of every search. *)
THEOREM DecodingInvariantCorrect == DecodeSpec => []IInv
<1>1. ASSUME IInv, UNCHANGED decodeVars  PROVE IInv'
  <2>1. /\ catalog' = catalog /\ width' = width /\ beams' = beams
        /\ NumLevels' = NumLevels /\ Depth' = Depth /\ LiveBeams' = LiveBeams
    BY <1>1 DEF decodeVars, NumLevels, Depth, LiveBeams
  <2>2. \A l : LevelOffset(l)' = LevelOffset(l)
    BY <2>1 DEF LevelOffset
  <2>3. \A b, i : Spells(b, i)' <=> Spells(b, i)
    BY <2>1, <2>2 DEF Spells
  <2>4. CatalogOK' /\ BeamsOK'
    BY <1>1, <2>1 DEF IInv, CatalogOK, BeamsOK
  <2>5. BeamsSpell'
    BY <1>1, <2>1, <2>3 DEF IInv, BeamsSpell
  <2> QED  BY <2>4, <2>5 DEF IInv
<1> QED  BY <1>1, InvInit, GrowInv, PTL DEF DecodeSpec

(* A live beam is the beginning of an item of the catalog, no two are the   *)
(* same, and as long as there are more beams than beginnings none is        *)
(* missing (generate, SemanticIdConstraint, CodeTrie).                      *)
THEOREM BeamsCorrect == DecodeSpec => []BeamsAreItems
BY DecodingInvariantCorrect, InvIsBeamsAreItems, PTL

-----------------------------------------------------------------------------
(* The items under a prefix. *)

(* What is below a level: the product of the widths from there on. *)
LEMMA BelowIsProduct ==
  ASSUME NumLevels \in Nat, NEW d \in 0..NumLevels,
         \A l \in 1..NumLevels : catalog.perLevel[l] \in Nat \ {0}
  PROVE  \E p : /\ p[d] = 1 /\ \A l \in d..NumLevels : p[l] \in Nat \ {0}
                /\ \A l \in d + 1..NumLevels : p[l] = p[l - 1] * catalog.perLevel[l]
                /\ Below(d) = p[NumLevels]
<1> DEFINE N == NumLevels
           w == catalog.perLevel
           Positive == Nat \ {0}
           step == [l \in 1..N |-> [v \in Positive |-> IF l <= d THEN 1 ELSE v * w[l]]]
           Is(g) == g = [l \in d..N |-> IF l = d THEN 1 ELSE g[l - 1] * w[l]]
           product == CHOOSE g : Is(g)
<1>1. \A l \in 1..N : \A v \in Positive : step[l][v] = IF l <= d THEN 1 ELSE v * w[l]
  OBVIOUS
<1>2. \A v \in Positive, l \in 1..N : v * w[l] \in Positive
  <2>1. \A v, u \in Nat \ {0} : v * u \in Nat \ {0}
    BY SMT
  <2> QED  BY <2>1
<1> HIDE DEF step
<1>3. PICK f : Unfolds(f, N, 1, step)
  BY UnfoldingExists
<1>4. /\ f[0] = 1
      /\ \A l \in 1..N : f[l - 1] \in Positive => f[l] = IF l <= d THEN 1 ELSE f[l - 1] * w[l]
  <2>1. \A l \in 0..N : f[l] = IF l = 0 THEN 1 ELSE step[l][f[l - 1]]
    BY <1>3 DEF Unfolds
  <2>2. f[0] = 1
    BY <2>1
  <2> SUFFICES ASSUME NEW l \in 1..N, f[l - 1] \in Positive
               PROVE  f[l] = IF l <= d THEN 1 ELSE f[l - 1] * w[l]
    BY <2>2
  <2>3. f[l] = step[l][f[l - 1]]
    BY <2>1
  <2> HIDE DEF Positive
  <2> QED  BY <1>1, <2>3
<1>5. \A l \in 0..N : f[l] \in Positive
  <2>1. f[0] \in Positive
    BY <1>4
  <2>2. \A k \in 1..N : f[k - 1] \in Positive => f[k] \in Positive
    BY <1>2, <1>4
  <2> HIDE DEF Positive
  <2> QED  BY <2>1, <2>2, UnfoldingIn
<1>6. \E g : Is(g)
  <2> DEFINE g == [l \in d..N |-> f[l]]
  <2>1. f[d] = 1
    <3>1. CASE d = 0
      BY <1>4, <3>1
    <3>2. CASE d # 0
      <4>1. d \in 1..N /\ d - 1 \in 0..N
        BY <3>2
      <4> QED  BY <1>4, <1>5, <4>1
    <3> QED  BY <3>1, <3>2
  <2>2. ASSUME NEW l \in d..N, l # d  PROVE g[l] = g[l - 1] * w[l]
    <3>1. l \in 1..N /\ l - 1 \in 0..N /\ ~(l <= d) /\ l - 1 \in d..N
      BY <2>2
    <3>2. f[l] = f[l - 1] * w[l]
      BY <1>4, <1>5, <3>1
    <3> QED  BY <3>1, <3>2
  <2>3. \A l \in d..N : g[l] = IF l = d THEN 1 ELSE g[l - 1] * w[l]
    BY <2>1, <2>2
  <2> QED  BY <2>3
<1>7. Is(product)
  BY <1>6
<1>8. Below(d) = product[N]
  BY DEF Below
<1> HIDE DEF product
<1>9. /\ product[d] = 1 /\ \A l \in d + 1..N : product[l] = product[l - 1] * w[l]
  <2>1. \A l \in d..N : product[l] = IF l = d THEN 1 ELSE product[l - 1] * w[l]
    BY <1>7
  <2> QED  BY <2>1
<1>10. \A l \in d..N : product[l] \in Positive
  <2> DEFINE h == [l \in 0..N |-> IF l < d THEN 1 ELSE product[l]]
  <2>1. h[0] \in Positive
    BY <1>9
  <2>2. ASSUME NEW k \in 1..N, h[k - 1] \in Positive  PROVE h[k] \in Positive
    <3>1. CASE k <= d
      BY <1>9, <3>1
    <3>2. CASE ~(k <= d)
      <4>1. k \in d + 1..N /\ h[k - 1] = product[k - 1] /\ h[k] = product[k]
        BY <3>2
      <4> QED  BY <1>2, <1>9, <2>2, <4>1
    <3> QED  BY <3>1, <3>2
  <2>3. \A k \in 0..N : h[k] \in Positive
    <3> HIDE DEF h, Positive
    <3> QED  BY <2>1, <2>2, UnfoldingIn
  <2> QED  BY <2>3
<1> QED  BY <1>8, <1>9, <1>10

(* Division takes off what is below. *)
LEMMA QuotientIs ==
  ASSUME NEW q \in Int, NEW p \in Nat \ {0}, NEW r \in 0..p - 1
  PROVE  (q * p + r) \div p = q
<1> DEFINE a == q * p + r
           x == a \div p
           y == a % p
<1>1. a \in Int /\ a = q * p + r
  OBVIOUS
<1> HIDE DEF a
<1>2. x \in Int /\ y \in 0..p - 1 /\ a = p * x + y
  BY <1>1, SMT
<1> HIDE DEF x, y
<1>3. x * p + y = q * p + r
  BY <1>1, <1>2, SMT
<1>4. x = q
  BY <1>2, <1>3, OneLastDigit
<1> QED  BY <1>4 DEF x, a

(* The full key of a tuple begins with the key of each of its prefixes. *)
LEMMA KeyOfPrefix ==
  ASSUME NumLevels \in Nat, NEW d \in 0..NumLevels, NEW c,
         \A l \in 1..NumLevels : /\ catalog.perLevel[l] \in Nat \ {0}
                                 /\ c[l] \in 0..catalog.perLevel[l] - 1
  PROVE  Key(c, NumLevels) \div Below(d) = Key(c, d)
<1> DEFINE N == NumLevels
           w == catalog.perLevel
<1>1. \A l \in 1..N : w[l] \in Int /\ c[l] \in Int
  OBVIOUS
<1>2. PICK f : Keys(f, c, N) /\ Key(c, N) = f[N]
  BY <1>1, KeyIsLast
<1>3. Key(c, d) = f[d]
  <2>1. \A l \in 1..d : l \in 1..N
    OBVIOUS
  <2>2. PICK g : Keys(g, c, d) /\ Key(c, d) = g[d]
    BY <1>1, <2>1, KeyIsLast
  <2>3. d \in Nat /\ N \in Nat /\ d <= N /\ \A l \in 1..d : c[l] = c[l]
    OBVIOUS
  <2>4. g[d] = f[d]
    <3> HIDE DEF N
    <3> QED  BY <1>2, <2>2, <2>3, KeysAgree
  <2> QED  BY <2>2, <2>4
<1>4. PICK p : /\ p[d] = 1 /\ \A l \in d..N : p[l] \in Nat \ {0}
               /\ \A l \in d + 1..N : p[l] = p[l - 1] * w[l]
               /\ Below(d) = p[N]
  BY BelowIsProduct
<1>5. \A l \in 0..N : f[l] \in Int
  BY <1>2 DEF Keys
<1> DEFINE Rest(l) == \E r \in 0..p[l] - 1 : f[l] = f[d] * p[l] + r
           Bad == {l \in d..N : ~Rest(l)}
<1>6. Bad = {}
  <2> SUFFICES ASSUME Bad # {}  PROVE FALSE
    OBVIOUS
  <2>1. Bad \in SUBSET Nat
    OBVIOUS
  <2>2. PICK l \in Bad : \A k \in Bad : l <= k
    BY <2>1, Least
  <2>3. l # d
    <3>1. 0 \in 0..p[d] - 1 /\ f[d] = f[d] * p[d] + 0
      BY <1>4, <1>5
    <3> QED  BY <3>1
  <2>4. l \in d + 1..N /\ l \in 1..N /\ l - 1 \in d..N /\ l - 1 \in 0..N /\ l - 1 \notin Bad
    BY <2>2, <2>3
  <2>5. PICK r \in 0..p[l - 1] - 1 : f[l - 1] = f[d] * p[l - 1] + r
    BY <2>4
  <2> DEFINE q == p[l - 1]
             v == w[l]
             x == f[d]
             z == c[l]
  <2>6. q \in Nat \ {0} /\ v \in Nat \ {0} /\ x \in Int /\ r \in 0..q - 1 /\ z \in 0..v - 1
    BY <1>4, <1>5, <2>4
  <2>7. f[l] = (x * q + r) * v + z /\ p[l] = q * v
    BY <1>2, <1>4, <2>4, <2>5 DEF Keys
  <2> HIDE DEF q, v, x, z
  <2>8. (x * q + r) * v + z = x * (q * v) + (r * v + z)
    BY <2>6, SMT
  <2>9. r * v + z \in 0..q * v - 1
    <3>1. (q - 1 - r) * v >= 0 /\ (q - 1 - r) * v = q * v - v - r * v
      BY <2>6, SMT
    <3>2. r * v >= 0 /\ r * v \in Int /\ q * v \in Int
      BY <2>6, SMT
    <3> QED  BY <2>6, <3>1, <3>2
  <2>10. Rest(l)
    BY <2>7, <2>8, <2>9 DEF x
  <2> QED  BY <2>2, <2>10
<1>7. N \in d..N /\ N \in 0..N /\ d \in 0..N
  OBVIOUS
<1>8. Rest(N)
  BY <1>6, <1>7
<1>9. PICK r \in 0..p[N] - 1 : f[N] = f[d] * p[N] + r
  BY <1>8
<1>10. f[d] \in Int /\ p[N] \in Nat \ {0}
  BY <1>4, <1>5, <1>7
<1>11. (f[d] * p[N] + r) \div p[N] = f[d]
  BY <1>10, QuotientIs
<1> QED  BY <1>2, <1>3, <1>4, <1>9, <1>11

(* The keys of codes are natural numbers, and those of a masked beam are    *)
(* not. *)
LEMMA KeySigns ==
  ASSUME NEW n \in Nat \ {0}, NEW c,
         \A l \in 1..n : catalog.perLevel[l] \in Nat \ {0} /\ c[l] \in Int
  PROVE  /\ (\A l \in 1..n : c[l] >= 0) => Key(c, n) \in Nat
         /\ (\A l \in 1..n : c[l] < 0) => Key(c, n) \in Int /\ Key(c, n) < 0
<1> DEFINE w == catalog.perLevel
<1>1. \A l \in 1..n : w[l] \in Int /\ c[l] \in Int
  OBVIOUS
<1>2. PICK f : Keys(f, c, n) /\ Key(c, n) = f[n]
  BY <1>1, KeyIsLast
<1>3. f[0] = 0 /\ n \in 0..n
  BY <1>2 DEF Keys
<1>4. ASSUME \A l \in 1..n : c[l] >= 0  PROVE f[n] \in Nat
  <2>1. ASSUME NEW k \in 1..n, f[k - 1] \in Nat  PROVE f[k] \in Nat
    <3>1. f[k] = f[k - 1] * w[k] + c[k]
      BY <1>2 DEF Keys
    <3>2. w[k] \in Nat /\ c[k] \in Nat
      BY <1>4
    <3>3. f[k - 1] * w[k] \in Nat
      BY <2>1, <3>2, SMT
    <3> QED  BY <3>1, <3>2, <3>3
  <2>2. f[0] \in Nat /\ n \in Nat
    BY <1>3
  <2>3. \A k \in 0..n : f[k] \in Nat
    BY <2>1, <2>2, UnfoldingIn
  <2> QED  BY <1>3, <2>3
<1>5. ASSUME \A l \in 1..n : c[l] < 0  PROVE f[n] \in Int /\ f[n] < 0
  <2> DEFINE Below0 == {x \in Int : x < 0}
             g == [l \in 0..n |-> IF l = 0 THEN -1 ELSE f[l]]
  <2>1. g[0] \in Below0
    OBVIOUS
  <2>2. ASSUME NEW k \in 1..n, g[k - 1] \in Below0  PROVE g[k] \in Below0
    <3>1. g[k] = f[k] /\ f[k] = f[k - 1] * w[k] + c[k] /\ f[k - 1] \in Int
      BY <1>2 DEF Keys
    <3>2. f[k - 1] <= 0
      <4>1. CASE k = 1
        BY <1>3, <4>1
      <4>2. CASE k # 1
        <5>1. k - 1 # 0 /\ k - 1 \in 0..n
          BY <4>2
        <5>2. g[k - 1] = f[k - 1]
          BY <5>1
        <5> QED  BY <2>2, <5>2
      <4> QED  BY <4>1, <4>2
    <3>3. w[k] \in Nat /\ c[k] \in Int /\ c[k] < 0
      BY <1>5
    <3> DEFINE x == f[k - 1]
               v == w[k]
    <3>4. x * v \in Int /\ x * v <= 0
      <4>1. x \in Int /\ x <= 0 /\ v \in Nat
        BY <3>1, <3>2, <3>3
      <4> HIDE DEF x, v
      <4>2. (-x) * v >= 0 /\ (-x) * v = -(x * v)
        BY <4>1, SMT
      <4> QED  BY <4>1, <4>2
    <3> QED  BY <3>1, <3>3, <3>4
  <2>3. \A k \in 0..n : g[k] \in Below0
    <3> HIDE DEF g, Below0
    <3> QED  BY <2>1, <2>2, UnfoldingIn
  <2>4. g[n] = f[n] /\ g[n] \in Below0
    BY <1>3, <2>3
  <2> QED  BY <2>4
<1> QED  BY <1>2, <1>4, <1>5

(* Under the tokens of a live beam are the items it begins, under those of  *)
(* a masked one there are none. *)
LEMMA RowsOfBeam ==
  ASSUME IInv, Depth > 0, NEW b \in 1..width
  PROVE  RowsUnder(Generated(b)) = IF b \in LiveBeams THEN {i \in Items : Spells(b, i)} ELSE {}
<1> DEFINE tokens == Generated(b)
<1>1. /\ CatalogOK /\ BeamsOK /\ NumLevels \in Nat /\ Depth \in Nat \ {0}
      /\ Depth \in 0..NumLevels /\ \A l \in 1..Depth : l \in 1..NumLevels
  <2>1. CatalogOK /\ BeamsOK /\ Depth <= NumLevels
    BY DEF IInv, BeamsOK
  <2>2. NumLevels \in Nat /\ Depth \in Nat
    BY <2>1, CatalogValues, BeamValues
  <2> QED  BY <2>1, <2>2
<1>2. /\ \A l \in 1..NumLevels : catalog.perLevel[l] \in Nat \ {0}
      /\ \A i \in Items : \A l \in 1..NumLevels : catalog.codes[i][l] \in 0..catalog.perLevel[l] - 1
  BY <1>1, CatalogValues
<1>3. \A i \in Items : FullKey(i) \div Below(Depth) = Key(catalog.codes[i], Depth)
  <2> SUFFICES ASSUME NEW i \in Items
               PROVE  FullKey(i) \div Below(Depth) = Key(catalog.codes[i], Depth)
    OBVIOUS
  <2> DEFINE c == catalog.codes[i]
  <2>1. \A l \in 1..NumLevels : catalog.perLevel[l] \in Nat \ {0} /\ c[l] \in 0..catalog.perLevel[l] - 1
    BY <1>2
  <2> HIDE DEF c
  <2>2. Key(c, NumLevels) \div Below(Depth) = Key(c, Depth)
    BY <1>1, <2>1, KeyOfPrefix
  <2> QED  BY <2>2 DEF FullKey, c
<1>4. Len(tokens) = Depth /\ DOMAIN tokens = 1..Depth
  <2>1. beams[b].tokens \in Seq(Int) /\ Len(beams[b].tokens) = Depth
    BY <1>1 DEF BeamsOK
  <2>2. Len([l \in 1..Depth |-> -1]) = Depth /\ DOMAIN [l \in 1..Depth |-> -1] = 1..Depth
    BY <1>1
  <2> QED  BY <2>1, <2>2, LenProperties DEF Generated
<1>5. RowsUnder(tokens) =
        {i \in Items : Key(catalog.codes[i], Depth) = Key(CodesOf(tokens), Depth)}
  BY <1>3, <1>4 DEF RowsUnder
<1>6. CASE b \in LiveBeams
  <2>1. tokens = beams[b].tokens
    BY <1>6 DEF Generated, LiveBeams
  <2> QED  BY <1>5, <1>6, <2>1, KeyIsSpelling
<1>7. CASE b \notin LiveBeams
  <2> DEFINE codes == CodesOf(tokens)
  <2>1. tokens = [l \in 1..Depth |-> -1]
    BY <1>1, <1>7, BeamValues DEF Generated
  <2>2. \A l \in 1..Depth : codes[l] \in Int /\ codes[l] < 0
    <3> SUFFICES ASSUME NEW l \in 1..Depth  PROVE codes[l] \in Int /\ codes[l] < 0
      OBVIOUS
    <3>1. codes[l] = -1 - LevelOffset(l - 1)
      BY <1>4, <2>1 DEF CodesOf
    <3>2. l - 1 \in Nat /\ \A k \in 1..l - 1 : k \in 1..NumLevels
      BY <1>1
    <3>3. LevelOffset(l - 1) \in Nat
      BY <1>2, <3>2, LevelOffsetNat
    <3> HIDE DEF codes
    <3> QED  BY <3>1, <3>3
  <2> HIDE DEF codes
  <2>3. Key(codes, Depth) < 0
    BY <1>1, <1>2, <2>2, KeySigns
  <2>4. ASSUME NEW i \in Items  PROVE Key(catalog.codes[i], Depth) # Key(codes, Depth)
    <3> DEFINE c == catalog.codes[i]
    <3>1. \A l \in 1..Depth : catalog.perLevel[l] \in Nat \ {0} /\ c[l] \in Int /\ c[l] >= 0
      <4>1. \A l \in 1..NumLevels : catalog.codes[i][l] \in 0..catalog.perLevel[l] - 1
        BY <1>2
      <4> QED  BY <1>1, <1>2, <4>1
    <3> HIDE DEF c
    <3>2. Key(c, Depth) \in Nat
      BY <1>1, <3>1, KeySigns
    <3>3. Key(c, Depth) # Key(codes, Depth)
      BY <2>3, <3>2
    <3> QED  BY <3>3 DEF c
  <2> QED  BY <1>5, <1>7, <2>4 DEF codes
<1> QED  BY <1>6, <1>7

-----------------------------------------------------------------------------
(* Rows in the order of the trie. *)

TrieBefore(i, j) == FullKey(i) < FullKey(j) \/ (FullKey(i) = FullKey(j) /\ i < j)

(* It is a strict total order of the items. *)
LEMMA TrieOrder ==
  ASSUME IInv
  PROVE  /\ \A i, j \in Items : i = j \/ TrieBefore(i, j) \/ TrieBefore(j, i)
         /\ \A i \in Items : ~TrieBefore(i, i)
         /\ \A i, j, k \in Items : TrieBefore(i, j) /\ TrieBefore(j, k) => TrieBefore(i, k)
<1>1. \A i \in Items : FullKey(i) \in Int
  <2> SUFFICES ASSUME NEW i \in Items  PROVE FullKey(i) \in Int
    OBVIOUS
  <2> DEFINE c == catalog.codes[i]
  <2>1. NumLevels \in Nat /\ \A l \in 1..NumLevels : catalog.perLevel[l] \in Int /\ c[l] \in Int
    <3>1. CatalogOK
      BY DEF IInv
    <3>2. /\ NumLevels \in Nat
          /\ \A l \in 1..NumLevels : catalog.perLevel[l] \in Nat \ {0}
          /\ \A l \in 1..NumLevels : catalog.codes[i][l] \in 0..catalog.perLevel[l] - 1
      BY <3>1, CatalogValues
    <3> QED  BY <3>2
  <2> HIDE DEF c
  <2>2. PICK f : Keys(f, c, NumLevels) /\ Key(c, NumLevels) = f[NumLevels]
    BY <2>1, KeyIsLast
  <2>3. NumLevels \in 0..NumLevels
    BY <2>1
  <2>4. Key(c, NumLevels) \in Int
    BY <2>2, <2>3 DEF Keys
  <2> QED  BY <2>4 DEF FullKey, c
<1>2. \A i \in Items : i \in Int
  <2>1. Cardinality(Items) \in Nat
    BY ItemAssumption, FS_CardinalityType
  <2> QED  BY <2>1, ItemAssumption
<1> QED  BY <1>1, <1>2 DEF TrieBefore

(* Some items have a last one. *)
LEMMA LastRow ==
  ASSUME IInv, NEW T \in SUBSET Items, T # {}
  PROVE  \E m \in T : \A x \in T : x = m \/ TrieBefore(x, m)
<1> DEFINE HasLast(U) == \E m \in U : \A x \in U : x = m \/ TrieBefore(x, m)
           Bad == {n \in Nat : \E U \in SUBSET Items : U # {} /\ Cardinality(U) = n /\ ~HasLast(U)}
<1>1. \A U \in SUBSET Items : IsFiniteSet(U) /\ Cardinality(U) \in Nat
  BY ItemAssumption, FS_Subset, FS_CardinalityType
<1>2. Bad = {}
  <2> SUFFICES ASSUME Bad # {}  PROVE FALSE
    OBVIOUS
  <2>1. PICK n \in Bad : \A k \in Bad : n <= k
    BY Least
  <2>2. PICK U \in SUBSET Items : U # {} /\ Cardinality(U) = n /\ ~HasLast(U)
    OBVIOUS
  <2>3. PICK y \in U : TRUE
    BY <2>2
  <2> DEFINE V == U \ {y}
  <2>4. V # {}
    BY <2>2, <2>3
  <2>5. V \in SUBSET Items /\ Cardinality(V) = n - 1
    BY <1>1, <2>2, <2>3, FS_RemoveElement
  <2>6. n - 1 \in Nat
    BY <1>1, <2>5
  <2>7. n - 1 \notin Bad
    BY <2>1, <2>6
  <2>8. PICK m \in V : \A x \in V : x = m \/ TrieBefore(x, m)
    BY <2>4, <2>5, <2>6, <2>7
  <2>9. TrieBefore(m, y) => \A x \in U : x = y \/ TrieBefore(x, y)
    BY <2>2, <2>3, <2>8, TrieOrder
  <2>10. TrieBefore(y, m) => \A x \in U : x = m \/ TrieBefore(x, m)
    BY <2>8
  <2>11. TrieBefore(m, y) \/ TrieBefore(y, m)
    BY <2>2, <2>3, <2>8, TrieOrder
  <2> QED  BY <2>2, <2>3, <2>8, <2>9, <2>10, <2>11
<1>3. Cardinality(T) \in Nat /\ Cardinality(T) \notin Bad
  BY <1>1, <1>2
<1> QED  BY <1>3

(* Every set of items can be listed in order. *)
LEMMA RowsCanBeListed ==
  ASSUME IInv, NEW T \in SUBSET Items
  PROVE  \E s \in [1..Cardinality(T) -> T] : \A i, k \in DOMAIN s : i < k => TrieBefore(s[i], s[k])
<1> DEFINE Lists(U, s) == /\ s \in [1..Cardinality(U) -> U]
                          /\ \A i, k \in DOMAIN s : i < k => TrieBefore(s[i], s[k])
           Bad == {n \in Nat : \E U \in SUBSET Items : Cardinality(U) = n /\ ~\E s : Lists(U, s)}
<1>1. \A U \in SUBSET Items : IsFiniteSet(U) /\ Cardinality(U) \in Nat
  BY ItemAssumption, FS_Subset, FS_CardinalityType
<1>2. Bad = {}
  <2> SUFFICES ASSUME Bad # {}  PROVE FALSE
    OBVIOUS
  <2>1. PICK n \in Bad : \A k \in Bad : n <= k
    BY Least
  <2>2. PICK U \in SUBSET Items : Cardinality(U) = n /\ ~\E s : Lists(U, s)
    OBVIOUS
  <2>3. CASE U = {}
    <3>1. Cardinality(U) = 0
      BY <2>3, FS_EmptySet
    <3>2. Lists(U, [i \in 1..0 |-> 0])
      BY <2>3, <3>1
    <3> QED  BY <2>2, <3>2
  <2>4. CASE U # {}
    <3>1. PICK m \in U : \A x \in U : x = m \/ TrieBefore(x, m)
      BY <2>4, LastRow
    <3> DEFINE V == U \ {m}
    <3>2. Cardinality(V) = n - 1 /\ n - 1 \in Nat /\ V \in SUBSET Items
      <4>1. Cardinality(V) = n - 1 /\ V \in SUBSET Items
        BY <1>1, <2>2, <3>1, FS_RemoveElement
      <4> QED  BY <1>1, <4>1
    <3>3. n - 1 \notin Bad
      BY <2>1, <3>2
    <3>4. PICK s : Lists(V, s)
      BY <3>2, <3>3
    <3> DEFINE t == [i \in 1..n |-> IF i = n THEN m ELSE s[i]]
    <3>5. s \in [1..n - 1 -> V] /\ \A i, k \in 1..n - 1 : i < k => TrieBefore(s[i], s[k])
      BY <3>2, <3>4
    <3>6. \A i \in 1..n : i # n => i \in 1..n - 1 /\ t[i] = s[i] /\ s[i] \in V
      BY <3>2, <3>5
    <3>7. n \in Nat /\ (n \in 1..n => t[n] = m)
      BY <3>2
    <3> HIDE DEF Lists
    <3>8. t \in [1..n -> U]
      BY <3>1, <3>6
    <3>9. ASSUME NEW i \in 1..n, NEW k \in 1..n, i < k  PROVE TrieBefore(t[i], t[k])
      <4>1. i # n /\ i \in 1..n - 1 /\ t[i] = s[i] /\ s[i] \in V
        BY <3>6, <3>7, <3>9
      <4>2. CASE k = n
        <5>1. s[i] \in U /\ s[i] # m /\ t[k] = m
          BY <3>7, <4>1, <4>2
        <5> QED  BY <3>1, <4>1, <5>1
      <4>3. CASE k # n
        <5>1. k \in 1..n - 1 /\ t[k] = s[k]
          BY <3>6, <4>3
        <5> QED  BY <3>5, <3>9, <4>1, <5>1
      <4> QED  BY <4>2, <4>3
    <3>10. Lists(U, t)
      <4> HIDE DEF t
      <4> QED  BY <2>2, <3>8, <3>9 DEF Lists
    <3> QED  BY <2>2, <3>10
  <2> QED  BY <2>3, <2>4
<1>3. Cardinality(T) \in Nat /\ Cardinality(T) \notin Bad
  BY <1>1, <1>2
<1> QED  BY <1>3

(* ItemsUnder lists each of its items once. *)
LEMMA ItemsUnderLists ==
  ASSUME IInv, NEW tokens
  PROVE  LET rows == ItemsUnder(tokens)
             under == RowsUnder(tokens)
         IN  /\ Cardinality(under) \in Nat /\ rows \in [1..Cardinality(under) -> under]
             /\ IsInjective(rows)
<1> DEFINE under == RowsUnder(tokens)
           rows == ItemsUnder(tokens)
<1>1. under \in SUBSET Items
  BY DEF RowsUnder
<1>2. Cardinality(under) \in Nat
  BY <1>1, ItemAssumption, FS_Subset, FS_CardinalityType
<1>3. \E s \in [1..Cardinality(under) -> under] : \A i, k \in DOMAIN s : i < k => TrieBefore(s[i], s[k])
  BY <1>1, RowsCanBeListed
<1>4. /\ rows \in [1..Cardinality(under) -> under]
      /\ \A i, k \in DOMAIN rows : i < k => TrieBefore(rows[i], rows[k])
  BY <1>3 DEF ItemsUnder, TrieBefore
<1> HIDE DEF rows, under
<1>5. ASSUME NEW i \in DOMAIN rows, NEW k \in DOMAIN rows, rows[i] = rows[k]  PROVE i = k
  <2>1. i \in Int /\ k \in Int /\ rows[i] \in Items /\ rows[k] \in Items
    BY <1>1, <1>2, <1>4
  <2>2. ~(i < k) /\ ~(k < i)
    BY <1>4, <1>5, <2>1, TrieOrder
  <2> QED  BY <2>1, <2>2
<1>6. IsInjective(rows)
  BY <1>5 DEF IsInjective
<1> QED  BY <1>2, <1>4, <1>6 DEF rows, under

-----------------------------------------------------------------------------
(* One sequence after the other. *)

(* The sequences that FlattenSeq puts together one by one. *)
Flattens(f, seqs, n) ==
  /\ \A k \in 1..n : f[k] \in Seq(Items)
  /\ f[1] = seqs[1] /\ \A k \in 2..n : f[k] = f[k - 1] \o seqs[k]

(* FlattenSeq gives the last of them. *)
LEMMA FlattenIsLast ==
  ASSUME NEW n \in Nat, n >= 1, NEW seqs \in [1..n -> Seq(Items)]
  PROVE  \E f : Flattens(f, seqs, n) /\ FlattenSeq(seqs) = f[n]
<1> DEFINE S == Seq(Items)
           step == [k \in 1..n |-> [v \in S |-> v \o seqs[k]]]
           Is(g) == g = [k \in 1..n |-> IF k = 1 THEN seqs[k] ELSE g[k - 1] \o seqs[k]]
           flatten == CHOOSE g : Is(g)
<1>1. \A k \in 1..n : \A v \in S : step[k][v] = v \o seqs[k]
  OBVIOUS
<1>2. /\ <<>> \in S /\ \A v \in S : <<>> \o v = v
      /\ \A k \in 1..n : seqs[k] \in S
      /\ \A v \in S, k \in 1..n : v \o seqs[k] \in S
  OBVIOUS
<1>3. /\ Len(seqs) = n /\ n \in Nat /\ 1 \in 1..n
      /\ \A k \in 1..n : k \in 0..n /\ k # 0
      /\ \A k \in 1..n : k # 1 => k \in 2..n /\ k - 1 \in 1..n
      /\ \A k \in 2..n : k \in 1..n /\ k # 1 /\ k - 1 \in 1..n
  OBVIOUS
<1> HIDE DEF step, S
<1>4. PICK f : Unfolds(f, n, <<>>, step)
  BY UnfoldingExists
<1>5. f[0] = <<>> /\ \A k \in 1..n : f[k - 1] \in S => f[k] = f[k - 1] \o seqs[k]
  <2>1. \A k \in 0..n : f[k] = IF k = 0 THEN <<>> ELSE step[k][f[k - 1]]
    BY <1>4 DEF Unfolds
  <2>2. f[0] = <<>>
    BY <1>3, <2>1
  <2>3. \A k \in 1..n : f[k] = step[k][f[k - 1]]
    BY <1>3, <2>1
  <2> QED  BY <1>1, <2>2, <2>3
<1>6. \A k \in 0..n : f[k] \in S
  <2>1. f[0] \in S /\ \A k \in 1..n : f[k - 1] \in S => f[k] \in S
    BY <1>2, <1>5
  <2> QED  BY <1>3, <2>1, UnfoldingIn
<1>7. \E g : Is(g)
  <2> DEFINE g == [k \in 1..n |-> f[k]]
  <2>1. f[1] = seqs[1]
    <3>1. 1 - 1 = 0
      OBVIOUS
    <3>2. f[1] = f[0] \o seqs[1]
      BY <1>2, <1>3, <1>5, <3>1
    <3> QED  BY <1>2, <1>3, <1>5, <3>2
  <2>2. ASSUME NEW k \in 1..n, k # 1  PROVE g[k] = g[k - 1] \o seqs[k]
    <3>1. k - 1 \in 1..n /\ k - 1 \in 0..n
      BY <1>3, <2>2
    <3>2. f[k] = f[k - 1] \o seqs[k]
      BY <1>5, <1>6, <3>1
    <3> QED  BY <3>1, <3>2
  <2>3. \A k \in 1..n : g[k] = IF k = 1 THEN seqs[k] ELSE g[k - 1] \o seqs[k]
    BY <2>1, <2>2
  <2>4. Is(g)
    BY <2>3
  <2> HIDE DEF g, Is
  <2> QED  BY <2>4
<1>8. Is(flatten)
  <2> HIDE DEF Is
  <2> QED  BY <1>7
<1>9. FlattenSeq(seqs) = flatten[n]
  BY <1>3 DEF FlattenSeq
<1> HIDE DEF flatten
<1>10. flatten[1] = seqs[1] /\ \A k \in 2..n : flatten[k] = flatten[k - 1] \o seqs[k]
  <2>1. \A k \in 1..n : flatten[k] = IF k = 1 THEN seqs[k] ELSE flatten[k - 1] \o seqs[k]
    BY <1>8
  <2> QED  BY <1>3, <2>1
<1>11. \A k \in 1..n : flatten[k] \in S
  <2> DEFINE h == [k \in 0..n |-> IF k = 0 THEN <<>> ELSE flatten[k]]
  <2>1. h[0] \in S
    BY <1>2
  <2>2. ASSUME NEW k \in 1..n, h[k - 1] \in S  PROVE h[k] \in S
    <3>1. CASE k = 1
      BY <1>2, <1>3, <1>10, <3>1
    <3>2. CASE k # 1
      <4>1. k \in 2..n /\ h[k - 1] = flatten[k - 1] /\ h[k] = flatten[k]
        BY <1>3, <3>2
      <4> QED  BY <1>2, <1>10, <2>2, <4>1
    <3> QED  BY <3>1, <3>2
  <2>3. \A k \in 0..n : h[k] \in S
    <3> HIDE DEF h
    <3> QED  BY <1>3, <2>1, <2>2, UnfoldingIn
  <2> QED  BY <2>3
<1> QED  BY <1>9, <1>10, <1>11 DEF Flattens, S

(* Sequences that repeat nothing and share nothing give one that repeats    *)
(* nothing. *)
LEMMA FlattenRepeatsNothing ==
  ASSUME NEW n \in Nat, n >= 1, NEW seqs \in [1..n -> Seq(Items)],
         \A b \in 1..n : IsInjective(seqs[b]),
         \A b, c \in 1..n : b # c =>
           \A i \in DOMAIN seqs[b], k \in DOMAIN seqs[c] : seqs[b][i] # seqs[c][k]
  PROVE  IsInjective(FlattenSeq(seqs))
<1>1. PICK f : Flattens(f, seqs, n) /\ FlattenSeq(seqs) = f[n]
  BY FlattenIsLast
<1> DEFINE Good(k) == /\ IsInjective(f[k])
                      /\ \A i \in DOMAIN f[k] : \E b \in 1..k : \E j \in DOMAIN seqs[b] : f[k][i] = seqs[b][j]
           Bad == {k \in 1..n : ~Good(k)}
<1>2. Bad = {}
  <2> SUFFICES ASSUME Bad # {}  PROVE FALSE
    OBVIOUS
  <2>1. Bad \in SUBSET Nat
    OBVIOUS
  <2>2. PICK k \in Bad : \A l \in Bad : k <= l
    BY <2>1, Least
  <2>3. k # 1
    <3>1. f[1] = seqs[1] /\ 1 \in 1..1 /\ 1 \in 1..n
      BY <1>1 DEF Flattens
    <3>2. IsInjective(f[1])
      BY <3>1
    <3>3. \A i \in DOMAIN f[1] : \E b \in 1..1 : \E j \in DOMAIN seqs[b] : f[1][i] = seqs[b][j]
      BY <3>1
    <3> QED  BY <3>2, <3>3
  <2>4. k \in 2..n /\ k \in 1..n /\ k - 1 \in 1..n /\ k - 1 \notin Bad
    <3>1. k \in 1..n
      OBVIOUS
    <3>2. k \in Nat /\ k \in 2..n /\ k - 1 \in 1..n /\ ~(k <= k - 1)
      BY <2>3, <3>1
    <3> HIDE DEF Bad
    <3> QED  BY <2>2, <3>1, <3>2
  <2> DEFINE s == f[k - 1]
             t == seqs[k]
             m == Len(s)
  <2>5. f[k] = s \o t /\ s \in Seq(Items) /\ t \in Seq(Items)
    BY <1>1, <2>4 DEF Flattens
  <2>6. Good(k - 1)
    BY <2>4
  <2>7. IsInjective(s) /\ \A i \in DOMAIN s : \E b \in 1..k - 1 : \E j \in DOMAIN seqs[b] : s[i] = seqs[b][j]
    BY <2>6
  <2>8. /\ DOMAIN s = 1..m /\ m \in Nat /\ DOMAIN t = 1..Len(t) /\ Len(t) \in Nat
        /\ DOMAIN f[k] = 1..m + Len(t)
        /\ \A i \in 1..m + Len(t) : f[k][i] = IF i <= m THEN s[i] ELSE t[i - m]
    <3> HIDE DEF s, t
    <3>1. /\ s \o t \in Seq(Items) /\ Len(s \o t) = Len(s) + Len(t)
          /\ \A i \in 1..Len(s) + Len(t) : (s \o t)[i] = IF i <= Len(s) THEN s[i] ELSE t[i - Len(s)]
      BY <2>5, ConcatProperties
    <3>2. DOMAIN s = 1..Len(s) /\ Len(s) \in Nat /\ DOMAIN t = 1..Len(t) /\ Len(t) \in Nat
      BY <2>5, LenProperties
    <3>3. DOMAIN (s \o t) = 1..Len(s) + Len(t)
      BY <3>1, LenProperties
    <3> QED  BY <2>5, <3>1, <3>2, <3>3
  <2>9. IsInjective(t)
    BY <2>4
  <2>10. \A i \in DOMAIN s, j \in DOMAIN t : s[i] # t[j]
    <3> SUFFICES ASSUME NEW i \in DOMAIN s, NEW j \in DOMAIN t  PROVE s[i] # t[j]
      OBVIOUS
    <3>1. PICK b \in 1..k - 1 : \E l \in DOMAIN seqs[b] : s[i] = seqs[b][l]
      BY <2>7
    <3>2. b \in 1..n /\ k \in 1..n /\ b # k
      BY <2>4
    <3> QED  BY <3>1, <3>2
  <2> HIDE DEF s, t, m
  <2>11. ASSUME NEW i \in DOMAIN f[k], NEW j \in DOMAIN f[k], f[k][i] = f[k][j]  PROVE i = j
    <3>1. i \in 1..m + Len(t) /\ j \in 1..m + Len(t)
      BY <2>8
    <3>2. \A l \in 1..m + Len(t) : IF l <= m THEN l \in DOMAIN s /\ f[k][l] = s[l]
                                   ELSE l - m \in DOMAIN t /\ f[k][l] = t[l - m]
      BY <2>8
    <3>3. CASE i <= m /\ j <= m
      BY <2>7, <2>11, <3>1, <3>2, <3>3 DEF IsInjective
    <3>4. CASE ~(i <= m) /\ ~(j <= m)
      <4>1. i - m = j - m
        BY <2>9, <2>11, <3>1, <3>2, <3>4 DEF IsInjective
      <4> QED  BY <2>8, <3>1, <4>1
    <3>5. CASE i <= m /\ ~(j <= m)
      BY <2>10, <2>11, <3>1, <3>2, <3>5
    <3>6. CASE ~(i <= m) /\ j <= m
      BY <2>10, <2>11, <3>1, <3>2, <3>6
    <3> QED  BY <3>3, <3>4, <3>5, <3>6
  <2>12. ASSUME NEW i \in DOMAIN f[k]
         PROVE  \E b \in 1..k : \E j \in DOMAIN seqs[b] : f[k][i] = seqs[b][j]
    <3>1. CASE i <= m
      <4>1. i \in DOMAIN s /\ f[k][i] = s[i]
        BY <2>8, <3>1
      <4>2. \A b \in 1..k - 1 : b \in 1..k
        BY <2>4
      <4> QED  BY <2>7, <4>1, <4>2
    <3>2. CASE ~(i <= m)
      <4>1. i - m \in DOMAIN t /\ f[k][i] = t[i - m]
        BY <2>8, <3>2
      <4>2. k \in 1..k
        BY <2>4
      <4> QED  BY <4>1, <4>2 DEF t
    <3> QED  BY <3>1, <3>2
  <2>13. Good(k)
    BY <2>11, <2>12 DEF IsInjective
  <2> QED  BY <2>2, <2>13
<1>3. n \in 1..n
  OBVIOUS
<1> QED  BY <1>1, <1>2, <1>3

(* Some sequences of one item, and else empty ones. *)
LEMMA FlattenCounts ==
  ASSUME NEW n \in Nat, n >= 1, NEW seqs \in [1..n -> Seq(Items)], NEW L \in SUBSET (1..n),
         \A b \in 1..n : Len(seqs[b]) = IF b \in L THEN 1 ELSE 0
  PROVE  Len(FlattenSeq(seqs)) = Cardinality(L)
<1>1. PICK f : Flattens(f, seqs, n) /\ FlattenSeq(seqs) = f[n]
  BY FlattenIsLast
<1> DEFINE upTo(k) == {b \in L : b <= k}
           Bad == {k \in 1..n : Len(f[k]) # Cardinality(upTo(k))}
<1>2. \A k \in 1..n : IsFiniteSet(upTo(k)) /\ Cardinality(upTo(k)) \in Nat
  <2> SUFFICES ASSUME NEW k \in 1..n  PROVE IsFiniteSet(upTo(k)) /\ Cardinality(upTo(k)) \in Nat
    OBVIOUS
  <2>1. IsFiniteSet(1..n)
    BY FS_Interval
  <2>2. upTo(k) \in SUBSET (1..n)
    OBVIOUS
  <2> HIDE DEF upTo
  <2> QED  BY <2>1, <2>2, FS_Subset, FS_CardinalityType
<1>3. Bad = {}
  <2> SUFFICES ASSUME Bad # {}  PROVE FALSE
    OBVIOUS
  <2>1. Bad \in SUBSET Nat
    OBVIOUS
  <2>2. PICK k \in Bad : \A l \in Bad : k <= l
    BY <2>1, Least
  <2>3. k # 1
    <3>1. f[1] = seqs[1] /\ 1 \in 1..n
      BY <1>1 DEF Flattens
    <3>2. upTo(1) = IF 1 \in L THEN {1} ELSE {}
      <4>1. \A b \in L : b <= 1 <=> b = 1
        OBVIOUS
      <4> QED  BY <4>1
    <3>3. Cardinality(upTo(1)) = IF 1 \in L THEN 1 ELSE 0
      <4> HIDE DEF upTo
      <4> QED  BY <3>2, FS_Singleton, FS_EmptySet
    <3>4. Len(f[1]) = IF 1 \in L THEN 1 ELSE 0
      BY <3>1
    <3> HIDE DEF upTo
    <3> QED  BY <3>3, <3>4
  <2>4. k \in 2..n /\ k \in 1..n /\ k - 1 \in 1..n /\ k - 1 \notin Bad
    <3>1. k \in 1..n
      OBVIOUS
    <3>2. k \in Nat /\ k \in 2..n /\ k - 1 \in 1..n /\ ~(k <= k - 1)
      BY <2>3, <3>1
    <3> HIDE DEF Bad
    <3> QED  BY <2>2, <3>1, <3>2
  <2>5. Len(f[k]) = Len(f[k - 1]) + Len(seqs[k])
    <3> DEFINE s == f[k - 1]
               t == seqs[k]
    <3>1. f[k] = s \o t /\ s \in Seq(Items) /\ t \in Seq(Items)
      BY <1>1, <2>4 DEF Flattens
    <3> HIDE DEF s, t
    <3>2. Len(f[k]) = Len(s) + Len(t)
      BY <3>1, ConcatProperties
    <3> QED  BY <3>2 DEF s, t
  <2>6. Len(f[k - 1]) = Cardinality(upTo(k - 1))
    BY <2>4
  <2>7. IF k \in L THEN upTo(k) = upTo(k - 1) \cup {k} /\ k \notin upTo(k - 1) ELSE upTo(k) = upTo(k - 1)
    <3>1. \A b \in L : b <= k <=> b <= k - 1 \/ b = k
      BY <2>4
    <3>2. ~(k <= k - 1)
      BY <2>4
    <3>3. upTo(k) = upTo(k - 1) \cup {b \in L : b = k}
      BY <3>1
    <3>4. k \notin upTo(k - 1)
      BY <3>2
    <3>5. {b \in L : b = k} = IF k \in L THEN {k} ELSE {}
      OBVIOUS
    <3> HIDE DEF upTo
    <3> QED  BY <3>3, <3>4, <3>5
  <2> HIDE DEF upTo
  <2>8. Cardinality(upTo(k)) = Cardinality(upTo(k - 1)) + (IF k \in L THEN 1 ELSE 0)
    <3>1. CASE k \in L
      BY <1>2, <2>4, <2>7, <3>1, FS_AddElement
    <3>2. CASE k \notin L
      BY <1>2, <2>4, <2>7, <3>2
    <3> QED  BY <3>1, <3>2
  <2>9. Len(seqs[k]) = IF k \in L THEN 1 ELSE 0
    BY <2>4
  <2>10. Len(f[k]) = Cardinality(upTo(k))
    BY <2>5, <2>6, <2>8, <2>9
  <2> QED  BY <2>2, <2>10
<1>4. n \in 1..n /\ upTo(n) = L
  <2>1. n \in 1..n
    OBVIOUS
  <2>2. \A b \in 1..n : b <= n
    OBVIOUS
  <2>3. \A b \in L : b <= n
    BY <2>2
  <2>4. upTo(n) = L
    BY <2>3
  <2> QED  BY <2>1, <2>4
<1> QED  BY <1>1, <1>3, <1>4

-----------------------------------------------------------------------------
(* Beams that spell different tokens list different items. *)
LEMMA InvIsRanksCountItems == IInv => RanksCountItems
<1> SUFFICES ASSUME IInv  PROVE RanksCountItems
  OBVIOUS
<1> DEFINE seqs == [b \in 1..width |-> ItemsUnder(Generated(b))]
           under(b) == RowsUnder(Generated(b))
<1>1. /\ CatalogOK /\ BeamsOK /\ BeamsSpell /\ width \in Nat \ {0} /\ Depth \in Nat
      /\ NumLevels \in Nat /\ LiveBeams \subseteq 1..width
  BY CatalogValues, BeamValues DEF IInv
<1>2. ASSUME NEW b \in 1..width
      PROVE  /\ Cardinality(under(b)) \in Nat /\ seqs[b] \in [1..Cardinality(under(b)) -> under(b)]
             /\ IsInjective(seqs[b]) /\ under(b) \subseteq Items
  <2>1. under(b) \subseteq Items
    BY DEF RowsUnder
  <2> QED  BY <2>1, ItemsUnderLists
<1>3. Listed = FlattenSeq(seqs)
  BY DEF Listed
<1> HIDE DEF seqs
<1>4. ASSUME NEW b \in 1..width
      PROVE  /\ seqs[b] \in Seq(Items) /\ Len(seqs[b]) = Cardinality(under(b))
             /\ \A i \in DOMAIN seqs[b] : seqs[b][i] \in under(b)
  <2> DEFINE m == Cardinality(under(b))
             s == seqs[b]
  <2>1. m \in Nat /\ s \in [1..m -> under(b)] /\ under(b) \subseteq Items
    BY <1>2
  <2> HIDE DEF m, s, under
  <2>2. s \in [1..m -> Items]
    BY <2>1
  <2> QED  BY <2>1, <2>2 DEF s, m
<1>5. seqs \in [1..width -> Seq(Items)]
  <2>1. seqs = [b \in 1..width |-> seqs[b]]
    BY DEF seqs
  <2> QED  BY <1>4, <2>1
<1>6. width \in Nat /\ width >= 1
  BY <1>1
<1>7. ASSUME Depth > 0  PROVE IsInjective(Listed)
  <2>1. ASSUME NEW b \in 1..width, NEW c \in 1..width, b # c,
               NEW i \in DOMAIN seqs[b], NEW k \in DOMAIN seqs[c], seqs[b][i] = seqs[c][k]
        PROVE  FALSE
    <3> DEFINE x == seqs[b][i]
    <3>1. x \in under(b) /\ x \in under(c)
      BY <1>4, <2>1
    <3>2. b \in LiveBeams /\ c \in LiveBeams /\ x \in Items /\ Spells(b, x) /\ Spells(c, x)
      BY <1>7, <3>1, RowsOfBeam
    <3>3. ASSUME NEW l \in 1..Depth  PROVE beams[b].tokens[l] = beams[c].tokens[l]
      <4>1. beams[b].tokens[l] - LevelOffset(l - 1) = beams[c].tokens[l] - LevelOffset(l - 1)
        BY <3>2 DEF Spells
      <4>2. beams[b].tokens[l] \in Int /\ beams[c].tokens[l] \in Int
        BY <1>1, <3>2, BeamValues
      <4>3. LevelOffset(l - 1) \in Nat
        <5>1. Depth <= NumLevels /\ \A k2 \in 1..NumLevels : catalog.perLevel[k2] \in Nat
          BY <1>1, CatalogValues DEF BeamsOK
        <5>2. l - 1 \in Nat /\ \A k2 \in 1..l - 1 : k2 \in 1..NumLevels
          BY <1>1, <5>1
        <5> QED  BY <5>1, <5>2, LevelOffsetNat
      <4> QED  BY <4>1, <4>2, <4>3
    <3> QED  BY <1>1, <2>1, <3>2, <3>3 DEF BeamsSpell
  <2>2. \A b, c \in 1..width : b # c =>
          \A i \in DOMAIN seqs[b], k \in DOMAIN seqs[c] : seqs[b][i] # seqs[c][k]
    BY <2>1
  <2>3. \A b \in 1..width : IsInjective(seqs[b])
    BY <1>2
  <2> QED  BY <1>3, <1>5, <1>6, <2>2, <2>3, FlattenRepeatsNothing
<1>8. ASSUME Depth = NumLevels, NumLevels > Levels  PROVE Len(Listed) = Cardinality(LiveBeams)
  <2>1. Depth > 0
    BY <1>1, <1>8, CodeAssumption
  <2>2. ASSUME NEW b \in 1..width  PROVE Len(seqs[b]) = IF b \in LiveBeams THEN 1 ELSE 0
    <3>1. CASE b \in LiveBeams
      <4>1. under(b) = {i \in Items : Spells(b, i)}
        BY <2>1, <3>1, RowsOfBeam
      <4>2. PICK i \in Items : Spells(b, i)
        BY <1>1, <3>1 DEF BeamsSpell
      <4>3. ASSUME NEW j \in Items, Spells(b, j)  PROVE j = i
        <5>1. \A l \in 1..NumLevels : catalog.codes[i][l] = catalog.codes[j][l]
          BY <1>8, <4>2, <4>3 DEF Spells
        <5> QED  BY <1>1, <1>8, <5>1 DEF CatalogOK
      <4>4. under(b) = {i}
        BY <4>1, <4>2, <4>3
      <4> HIDE DEF under
      <4>5. Cardinality(under(b)) = 1
        BY <4>4, FS_Singleton
      <4> QED  BY <1>4, <3>1, <4>5
    <3>2. CASE b \notin LiveBeams
      <4>1. under(b) = {}
        BY <2>1, <3>2, RowsOfBeam
      <4> HIDE DEF under
      <4>2. Cardinality(under(b)) = 0
        BY <4>1, FS_EmptySet
      <4> QED  BY <1>4, <3>2, <4>2
    <3> QED  BY <3>1, <3>2
  <2>3. LiveBeams \in SUBSET (1..width)
    BY <1>1
  <2>4. \A b \in 1..width : Len(seqs[b]) = IF b \in LiveBeams THEN 1 ELSE 0
    BY <2>2
  <2>5. Len(FlattenSeq(seqs)) = Cardinality(LiveBeams)
    BY <1>5, <1>6, <2>3, <2>4, FlattenCounts
  <2> QED  BY <1>3, <2>5
<1> QED  BY <1>7, <1>8 DEF RanksCountItems

(* The rank of an answer counts items: the beams list no item twice, and    *)
(* with a collision suffix each whole beam lists one (items_under,          *)
(* _match_positions). *)
THEOREM RanksCorrect == DecodeSpec => []RanksCountItems
BY DecodingInvariantCorrect, InvIsRanksCountItems, PTL
================================================================================
