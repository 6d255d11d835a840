------------------------------ MODULE Decoding ------------------------------
(***************************************************************************)
(* Generating items code by code: SemanticCodes and CodeTrie of            *)
(* src/dcn/semantic, the beam search of TokenDecoder.generate under        *)
(* SemanticIdConstraint (src/dcn/models), and the rank of the answer that  *)
(* src/dcn/eval/generation.py reports.                                     *)
(*                                                                         *)
(* One sequence of a batch is decoded.  The network is abstracted to its   *)
(* order of the candidates: a score is either finite, and then any order   *)
(* may result, or -inf.  A prefix of codes is one integer, its key, as in  *)
(* the trie.                                                               *)
(***************************************************************************)
EXTENDS Integers, FiniteSets, SequencesExt, FiniteSetsExt

CONSTANTS
  Items,       \* the rows of the catalog, 1..n
  Levels,      \* the codes of an item, without the collision suffix
  NumCodes,    \* the codes of a level
  BeamWidths

ASSUME ItemAssumption == IsFiniteSet(Items) /\ Items # {} /\ Items = 1..Cardinality(Items)
ASSUME CodeAssumption == Levels \in Nat \ {0} /\ NumCodes \in Nat \ {0}
ASSUME WidthAssumption == \A w \in BeamWidths : w \in Nat \ {0}

VARIABLES
  catalog,  \* [codes, perLevel]: the code tuple of each item, the width of each level
  width,    \* beam_width
  beams     \* the beams, best first: [tokens, live], live when the score is finite

decodeVars == <<catalog, width, beams>>

-----------------------------------------------------------------------------
(* The catalog. *)

(* The rank of an item in its group in the stable sort, counted from 1.     *)
Suffix(base, i) == Cardinality({j \in Items : j <= i /\ base[j] = base[i]})

WithoutCollisionSuffix(base) == [codes |-> base, perLevel |-> [l \in 1..Levels |-> NumCodes]]
WithCollisionSuffix(base) ==
  [codes |-> [i \in Items |-> Append(base[i], Suffix(base, i))],
   perLevel |-> Append([l \in 1..Levels |-> NumCodes], 1 + Max({Suffix(base, i) : i \in Items}))]

DecodeInit ==
  /\ \E base \in [Items -> [1..Levels -> 0..NumCodes - 1]] :
       catalog \in {WithoutCollisionSuffix(base), WithCollisionSuffix(base)}
  /\ width \in BeamWidths
  /\ beams = [b \in 1..width |-> [tokens |-> <<>>, live |-> b = 1]]

-----------------------------------------------------------------------------
(* The vocabulary: padding, beginning, then the codes of each level. *)

PaddingToken == 0
NumLevels == Len(catalog.perLevel)
LevelOffset(slot) ==
  LET first[l \in 0..slot] == IF l = 0 THEN 2 ELSE first[l - 1] + catalog.perLevel[l]
  IN  first[slot]
CodesOf(tokens) == [l \in DOMAIN tokens |-> tokens[l] - LevelOffset(l - 1)]

(* The trie. *)

(* Mutant: the codes are added up. *)
KeyOfSum(codes, length) == FoldLeft(+, 0, SubSeq(codes, 1, length))
Key(codes, length) ==
  LET key[l \in 0..length] == IF l = 0 THEN 0 ELSE key[l - 1] * catalog.perLevel[l] + codes[l]
  IN  key[length]

AllowedCodes(slot, codes) ==
  {catalog.codes[i][slot + 1] : i \in {j \in Items : Key(catalog.codes[j], slot) = Key(codes, slot)}}
NextTokens(slot, tokens) == {LevelOffset(slot) + c : c \in AllowedCodes(slot, CodesOf(tokens))}

(* Every item whose codes start with the prefix, in the order of the trie.  *)
FullKey(i) == Key(catalog.codes[i], NumLevels)
Below(depth) ==
  LET product[l \in depth..NumLevels] ==
        IF l = depth THEN 1 ELSE product[l - 1] * catalog.perLevel[l]
  IN  product[NumLevels]
RowsUnder(tokens) ==
  {i \in Items : FullKey(i) \div Below(Len(tokens)) = Key(CodesOf(tokens), Len(tokens))}
ItemsUnder(tokens) ==
  CHOOSE rows \in [1..Cardinality(RowsUnder(tokens)) -> RowsUnder(tokens)] :
    \A r, s \in DOMAIN rows : r < s =>
      \/ FullKey(rows[r]) < FullKey(rows[s])
      \/ FullKey(rows[r]) = FullKey(rows[s]) /\ rows[r] < rows[s]

-----------------------------------------------------------------------------
(* Beam search. *)

Depth == Len(beams[1].tokens)
LiveBeams == {b \in DOMAIN beams : beams[b].live}

(* topk: the finite candidates in some order, and when they do not suffice  *)
(* any of the others, which stay at -inf.                                   *)
Candidates == UNION {{<<b, t>> : t \in NextTokens(Depth, beams[b].tokens)} : b \in LiveBeams}
Grown(choice) == Append(beams[choice[1]].tokens, choice[2])

(* Bound: what the dead beams grow by, a token outside the level or its     *)
(* first one, which may well be allowed.                                    *)
DeadTokens == {PaddingToken, LevelOffset(Depth)}

Generate ==
  /\ Depth < NumLevels
  /\ LET count == Min({width, Cardinality(Candidates)}) IN
     \E best \in [1..count -> Candidates] : IsInjective(best) /\
     \E source \in 1..width, token \in DeadTokens :
       /\ count < width => <<source, token>> \notin Candidates
       /\ beams' = [b \in 1..width |->
            IF b <= count THEN [tokens |-> Grown(best[b]), live |-> TRUE]
            ELSE [tokens |-> Grown(<<source, token>>), live |-> FALSE]]
  /\ UNCHANGED <<catalog, width>>

DecodeSpec == DecodeInit /\ [][Generate]_decodeVars

(* What generate returns: a beam that is dead is masked.                    *)
(* Mutant: it is not. *)
GeneratedUnmasked(b) == beams[b].tokens
Generated(b) == IF beams[b].live THEN beams[b].tokens ELSE [l \in 1..Depth |-> -1]

-----------------------------------------------------------------------------
(* Properties. *)

ItemPrefixes(depth) == {SubSeq(catalog.codes[i], 1, depth) : i \in Items}

(* Every finite beam is the beginning of a real item, no two are the same,  *)
(* and as long as there are more beams than beginnings none is missing: a   *)
(* beam never runs into a dead end, and with enough beams every item is     *)
(* found.                                                                   *)
BeamsAreItems ==
  LET found == {CodesOf(beams[b].tokens) : b \in LiveBeams} IN
  /\ Cardinality(found) = Cardinality(LiveBeams)
  /\ found \subseteq ItemPrefixes(Depth)
  /\ Cardinality(LiveBeams) < width => found = ItemPrefixes(Depth)

(* _match_positions: the items of the beams in their order. *)
Listed == FlattenSeq([b \in 1..width |-> ItemsUnder(Generated(b))])

(* The rank of an answer counts items: the beams list no item twice, and    *)
(* with a collision suffix the beams of whole tuples list one each, so that *)
(* recall@k and sid_recall@k agree.                                         *)
RanksCountItems ==
  /\ Depth > 0 => IsInjective(Listed)
  /\ Depth = NumLevels /\ NumLevels > Levels => Len(Listed) = Cardinality(LiveBeams)
=============================================================================
