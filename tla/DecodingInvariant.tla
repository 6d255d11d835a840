-------------------------- MODULE DecodingInvariant --------------------------
(***************************************************************************)
(* The inductive invariant of Decoding that DecodingProofs proves.         *)
(***************************************************************************)
EXTENDS Decoding

(* The asserts of SemanticCodes: a code is within its level. The collision  *)
(* suffix is a level that separates items.                                  *)
CatalogOK ==
  /\ catalog \in [codes : [Items -> Seq(Nat)], perLevel : Seq(Nat \ {0})]
  /\ \A i \in Items : /\ Len(catalog.codes[i]) = NumLevels
                      /\ \A l \in 1..NumLevels : catalog.codes[i][l] < catalog.perLevel[l]
  /\ NumLevels > Levels => \A i, j \in Items :
       (\A l \in 1..NumLevels : catalog.codes[i][l] = catalog.codes[j][l]) => i = j

BeamsOK ==
  /\ width \in Nat \ {0}
  /\ beams \in [1..width -> [tokens : Seq(Int), live : BOOLEAN]]
  /\ Depth <= NumLevels /\ \A b \in 1..width : Len(beams[b].tokens) = Depth

(* The beam is the beginning of the item. *)
Spells(b, i) ==
  \A l \in 1..Depth : beams[b].tokens[l] - LevelOffset(l - 1) = catalog.codes[i][l]

(* Every live beam is the beginning of an item, no two are the same, and    *)
(* one is dead only when each beginning has its beam.                       *)
BeamsSpell ==
  /\ \A b \in LiveBeams : \E i \in Items : Spells(b, i)
  /\ \A b, c \in LiveBeams :
       (\A l \in 1..Depth : beams[b].tokens[l] = beams[c].tokens[l]) => b = c
  /\ LiveBeams # 1..width => \A i \in Items : \E b \in LiveBeams : Spells(b, i)

IInv == CatalogOK /\ BeamsOK /\ BeamsSpell
=============================================================================
