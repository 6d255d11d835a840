------------------------ MODULE CheckpointsInvariant ------------------------
(***************************************************************************)
(* The inductive invariant of Checkpoints that CheckpointsProofs proves:   *)
(* what is in memory and in every whole file is what an uninterrupted run  *)
(* would hold, which epoch's file is certain to be whole at each step of   *)
(* the process, and what the metadata of "best" has in common with         *)
(* BestWeights before the first kill or rerun.                             *)
(***************************************************************************)
EXTENDS Checkpoints

Values == Scores \cup {NoScore}

Memory ==
  [scores : Seq(Values), best : [score : Values, epoch : Int],
   stopping : [score : Values, bad : Nat, stop : BOOLEAN]]
FileStates == {Absent, Torn} \cup [is : {"whole"}, of : Memory]
Entries == [epoch : Rounds, score : Values]
Scored == [epoch : Rounds, score : Scores]

Steps == {"idle", "loop", "save", "prune", "metadata", "link", "done", "raised", "killed"}

(* The callback at has not recorded the epoch yet. *)
Saving == pc \in {"save", "prune", "metadata"}

(* The values of the variables. *)
TypeOK ==
  /\ mem \in Memory /\ Len(mem.scores) <= Epochs /\ spent \in BOOLEAN
  /\ files \in [Prefixes -> [Rounds -> FileStates]]
  /\ metadata \in [Prefixes -> Seq(Entries)] /\ metadata["best"] \in Seq(Scored)
  /\ cut \in SUBSET Prefixes
  /\ link \in Rounds \cup {-1} /\ rule \in {"patience", "horizon"}
  /\ pc \in Steps /\ at \in Prefixes
  /\ runs \in Nat /\ kills \in Nat /\ again \in {"first", "resumed", "over"}
  /\ Saving => Len(mem.scores) > 0 /\ (at = "best" => mem.scores[Len(mem.scores)] \in Scores)
  /\ pc = "link" => metadata["best"] # <<>>

(* What the callbacks hold after each of these scores. *)
ReplayOf(how, scores) ==
  LET replay[n \in 0..Len(scores)] ==
        IF n = 0 THEN Fresh ELSE Followed(how, replay[n - 1], scores[n])
  IN  replay

Uninterrupted(how, m) ==
  /\ m = ReplayOf(how, m.scores)[Len(m.scores)]
  /\ \A n \in 0..Len(m.scores) - 1 : ~ReplayOf(how, m.scores)[n].stopping.stop

(* What a file of an epoch holds was trained up to this epoch. *)
HoldsItsEpoch(file, e) ==
  file.is = "whole" => Len(file.of.scores) = e + 1 /\ Uninterrupted(rule, file.of)

TrainedAsOne ==
  /\ Uninterrupted(rule, mem)
  /\ \A p \in Prefixes : \A e \in Rounds : HoldsItsEpoch(files[p][e], e)

(* Before the first process there is nothing to start from, and before the  *)
(* first kill no metadata is cut.                                           *)
StartsEmpty ==
  /\ runs = 0 => /\ pc = "idle" /\ metadata = [p \in Prefixes |-> <<>>]
                 /\ cut = {} /\ link = -1 /\ again = "first"
  /\ kills = 0 => cut = {}

(* The epoch whose file "last" has written, and nothing may remove; and the *)
(* last one it may have recorded.                                           *)
SureEpoch == IF pc = "save" /\ at = "last" THEN Epoch - 1 ELSE Epoch
LastRecorded == IF Saving /\ at = "last" THEN Epoch - 1 ELSE Epoch

(* As long as nobody starts over, a process goes on from what is recorded.  *)
OneLineage ==
  again # "over" =>
    IF Ended THEN CheckpointSurvives
    ELSE /\ SureEpoch >= 0 => files["last"][SureEpoch].is = "whole"
         /\ \A i \in DOMAIN metadata["last"] : metadata["last"][i].epoch <= LastRecorded

(* The best epoch in the metadata, in the form of BestWeights. *)
BestRecorded ==
  IF metadata["best"] = <<>> THEN Fresh.best
  ELSE [score |-> metadata["best"][1].score, epoch |-> metadata["best"][1].epoch]

(* Before a kill or a rerun the metadata of "best" follows BestWeights.     *)
BestFollows ==
  again = "first" /\ kills = 0 =>
    /\ pc # "done" => link = -1
    /\ pc = "done" => link = mem.best.epoch
    /\ pc \in {"loop", "link"} => mem.best = BestRecorded
    /\ Saving => mem.best = Improved(BestRecorded, mem.scores[Epoch + 1], Epoch)
    /\ pc # "done" => \A i \in DOMAIN metadata["best"] :
         /\ metadata["best"][i].score <= metadata["best"][1].score
         /\ metadata["best"][i].epoch <= IF Saving THEN Epoch - 1 ELSE Epoch

IInv == TypeOK /\ TrainedAsOne /\ StartsEmpty /\ OneLineage /\ BestFollows

-----------------------------------------------------------------------------
(* What Others, Place and Link rest on: a list names no path twice and is   *)
(* in the order of its callback.                                            *)
Ordered(p, list) ==
  \A i, j \in DOMAIN list : i < j =>
    /\ list[i].epoch # list[j].epoch
    /\ IF p = "last" THEN list[i].epoch >= list[j].epoch ELSE list[i].score >= list[j].score

ListsOrdered == \A p \in Prefixes : Ordered(p, metadata[p])
=============================================================================
