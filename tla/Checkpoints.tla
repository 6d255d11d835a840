---------------------------- MODULE Checkpoints ----------------------------
(***************************************************************************)
(* A training loop that is killed and resumed: the trainer                 *)
(* (src/dcn/training/epoch_trainer.py, src/neuralrec/run/train.py), the    *)
(* callbacks that follow the scores of its epochs, and the two checkpoint  *)
(* callbacks (src/neuralrec/run/callbacks/checkpoint.py), "last" and       *)
(* "best", with the files and the metadata they keep.                      *)
(*                                                                         *)
(* A process may be killed between two file operations or within a write.  *)
(* A run of the same name comes after it, and resumes from the latest      *)
(* checkpoint or, without load_checkpoint, starts over in the same         *)
(* directory.  The weights of the model are the scores of its epochs.      *)
(***************************************************************************)
EXTENDS Integers, Sequences

CONSTANTS
  Epochs,       \* num_epochs
  Horizon,      \* epochs of the schedule, where it ends the run
  Patience, MinDelta,
  Scores,       \* the values of the metric
  NoScore,      \* an epoch that is not evaluated
  Kept,         \* n_checkpoints of each of the two callbacks
  MaxRuns,      \* bound: processes
  MaxKills      \* bound: processes that are killed

ASSUME EpochAssumption == Epochs \in Nat \ {0} /\ Horizon \in Nat \ {0}
ASSUME StoppingAssumption == Patience \in Nat \ {0} /\ MinDelta \in Nat
ASSUME ScoreAssumption == Scores \subseteq Int /\ Scores # {} /\ NoScore \notin Int
ASSUME KeptAssumption == Kept \in [{"last", "best"} -> Nat \ {0}]
ASSUME BoundAssumption == MaxRuns \in Nat /\ MaxKills \in Nat

Prefixes == {"last", "best"}
Rounds == 0..Epochs - 1

Absent == [is |-> "absent"]
Torn == [is |-> "torn"]
Whole(m) == [is |-> "whole", of |-> m]

VARIABLES
  mem,      \* the scores of the epochs trained, BestWeights, EarlyStopping
  spent,    \* LrSchedule.should_stop
  files,    \* each callback's checkpoint of each epoch
  metadata, \* each callback's list of checkpoints, best or latest first
  cut,      \* the callbacks whose metadata ends in half an entry
  link,     \* the epoch that best_best.pt names
  rule,     \* what may end the run early: "patience" or "horizon"
  pc, at,   \* the step of the process, and the callback that takes it
  runs, kills,
  again     \* "resumed" or "over" when the run is not the first

disk == <<files, metadata, cut, link>>
counts == <<runs, kills, again>>
vars == <<mem, spent, disk, rule, pc, at, counts>>

Fresh == [scores |-> <<>>, best |-> [score |-> NoScore, epoch |-> -1],
          stopping |-> [score |-> NoScore, bad |-> 0, stop |-> FALSE]]

Init ==
  /\ mem = Fresh /\ spent = FALSE
  /\ files = [p \in Prefixes |-> [e \in Rounds |-> Absent]]
  /\ metadata = [p \in Prefixes |-> <<>>] /\ cut = {} /\ link = -1
  /\ rule \in {"patience", "horizon"}
  /\ pc = "idle" /\ at = "last"
  /\ runs = 0 /\ kills = 0 /\ again = "first"

Ended == pc \in {"idle", "done", "raised", "killed"}
Epoch == Len(mem.scores) - 1

-----------------------------------------------------------------------------
(* The callbacks that follow the scores.                                    *)

(* BestWeights.on_epoch_end *)
Improved(best, score, epoch) ==
  IF score # NoScore /\ (best.score = NoScore \/ score > best.score)
    THEN [score |-> score, epoch |-> epoch] ELSE best

(* EarlyStopping.on_epoch_end *)
Watched(stopping, score) ==
  IF score = NoScore THEN stopping
  ELSE IF stopping.score = NoScore \/ score > stopping.score + MinDelta
         THEN [stopping EXCEPT !.score = score, !.bad = 0]
         ELSE [stopping EXCEPT !.bad = @ + 1, !.stop = stopping.bad + 1 >= Patience]

Followed(how, m, score) ==
  [scores |-> Append(m.scores, score),
   best |-> Improved(m.best, score, Len(m.scores)),
   stopping |-> IF how = "patience" THEN Watched(m.stopping, score) ELSE m.stopping]

-----------------------------------------------------------------------------
(* A process starts.                                                        *)

(* load_latest; the state of LrSchedule is in no checkpoint. *)
(* Mutant: nor is that of EarlyStopping. *)
RestoredWithoutStopping(m) == [m EXCEPT !.stopping = Fresh.stopping]
Restored(m) == m

Latest ==
  LET recorded == metadata["last"]
  IN  CHOOSE i \in DOMAIN recorded :
        \A j \in DOMAIN recorded : recorded[j].epoch <= recorded[i].epoch
LatestFile == files["last"][metadata["last"][Latest].epoch]

Started ==
  /\ Ended /\ runs < MaxRuns /\ runs' = runs + 1 /\ at' = "last" /\ spent' = FALSE
  /\ UNCHANGED <<disk, rule, kills>>

StartOver ==
  /\ Started /\ mem' = Fresh /\ pc' = "loop"
  /\ again' = IF runs = 0 THEN again ELSE "over"

(* Half an entry of the metadata has no path, and whoever asks for it raises. *)
Resume ==
  /\ Started
  /\ again' = IF again # "over" /\ runs > 0 THEN "resumed" ELSE again
  /\ \/ metadata["last"] = <<>> /\ mem' = Fresh /\ pc' = "loop"
     \/ /\ metadata["last"] # <<>>
        /\ IF LatestFile.is = "whole"
             THEN mem' = Restored(LatestFile.of) /\ pc' = "loop"
             ELSE mem' = Fresh /\ pc' = "raised"
     \/ "last" \in cut /\ mem' = Fresh /\ pc' = "raised"

-----------------------------------------------------------------------------
(* The loop.                                                                *)

Stops == mem.stopping.stop \/ spent \/ Len(mem.scores) >= Epochs

(* LrSchedule.on_epoch_end: the schedule is at its end. *)
Spends == rule = "horizon" /\ Len(mem.scores) + 1 >= Horizon

(* train_epoch, up to the checkpoints. *)
TrainEpoch ==
  /\ pc = "loop" /\ ~Stops
  /\ \E score \in Scores \cup {NoScore} : mem' = Followed(rule, mem, score)
  /\ spent' = Spends
  /\ pc' = "save" /\ at' = "last"
  /\ UNCHANGED <<disk, rule, counts>>

(* What save_checkpoint makes of the list of checkpoints.  The list is      *)
(* sorted and names no path twice, so that sorting it with one more at its  *)
(* end is an insertion.                                                     *)
(* Mutant: the first of two with one score loses its place. *)
BeforeNewest(x, y) == IF at = "last" THEN x.epoch >= y.epoch ELSE x.score > y.score
Before(x, y) == IF at = "last" THEN x.epoch >= y.epoch ELSE x.score >= y.score

Entry == [epoch |-> Epoch, score |-> mem.scores[Epoch + 1]]
Recorded == {i \in DOMAIN metadata[at] : metadata[at][i].epoch = Epoch}
Others ==
  IF Recorded = {} THEN metadata[at]
  ELSE LET i == CHOOSE i \in Recorded : TRUE
       IN  [j \in 1..Len(metadata[at]) - 1 |-> metadata[at][IF j < i THEN j ELSE j + 1]]
Place ==
  CHOOSE i \in 1..Len(Others) + 1 :
    /\ \A j \in 1..i - 1 : Before(Others[j], Entry)
    /\ i <= Len(Others) => ~Before(Others[i], Entry)
Sorted ==
  [i \in 1..Len(Others) + 1 |->
     IF i < Place THEN Others[i] ELSE IF i = Place THEN Entry ELSE Others[i - 1]]
(* Mutant: one too few. *)
FirstLess(list) == SubSeq(list, 1, Kept[at] - 1)
First(list) == SubSeq(list, 1, IF Len(list) < Kept[at] THEN Len(list) ELSE Kept[at])
EpochsOf(list) == {list[i].epoch : i \in DOMAIN list}

Save ==
  /\ pc = "save" /\ pc' = "prune"
  /\ files' = [files EXCEPT ![at][Epoch] = Whole(mem)]
  /\ UNCHANGED <<mem, spent, metadata, cut, link, rule, at, counts>>

Prune ==
  /\ pc = "prune" /\ at \notin cut /\ pc' = "metadata"
  /\ files' = [files EXCEPT ![at] = [e \in Rounds |->
                 IF e \in EpochsOf(Sorted) \ EpochsOf(First(Sorted)) THEN Absent ELSE files[at][e]]]
  /\ UNCHANGED <<mem, spent, metadata, cut, link, rule, at, counts>>

(* "best" comes next, for an epoch that has a score. *)
NextCallback ==
  /\ IF at = "last" /\ mem.scores[Epoch + 1] # NoScore
       THEN pc' = "save" /\ at' = "best" ELSE pc' = "loop" /\ UNCHANGED at
  /\ UNCHANGED <<mem, spent, files, cut, link, rule, counts>>

Record == pc = "metadata" /\ metadata' = [metadata EXCEPT ![at] = First(Sorted)] /\ NextCallback

(* finish: save_best makes a new link to the best checkpoint. *)
Unlink ==
  /\ pc = "loop" /\ Stops
  /\ IF metadata["best"] = <<>> THEN pc' = "done" /\ UNCHANGED link ELSE pc' = "link" /\ link' = -1
  /\ UNCHANGED <<mem, spent, files, metadata, cut, rule, at, counts>>

Link ==
  /\ pc = "link" /\ pc' = "done" /\ link' = metadata["best"][1].epoch
  /\ UNCHANGED <<mem, spent, files, metadata, cut, rule, at, counts>>

(* save_checkpoint and save_best read metadata that ends in half an entry. *)
Misread ==
  /\ \/ pc = "prune" /\ at \in cut
     \/ pc = "loop" /\ Stops /\ "best" \in cut
  /\ pc' = "raised" /\ UNCHANGED <<mem, spent, disk, rule, at, counts>>

(* A kill: a checkpoint may be cut short, and so may metadata, after an     *)
(* entry or within one.                                                     *)
CutShort ==
  /\ \E n \in 0..Len(First(Sorted)) - 1 : metadata' = [metadata EXCEPT ![at] = SubSeq(First(Sorted), 1, n)]
  /\ cut' \in {cut, cut \cup {at}}

Kill ==
  /\ ~Ended /\ kills < MaxKills /\ kills' = kills + 1 /\ pc' = "killed"
  /\ \/ UNCHANGED <<files, metadata, cut>>
     \/ pc = "save" /\ files' = [files EXCEPT ![at][Epoch] = Torn] /\ UNCHANGED <<metadata, cut>>
     \/ pc = "metadata" /\ CutShort /\ UNCHANGED files
  /\ UNCHANGED <<mem, spent, link, rule, at, runs, again>>

Next ==
  StartOver \/ Resume \/ TrainEpoch \/ Save \/ Prune \/ Record \/ Unlink \/ Link \/ Misread \/ Kill

Spec == Init /\ [][Next]_vars

-----------------------------------------------------------------------------
(* Properties.                                                              *)

(* What the callbacks hold after these scores in one uninterrupted run. *)
Replay[n \in 0..Epochs] == IF n = 0 THEN Fresh ELSE Followed(rule, Replay[n - 1], mem.scores[n])

(* However often a run is killed and resumed, it keeps the weights of the   *)
(* epoch, counts the epochs without progress and stops where a run with the *)
(* same scores does that nobody killed: no epoch is lost, scored twice or   *)
(* trained after the patience ran out.                                      *)
ResumesAsUninterrupted ==
  /\ mem = Replay[Len(mem.scores)]
  /\ \A n \in 0..Len(mem.scores) - 1 : ~Replay[n].stopping.stop

(* As long as nobody starts over, a kill at any step leaves a whole         *)
(* checkpoint once there has been one.                                      *)
CheckpointSurvives ==
  again # "over" /\ (metadata["last"] # <<>> \/ Len(mem.scores) > 1) =>
    \E e \in Rounds : files["last"][e].is = "whole"

(* Without kills and reruns best_best.pt and BestWeights name one epoch.    *)
BestAgrees == pc = "done" /\ kills = 0 /\ again = "first" => link = mem.best.epoch

(* A checkpoint that is recorded is on disk: what a resume relies on.       *)
RecordedIsThere ==
  pc \in {"killed", "done"} =>
    \A e \in EpochsOf(metadata["last"]) : files["last"][e].is = "whole"

(* A schedule that decays against its horizon "ends the run once it is      *)
(* spent".                                                                  *)
HorizonEndsRun == rule = "horizon" => Len(mem.scores) <= Horizon
=============================================================================
