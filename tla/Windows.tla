------------------------------ MODULE Windows ------------------------------
(***************************************************************************)
(* How SequenceDataset (src/dcn/data/sequence_dataset.py) cuts the history *)
(* of a user into training sequences.  It never copies a history: it gives *)
(* every event the labels of the windows it belongs to, repeats the event  *)
(* once per label and groups by label.                                     *)
(*                                                                         *)
(* An event is its position 0..n-1 in the time-sorted history, n its       *)
(* length.  A policy p is a record: max and min, the bounds of a sequence; *)
(* stride in events; cap and rule of the bounded prefix.                   *)
(***************************************************************************)
EXTENDS Integers

Least(x, y) == IF x < y THEN x ELSE y
Greatest(x, y) == IF x < y THEN y ELSE x

-----------------------------------------------------------------------------
(* The labels of event e. *)

(* The first event of a window but the first one also ends the window       *)
(* before, which has it as its last target.                                 *)
(* Mutant: windows do not overlap. *)
NextItemLabelsApart(p, n, e) == {e \div p.max}
NextItemLabels(p, n, e) ==
  LET window == e \div p.max
      beginsWindow == e > 0 /\ e % p.max = 0
  IN (IF beginsWindow THEN window - 1 ELSE window)..window

(* Labelled by their last event, the target. *)
EarliestTarget(p, n) ==
  IF p.rule = "truncated" THEN Greatest(1, n - p.cap)
  ELSE IF n - 1 < p.max THEN n - 1
  ELSE Greatest(p.max, n - p.cap)
PrefixLabels(p, n, e) == Greatest(e, EarliestTarget(p, n))..Least(e + p.max, n - 1)

(* Numbered back from the newest event, so that only the oldest window is   *)
(* truncated.                                                               *)
(* Mutant: rounded down, the truncated window is lost. *)
OldestWindowFull(p, n) == Greatest(0, (n - p.max) \div p.stride)
OldestWindow(p, n) == Greatest(0, (n - p.max + p.stride - 1) \div p.stride)
SlidingLabels(p, n, e) ==
  LET fromEnd == n - 1 - e
      first == IF fromEnd >= p.max THEN (fromEnd - p.max) \div p.stride + 1 ELSE 0
  IN first..Least(fromEnd \div p.stride, OldestWindow(p, n))

-----------------------------------------------------------------------------
(* What the labels are to mean: the events of each window, as a slice of    *)
(* the history.                                                             *)

NextItemWindow(p, n, k) == (k * p.max)..Least((k + 1) * p.max, n - 1)
PrefixWindow(p, n, t) == Greatest(0, t - p.max)..t
SlidingWindow(p, n, k) == 
  Greatest(0, n - k * p.stride - p.max)..(n - k * p.stride - 1)
=============================================================================
