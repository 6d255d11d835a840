------------------------ MODULE SubmissionInvariant ------------------------
(***************************************************************************)
(* The inductive invariants of Submission.  IInv: which run locks a client *)
(* holds at each step of its command, and what it knows of the stable      *)
(* index of the runs it has locked.  BInv: the same for the submission     *)
(* lock and the batches.                                                   *)
(***************************************************************************)
EXTENDS Submission

HoldsRun == {"e_batch", "e_index", "e_dispatched", "e_scan_pending", "e_scan_dispatched",
             "e_attach", "e_claim", "e_publish", "e_record"}
HoldsRuns == {"s_recover", "s_match", "s_check", "s_batch", "s_claim", "s_publish", "s_seal"}

(* No lock has two holders. *)
Mutex ==
  \A p, q \in Processes : held[p] \cap held[q] # {} => p = q

(* The runs whose stable lock client c holds. *)
LockedRuns(c) ==
  IF pc[c] \in HoldsRun THEN cmd[c].todo
  ELSE IF pc[c] = "s_runs" THEN DOMAIN cmd[c].rows \ cmd[c].todo
  ELSE IF pc[c] \in HoldsRuns THEN DOMAIN cmd[c].rows
  ELSE {}

RunLocksHeld(c) == \A r \in LockedRuns(c) : StableLock(r) \in held[c]

(* The arguments of a command: an enqueue-run works on one run and, once it  *)
(* has the batch lock, on a batch of new-batch; a submit-batch works on the  *)
(* batch it has written for its specification.                               *)
CommandOK(c) ==
  /\ cmd[c].batch \in 0..Len(batch) /\ cmd[c].found \in 0..Len(job)
  /\ pc[c] \in HoldsRun \cup {"e_stable"} =>
       /\ cmd[c].todo # {} /\ \A r, q \in cmd[c].todo : r = q
       /\ cmd[c].batch # 0
       /\ Atomic(cmd[c].batch) => batch[cmd[c].batch].sealed
  /\ pc[c] \in HoldsRun \ {"e_batch"} => ~Atomic(cmd[c].batch)
  /\ pc[c] \in HoldsRuns \cup {"s_lock", "s_runs"} => cmd[c].rows \in Specs
  /\ pc[c] = "s_lock" => cmd[c].todo = DOMAIN cmd[c].rows
  /\ pc[c] \in {"s_claim", "s_publish", "s_seal"} =>
       cmd[c].batch # 0 /\ batch[cmd[c].batch].spec = cmd[c].rows

(* The runs whose index entry c has found, or made, absent. *)
Unindexed(c) ==
  IF pc[c] \in {"e_scan_pending", "e_scan_dispatched", "e_claim", "s_claim", "s_publish"}
    THEN cmd[c].todo
  ELSE IF pc[c] = "s_check" THEN DOMAIN cmd[c].rows \ cmd[c].todo
  ELSE IF pc[c] = "s_batch" THEN DOMAIN cmd[c].rows
  ELSE {}

IndexKnown(c) ==
  /\ \A r \in Unindexed(c) : stable[r] = 0
  /\ pc[c] \in {"e_dispatched", "e_publish", "e_record", "s_publish"} => cmd[c].found # 0
  /\ pc[c] = "e_dispatched" =>
       cmd[c].found \notin pending /\ \A r \in cmd[c].todo : stable[r] = cmd[c].found
  /\ pc[c] \in {"e_publish", "s_publish"} =>
       /\ job[cmd[c].found].run \in LockedRuns(c)
       /\ stable[job[cmd[c].found].run] = cmd[c].found

ClientInv(c) == RunLocksHeld(c) /\ CommandOK(c) /\ IndexKnown(c)

(* Every id in a file is that of a job or of a batch created before. *)
NoDanglingId ==
  /\ \A j \in Jobs : job[j].batch \in 1..Len(batch)
  /\ Live \cup Finished \subseteq Jobs
  /\ \A r \in Runs : stable[r] \in 0..Len(job)

(* The jobs of an atomic batch are of its rows, and stay in pending/ until   *)
(* it is sealed; an index entry names a job of its run.                      *)
JobsOfBatches ==
  /\ \A j \in Jobs : Atomic(job[j].batch) => job[j].run \in DOMAIN batch[job[j].batch].spec
  /\ \A j \in dispatched \cup Finished : Atomic(job[j].batch) => batch[job[j].batch].sealed
  /\ \A r \in Runs : stable[r] # 0 => job[stable[r]].run = r

StoreInv == NoDanglingId /\ JobsOfBatches /\ IndexNamesLiveJob

(* The inductive invariant.  IndexNamesLiveJob is what the run locks are for:*)
(* no process changes the index entry of a run without knowing that the run  *)
(* has no live job, or which one it is.                                      *)
IInv ==
  TypeOK /\ Mutex /\ (\A c \in Clients : ClientInv(c)) /\ StoreInv
-----------------------------------------------------------------------------
(* A second invariant, over the first: what becomes of batches.  A command  *)
(* works on a batch under the submission lock or the lock of the batch.     *)

HoldsSubmission == HoldsRuns \cup {"s_runs"}
HoldsBatch == HoldsRun \ {"e_batch"}

BatchLocksHeld(c) ==
  /\ pc[c] \in HoldsSubmission => SubmissionLock \in held[c]
  /\ pc[c] \in HoldsBatch =>
       BatchLock(cmd[c].batch) \in held[c] /\ ~batch[cmd[c].batch].sealed

JobsOf(b) == {j \in Jobs : job[j].batch = b}

(* The jobs of S are one for each of these rows, with its payload.    *)
AreRows(S, rows, runs) ==
  /\ \A j \in S : job[j].run \in runs /\ job[j].payload = rows[job[j].run]
  /\ \A r \in runs : \E j \in S : job[j].run = r
  /\ \A j, k \in S : job[j].run = job[k].run => j = k

(* No batch file has the specification once the recovery is over and none   *)
(* has matched; then the only one is that of the command, whose jobs are    *)
(* the rows it has claimed, and are all pending but the last.               *)
BatchKnown(c) ==
  /\ pc[c] = "s_match" /\ ~cmd[c].find => Incomplete(c) = {}
  /\ pc[c] \in {"s_check", "s_batch"} => \A b \in Batches : batch[b].spec # cmd[c].rows
  /\ pc[c] \in {"s_claim", "s_publish", "s_seal"} =>
       LET b == cmd[c].batch IN
       /\ batch[b].exists /\ ~batch[b].sealed
       /\ AreRows(JobsOf(b), cmd[c].rows, DOMAIN cmd[c].rows \ cmd[c].todo)
       /\ \A j \in JobsOf(b) : j \in pending \/ (pc[c] = "s_publish" /\ j = cmd[c].found)
  /\ pc[c] = "s_seal" => cmd[c].todo = {}
  /\ pc[c] \in {"e_publish", "s_publish"} =>
       /\ job[cmd[c].found].batch = cmd[c].batch
       /\ cmd[c].found \notin Live \cup Finished

(* Recovery only unlinks batches that were never sealed, and a sealed one   *)
(* has its rows and loses none of their jobs.                               *)
BatchesOK ==
  /\ \A b \in 1..Len(batch) : ~batch[b].exists => Atomic(b) /\ ~batch[b].sealed
  /\ LiveJobHasBatch
  /\ OneBatchPerSpec
  /\ \A b \in 1..Len(batch) : Atomic(b) /\ batch[b].sealed =>
       /\ batch[b].jobs \subseteq JobsOf(b) \cap (Live \cup Finished)
       /\ AreRows(batch[b].jobs, batch[b].spec, DOMAIN batch[b].spec)

(* The daemon records under the submission lock, one job at a time.         *)
JobsPlaced ==
  /\ pending \cap (dispatched \cup Finished) = {}
  /\ recorded # 0 => recorded \in Finished /\ daemon # "down"
  /\ recorded # 0 \/ daemon = "interrupt" => SubmissionLock \in held[Daemon]
  /\ daemonCrashes = 0 => completed \cap failed = {} /\ dispatched \cap Finished \subseteq {recorded}

BInv ==
  IInv /\ (\A c \in Clients : BatchLocksHeld(c) /\ BatchKnown(c)) /\ BatchesOK /\ JobsPlaced
=============================================================================
