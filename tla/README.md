# Verification of the training queue, the training processes and their data

TLA+ modules, TLC instances and TLAPS proofs for the parts of this repository
that run unattended: the persistent training queue (`src/utils/training_queue`),
the processes it starts (`src/dcn/main.py`, `src/dcn/config/experiment.py`), and
what these leave on disk and come back to: caches and checkpoints. They are
programs of several processes that meet in files, pipes and advisory locks and
that are killed now and then. Two algorithms whose results are integers are
modelled as well: how histories are cut into training sequences, and how items
are generated code by code. The networks are tensor code and are not modelled.

Run a check with `tlc -config <name>.cfg <module>` and a proof with
`tlapm <module>.tla`; `PROJECT.json` lists all of them, the source lines behind
every definition (`map`), the hazards with the properties that cover them, and
for each property a mutated definition that breaks it (`mutants`).

## The system

| component | state | operations | meets the others through |
|---|---|---|---|
| submission commands, `service.py` 450-867 | none of their own: `batches/`, `pending/`, `stable/`, flock on `submission.lock`, one lock per run name and per batch | new-batch, enqueue-run, submit-batch (with the recovery of an interrupted one), find-batch, seal-batch | the job files the daemon moves |
| daemon, `service.py` 210-404 | the loop's locals; `dispatched/`, `completed/`, `failed/`, `status.json` | collect results, poll the engine, read acknowledgements and `stop`, reap, dispatch, release training, write the status, shut down | the engine's standard input; `acks/`, `results/` |
| service commands, `service.py` 407-447, 870-957 | `paused`, `stop` | start, stop, pause, resume, drain, wait-batch, status | those files, `status.json`, the daemon's pid |
| engine, `service_scheduler.sh` and `queue.sh` | GPU states, workers, running pids, markers and the release file of one barrier directory | enqueue, reap, release, drain; admission and periodic check of GPUs | shells it spawns, result and acknowledgement files |
| training process, `main.py`, `experiment.py`, `locks.py` | its locks and its step | own the run name, prepare, wait for the release, take the GPU, train each stage, exit | locks under `generated/`, the release and ready files |
| caches: `sequence_dataset.py`, `dataset_manager.py`, `generation.py` 372-398, `semantic.py`, `ranking_evidence.py`, `yambda.py` | files under `generated/` | load, build in place or through a temporary name, invalidate | locks, existence of files |
| queue depth, GPU check: `queue_depth.py`, `gpu_check.py` | the timing index | measure, record; sample, decide | called by the engine and by the training process |
| trainers and callbacks: `dcn/training`, `neuralrec/run` | epoch, day, best metric, checkpoints | train, validate, stop early, resume | checkpoint files |
| trained data: `sequence_dataset.py`, `dataset.py` | bucket files, the sampler's order | cut histories, read a sequence by its global index | the loaders of a trainer |
| generation: `semantic/`, `token_generation.py`, `semantic_constraint.py`, `eval/generation.py` | the trie, the beams | add collision suffixes, search, rank the answer | the evaluation of a trainer |
| work tracker, `work/workflow.py` | task files, `ideas.md` | load, check the graph, synchronise | - |
| launchers under `experiments/` | their own study files | submit batches and wait for them | the service commands |

What is hard in it: clients race each other and the daemon for one run name;
every one of them, the daemon, the engine, a shell or a training process may be
killed between two file operations; the daemon and the engine answer each other
through a pipe in one direction and files in the other; user commands read one
file and act on another; queued runs, runs started by hand and the periodic GPU
check share one GPU through three kinds of locks; and caches are rebuilt in place
under other runs.

What makes each component correct:

* Submission: a run name has one unfinished job; the index finds it; a batch
  submitted as a whole is dispatched as a whole or not at all; an exact retry
  finds the earlier batch; a sealed batch does not change; nobody deadlocks.
* Daemon and commands: a job is dispatched once, oldest first; it gets one record
  and that record is true; every acknowledgement the daemon waits for comes; drain
  means no run on a GPU; wait-batch reports every failure; dispatched jobs finish and
  stop returns. Not all of it holds: see below.
* Training: a run name has one live process; a GPU trains one run; the check
  samples an idle GPU; caches are built alone and read whole; the ready file is a
  promise; every run ends.
* Engine: a run and a check do not meet on a GPU; no GPU is given up for good; an
  enqueue finds a place, which a falling depth can prevent; a drained queue has left
  every GPU.
* Caches: what a run trains on is whole and belongs together, whatever earlier runs
  were killed; `invalidate_cache` repairs what is not.
* Trainer: a run that was killed and resumed ends as if nobody had killed it; there is
  always a checkpoint to resume from.
* Trained data: an epoch delivers what the window policy says, each sequence once.
* Generation: the beams are items of the catalog, none missing while there is room, and
  the rank of an answer counts items.

## Modules

| module | models |
|---|---|
| `RunQueue` | the abstract queue: accept a set of jobs at once, activate the oldest, finish |
| `Submission` | the job store step by step; implements `RunQueue` |
| `SubmissionInvariant` | its inductive invariants: `IInv` of runs and locks, `BInv` of batches |
| `SubmissionProofs` | proofs about it |
| `Daemon` | daemon, engine, runs and service commands; implements `RunQueue` |
| `DaemonInvariant`, `DaemonProofs` | its inductive invariants, and proofs about it |
| `Training` | training processes, shells, caches, GPU check |
| `TrainingProofs` | proofs about it |
| `Engine` | the GPUs of the engine: admission, checks, choice of a worker, release, drain |
| `EngineProofs` | its inductive invariant, and proofs about it |
| `Caches` | source dataset, day files, counters, semantic ids, sequence cache, with kills |
| `CachesInvariant`, `CachesProofs` | its inductive invariant, and proofs about it |
| `Checkpoints` | epochs, early stopping, best weights, checkpoint files, kill and resume |
| `CheckpointsInvariant`, `CheckpointsProofs` | its inductive invariant, and proofs about it |
| `Windows` | the labels of events, and the windows they are to mean |
| `SequenceDataset` | bucket files, global index, an epoch in random order |
| `SequenceDatasetInvariant`, `SequenceDatasetProofs` | its inductive invariant, and proofs about it and `Windows` |
| `Decoding` | collision suffixes, trie, beam search, rank of the answer |
| `DecodingInvariant`, `DecodingProofs` | its inductive invariant, and proofs about it |
| `MCSubmission`, `MCDaemon`, `MCTraining`, `MCEngine`, `MCCaches`, `MCCheckpoints` | definitions for the TLC instances |
| `MCPipeline` | one instance of `SequenceDataset` and `Decoding`: an epoch, or a search |

The modules of the queue meet at three places. `Submission` opens the single step `Submit` of
`Daemon`; the daemon's five file operations are steps of `Submission` as well, so
that the races of both sides are in it; and `Daemon`'s runs (`Prepare`, `Train`,
`Exit`) are opened in `Training`, where the daemon is the step `Release`. Both
`Submission` and `Daemon` are shown to implement the same `RunQueue`. `Engine`
opens what is one admitted GPU in `Daemon`, and its checks are the check of
`Training`; `Caches` opens the one cache that `Training` has per data group, for runs
that prepare one after another.

### Submission

A client's command is a sequence of steps, `pc[c]`, with its locals `cmd[c]`.
One step is one lock, one directory scan, one atomic file write or one unlink that
others can see between. `E...` and `S...` steps follow `_enqueue_run` 548-630 and
`_submit_atomic_batch` 633-767 in their order; `_stable_job` is four steps,
because the daemon moves files without the run lock. A kill (`ClientCrash`) drops
the client's locks and leaves the files. A job id is its position in `job`, which
stands for the time-stamped name `_next_job` sorts by. A specification is the
function from run names to payloads, which stands for its hash; the rows are
submitted in the order of the run names. `find-batch` is a submission that stops
after the match. Environment and name checks that refuse a command before it
takes a lock change nothing and are left out, and so is an unknown batch id.

`_collect_results` keeps `submission.lock` over several jobs; the model gives it
back after each. That adds interleavings and removes none.

### Daemon

One action per block of the loop of `_run_daemon`, in its order, with the reads
that other processes can invalidate as steps of their own: the listing of results,
`status.json` with `paused` read before it is written, `drain`'s and
`wait-batch`'s two reads, `start`'s look and its unlinks. A job is recorded in three
steps, record, dispatched file and result, and failed in two, so that a killed daemon
leaves what it leaves in the code: a job with a record and a dispatched file. The engine executes one
command at a time; `_enqueue_script` is four steps (refresh the depth, wait for a
worker and reap, spawn, release when full), and a failed run makes the last one
fail as the code does. `Depth[j]` is what `_refresh_queue_depth` returns for job
`j`. The reaper interval and the half second before a release are timers: the
actions that send or skip are both enabled, with strong fairness on sending. For
`RunQueue` a job has finished with its record, and its dispatched file does not count
any more: unlinking it, or recording the job again, is a stutter there.

One GPU is admitted here, with one worker (`TRAINING_QUEUE_RUNS_PER_GPU` must
be 1, `queue.sh` 386); `Engine` has more. Results are written by
the engine's reaper and refused runs by `_service_enqueue`.

### Training

`held[p]` is the set of flock locks of process `p` with their modes; `Take`
waits as flock does, `Drop` is what `hold` does when it leaves. The labels follow
`TrainedStage.run`. The shell of `queue.sh` and its process share one open file
for the run lock: the lock is free once both have ended, and either may die first
(`Die`). The check of a GPU is a process as well. There is one sequence cache and
one pickle of a data group; a cache is absent, partial or whole. `released` is
the release file. What the shell does between the two ends (log, timing record)
and the markers are in `Daemon`.

`TakeGPU` shows the asymmetry of `gpu_lock_path`: a queued run locks the slot
exclusively and shares the device, a run by hand locks the device exclusively.

### Engine

`pool` is what bash keeps of the GPUs: their states, their checks (`gpu_check.py`
in the background), whether the time of the next check has come, the workers in the
order of their admission, the GPU withheld for its periodic check and where the next
search begins. Each `_run_one_iteration`, `_select_worker` or wait loop of
`queue.sh` is a step of the engine; in between runs end, checks end, timers elapse and
foreign programs come and go. `Synced` and `Rechecked` are functions of `pool` since
bash runs them without giving way. A periodic check takes the gate of its GPU
exclusively and a run takes it shared, as flock does; behind the gate the run waits
until no foreign program has memory of the GPU (`WaitForMemory`; that it prepares
again afterwards is part of the step). `Fault` is a check that
cannot write its evidence and exits with an error. The depth is computed anew when a
job is enqueued, when a run is reaped and when a checked GPU is admitted, and an
enqueue is refused when it cannot be computed. `Starts` gives the GPUs that are busy
when the engine starts with the number of foreign programs that come later.

### Caches

A file is absent, torn or whole, and a whole one is known by what it was made from:
days accounted for, number of a fit, window parameters. A step is one file operation;
a kill falls between two steps, or tears the file of a step that writes in place
(`TornWrite`). A file that cannot be read raises. Runs choose their settings freely,
as the users of one dataset do. Files that get their name by a rename are never torn.

### Checkpoints

The weights are the scores of the epochs they have been trained for, so that
"resumes as if uninterrupted" can be said. One epoch is one step, and then the files
of the two callbacks follow in the order of `save`: checkpoint, pruning, metadata,
link. Metadata may be cut short by a kill after an entry, which makes the list shorter, or
within one (`cut`): the entry that is cut has no path, so that saving raises, and
resuming and linking may. The next process resumes or, without `load_checkpoint`, starts over
in the same directory.

### Windows and SequenceDataset

`Windows` has the labels as polars computes them, event by event with integer
division, and beside them the slices the labels are to mean. `SequenceDataset` puts
users into any buckets, groups their events by label, and reads the files through the
cumulative lengths, `searchsorted` and a local index, in any order the sampler may
choose. A sequence is the set of its events. The sorts of polars are `Ascending` and
`Descending`, which name each element by its rank: the prover knows the sort of module
`TLC` by its name only.

### Decoding

One sequence of a batch. The scores are abstracted to their order: at each level the
best finite candidates are chosen in any order, and when there are fewer than beams,
`topk` fills up with any of the candidates at -inf. Prefixes are integers in mixed
radix, as in the trie, and `ItemsUnder` finds items by dividing them.

## What the runs show

| run | question | properties | bounds |
|---|---|---|---|
| `submission_crash` | all safety properties and `RunQueue`, with a client and the daemon killed | `TypeOK`, `OneLiveJobPerRun`, `IndexNamesLiveJob`, `AtomicAllOrNone`, `LiveJobHasBatch`, `OneBatchPerSpec`, `RecoveryFindsOnlyOwnRuns`, `MatchSeesEachJobOnce`, `SealedBatchFrozen`, `ImplementsRunQueue` | 2 clients, 2 runs, 3 commands, a two-row and an overlapping one-row specification |
| `submission_live` | commands and sealed batches finish | `CommandsFinish`, `SealedBatchesFinish` | 2 commands, a daemon kill |
| `daemon_loop` | records are true; when drain is wrong | `RecordsAreTrue`, `DrainStaleOnlyAtDispatch` | 2 users, 3 commands, resume among them, depth 2, no kills |
| `daemon_restart` | acknowledgements, `RunQueue`, with kills | `FeedingIsAnswered`, `ImplementsRunQueue` | 1 daemon and 1 engine kill, 2 starts |
| `daemon_live` | dispatched jobs finish, stop returns, drain clears the GPUs | `DispatchedFinish`, `StopFinishes`, `DrainClearsGPUs` | depth 1, no resume |
| `engine_gpus` | runs and checks keep apart, drained is clean, commands end unless the queue is overfull | `ChecksSeeNoRuns`, `DrainedIsClean`, `CommandsEnd` | 2 GPUs, idle with a foreign program to come or both busy, 3 jobs, depths 1 and 2, 1 recheck, 1 fault |
| `caches_kill` | what a run trains on belongs together; a rebuild repairs | `SequencesMatch`, `AuthenticatedIdsMatch`, `InvalidateRepairs` | 3 days, 3 runs, 2 kills, 2 windows, 2 collision policies, 3 kinds of ids |
| `caches_counters` | *violated*: counters follow the days before them | `CountersFollowDays` | 2 runs, 1 kill |
| `checkpoints_resume` | a resume is as good as no kill; a checkpoint is left; the best one is the best | `ResumesAsUninterrupted`, `CheckpointSurvives`, `BestAgrees` | 3 epochs, 3 processes, 2 kills, 2 scores or none |
| `pipeline_bounded` | windows and epochs; beams and ranks | `EpochDelivers`, `PredictsOnce`, `BeamsAreItems`, `RanksCountItems` | 2 users with 0 to 6 events, windows and strides to 3, 3 buckets; 3 items, 2 levels of 2 codes, 4 beams |
| `training_death` | ownership, GPU, check, caches, with deaths | `TypeOK`, `OneTrainerPerGPU`, `ChecksSeeNoTraining`, `OneProcessPerRun`, `ReadsWholeCache` | 3 queued, 1 by hand, 2 deaths, 1 check |
| `training_live` | every run ends; caches are built alone | `BuildsAlone`, `RunsEnd` | 3 attempts, 2 of them rebuild, 2 stages, 1 death, 1 check |

Why these bounds are enough to be interesting: two runs, two clients and a
specification that shares a run with another one make every pair of commands
compete for a run lock and for the index; three commands are a kill, the command
that races the recovery, and the recovery. Two jobs and depth two make the engine
wait, reap and refuse; depth one makes it release and wait for each run. Three
commands of two users are a pause, what races it, and a resume or a stop; two
starts are a service and the one that finds what a kill has left. In `Training`,
`a1` and `a3` share a run name, `a1` and `a2` a data group, and all share the GPU;
two deaths are a shell and its process; two runs that rebuild are the fewest that
can break `BuildsAlone` after a death. Two GPUs are one that trains and one that is
checked; three jobs fill both GPUs at depth one and are more than depth one has room
for when they were placed at depth two, which two jobs cannot show. Three runs and two kills let a kill fall
into the repair of what a kill has left; three days have a first, a middle and a
last state. Six events are two full windows of three. Three items over four
pairs of codes have groups of one, two and three items, and four beams are more than
there are items. A safety property that depends on more than
two jobs or three processes would escape TLC; the proofs below do not have that limit.

`CHECK_DEADLOCK FALSE` is in every instance since the number of commands, checks
and attempts is bounded: when they are used up the system rests.

### Disagreements found

`caches_counters` checks what the tests of the counters say of an idle day: a
process killed between the result of a day and its state (`counter.py` 167 and 170)
makes the next run take the result as cached, find no state, and count the later
days from nothing, without an error. `invalidate_cache` repairs it, as
`caches_kill` shows.

Ten further configurations are kept beside the runs. Eight of them state a sentence of
a document or a hope of a reader and end in a counterexample worth reading:

* `submission_orphan.cfg` (`MCSubmission`): a launcher killed before sealing and
  retried takes another batch's job with it.
* `daemon_wait_race.cfg` (`MCDaemon`): `wait-batch` can return 0 for a batch with a
  failed run.
* `daemon_drain_stale.cfg`: `drain` after a resume can return with a run on the GPU. How
  narrow the window is, the property `DrainStaleOnlyAtDispatch` of `daemon_loop` says: drain has to
  read `status.json` in the one iteration of the loop that dispatches the run.
* `daemon_pause_hang.cfg`: a pause or a stop at depth two can leave a prepared run
  waiting for a release that does not come.
* `engine_lookahead.cfg` (`MCEngine`): "Lookahead on other GPUs continues while a
  check is in progress" does not hold when the check is that of a GPU without
  runs: `_select_worker` waits for it, and for the foreign program it waits for.
* `engine_depth_falls.cfg`: an enqueue can wait for ever. A job is placed at depth two, where
  one run does not fill the GPU, so training is not released; the next one has depth one
  and finds no room. `_select_worker` (`queue.sh` 786-812) loops until a run ends, the run
  waits for the release, and `_release_when_full` (698-705) is only called after a run was
  placed. The release command of the daemon stays unread in the pipe. Depths are
  computed per script and data group, so two launchers that "may submit
  concurrently" (`src/utils/training_queue/README.md` 18) are enough. `CommandsEnd` names this state
  (`Overfull`) and says that a command ends in all others; `DispatchedFinish` and
  `StopFinishes` are checked at a constant depth.
* `checkpoints_prune.cfg` (`MCCheckpoints`): a kill between the pruning of a
  checkpoint and its metadata leaves a name without a file, and the resume that looks
  it up raises. A whole checkpoint is there, as `CheckpointSurvives` says.
* `checkpoints_horizon.cfg`: `LrSchedule.should_stop` is in no checkpoint, so a run
  killed after the last epoch of its schedule trains another one when it is resumed.

The other two, `daemon_types.cfg` and `engine_types.cfg`, hold: they are the type
invariants of these modules.

Three more behaviours are in the models and explain why a property carries a
condition or an instance has a bound:

* A daemon killed between writing a record and unlinking the dispatched file
  (`service.py` 239-240) makes its successor record the job again, as failed; every
  later exact retry raises at line 832. `MatchSeesEachJobOnce` therefore speaks of
  histories without a killed daemon.
* When the queue depth falls between two jobs, `_service_enqueue` (`queue.sh` 928)
  can record a job it has spawned as failed: a worker reaped in between brings
  `_running` back to the old value, and an earlier failure makes
  `_release_when_full` fail. `RecordsAreTrue` is checked with a constant depth.
* A second `start` that found no service removes a pause made after the first
  `start` won (`service.py` 413). No property says that a pause holds: with one start
  nobody but `resume` removes it, which is plain to see, and with two it is false.

### Fairness

`Submission`: each client and the daemon go on unless killed (weak fairness).
`Daemon`: the loop, the engine, the runs, the commands and the start of a daemon go
on (weak); the two timers fire if they can again and again (strong), since the
loop passes them every 30 ms. `Training`: each process takes its next step when the
lock is free (weak), training is released in the end, which is what `Daemon`
is about and is false in the cases above, and a checked GPU is lightly used
in the end. No run is assumed to succeed. Waiting for a lock is weakly fair only:
that suffices because attempts are finitely many.
`Engine`: the engine, the runs, the checks and the timer of a rejected GPU go on (weak),
and foreign programs leave in the end (weak), since a check waits for them; the timer
of a periodic check need not fire. `Caches`, `Checkpoints`, `SequenceDataset` and `Decoding`
have safety properties only.

## What is proved

The proofs hold for every set of clients, runs, payloads, specifications,
attempts, names, groups, GPUs and every bound; they use only the named
assumptions of the modules, which TLC evaluates on each instance.

* `SubmissionProofs!TypeCorrect`: `TypeOK`.
* `SubmissionProofs!InvariantCorrect`: `IInv` is an invariant. It is
  a rely/guarantee argument. `IndexNamesLiveJob` alone is not inductive: a step
  that publishes a job must know that the run has no other one, and that knowledge
  was gained some steps before. So `IInv` adds what a client at each step holds
  (`RunLocksHeld`), what it has found (`IndexKnown`), that locks exclude
  (`Mutex`), and that ids are never dangling (`StoreInv`). Each step is then shown
  once for the client that takes it and once for the others, whose knowledge is
  about runs that the stepping client cannot have locked.
* From it: `IndexCorrect`, `DeduplicationCorrect` (a run has one unfinished job)
  and `RecoveryCorrect` (recovery meets only runs it has locked).
* `TrainingProofs!TrainingTypeCorrect` and `LocksCorrect`: `LocksHeld` is
  inductive over `TypeOK`. It says that an exclusive holder is alone
  (`Exclusion`, kept because a step takes only a free lock or gives locks back,
  `ExclusionStep`), and which locks a process holds at its label. A step of one
  process cannot disturb another (`FrameStep`).
* From it: `GPUCorrect`, `CheckCorrect` and `OwnershipCorrect`.
* `SequenceDatasetProofs`: `SlidingWindowIsSlice`, `PrefixWindowIsSlice`,
  `PrefixTargetsAreCapped` and `NextItemPredictsOnce`, for histories and windows of any
  length. They rest on two facts of division (`Quotient`, `QuotientBound`): the
  label arithmetic rounds where the slice begins.
* `SequenceDatasetProofs!EpochInvariantCorrect`: `EpochInv` is an invariant. Its first half
  is about the cache: for each policy the labels that have events name different slices,
  and these are the promised windows (`Slices`, `PolicyKept`), so that a history is cut into them, once
  each (`SequencesHold`); users are in one bucket each, so the files share nothing and
  together leave nothing out (`BucketFilesHold`). The second half is about the sampler: the cumulative
  lengths never fall, so the number of those up to an index is the bucket it is in, and an
  empty bucket is passed (`IndexReads`); a draw is then a sequence not drawn
  before. From it `EpochCorrect`, and with `NextItemPredictsOnce` `PredictionCorrect`.
* `SubmissionProofs!BatchInvariantCorrect`: `BInv` is an invariant. `IInv` speaks of
  runs; `BInv` of what a client at each step knows of its batch: the position it got for
  it, the rows it has still to submit, which of their jobs are pending. It is
  inductive because everybody who changes a batch or its jobs holds
  `submission.lock`, or is the daemon, which takes only jobs of sealed batches and is
  between two file operations only as its own step says.
* From it: `AllOrNoneCorrect`, `BatchFileCorrect` (a live job has its batch file),
  `RetryCorrect` (one batch per specification), `MatchCorrect`, `FrozenCorrect`, and
  `RefinementCorrect`: `Submission` implements `RunQueue`.
* `CachesProofs!CachesInvariantCorrect`: `IInv` of `CachesInvariant` says for every file
  what it can have been written for (a fit, a day, the windows of a policy), given the
  files that are there with it and the step of the run. A kill leaves the files of any
  step, so each conjunct is about files alone once the run is gone. From it:
  `SequencesCorrect`, `AuthenticatedCorrect` and `RepairCorrect`.
* `TrainingProofs!CachesBuiltCorrect`: who builds has the lock of the data group, unless
  somebody has died, and who reads found a whole cache. From it `BuildsAloneCorrect`,
  and `WholeCacheCorrect` for instances without a run that rebuilds: with one it is
  false, as said under Limits.
* `DaemonProofs!DaemonInvariantCorrect`: `IInv` of `DaemonInvariant`, with kills of daemons
  and engines. `FeedingIsAnswered` alone is not inductive: that an engine which is at
  no job has answered (`JobKnown`), and that a daemon starts with an engine that nobody
  has written to (`DaemonsKnown`), have to be known. From it `FeedingCorrect`,
  `DaemonTypesCorrect` and `DaemonRefinement`. That a job has one file at a time is false: a daemon
  killed between a record and the unlinking leaves two. What holds is that the record comes
  first (`Recorded`), so no job is without a file, a pending job has no other one, and each
  step of the loop is a step of the queue or none.
* `DaemonProofs!RecordsCorrect`: `RecordsAreTrue` when every job has the same depth. The property
  itself speaks of histories without a kill: a restarted daemon records as failed what has
  succeeded. Without one depth see Disagreements. The
  invariant is `Tracked`: a job is fed once, to the engine of the daemon that
  serves, and has neither run nor result until then (`FedKnown`, `UnfedKnown`); an
  enqueue that fails with as many slots as before has spawned nothing (`SlotsKnown`: the
  slots are never full at a depth unless training is released, so a failure of
  `_release_when_full` comes with a new slot); a result says how the run
  ended (`ResultsKnown`).
* `DaemonProofs!DrainCorrect`: `DrainStaleOnlyAtDispatch` when every job has the same depth, with any
  number of starts, stops, pauses and resumes. A run on the GPU is of a dispatched job (`Tracked`), and
  while the last status shows a drained service a job is dispatched only in the iteration
  that goes on to write the next status (`DrainKnown`). So a drain can be wrong after a resume or
  a losing start, in that iteration; that it is right without them is `DrainClearsGPUs`, which is
  model-checked (`daemon_live`).
* `EngineProofs!EngineInvariantCorrect`: `ChecksSeeNoRuns` needs to know where runs are
  when a check begins. A run is only given an available GPU, a GPU is withheld while
  it is checked, and it is rejected only by a check that found no runs, or one that
  could not write. From it `ChecksCorrect`, `DrainedCorrect` and `EngineTypesCorrect`. The types need
  that a set of numbers has a least element (`Least`, from the library's well-founded
  minimum), which also gives, as a minimal counterexample, that any set of GPUs
  can be listed (`ListedIsSequence`).
* `CheckpointsProofs!InvariantCorrect`: `IInv` of `CheckpointsInvariant`. `Uninterrupted` says
  of memory and of every whole file, not of memory alone, that it is what one run with
  these scores would hold; else a resume could bring anything back. For
  `CheckpointSurvives`, which speaks of some file, the invariant names one: after `Save`
  the epoch of memory, before it the one before (`SureEpoch`), which pruning keeps
  because no recorded epoch is later (`OneLineage`). For `BestAgrees`, the first entry of
  the metadata is the epoch of `BestWeights` after the callback and becomes it by
  the new score before (`BestFollows`). From it `ResumesCorrect`, `SurvivalCorrect` and
  `BestCorrect`.
* `CheckpointsProofs!OrderCorrect`: both lists of metadata stay in order and name no epoch
  twice, also in a directory that reruns share. `Sorted` inserts one entry and
  removes one where the code filters and sorts; this is why that is the same.
* `DecodingProofs!DecodingInvariantCorrect`: `IInv` of `DecodingInvariant`. A key is a number in
  mixed radix, so that equal keys are equal prefixes (`KeyTellsPrefixes`); hence the trie
  lets a beam grow only by the codes of items it begins (`CandidatesAre`). That no
  beginning is missed while there is room needs `BeamsSpell`: a beam is dead only when
  each beginning has its beam, because beams die only when there are fewer candidates than beams, and then
  each candidate is chosen. From it `BeamsCorrect`.
* `DecodingProofs!RanksCorrect`: `items_under` divides the key of an item by the widths below
  the prefix, and what is left is the key of the item's own prefix (`KeyOfPrefix`); a masked beam has a
  negative key, which no item has (`KeySigns`). So beams that differ list different
  items, and of the items of a whole tuple the collision suffix leaves one.

The inductive invariants were checked with TLC first, on the instances of the runs.

`Replay` of `Checkpoints`, `Key`, `LevelOffset`, `Below` and `FlattenSeq` of `Decoding`, and
`Cumulative` of `SequenceDataset` are recursive functions. That a function with their equations exists and that two such functions agree is
shown by a least counterexample (`ReplayExists`, `ReplaysAgree`, `UnfoldingExists`, over `Least`), which
takes the place of the induction theorem of the library; the rest of a proof uses the
equations only.

Only model-checked: everything with fairness, and `DrainClearsGPUs`. Liveness and `ENABLED` are out of
the prover's reach.
That `Windows` is true to polars, and `Caches` to the file system, is for a reader
to compare.

## Limits

* `ReadsWholeCache` is checked without a run that rebuilds, and `BuildsAlone`
  speaks of histories without a death, because neither holds with them: a
  rebuilding run gives up its exclusive lock before its warmup and nobody holds a
  cache lock while training, so a second rebuild removes files under a reader.
* `MatchSeesEachJobOnce` holds until a daemon is killed, as said above.
* A daemon that is started again records as failed what had succeeded
  and was not collected; the surviving processes of a killed engine train on. Both
  are in the models and no property forbids them.
* `Engine` has no kill; what a killed engine does to the queue is in `Daemon`. Its time
  is the order of events: with `RECHECK_SECONDS=0` and one GPU the check
  would always be due, and no second run be dispatched. `ChecksSeeNoRuns` leaves
  single checks out once a check could not write its evidence: its GPU is
  then checked again without the gate while prepared runs train on it.
* `Caches` has one run at a time; two at once are `Training`. `InvalidateRepairs` is a
  property of runs that rebuild: without, the files that `yambda.py` writes in place
  are trusted by their existence, `metadata.yaml` may be cut short, and k-means codebooks
  shared by two collision policies may be newer than the codes of one of them.
  `AuthenticatedIdsMatch` therefore speaks of authenticated ids only.
* `Checkpoints`: metadata that is empty or cut short before its first entry reads as no
  checkpoint and the run starts over, which is why `CheckpointSurvives` speaks of files. Half
  an entry makes later processes raise when they resume, save or link, until somebody
  removes the file. An entry whose path is cut, and so names another file, is left
  out. A run that starts over inherits the metadata of the earlier one, and may prune its
  own checkpoint by it. A kill between the "last" and the "best" callback loses the epoch for "best": `BestAgrees` is about
  runs that nobody killed. The callbacks share one key of the state and overwrite each
  other's there, and have no state to lose.
* `Decoding`: a key of the trie is an `int64` in the code and a number in the model. They agree
  while the product of the widths of the levels is below 2^63, as with the default of three levels
  of 1024 codes; nothing in the code checks it. The run has three items: with four and
  beams of width four TLC needs more than five minutes. `MCPipeline` puts two programs
  without common state into one instance; its number of states is the sum of theirs.
* File operations are atomic as `os.replace` is; a half-written temporary file is
  never read by name and is left out. Power failure (loss of renamed files) is not modelled.

## Not modelled

Most of the lines of the repository are experiments, analysis and reports: scripts that
read finished runs, compute floating-point statistics, draw and write text, one file per
research question. They keep no state between calls, run alone, and have no
property over finite states that would not repeat them. The rest, by component:

* Networks, losses and clustering: floating-point tensor code. What the models take from
  it is a choice: an order of candidates, a score, a fit.
* `queue_depth.py`: a ratio of recorded times. `Daemon` and `Engine` take any depth from a set,
  and let it change. Its index can lose an update, which changes that ratio only.
* `ranking_evidence.py`: two immutable files, compared with each other when read.
* `ranking_metrics.py`, `pairwise.py`: sums over tensors. The discrete part, which rank an
  answer gets, is in `Decoding` for generated items.
* `packed.py`: index arithmetic on tensors. The sampler and the global index are in
  `SequenceDataset`.
* `DayByDayTrainer`, the shapes of the learning rate, metrics: not in `Checkpoints`. The online
  phase of `DayByDayTrainer` begins at the first day again when it is resumed.
* `workflow.py`: a sequential command over files in version control.
* Launchers: to the queue they are the commands of `Submission` and `Daemon`; their grids and
  thresholds are one experiment's each.
* `old/`, `yambda_original/`: not called.

## Plan

Done: 1. `RunQueue`, `Submission` and proofs; 2. `Daemon`; 3. `Training` and proofs;
4. `Engine`; 5. `Caches`; 6. `Checkpoints`; 7. `Windows`, `SequenceDataset` and proofs;
8. `Decoding`.

Proved: every safety and action property of the runs but `DrainClearsGPUs`, under the
hypotheses named above, and both refinements of `RunQueue`.

Worth modelling next: `_all_batches_sealed` of `Daemon` over the steps of `Submission`,
which now is beyond the bounds TLC finishes, and an engine kill in `Engine`.
