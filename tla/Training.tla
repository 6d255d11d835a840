------------------------------ MODULE Training ------------------------------
(***************************************************************************)
(* The processes that train (src/dcn/main.py and TrainedStage.run of       *)
(* src/dcn/config/experiment.py): how they own their run name, share the   *)
(* caches under generated/ while they prepare, and take turns on a GPU     *)
(* with each other and with the queue's periodic check of the GPU.  They   *)
(* meet only in advisory file locks (src/utils/locks.py), which the kernel *)
(* drops when their holder dies.                                           *)
(*                                                                         *)
(* An attempt is one process for one run name.  A queued attempt is a      *)
(* child of a shell of queue.sh, inherits that shell's run lock, prepares  *)
(* on the CPU and trains in the one slot of its GPU; any other attempt is  *)
(* started by hand.  The attempts of this module read one sequence cache.  *)
(***************************************************************************)
EXTENDS Naturals, FiniteSets

CONSTANTS
  Attempts,   \* the processes
  Name,       \* Name[a]: the run name of attempt a
  Queued,     \* the attempts the queue started
  Group,      \* Group[a]: its TRAINING_QUEUE_DATA_GROUP, or NoGroup
  NoGroup,
  Cold,       \* the attempts with invalidate_cache
  Gpu,        \* Gpu[a]: the GPU it is to train on
  Stages,     \* the number of stages of an experiment
  MaxChecks,  \* bound: periodic checks of a GPU
  MaxDeaths   \* bound: processes killed, or ended by an exception

ASSUME QueuedAssumption == Queued \subseteq Attempts /\ Cold \subseteq Attempts
ASSUME GroupAssumption == \A a \in Attempts \ Queued : Group[a] = NoGroup
ASSUME BoundsAssumption == Stages \in Nat \ {0} /\ MaxChecks \in Nat /\ MaxDeaths \in Nat

Gpus == {Gpu[a] : a \in Attempts}
Groups == {Group[a] : a \in Attempts}

VARIABLES
  pc,        \* pc[a]: the step of attempt a
  stage,     \* stage[a]: the stage it is in
  shell,     \* the queued attempts whose shell lives
  held,      \* held[p]: the locks of process p, each with its mode
  ready,     \* the data groups with a DCN_RUNNER_DATA_READY file
  sequences, \* the sequence cache: "none", "partial" or "whole"
  shared,    \* whether the runner-data pickle exists
  released,  \* whether the DCN_TRAINING_RELEASE file exists
  check,     \* check[g]: the step of the periodic check of GPU g
  checks, deaths

caches == <<ready, sequences, shared>>
vars == <<pc, stage, shell, held, caches, released, check, checks, deaths>>

PrepLock == <<"prep", "lock">>
SequenceLock == <<"sequence cache", "lock">>
SharedLock == <<"runner data", "lock">>
RunLock(a) == <<"run", Name[a]>>
DataLock(a) == <<"prep data", Group[a]>>
SlotLock(g) == <<"slot", g>>
DeviceLock(g) == <<"gpu", g>>

(* The check of GPU g is a process too. *)
Check(g) == <<"check", g>>
Processes == Attempts \cup {Check(g) : g \in Gpus}
ASSUME ChecksAssumption == \A g \in Gpus : Check(g) \notin Attempts

Init ==
  /\ pc = [a \in Attempts |-> "start"] /\ stage = [a \in Attempts |-> 1] /\ shell = {}
  /\ held = [p \in Processes |-> {}]
  /\ ready = {} /\ sequences = "none" /\ shared = FALSE /\ released = FALSE
  /\ check = [g \in Gpus |-> "idle"] /\ checks = 0 /\ deaths = 0

-----------------------------------------------------------------------------
(* flock: shared holders coexist and exclude an exclusive one. *)

Holders(lock, mode) == {p \in Processes : <<lock, mode>> \in held[p]}
Free(lock, mode) == Holders(lock, "exclusive") = {} /\ (mode = "shared" \/ Holders(lock, "shared") = {})
Take(p, lock, mode) ==
  Free(lock, mode) /\ held' = [held EXCEPT ![p] = @ \cup {<<lock, mode>>}]
Drop(p, locks) == held' = [held EXCEPT ![p] = {h \in @ : h[1] \notin locks}]
Holds(p, lock) == \E mode \in {"shared", "exclusive"} : <<lock, mode>> \in held[p]

At(a, label) == pc[a] = label
Goto(a, label) == pc' = [pc EXCEPT ![a] = label]

-----------------------------------------------------------------------------
(* Run ownership: the queue's shell or, by hand, _run_ownership. *)

(* Mutant: who does not get the lock goes on. *)
OwnAnyway(a) ==
  /\ At(a, "start") /\ Goto(a, "prep")
  /\ IF Free(RunLock(a), "exclusive") THEN Take(a, RunLock(a), "exclusive") ELSE UNCHANGED held
  /\ shell' = shell \cup ({a} \cap Queued)
  /\ UNCHANGED <<stage, caches, released>>
Own(a) ==
  /\ At(a, "start")
  /\ IF Free(RunLock(a), "exclusive")
       THEN /\ Take(a, RunLock(a), "exclusive") /\ Goto(a, "prep")
            /\ shell' = shell \cup ({a} \cap Queued)
       ELSE Goto(a, "ended") /\ UNCHANGED <<held, shell>>
  /\ UNCHANGED <<stage, caches, released>>

(* Preparation. *)

(* Mutant: a cold attempt shares the lock as well. *)
TakePrepShared(a) ==
  /\ At(a, "prep")
  /\ Take(a, PrepLock, "shared") /\ Goto(a, IF a \in Cold THEN "sequences" ELSE "ready")
  /\ UNCHANGED <<stage, shell, caches, released>>
TakePrep(a) ==
  /\ At(a, "prep")
  /\ IF a \in Cold
       THEN Take(a, PrepLock, "exclusive") /\ Goto(a, "sequences")
       ELSE Take(a, PrepLock, "shared") /\ Goto(a, "ready")
  /\ UNCHANGED <<stage, shell, caches, released>>

(* _prebuild_runner_data: with the ready file the data lock is not needed. *)
CheckReady(a) ==
  /\ At(a, "ready")
  /\ Goto(a, IF Group[a] \in ready THEN "sequences" ELSE "data")
  /\ UNCHANGED <<stage, shell, held, caches, released>>

TakeData(a) ==
  /\ At(a, "data") /\ Goto(a, "data ready")
  /\ Take(a, DataLock(a), "exclusive")
  /\ UNCHANGED <<stage, shell, caches, released>>

(* The ready file is looked for again under the lock. *)
RecheckReady(a) ==
  /\ At(a, "data ready") /\ Goto(a, "sequences")
  /\ IF Group[a] \in ready THEN Drop(a, {DataLock(a)}) ELSE UNCHANGED held
  /\ UNCHANGED <<stage, shell, caches, released>>

(* SequenceDataset: load the cache or build it in place. *)
(* Mutant: the directory is trusted as soon as it is there. *)
TakeSequencesPartial(a) ==
  /\ At(a, "sequences") /\ Free(SequenceLock, "exclusive")
  /\ IF sequences # "none" /\ a \notin Cold
       THEN Goto(a, "shared") /\ UNCHANGED <<held, sequences>>
       ELSE Goto(a, "build sequences") /\ Take(a, SequenceLock, "exclusive") /\ sequences' = "partial"
  /\ UNCHANGED <<stage, shell, ready, shared, released>>
TakeSequences(a) ==
  /\ At(a, "sequences") /\ Free(SequenceLock, "exclusive")
  /\ IF sequences = "whole" /\ a \notin Cold
       THEN Goto(a, "shared") /\ UNCHANGED <<held, sequences>>
       ELSE Goto(a, "build sequences") /\ Take(a, SequenceLock, "exclusive") /\ sequences' = "partial"
  /\ UNCHANGED <<stage, shell, ready, shared, released>>

BuildSequences(a) ==
  /\ At(a, "build sequences") /\ Goto(a, "shared")
  /\ sequences' = "whole" /\ Drop(a, {SequenceLock})
  /\ UNCHANGED <<stage, shell, ready, shared, released>>

(* _shared_runner_data: without a data group everyone builds its own. *)
TakeShared(a) ==
  /\ At(a, "shared")
  /\ IF Group[a] = NoGroup
       THEN Goto(a, "built") /\ UNCHANGED held
       ELSE /\ Free(SharedLock, "exclusive")
            /\ IF shared THEN Goto(a, "built") /\ UNCHANGED held
                 ELSE Goto(a, "build shared") /\ Take(a, SharedLock, "exclusive")
  /\ UNCHANGED <<stage, shell, caches, released>>

BuildShared(a) ==
  /\ At(a, "build shared") /\ Goto(a, "built")
  /\ shared' = TRUE /\ Drop(a, {SharedLock})
  /\ UNCHANGED <<stage, shell, ready, sequences, released>>

(* The data is built: a cold attempt gives the lock up before the warmup. *)
(* Mutant: a run without a data group writes a ready file too. *)
BuiltAlways(a) ==
  /\ At(a, "built")
  /\ Goto(a, IF a \in Cold THEN "warmup" ELSE "prepare")
  /\ Drop(a, IF a \in Cold THEN {PrepLock} ELSE {DataLock(a)})
  /\ ready' = IF Holds(a, DataLock(a)) THEN ready \cup {Group[a]} ELSE ready
  /\ UNCHANGED <<stage, shell, sequences, shared, released>>
Built(a) ==
  /\ At(a, "built")
  /\ Goto(a, IF a \in Cold THEN "warmup" ELSE "prepare")
  /\ Drop(a, IF a \in Cold THEN {PrepLock} ELSE {DataLock(a)})
  /\ ready' = IF Holds(a, DataLock(a)) THEN ready \cup ({Group[a]} \ {NoGroup}) ELSE ready
  /\ UNCHANGED <<stage, shell, sequences, shared, released>>

TakeWarmup(a) ==
  /\ At(a, "warmup") /\ Goto(a, "prepare")
  /\ Take(a, PrepLock, "shared")
  /\ UNCHANGED <<stage, shell, caches, released>>

Prepare(a) ==
  /\ At(a, "prepare") /\ Goto(a, IF a \in Queued THEN "wait" ELSE "gpu")
  /\ Drop(a, {PrepLock})
  /\ UNCHANGED <<stage, shell, caches, released>>

-----------------------------------------------------------------------------
(* Training. *)

(* _wait_for_training_release *)
Wait(a) ==
  /\ At(a, "wait") /\ released /\ Goto(a, "gpu")
  /\ UNCHANGED <<stage, shell, held, caches, released>>

(* gpu_lock_path: the slot of a queued attempt, the device of any other. *)
(* Mutant: a queued attempt takes the gate only. *)
TakeGPUNoSlot(a) ==
  /\ At(a, "gpu")
  /\ IF a \in Queued THEN Goto(a, "gate") /\ UNCHANGED held
       ELSE Take(a, DeviceLock(Gpu[a]), "exclusive") /\ Goto(a, "train")
  /\ UNCHANGED <<stage, shell, caches, released>>
TakeGPU(a) ==
  /\ At(a, "gpu")
  /\ IF a \in Queued THEN Take(a, SlotLock(Gpu[a]), "exclusive") /\ Goto(a, "gate")
       ELSE Take(a, DeviceLock(Gpu[a]), "exclusive") /\ Goto(a, "train")
  /\ UNCHANGED <<stage, shell, caches, released>>

(* gpu_gate_path *)
TakeGate(a) ==
  /\ At(a, "gate") /\ Goto(a, "memory")
  /\ Take(a, DeviceLock(Gpu[a]), "shared")
  /\ UNCHANGED <<stage, shell, caches, released>>

(* _wait_for_queue_gpu: after foreign memory, the runner prepares again. *)
WaitMemory(a) ==
  /\ At(a, "memory") /\ (Goto(a, "prepare again") \/ Goto(a, "train"))
  /\ UNCHANGED <<stage, shell, held, caches, released>>

PrepareAgain(a) ==
  /\ At(a, "prepare again") /\ Goto(a, "train")
  /\ UNCHANGED <<stage, shell, held, caches, released>>

Train(a) ==
  /\ At(a, "train") /\ Drop(a, {SlotLock(Gpu[a]), DeviceLock(Gpu[a])})
  /\ IF stage[a] < Stages
       THEN stage' = [stage EXCEPT ![a] = @ + 1] /\ Goto(a, "prep")
       ELSE Goto(a, "exit") /\ UNCHANGED stage
  /\ UNCHANGED <<shell, caches, released>>

(* The process ends.  The shell keeps the run lock until it has ended too. *)
Exit(a) ==
  /\ At(a, "exit") /\ Goto(a, "ended")
  /\ held' = [held EXCEPT ![a] = IF a \in shell THEN {<<RunLock(a), "exclusive">>} ELSE {}]
  /\ UNCHANGED <<stage, shell, caches, released>>

ShellExit(a) ==
  /\ a \in shell /\ At(a, "ended") /\ shell' = shell \ {a}
  /\ Drop(a, {RunLock(a)})
  /\ UNCHANGED <<pc, stage, caches, released>>

Work(a) ==
  /\ \/ Own(a) \/ TakePrep(a) \/ CheckReady(a) \/ TakeData(a) \/ RecheckReady(a)
     \/ TakeSequences(a) \/ BuildSequences(a) \/ TakeShared(a) \/ BuildShared(a) \/ Built(a)
     \/ TakeWarmup(a) \/ Prepare(a) \/ Wait(a) \/ TakeGPU(a) \/ TakeGate(a) \/ WaitMemory(a)
     \/ PrepareAgain(a) \/ Train(a) \/ Exit(a) \/ ShellExit(a)
  /\ UNCHANGED <<check, checks, deaths>>

(* An exception or a kill, at any step; the process or its shell alone. *)
Die(a) ==
  /\ pc[a] \notin {"start", "ended"} /\ deaths < MaxDeaths /\ deaths' = deaths + 1
  /\ \/ /\ Goto(a, "ended") /\ UNCHANGED shell
        /\ held' = [held EXCEPT ![a] = IF a \in shell THEN {<<RunLock(a), "exclusive">>} ELSE {}]
     \/ a \in shell /\ shell' = shell \ {a} /\ UNCHANGED <<pc, held>>
  /\ UNCHANGED <<stage, caches, released, check, checks>>

-----------------------------------------------------------------------------
(* The queue: the release of training, and the periodic check of a GPU. *)

Release ==
  /\ ~released /\ released' = TRUE
  /\ UNCHANGED <<pc, stage, shell, held, caches, check, checks, deaths>>

(* _start_gpu_check rechecking *)
CheckStart(g) ==
  /\ check[g] = "idle" /\ checks < MaxChecks /\ checks' = checks + 1
  /\ check' = [check EXCEPT ![g] = "gate"]
  /\ UNCHANGED <<pc, stage, shell, held, caches, released, deaths>>

(* Mutant: the check shares the gate. *)
CheckGateShared(g) ==
  /\ check[g] = "gate" /\ check' = [check EXCEPT ![g] = "sampling"]
  /\ Take(Check(g), DeviceLock(g), "shared")
  /\ UNCHANGED <<pc, stage, shell, caches, released, checks, deaths>>
CheckGate(g) ==
  /\ check[g] = "gate" /\ check' = [check EXCEPT ![g] = "sampling"]
  /\ Take(Check(g), DeviceLock(g), "exclusive")
  /\ UNCHANGED <<pc, stage, shell, caches, released, checks, deaths>>

(* The GPU is lightly used, or drain stops the check. *)
(* Mutant: the gate is not given up. *)
CheckEndKeepsGate(g) ==
  /\ check[g] = "sampling" /\ check' = [check EXCEPT ![g] = "idle"]
  /\ UNCHANGED <<pc, stage, shell, held, caches, released, checks, deaths>>
CheckEnd(g) ==
  /\ check[g] = "sampling" /\ check' = [check EXCEPT ![g] = "idle"]
  /\ Drop(Check(g), {DeviceLock(g)})
  /\ UNCHANGED <<pc, stage, shell, caches, released, checks, deaths>>

Next ==
  \/ \E a \in Attempts : Work(a) \/ Die(a)
  \/ Release
  \/ \E g \in Gpus : CheckStart(g) \/ CheckGate(g) \/ CheckEnd(g)

Spec == Init /\ [][Next]_vars

(* Every process that can take its next step takes it, training is released *)
(* and a checked GPU is lightly used in the end.                            *)
FairSpec ==
  /\ Spec
  /\ \A a \in Attempts : WF_vars(Work(a))
  /\ WF_vars(Release)
  /\ \A g \in Gpus : WF_vars(CheckEnd(g))

-----------------------------------------------------------------------------
(* Properties. *)

Labels ==
  {"start", "prep", "ready", "data", "data ready", "sequences", "build sequences", "shared",
   "build shared", "built", "warmup", "prepare", "wait", "gpu", "gate", "memory",
   "prepare again", "train", "exit", "ended"}
Locks ==
  {PrepLock, SequenceLock, SharedLock}
    \cup {RunLock(a) : a \in Attempts} \cup {DataLock(a) : a \in Attempts}
    \cup {SlotLock(g) : g \in Gpus} \cup {DeviceLock(g) : g \in Gpus}

(* Every variable is of its kind. *)
TypeOK ==
  /\ pc \in [Attempts -> Labels] /\ stage \in [Attempts -> 1..Stages] /\ shell \subseteq Queued
  /\ held \in [Processes -> SUBSET (Locks \X {"shared", "exclusive"})]
  /\ ready \subseteq Groups \ {NoGroup} /\ sequences \in {"none", "partial", "whole"}
  /\ shared \in BOOLEAN /\ released \in BOOLEAN
  /\ check \in [Gpus -> {"idle", "gate", "sampling"}]
  /\ checks \in 0..MaxChecks /\ deaths \in 0..MaxDeaths

IsTraining(a) == pc[a] \in {"memory", "prepare again", "train"}

(* One simultaneous training run per GPU, queued or not. *)
OneTrainerPerGPU ==
  \A a, b \in Attempts : IsTraining(a) /\ IsTraining(b) /\ Gpu[a] = Gpu[b] => a = b

(* The periodic check never samples a GPU on which a run is training: it    *)
(* would take the run's own load for a foreign one, or the other way round. *)
ChecksSeeNoTraining ==
  \A g \in Gpus : check[g] = "sampling" => \A a \in Attempts : Gpu[a] = g => ~IsTraining(a)

Alive(a) == pc[a] \notin {"start", "ended"}

(* No two live processes work for one run name, whichever of a shell and    *)
(* its process has died: they would write one log, checkpoint and result.   *)
OneProcessPerRun ==
  \A a, b \in Attempts : Alive(a) /\ Alive(b) /\ Name[a] = Name[b] => a = b

(* A cache is built by one process, and not while another one warms its     *)
(* loaders from it, as long as nobody dies. With a death it fails: a run    *)
(* that rebuilds drops the exclusive lock before its warmup, a second one   *)
(* takes it and dies with the cache half built, and then the first one and  *)
(* an ordinary run hold the lock shared while the latter builds anew.       *)
BuildsAlone ==
  deaths = 0 =>
    \A a, b \in Attempts :
      pc[a] = "build sequences" /\ a # b => pc[b] \notin {"build sequences", "prepare"}

(* A runner is prepared and trained from a whole cache. *)
ReadsWholeCache ==
  \A a \in Attempts : pc[a] \in {"prepare", "prepare again", "train"} => sequences = "whole"

-----------------------------------------------------------------------------
(* The invariant the proofs use. *)

(* An exclusive holder of a lock is its only holder. *)
Exclusion ==
  \A p, q \in Processes : p # q =>
    \A h \in held[p], k \in held[q] : h[1] = k[1] => h[2] = "shared" /\ k[2] = "shared"

(* Which locks a process holds at its step. *)
HeldAtStep(a) ==
  /\ Alive(a) \/ a \in shell => <<RunLock(a), "exclusive">> \in held[a]
  /\ a \in Queued /\ (At(a, "gate") \/ IsTraining(a)) => <<SlotLock(Gpu[a]), "exclusive">> \in held[a]
  /\ a \in Queued /\ IsTraining(a) => <<DeviceLock(Gpu[a]), "shared">> \in held[a]
  /\ a \notin Queued => pc[a] \notin {"gate", "memory", "prepare again"}
  /\ a \notin Queued /\ At(a, "train") => <<DeviceLock(Gpu[a]), "exclusive">> \in held[a]
HeldBySampling(g) ==
  check[g] = "sampling" => <<DeviceLock(g), "exclusive">> \in held[Check(g)]

(* Whoever works holds the locks of its step, and no lock has two holders   *)
(* unless all of them share it.                                             *)
LocksHeld ==
  Exclusion /\ (\A a \in Attempts : HeldAtStep(a)) /\ (\A g \in Gpus : HeldBySampling(g))

(* The steps of an attempt that has its sequence cache. *)
Reading ==
  {"shared", "build shared", "built", "warmup", "prepare", "wait", "gpu", "gate", "memory",
   "prepare again", "train"}

(* Who builds holds the cache, and the preparation is shared by those that  *)
(* do not rebuild, or one's own: but no lock is held before the warmup.     *)
BuilderHolds(a) ==
  /\ At(a, "build sequences") => <<SequenceLock, "exclusive">> \in held[a]
  /\ a \in Cold => pc[a] \notin {"ready", "data", "data ready"}
  /\ pc[a] \in {"ready", "data", "data ready", "sequences", "build sequences", "shared", "build shared", "built"} =>
       <<PrepLock, IF a \in Cold THEN "exclusive" ELSE "shared">> \in held[a]
  /\ At(a, "prepare") => <<PrepLock, "shared">> \in held[a]

(* A cache is partial while it is built; without a death, only then, and no *)
(* one has read it before it is built by a run that does not rebuild.       *)
CachesBuilt ==
  /\ \A a \in Attempts : BuilderHolds(a)
  /\ sequences = "none" => \A a \in Attempts : pc[a] \notin Reading \cup {"build sequences"}
  /\ (\E a \in Attempts : At(a, "build sequences")) => sequences = "partial"
  /\ deaths = 0 =>
       /\ sequences = "partial" => \E a \in Attempts : At(a, "build sequences")
       /\ (\E a \in Attempts \ Cold : At(a, "build sequences")) => \A b \in Attempts : pc[b] \notin Reading
  /\ Cold = {} => \A a \in Attempts : pc[a] \in Reading => sequences = "whole"

(* The locks are never waited for in a circle: every process ends and gives *)
(* its run name back.                                                       *)
RunsEnd ==
  \A a \in Attempts : pc[a] # "start" ~> (pc[a] = "ended" /\ held[a] = {})
=============================================================================
