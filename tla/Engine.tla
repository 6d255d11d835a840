------------------------------- MODULE Engine -------------------------------
(***************************************************************************)
(* The engine of the queue on several GPUs (src/utils/training_queue/      *)
(* queue.sh, with TRAINING_QUEUE_MONITOR_LIGHT_GPUS=1 as the service sets  *)
(* it): how GPUs are admitted, withheld for a periodic check, rejected and *)
(* tried again, how enqueue chooses the GPU of a run, when training is     *)
(* released, and how drain ends.                                           *)
(*                                                                         *)
(* The engine is one bash process.  The others are the runs it has spawned,*)
(* the processes that check a GPU (gpu_check.py), which end when they like,*)
(* the clock, and foreign programs that load a GPU and leave it.  A worker *)
(* is a GPU, since there is one slot per GPU.                              *)
(***************************************************************************)
EXTENDS Naturals, Sequences, FiniteSets

CONSTANTS
  GpuCount,    \* the GPUs are 1..GpuCount, as nvidia-smi lists them
  JobCount,    \* the jobs are 1..JobCount, in the order they are enqueued
  Depths,      \* the queue depths that queue_depth.py may compute
  Starts,      \* pairs: the GPUs that are busy when the engine starts, and
               \* the bound on the foreign programs that come afterwards
  MaxRechecks, \* bound: times the recheck of an available GPU becomes due
  MaxFaults    \* bound: checks that cannot write down why they reject

ASSUME CountsAssumption == {GpuCount, JobCount} \subseteq Nat \ {0}
ASSUME DepthsAssumption == Depths # {} /\ Depths \subseteq Nat \ {0}
ASSUME StartsAssumption == Starts # {} /\ Starts \subseteq (SUBSET (1..GpuCount)) \X Nat
ASSUME BoundsAssumption == {MaxRechecks, MaxFaults} \subseteq Nat

Gpus == 1..GpuCount
Jobs == 1..JobCount

VARIABLES
  pool,      \* what the engine knows of the GPUs, and their checks
  loaded,    \* the GPUs with a foreign program
  run, on,   \* run[j], on[j]: the process of job j and its GPU
  reaped,    \* the jobs whose end the engine has seen
  released,  \* whether training is released
  depth,     \* _queue_depth
  turn,      \* _next_worker_index, counted from one
  pc, job,   \* what the engine is doing, and the last job given to it
  draining,  \* _draining_queue
  rechecks, loads, faults \* loads: the foreign programs still to come

jobs == <<run, on, reaped>>
engine == <<released, depth, turn, pc, job, draining>>
bounds == <<rechecks, loads, faults>>
vars == <<pool, loaded, jobs, engine, bounds>>

(* A check is "shot" (once, without the gate of the GPU), or periodic and   *)
(* then at the "gate" or "sampling" behind it; then its process has ended.  *)
CheckSteps == {"none", "shot", "gate", "sampling", "passed", "failed"}
GpuStates == {"available", "checking", "rejected"}
RunSteps == {"none", "preparing", "prepared", "slot", "gate", "training", "ok", "error"}

(* GPUs as nvidia-smi lists them. *)
Listed(S) ==
  CHOOSE s \in [1..Cardinality(S) -> S] : \A i, k \in DOMAIN s : i < k => s[i] < s[k]

(* Idle GPUs are admitted; the busy ones are checked at once. *)
Init ==
  /\ \E start \in Starts :
       LET busy == start[1] IN
       /\ loaded = busy /\ loads = start[2]
       /\ pool = [state    |-> [g \in Gpus |-> IF g \in busy THEN "checking" ELSE "available"],
                  check    |-> [g \in Gpus |-> IF g \in busy THEN "shot" ELSE "none"],
                  due      |-> [g \in Gpus |-> FALSE],
                  workers  |-> Listed(Gpus \ busy),
                  periodic |-> 0, next |-> 1]
  /\ run = [j \in Jobs |-> "none"] /\ on = [j \in Jobs |-> 0] /\ reaped = {}
  /\ released = FALSE /\ depth \in Depths /\ turn = 1 /\ pc = "command" /\ job = 0
  /\ draining = FALSE
  /\ rechecks = 0 /\ faults = 0

-----------------------------------------------------------------------------
(* What the engine does with the GPUs. *)

Running == {j \in Jobs : run[j] # "none" /\ j \notin reaped}
InFlight(g) == Cardinality({j \in Running : on[j] = g})
Training(g) == {j \in Jobs : on[j] = g /\ run[j] = "training"}
(* The runs behind the gate of the GPU, which they share. *)
Gated(g) == {j \in Jobs : on[j] = g /\ run[j] \in {"gate", "training"}}
Ended(j) == run[j] \in {"ok", "error"}

(* The k-th of n places, counted round from place first. *)
Around(first, k, n) == ((first - 1 + k) % n) + 1

(* _sync_gpu_checks and _admit_gpu *)
Synced(p) ==
  LET over == {g \in Gpus : p.state[g] = "checking" /\ p.check[g] \in {"passed", "failed"}}
      light == {g \in over : p.check[g] = "passed"}
      known == {p.workers[i] : i \in DOMAIN p.workers}
  IN [p EXCEPT !.state = [g \in Gpus |-> IF g \in light THEN "available"
                                         ELSE IF g \in over THEN "rejected" ELSE @[g]],
               !.check = [g \in Gpus |-> IF g \in over THEN "none" ELSE @[g]],
               !.due = [g \in Gpus |-> @[g] /\ g \notin over],
               !.workers = @ \o Listed(light \ known),
               !.periodic = IF @ \in over THEN 0 ELSE @]

(* Admitting a GPU computes the queue depth again. *)
Admits(p) == \E g \in Gpus : p.state[g] = "checking" /\ p.check[g] = "passed"

(* _maybe_recheck_gpus: the rejected GPUs whose time has come are tried     *)
(* again, and one available GPU is withheld for its periodic check.         *)
(* Mutant: a GPU that was rejected is not tried again. *)
RecheckedNever(p) ==
  LET places == {k \in 0..GpuCount - 1 :
                   LET g == Around(p.next, k, GpuCount) IN p.state[g] = "available" /\ p.due[g]}
      first == CHOOSE k \in places : \A l \in places : k <= l
      gpu == Around(p.next, first, GpuCount)
  IN IF draining \/ Running \cup reaped = {} \/ p.periodic # 0 \/ places = {} THEN p
     ELSE [p EXCEPT !.state[gpu] = "checking", !.check[gpu] = "gate",
                    !.periodic = gpu, !.next = (gpu % GpuCount) + 1]
Rechecked(p) ==
  LET retried == {g \in Gpus : p.state[g] = "rejected" /\ p.due[g]}
      q == [p EXCEPT !.state = [g \in Gpus |-> IF g \in retried THEN "checking" ELSE @[g]],
                     !.check = [g \in Gpus |-> IF g \in retried THEN "shot" ELSE @[g]]]
      places == {k \in 0..GpuCount - 1 :
                   LET g == Around(p.next, k, GpuCount) IN p.state[g] = "available" /\ p.due[g]}
      first == CHOOSE k \in places : \A l \in places : k <= l
      gpu == Around(p.next, first, GpuCount)
  IN IF draining THEN p
     ELSE IF Running \cup reaped = {} \/ p.periodic # 0 \/ places = {} THEN q
     ELSE [q EXCEPT !.state[gpu] = "checking", !.check[gpu] = "gate",
                    !.periodic = gpu, !.next = (gpu % GpuCount) + 1]

(* _has_empty_gpu_check *)
EmptyCheck(p) == \E g \in Gpus : p.state[g] = "checking" /\ InFlight(g) = 0

(* _select_available_worker, twice, as _select_worker calls it: the places  *)
(* of the workers that may take a run.                                      *)
Eligible(p) ==
  LET room == {i \in DOMAIN p.workers : p.state[p.workers[i]] = "available"
                                          /\ InFlight(p.workers[i]) < depth}
      empty == {i \in room : InFlight(p.workers[i]) = 0}
  IN IF empty # {} THEN empty ELSE IF EmptyCheck(p) THEN {} ELSE room

-----------------------------------------------------------------------------
(* The commands: what service_scheduler.sh reads, or a launcher calls. *)

At(step) == pc = step

(* _enqueue_script: the queue depth, then the choice of a worker; without a *)
(* depth the run is refused.                                                *)
Enqueue ==
  /\ At("command") /\ ~draining /\ job < JobCount /\ job' = job + 1
  /\ \/ pc' = "select" /\ depth' \in Depths
     \/ UNCHANGED <<pc, depth>>
  /\ UNCHANGED <<pool, loaded, jobs, released, turn, draining, bounds>>

(* _service_reap *)
Reap ==
  /\ At("command") /\ ~draining /\ Running # {} /\ pc' = "reaping"
  /\ UNCHANGED <<pool, loaded, jobs, released, depth, turn, job, draining, bounds>>

(* _release_training *)
Release ==
  /\ At("command") /\ ~draining /\ ~released /\ Running # {} /\ released' = TRUE
  /\ UNCHANGED <<pool, loaded, jobs, depth, turn, pc, job, draining, bounds>>

(* drain: a run that waits for the release has to be prepared first. *)
Drain ==
  /\ At("command") /\ ~draining /\ draining' = TRUE
  /\ pc' = IF ~released /\ Running # {} THEN "prepared" ELSE "drain"
  /\ released' = (released \/ Running = {})
  /\ UNCHANGED <<pool, loaded, jobs, depth, turn, job, bounds>>

-----------------------------------------------------------------------------
(* The engine at work. *)

(* _reap_finished, when a run has ended ... *)
ReapOne(j) ==
  /\ pc \in {"reaping", "select", "drain"} /\ j \in Running /\ Ended(j)
  /\ reaped' = reaped \cup {j}
  /\ pool' = Rechecked(Synced(pool)) /\ depth' \in Depths
  /\ UNCHANGED <<loaded, run, on, released, turn, pc, job, draining, bounds>>

(* ... and when none has: select goes on, the reap command returns, drain   *)
(* looks again.                                                             *)
ReapNone ==
  /\ pc \in {"reaping", "select", "drain"} /\ \A j \in Running : ~Ended(j)
  /\ pool' = Synced(pool) /\ depth' \in (IF Admits(pool) THEN Depths ELSE {depth})
  /\ pc' = CASE pc = "reaping" -> "command" [] pc = "select" -> "choose" [] OTHER -> pc
  /\ UNCHANGED <<loaded, jobs, released, turn, job, draining, bounds>>

(* _select_worker: the first eligible worker from _next_worker_index on     *)
(* gets the run; without one the loop starts again.                         *)
ChooseWorker ==
  /\ At("choose")
  /\ LET p == Rechecked(pool)
         n == Len(p.workers)
     IN \E k \in 0..n - 1 :
          LET worker == Around(turn, k, n)
              full == Cardinality(Running) + 1 >= n * depth
          IN /\ worker \in Eligible(p) /\ \A l \in 0..k - 1 : Around(turn, l, n) \notin Eligible(p)
             /\ pool' = p /\ turn' = (worker % n) + 1
             /\ run' = [run EXCEPT ![job] = "preparing"] /\ on' = [on EXCEPT ![job] = p.workers[worker]]
             /\ pc' = IF ~released /\ full THEN "prepared" ELSE "command"
  /\ UNCHANGED <<loaded, reaped, released, depth, job, draining, bounds>>

ChooseAgain ==
  /\ At("choose") /\ Eligible(Rechecked(pool)) = {}
  /\ pool' = Rechecked(pool) /\ pc' = "select"
  /\ UNCHANGED <<loaded, jobs, released, depth, turn, job, draining, bounds>>

(* _wait_for_prepared: one run has written its ready or its failed marker. *)
WaitForPrepared ==
  /\ At("prepared") /\ \E j \in Jobs : run[j] \notin {"none", "preparing"}
  /\ released' = TRUE /\ pc' = IF draining THEN "drain" ELSE "command"
  /\ UNCHANGED <<pool, loaded, jobs, depth, turn, job, draining, bounds>>

(* The end of drain: the checks are killed and waited for. *)
(* Mutant: they are not. *)
DrainedChecking ==
  /\ At("drain") /\ Running = {} /\ pc' = "drained"
  /\ UNCHANGED <<pool, loaded, jobs, released, depth, turn, job, draining, bounds>>
Drained ==
  /\ At("drain") /\ Running = {} /\ pc' = "drained"
  /\ pool' = [pool EXCEPT !.check = [g \in Gpus |-> "none"]]
  /\ UNCHANGED <<loaded, jobs, released, depth, turn, job, draining, bounds>>

EngineStep ==
  \/ (\E j \in Jobs : ReapOne(j)) \/ ReapNone
  \/ ChooseWorker \/ ChooseAgain \/ WaitForPrepared \/ Drained

-----------------------------------------------------------------------------
(* The runs. *)

Advance(j, from, to) == run[j] = from /\ run' = [run EXCEPT ![j] = to]
RunUnchanged == UNCHANGED <<pool, loaded, on, reaped, engine, bounds>>

Prepare(j) == (Advance(j, "preparing", "prepared") \/ Advance(j, "preparing", "error")) /\ RunUnchanged

(* The run takes the slot of its GPU, then its gate, shared, and waits until *)
(* no foreign program has memory of the GPU.                                *)
TakeSlot(j) ==
  /\ released /\ \A k \in Jobs : on[k] = on[j] => run[k] \notin {"slot", "gate", "training"}
  /\ Advance(j, "prepared", "slot") /\ RunUnchanged

TakeGate(j) ==
  /\ Advance(j, "slot", "gate") /\ pool.check[on[j]] # "sampling" /\ RunUnchanged

WaitForMemory(j) == Advance(j, "gate", "training") /\ on[j] \notin loaded /\ RunUnchanged

Train(j) == (Advance(j, "training", "ok") \/ Advance(j, "training", "error")) /\ RunUnchanged

RunStep(j) == Prepare(j) \/ TakeSlot(j) \/ TakeGate(j) \/ WaitForMemory(j) \/ Train(j)

-----------------------------------------------------------------------------
(* The checks, the clock and the foreign programs. *)

EndCheck(g, from, to) ==
  pool.check[g] = from /\ pool' = [pool EXCEPT !.check[g] = to]
CheckUnchanged == UNCHANGED <<loaded, jobs, engine, rechecks, loads>>

(* A single check: light or not.  It takes the load of a run for a foreign one. *)
Shot(g) ==
  /\ \/ g \notin loaded /\ EndCheck(g, "shot", "passed")
     \/ (g \in loaded \/ Training(g) # {}) /\ EndCheck(g, "shot", "failed")
  /\ CheckUnchanged /\ UNCHANGED faults

(* A periodic check waits until no run has the gate, and keeps the gate     *)
(* until the GPU is light.                                                  *)
(* Mutant: without waiting. *)
PassGateAnyway(g) == EndCheck(g, "gate", "sampling") /\ CheckUnchanged /\ UNCHANGED faults
PassGate(g) ==
  /\ Gated(g) = {} /\ EndCheck(g, "gate", "sampling")
  /\ CheckUnchanged /\ UNCHANGED faults

Sample(g) ==
  /\ g \notin loaded /\ EndCheck(g, "sampling", "passed")
  /\ CheckUnchanged /\ UNCHANGED faults

(* The rejection cannot be written to the evidence directory. *)
Fault(g) ==
  /\ g \in loaded /\ faults < MaxFaults /\ faults' = faults + 1
  /\ EndCheck(g, "sampling", "failed") /\ CheckUnchanged

CheckStep(g) == Shot(g) \/ PassGate(g) \/ Sample(g)

(* _gpu_next_check has passed. *)
Elapse(g) ==
  /\ ~pool.due[g] /\ pool.state[g] \in {"available", "rejected"}
  /\ pool' = [pool EXCEPT !.due[g] = TRUE]
  /\ IF pool.state[g] = "available"
       THEN rechecks < MaxRechecks /\ rechecks' = rechecks + 1
       ELSE UNCHANGED rechecks
  /\ UNCHANGED <<loaded, jobs, engine, loads, faults>>

Load(g) ==
  /\ g \notin loaded /\ loads > 0 /\ loads' = loads - 1
  /\ loaded' = loaded \cup {g}
  /\ UNCHANGED <<pool, jobs, engine, rechecks, faults>>

Unload(g) ==
  /\ g \in loaded /\ loaded' = loaded \ {g}
  /\ UNCHANGED <<pool, jobs, engine, bounds>>

Next ==
  \/ Enqueue \/ Reap \/ Release \/ Drain \/ EngineStep
  \/ \E j \in Jobs : RunStep(j)
  \/ \E g \in Gpus : CheckStep(g) \/ Fault(g) \/ Elapse(g) \/ Load(g) \/ Unload(g)

Spec == Init /\ [][Next]_vars

(* The engine, the runs, the checks and the clock go on. *)
GoesOn ==
  /\ WF_vars(EngineStep)
  /\ \A j \in Jobs : WF_vars(RunStep(j))
  /\ \A g \in Gpus : WF_vars(CheckStep(g))
                     /\ WF_vars(pool.state[g] = "rejected" /\ Elapse(g))
BusySpec == Spec /\ GoesOn
(* Moreover, foreign programs end. *)
FairSpec == BusySpec /\ \A g \in Gpus : WF_vars(Unload(g))

-----------------------------------------------------------------------------
(* Properties. *)

Pools ==
  [state : [Gpus -> GpuStates], check : [Gpus -> CheckSteps], due : [Gpus -> BOOLEAN],
   workers : Seq(Gpus), periodic : Gpus \cup {0}, next : Gpus]

(* Every variable is of its kind. *)
TypeOK ==
  /\ pool \in Pools
  /\ loaded \subseteq Gpus
  /\ run \in [Jobs -> RunSteps] /\ on \in [Jobs -> Gpus \cup {0}] /\ reaped \subseteq Jobs
  /\ released \in BOOLEAN /\ depth \in Depths /\ turn \in Nat \ {0} /\ job \in 0..JobCount
  /\ pc \in {"command", "reaping", "select", "choose", "prepared", "drain", "drained"}
  /\ draining \in BOOLEAN
  /\ rechecks \in 0..MaxRechecks /\ loads \in Nat /\ faults \in 0..MaxFaults

(* No check samples a GPU on which a run of the queue trains, or it would   *)
(* take the queue's own load for a foreign one: a single check because such *)
(* a GPU has no runs, a periodic one because of the gate.  A check that     *)
(* could not write its evidence breaks it: its GPU, whose prepared runs     *)
(* train on, is checked again without the gate.                             *)
ChecksSeeNoRuns ==
  \A g \in Gpus :
    pool.check[g] = "sampling" \/ (pool.check[g] = "shot" /\ faults = 0) => Training(g) = {}

(* A drained queue has no run and no check left: its GPUs are free.         *)
DrainedIsClean ==
  At("drained") =>
    (\A j \in Jobs : run[j] \in {"none", "ok", "error"}) /\ (\A g \in Gpus : pool.check[g] = "none")

(* The queue is stuck: a run is to be placed, every GPU has as many as the   *)
(* depth allows, all of them wait for the release of training, and training *)
(* is released by a run that is placed.  It takes a depth that falls after  *)
(* runs were placed below the capacity of the old one.                      *)
Overfull ==
  /\ At("select") \/ At("choose")
  /\ ~released /\ \A j \in Running : run[j] = "prepared"
  /\ \A g \in Gpus : InFlight(g) >= depth

(* A command ends unless the queue is overfull: an enqueue finds a GPU, even *)
(* if all of them were busy or rejected, and drain ends although checks and *)
(* unreleased runs are around, since foreign programs leave in the end.     *)
CommandsEnd == ~At("command") ~> (At("command") \/ At("drained") \/ Overfull)

(* Every command ends.  False with a depth that falls: see Overfull.         *)
EveryCommandEnds == ~At("command") ~> (At("command") \/ At("drained"))

(* "Lookahead on other GPUs continues while a check is in progress": an     *)
(* enqueue that finds room on an available GPU does not wait for the        *)
(* foreign program of another GPU to end.                                   *)
LookaheadContinues ==
  \A g \in Gpus :
    At("select") /\ pool.state[g] = "available" /\ InFlight(g) < depth
      ~> ~(At("select") \/ At("choose"))
=============================================================================
