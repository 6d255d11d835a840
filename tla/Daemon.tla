------------------------------- MODULE Daemon -------------------------------
(***************************************************************************)
(* The scheduling loop of the training queue service                       *)
(* (src/utils/training_queue/service.py, _run_daemon), the engine it feeds *)
(* (service_scheduler.sh and queue.sh, one bash process that executes the  *)
(* commands of its standard input one after the other), the runs the       *)
(* engine spawns, and the commands start, stop, pause, drain, resume and   *)
(* wait-batch, each a process of its own that only touches files.          *)
(*                                                                         *)
(* Submission, modelled step by step in module Submission, is one step     *)
(* here: a job appears under pending/.  A daemon is an instance number, for*)
(* its pid, start time and token.  The jobs of this module are the jobs of *)
(* one sealed batch, and one GPU is admitted: the engine has one worker.   *)
(***************************************************************************)
EXTENDS Naturals, Sequences, FiniteSets

CONSTANTS
  Jobs,             \* the job ids, as naturals: file names sort by them
  Users,            \* the processes that run the commands
  Commands,         \* the commands the users may run
  Depth,            \* Depth[j]: the queue depth of job j's script and data group
  MaxCommands,      \* bound
  MaxStarts,        \* bound: daemons spawned
  MaxDaemonCrashes, \* bound
  MaxEngineCrashes  \* bound

ASSUME JobsAssumption == Jobs \subseteq Nat \ {0} /\ IsFiniteSet(Jobs)
ASSUME CommandsAssumption ==
  Commands \subseteq {"start", "stop", "pause", "drain", "resume", "wait", "interrupt"}
ASSUME DepthAssumption == Depth \in [Jobs -> Nat \ {0}]
ASSUME BoundsAssumption ==
  {MaxCommands, MaxStarts, MaxDaemonCrashes, MaxEngineCrashes} \subseteq Nat

VARIABLES
  pending, dispatched, completed, failed,  \* the jobs with a file in each directory
  result,           \* result[j]: results/<j>.result, "none" if absent
  acks,             \* the jobs with a file under acks/
  paused, stop, ready,  \* whether the file paused, stop, engine.ready exists
  status,           \* status.json
  daemon, phase,    \* the daemon that holds service.lock, and its step
  loop,             \* its local variables
  spawned, starts,  \* the daemons that have not tried the lock yet; all of them
  engine,           \* engine[n]: the scheduler process of daemon n
  released,         \* released[n]: whether its training release file exists
  run, owner,       \* run[j], owner[j]: the process of job j, the engine it is of
  pc, seen,         \* each user's step, and what its command has read
  commands, daemonCrashes, engineCrashes

files == <<pending, dispatched, completed, failed, result, acks>>
flags == <<paused, stop, ready>>
service == <<daemon, phase, loop, spawned, starts>>
processes == <<engine, released, run, owner>>
users == <<pc, seen, commands>>
crashes == <<daemonCrashes, engineCrashes>>
vars == <<files, flags, status, service, processes, users, crashes>>

Daemons == 1..MaxStarts
NewLoop == [feeding |-> 0, stopping |-> FALSE, released |-> FALSE, ending |-> FALSE,
            scanned |-> {}, paused |-> FALSE, job |-> 0]
NoEngine == [step |-> "none", input |-> <<>>, eof |-> FALSE, slots |-> {},
             job |-> 0, before |-> 0, code |-> 0]
NoStatus == [running |-> FALSE, paused |-> FALSE, active |-> 0, by |-> 0]

Init ==
  /\ pending = {} /\ dispatched = {} /\ completed = {} /\ failed = {}
  /\ result = [j \in Jobs |-> "none"] /\ acks = {}
  /\ paused = FALSE /\ stop = FALSE /\ ready = FALSE /\ status = NoStatus
  /\ daemon = 0 /\ phase = "down" /\ loop = NewLoop /\ spawned = {} /\ starts = 0
  /\ engine = [n \in Daemons |-> NoEngine]
  /\ released = [n \in Daemons |-> FALSE]
  /\ run = [j \in Jobs |-> "none"] /\ owner = [j \in Jobs |-> 0]
  /\ pc = [u \in Users |-> "idle"] /\ seen = [u \in Users |-> 0]
  /\ commands = 0 /\ daemonCrashes = 0 /\ engineCrashes = 0

Finished == completed \cup failed
Known == pending \cup dispatched \cup Finished
Exited(n) == engine[n].step = "exited"

(* _service_pid: the daemon the status file names, if it holds the lock. *)
Serving == IF phase # "down" /\ status.by = daemon /\ ready THEN daemon ELSE 0

-----------------------------------------------------------------------------
(* The daemon: one action for each step of its loop. *)

Step(from, to) == phase = from /\ phase' = to
Send(command) == engine' = [engine EXCEPT ![daemon].input = Append(@, command)]
(* The daemon has not spawned its engine yet. *)
Booting == engine[daemon].step = "none"

(* A spawned daemon takes service.lock, or exits; what an earlier one has    *)
(* left dispatched has failed.                                               *)
Lock(n) ==
  /\ n \in spawned /\ spawned' = spawned \ {n}
  /\ IF phase = "down"
       THEN phase' = "failing" /\ daemon' = n /\ loop' = NewLoop
       ELSE UNCHANGED <<phase, daemon, loop>>
  /\ UNCHANGED <<files, flags, status, starts, processes>>

(* _fail_dispatched: for each dispatched file a record, then the unlinking;  *)
(* the daemon boots, leaves its loop, or closes.                             *)
FailRecord(j) ==
  /\ Step("failing", "written") /\ j \in dispatched
  /\ failed' = failed \cup {j}
  /\ loop' = [loop EXCEPT !.job = j]
  /\ UNCHANGED <<pending, dispatched, completed, result, acks, flags, status, daemon, spawned, starts,
                 processes>>

FailUnlink ==
  /\ Step("written", "failing")
  /\ dispatched' = dispatched \ {loop.job}
  /\ UNCHANGED <<pending, completed, failed, result, acks, flags, status, daemon, loop, spawned, starts,
                 processes>>

FailDone ==
  /\ dispatched = {}
  /\ Step("failing", IF loop.ending THEN "close" ELSE IF Booting THEN "boot" ELSE "end")
  /\ UNCHANGED <<files, flags, status, daemon, loop, spawned, starts, processes>>

Boot ==
  /\ Step("boot", "collect")
  /\ stop' = FALSE /\ ready' = FALSE
  /\ engine' = [engine EXCEPT ![daemon].step = "loading"]
  /\ UNCHANGED <<files, paused, status, daemon, loop, spawned, starts, released, run, owner>>

(* _collect_results: the glob of results/, then for one result after the     *)
(* other the record, the unlinking of the dispatched file and of the result. *)
Scan ==
  /\ Step("collect", "collecting")
  /\ loop' = [loop EXCEPT !.scanned = {j \in Jobs : result[j] # "none"}]
  /\ UNCHANGED <<files, flags, status, daemon, spawned, starts, processes>>

(* A result without a dispatched file. *)
Discard(j) ==
  /\ phase = "collecting" /\ j \in loop.scanned \ dispatched
  /\ loop' = [loop EXCEPT !.scanned = @ \ {j}]
  /\ result' = [result EXCEPT ![j] = "none"]
  /\ UNCHANGED <<pending, dispatched, completed, failed, acks, flags, status, daemon, phase, spawned,
                 starts, processes>>

Record(j) ==
  /\ Step("collecting", "recorded") /\ j \in loop.scanned \cap dispatched
  /\ loop' = [loop EXCEPT !.job = j]
  /\ completed' = IF result[j] = "ok" THEN completed \cup {j} ELSE completed
  /\ failed' = IF result[j] # "ok" THEN failed \cup {j} ELSE failed
  /\ UNCHANGED <<pending, dispatched, result, acks, flags, status, daemon, spawned, starts, processes>>

UnlinkDispatched ==
  /\ Step("recorded", "unlinked")
  /\ dispatched' = dispatched \ {loop.job}
  /\ UNCHANGED <<pending, completed, failed, result, acks, flags, status, daemon, loop, spawned, starts,
                 processes>>

UnlinkResult ==
  /\ Step("unlinked", "collecting")
  /\ loop' = [loop EXCEPT !.scanned = @ \ {loop.job}]
  /\ result' = [result EXCEPT ![loop.job] = "none"]
  /\ UNCHANGED <<pending, dispatched, completed, failed, acks, flags, status, daemon, spawned, starts,
                 processes>>

CollectDone ==
  /\ loop.scanned = {}
  /\ Step("collecting", IF loop.ending THEN "failing" ELSE "poll")
  /\ UNCHANGED <<files, flags, status, daemon, loop, spawned, starts, processes>>

(* process.poll(): an engine that exits uncalled fails what is dispatched. *)
Poll ==
  /\ Step("poll", IF ~Exited(daemon) THEN "ack" ELSE IF loop.stopping THEN "end" ELSE "failing")
  /\ UNCHANGED <<files, flags, status, daemon, loop, spawned, starts, processes>>

Acknowledge ==
  /\ Step("ack", "stopfile")
  /\ IF loop.feeding \in acks
       THEN acks' = acks \ {loop.feeding} /\ loop' = [loop EXCEPT !.feeding = 0]
       ELSE UNCHANGED <<acks, loop>>
  /\ UNCHANGED <<pending, dispatched, completed, failed, result, flags, status, daemon, spawned,
                 starts, processes>>

CheckStop ==
  /\ Step("stopfile", "active")
  /\ IF stop
       THEN loop' = [loop EXCEPT !.stopping = TRUE] /\ paused' = TRUE
       ELSE UNCHANGED <<loop, paused>>
  /\ UNCHANGED <<files, stop, ready, status, daemon, spawned, starts, processes>>

(* Stopping with nothing dispatched: the engine's input is closed. *)
CheckActive ==
  /\ IF loop.stopping /\ dispatched = {}
       THEN Step("active", "wait") /\ engine' = [engine EXCEPT ![daemon].eof = TRUE]
       ELSE Step("active", "reap") /\ UNCHANGED engine
  /\ UNCHANGED <<files, flags, status, daemon, loop, spawned, starts, released, run, owner>>

WaitEngine ==
  /\ Step("wait", "end") /\ Exited(daemon)
  /\ UNCHANGED <<files, flags, status, daemon, loop, spawned, starts, processes>>

(* The reaper command, at most once in half a second: here, at most one of   *)
(* them is in the pipe.  A write to an engine that has exited raises.        *)
SendReap ==
  /\ phase = "reap" /\ dispatched # {} /\ loop.feeding = 0
  /\ \A i \in 1..Len(engine[daemon].input) : engine[daemon].input[i] # <<"reap">>
  /\ IF Exited(daemon)
       THEN phase' = "end" /\ UNCHANGED engine
       ELSE phase' = "check" /\ Send(<<"reap">>)
  /\ UNCHANGED <<files, flags, status, daemon, loop, spawned, starts, released, run, owner>>

SkipReap ==
  /\ Step("reap", "check")
  /\ UNCHANGED <<files, flags, status, daemon, loop, spawned, starts, processes>>

(* Mutant: the paused file is not looked at. *)
CheckUnpaused ==
  /\ Step("check", IF ~loop.stopping /\ loop.feeding = 0 /\ ready THEN "next" ELSE "release")
  /\ UNCHANGED <<files, flags, status, daemon, loop, spawned, starts, processes>>
CheckDispatch ==
  /\ Step("check", IF ~loop.stopping /\ ~paused /\ loop.feeding = 0 /\ ready
                     THEN "next" ELSE "release")
  /\ UNCHANGED <<files, flags, status, daemon, loop, spawned, starts, processes>>

(* _next_job; which pending jobs may be taken is modelled in Submission.     *)
(* Mutant: the files are taken in directory order. *)
NextJobUnsorted ==
  /\ IF pending = {}
       THEN Step("next", "release") /\ UNCHANGED <<pending, dispatched, loop>>
       ELSE \E j \in pending :
              /\ Step("next", "feed")
              /\ pending' = pending \ {j} /\ dispatched' = dispatched \cup {j}
              /\ loop' = [loop EXCEPT !.job = j]
  /\ UNCHANGED <<completed, failed, result, acks, flags, status, daemon, spawned, starts, processes>>
NextJob ==
  /\ IF pending = {}
       THEN Step("next", "release") /\ UNCHANGED <<pending, dispatched, loop>>
       ELSE \E j \in pending :
              /\ \A k \in pending : j <= k
              /\ Step("next", "feed")
              /\ pending' = pending \ {j} /\ dispatched' = dispatched \cup {j}
              /\ loop' = [loop EXCEPT !.job = j]
  /\ UNCHANGED <<completed, failed, result, acks, flags, status, daemon, spawned, starts, processes>>

(* Mutant: the loop continues after a dispatch without writing the status. *)
FeedContinue ==
  /\ phase = "feed"
  /\ IF Exited(daemon)
       THEN phase' = "end" /\ UNCHANGED <<engine, loop>>
       ELSE /\ phase' = "collect"
            /\ Send(<<"enqueue", loop.job>>)
            /\ loop' = [loop EXCEPT !.feeding = loop.job, !.job = 0]
  /\ UNCHANGED <<files, flags, status, daemon, spawned, starts, released, run, owner>>
Feed ==
  /\ phase = "feed"
  /\ IF Exited(daemon)
       THEN phase' = "end" /\ UNCHANGED <<engine, loop>>
       ELSE /\ phase' = "release"
            /\ Send(<<"enqueue", loop.job>>)
            /\ loop' = [loop EXCEPT !.feeding = loop.job, !.job = 0]
  /\ UNCHANGED <<files, flags, status, daemon, spawned, starts, released, run, owner>>

(* Training is released once, when nothing is pending and the batches are    *)
(* sealed or half a second has passed since the last dispatch.               *)
SendRelease ==
  /\ phase = "release" /\ ~loop.released /\ dispatched # {} /\ pending = {}
  /\ IF Exited(daemon)
       THEN phase' = "end" /\ UNCHANGED <<engine, loop>>
       ELSE /\ phase' = "status" /\ Send(<<"release">>)
            /\ loop' = [loop EXCEPT !.released = TRUE]
  /\ UNCHANGED <<files, flags, status, daemon, spawned, starts, released, run, owner>>

SkipRelease ==
  /\ Step("release", "status")
  /\ UNCHANGED <<files, flags, status, daemon, loop, spawned, starts, processes>>

(* _write_status: the paused file is read first, the jobs are counted next. *)
ReadPaused ==
  /\ Step("status", "write")
  /\ loop' = [loop EXCEPT !.paused = paused]
  /\ UNCHANGED <<files, flags, status, daemon, spawned, starts, processes>>

WriteStatus ==
  /\ Step("write", "collect")
  /\ status' = [running |-> TRUE, paused |-> loop.paused, active |-> Cardinality(dispatched),
                by |-> daemon]
  /\ UNCHANGED <<files, flags, daemon, loop, spawned, starts, processes>>

(* The finally clause: an engine that still runs is terminated (its EXIT     *)
(* trap releases training), results are collected, the rest fails.           *)
End ==
  /\ Step("end", "collect")
  /\ loop' = [loop EXCEPT !.ending = TRUE]
  /\ engine' = [engine EXCEPT ![daemon].step = "exited"]
  /\ released' = IF Exited(daemon) THEN released ELSE [released EXCEPT ![daemon] = TRUE]
  /\ UNCHANGED <<files, flags, status, daemon, spawned, starts, run, owner>>

Close ==
  /\ Step("close", "unlink")
  /\ status' = [running |-> FALSE, paused |-> paused, active |-> Cardinality(dispatched), by |-> daemon]
  /\ UNCHANGED <<files, flags, daemon, loop, spawned, starts, processes>>

Unlink ==
  /\ Step("unlink", "down")
  /\ stop' = FALSE /\ ready' = FALSE
  /\ UNCHANGED <<files, paused, status, daemon, loop, spawned, starts, processes>>

DaemonStep ==
  \/ (\E j \in Jobs : FailRecord(j)) \/ FailUnlink \/ FailDone \/ Boot
  \/ Scan \/ (\E j \in Jobs : Discard(j) \/ Record(j)) \/ UnlinkDispatched \/ UnlinkResult
  \/ CollectDone \/ Poll \/ Acknowledge
  \/ CheckStop \/ CheckActive \/ WaitEngine \/ SendReap \/ SkipReap \/ CheckDispatch
  \/ NextJob \/ Feed \/ SendRelease \/ SkipRelease \/ ReadPaused \/ WriteStatus
  \/ End \/ Close \/ Unlink

(* kill -9: the lock is dropped and the engine reads the end of its input. *)
DaemonCrash ==
  /\ phase # "down" /\ daemonCrashes < MaxDaemonCrashes /\ daemonCrashes' = daemonCrashes + 1
  /\ phase' = "down"
  /\ engine' = [engine EXCEPT ![daemon].eof = TRUE]
  /\ UNCHANGED <<files, flags, status, daemon, loop, spawned, starts, released, run, owner, users,
                 engineCrashes>>

-----------------------------------------------------------------------------
(* The engine of daemon n: queue.sh under service_scheduler.sh. *)

Alive == {"preparing", "prepared", "training"}      \* a run's process exists
RunExited(j) == run[j] \in {"ok", "error"}
(* DCN_PREPARED_MARKER or the failed marker of a run exists. *)
Marked(n) == \E j \in Jobs : owner[j] = n /\ run[j] \notin {"none", "preparing"}
FailedMark(n) == \E j \in Jobs : owner[j] = n /\ run[j] = "error"

EStep(n, from) == engine[n].step = from
EGoto(n, to) == engine' = [engine EXCEPT ![n].step = to]
Command(n, name) == engine[n].input # <<>> /\ Head(engine[n].input)[1] = name

Load(n) ==
  /\ EStep(n, "loading") /\ EGoto(n, "read")
  /\ ready' = TRUE
  /\ UNCHANGED <<result, acks, released, run, owner>>

(* _service_enqueue; without a queue depth the job is refused. *)
(* Mutant: a refused job is not acknowledged. *)
ReadEnqueueSilently(n) ==
  /\ EStep(n, "read") /\ Command(n, "enqueue")
  /\ \E refused \in BOOLEAN :
       engine' = [engine EXCEPT ![n].input = Tail(@),
                                ![n].job = IF refused THEN 0 ELSE Head(engine[n].input)[2],
                                ![n].before = Cardinality(engine[n].slots),
                                ![n].step = IF refused THEN "read" ELSE "select"]
  /\ UNCHANGED <<result, acks, ready, released, run, owner>>
ReadEnqueue(n) ==
  /\ EStep(n, "read") /\ Command(n, "enqueue")
  /\ \E refused \in BOOLEAN :
       engine' = [engine EXCEPT ![n].input = Tail(@),
                                ![n].job = Head(engine[n].input)[2],
                                ![n].before = Cardinality(engine[n].slots),
                                ![n].code = IF refused THEN 1 ELSE 0,
                                ![n].step = IF refused THEN "ack" ELSE "select"]
  /\ UNCHANGED <<result, acks, ready, released, run, owner>>

(* _reap_finished writes the result of a run that has exited; it is called   *)
(* by _select_worker, _service_reap and drain.                               *)
Reap(n, j) ==
  /\ j \in engine[n].slots /\ RunExited(j)
  /\ \/ engine[n].step \in {"select", "reap"}
     \/ EStep(n, "drain") /\ released[n]
  /\ result' = [result EXCEPT ![j] = run[j]]
  /\ engine' = [engine EXCEPT ![n].slots = @ \ {j}]
  /\ UNCHANGED <<acks, ready, released, run, owner>>

(* _enqueue_script: the worker has a free slot at the depth of this job. *)
Spawn(n) ==
  LET j == engine[n].job
  IN  /\ EStep(n, "select") /\ Cardinality(engine[n].slots) < Depth[j]
      /\ run' = [run EXCEPT ![j] = "preparing"] /\ owner' = [owner EXCEPT ![j] = n]
      /\ engine' = [engine EXCEPT ![n].slots = @ \cup {j}, ![n].step = "full"]
      /\ UNCHANGED <<result, acks, ready, released>>

(* _release_when_full: with every slot taken, training is released once one  *)
(* run is prepared or has failed; a failed one makes the function fail.      *)
(* Mutant: a full engine does not release training. *)
NeverFull(n) ==
  /\ EStep(n, "full") /\ EGoto(n, "ack")
  /\ UNCHANGED <<released, result, acks, ready, run, owner>>
Full(n) ==
  /\ EStep(n, "full")
  /\ IF released[n] \/ Cardinality(engine[n].slots) < Depth[engine[n].job]
       THEN EGoto(n, "ack") /\ UNCHANGED released
       ELSE /\ Marked(n)
            /\ released' = [released EXCEPT ![n] = TRUE]
            /\ engine' = [engine EXCEPT ![n].code = IF FailedMark(n) THEN 1 ELSE 0,
                                        ![n].step = "ack"]
  /\ UNCHANGED <<result, acks, ready, run, owner>>

(* The end of _service_enqueue: a failure result, unless _running has        *)
(* changed, and the acknowledgement.                                         *)
(* Mutant: a refused job is acknowledged without a result. *)
AckOnly(n) ==
  /\ EStep(n, "ack")
  /\ acks' = acks \cup {engine[n].job}
  /\ engine' = [engine EXCEPT ![n].step = "read", ![n].job = 0, ![n].before = 0, ![n].code = 0]
  /\ UNCHANGED <<result, ready, released, run, owner>>
(* Mutant: a failure result even if the run was spawned. *)
AckFailure(n) ==
  /\ EStep(n, "ack")
  /\ result' = IF engine[n].code # 0
                 THEN [result EXCEPT ![engine[n].job] = "error"] ELSE result
  /\ acks' = acks \cup {engine[n].job}
  /\ engine' = [engine EXCEPT ![n].step = "read", ![n].job = 0, ![n].before = 0, ![n].code = 0]
  /\ UNCHANGED <<ready, released, run, owner>>
Ack(n) ==
  /\ EStep(n, "ack")
  /\ result' = IF engine[n].code # 0 /\ Cardinality(engine[n].slots) = engine[n].before
                 THEN [result EXCEPT ![engine[n].job] = "error"] ELSE result
  /\ acks' = acks \cup {engine[n].job}
  /\ engine' = [engine EXCEPT ![n].step = "read", ![n].job = 0, ![n].before = 0, ![n].code = 0]
  /\ UNCHANGED <<ready, released, run, owner>>

ReadReap(n) ==
  /\ EStep(n, "read") /\ Command(n, "reap")
  /\ engine' = [engine EXCEPT ![n].input = Tail(@), ![n].step = "reap"]
  /\ UNCHANGED <<result, acks, ready, released, run, owner>>

ReapDone(n) ==
  /\ EStep(n, "reap") /\ \A j \in engine[n].slots : ~RunExited(j)
  /\ EGoto(n, "read")
  /\ UNCHANGED <<result, acks, ready, released, run, owner>>

ReadRelease(n) ==
  /\ EStep(n, "read") /\ Command(n, "release")
  /\ engine' = [engine EXCEPT ![n].input = Tail(@)]
  /\ released' = [released EXCEPT ![n] = TRUE]
  /\ UNCHANGED <<result, acks, ready, run, owner>>

(* The end of the input: drain. *)
ReadEnd(n) ==
  /\ EStep(n, "read") /\ engine[n].input = <<>> /\ engine[n].eof
  /\ EGoto(n, "drain")
  /\ UNCHANGED <<result, acks, ready, released, run, owner>>

DrainRelease(n) ==
  /\ EStep(n, "drain") /\ ~released[n]
  /\ engine[n].slots = {} \/ Marked(n)
  /\ released' = [released EXCEPT ![n] = TRUE]
  /\ UNCHANGED <<engine, result, acks, ready, run, owner>>

DrainDone(n) ==
  /\ EStep(n, "drain") /\ released[n] /\ engine[n].slots = {}
  /\ EGoto(n, "exited")
  /\ UNCHANGED <<result, acks, ready, released, run, owner>>

EngineOps(n) ==
  \/ Load(n) \/ ReadEnqueue(n) \/ (\E j \in Jobs : Reap(n, j)) \/ Spawn(n) \/ Full(n) \/ Ack(n)
  \/ ReadReap(n) \/ ReapDone(n) \/ ReadRelease(n) \/ ReadEnd(n) \/ DrainRelease(n) \/ DrainDone(n)

EngineStep(n) ==
  /\ EngineOps(n)
  /\ UNCHANGED <<pending, dispatched, completed, failed, paused, stop, status, service, users, crashes>>

(* kill -9 of the bash process: its runs are orphans. *)
EngineCrash(n) ==
  /\ engine[n].step \notin {"none", "exited"}
  /\ engineCrashes < MaxEngineCrashes /\ engineCrashes' = engineCrashes + 1
  /\ EGoto(n, "exited")
  /\ UNCHANGED <<files, flags, status, service, released, run, owner, users, daemonCrashes>>

-----------------------------------------------------------------------------
(* A run: python -m dcn.main. *)

Prepare(j) ==
  /\ run[j] = "preparing"
  /\ \E next \in {"prepared", "error"} : run' = [run EXCEPT ![j] = next]

(* _wait_for_training_release *)
Train(j) ==
  /\ run[j] = "prepared" /\ released[owner[j]]
  /\ run' = [run EXCEPT ![j] = "training"]

Exit(j) ==
  /\ run[j] = "training"
  /\ \E next \in {"ok", "error"} : run' = [run EXCEPT ![j] = next]

RunStep(j) ==
  /\ Prepare(j) \/ Train(j) \/ Exit(j)
  /\ UNCHANGED <<files, flags, status, service, engine, released, owner, users, crashes>>

-----------------------------------------------------------------------------
(* The commands. *)

At(u, label) == pc[u] = label
Goto(u, label) == pc' = [pc EXCEPT ![u] = label]
(* The command returns. *)
Return(u) == Goto(u, "idle") /\ seen' = [seen EXCEPT ![u] = 0]

(* start returns at once when a daemon serves, wait-batch never asks first,  *)
(* the others return at once when none does.                                 *)
Begin(u) ==
  /\ At(u, "idle")
  /\ commands < MaxCommands /\ commands' = commands + 1
  /\ \E command \in Commands :
       /\ \/ Serving # 0 /\ command # "start"
          \/ Serving = 0 /\ command \in {"start", "wait"}
       /\ command = "wait" => Known = Jobs      \* only then is the batch sealed
       /\ Goto(u, command)
       /\ seen' = [seen EXCEPT ![u] = IF command = "wait" THEN 0 ELSE Serving]
  /\ UNCHANGED <<files, flags, status, service, processes>>

(* start *)
StartUnlinkStop(u) ==
  /\ At(u, "start") /\ Goto(u, "start_paused")
  /\ stop' = FALSE
  /\ UNCHANGED <<paused, ready, seen, spawned, starts>>

StartSpawn(u) ==
  /\ At(u, "start_paused") /\ starts < MaxStarts
  /\ paused' = FALSE
  /\ starts' = starts + 1 /\ spawned' = spawned \cup {starts + 1}
  /\ Return(u)
  /\ UNCHANGED <<stop, ready>>

(* pause, drain and stop touch paused first. *)
(* Mutant: stop does not pause. *)
Pause(u) ==
  /\ pc[u] \in {"pause", "drain", "stop"}
  /\ paused' = TRUE
  /\ IF At(u, "pause") THEN Return(u)
       ELSE Goto(u, IF At(u, "drain") THEN "drain_read" ELSE "stop_touch") /\ UNCHANGED seen
  /\ UNCHANGED <<stop, ready, spawned, starts>>

(* drain reads the status file until it shows a paused, inactive service. *)
Drained == status.paused /\ status.active = 0
DrainRead(u) ==
  /\ At(u, "drain_read")
  /\ IF Drained \/ Serving = 0 THEN Return(u) ELSE UNCHANGED <<pc, seen>>
  /\ UNCHANGED <<flags, spawned, starts>>

Resume(u) ==
  /\ At(u, "resume") /\ Return(u)
  /\ paused' = FALSE
  /\ UNCHANGED <<stop, ready, spawned, starts>>

StopTouch(u) ==
  /\ At(u, "stop_touch") /\ Goto(u, "stop_wait")
  /\ stop' = TRUE
  /\ UNCHANGED <<paused, ready, seen, spawned, starts>>

(* stop waits until the process it has found is gone. *)
StopReturn(u) ==
  /\ At(u, "stop_wait") /\ (phase = "down" \/ daemon # seen[u])
  /\ Return(u)
  /\ UNCHANGED <<flags, spawned, starts>>

(* wait-batch: the failed files are listed, then the finished ones counted. *)
WaitFailed(u) ==
  /\ At(u, "wait")
  /\ Goto(u, "wait_finished")
  /\ seen' = [seen EXCEPT ![u] = Cardinality(failed)]
  /\ UNCHANGED <<flags, spawned, starts>>

AllFinished == Jobs \subseteq Finished
WaitFinished(u) ==
  /\ At(u, "wait_finished")
  /\ IF AllFinished THEN Return(u) ELSE Goto(u, "wait_service") /\ UNCHANGED seen
  /\ UNCHANGED <<flags, spawned, starts>>

WaitService(u) ==
  /\ At(u, "wait_service")
  /\ IF Serving = 0 THEN Return(u) ELSE Goto(u, "wait") /\ UNCHANGED seen
  /\ UNCHANGED <<flags, spawned, starts>>

UserOps(u) ==
  \/ StartUnlinkStop(u) \/ StartSpawn(u) \/ Pause(u) \/ DrainRead(u) \/ Resume(u)
  \/ StopTouch(u) \/ StopReturn(u) \/ WaitFailed(u) \/ WaitFinished(u) \/ WaitService(u)

UserStep(u) ==
  /\ UserOps(u)
  /\ UNCHANGED <<files, status, daemon, phase, loop, processes, commands, crashes>>

(* SIGTERM to the daemon: request_stop. *)
Interrupt(u) ==
  /\ At(u, "interrupt") /\ Return(u)
  /\ IF phase # "down" /\ ~Booting
       THEN loop' = [loop EXCEPT !.stopping = TRUE] /\ paused' = TRUE
       ELSE UNCHANGED <<loop, paused>>
  /\ UNCHANGED <<files, stop, ready, status, daemon, phase, spawned, starts, processes, commands,
                 crashes>>

(* enqueue-run or submit-batch publishes the next job. *)
Submit ==
  /\ Serving # 0
  /\ \E j \in Jobs \ Known :
       /\ \A k \in Jobs \ Known : j <= k
       /\ pending' = pending \cup {j}
  /\ UNCHANGED <<dispatched, completed, failed, result, acks, flags, status, service, processes,
                 users, crashes>>

Next ==
  \/ \E n \in Daemons : Lock(n) /\ UNCHANGED <<users, crashes>>
  \/ DaemonStep /\ UNCHANGED <<users, crashes>>
  \/ DaemonCrash
  \/ \E n \in Daemons : EngineStep(n) \/ EngineCrash(n)
  \/ \E j \in Jobs : RunStep(j)
  \/ \E u \in Users : (Begin(u) /\ UNCHANGED crashes) \/ UserStep(u) \/ Interrupt(u)
  \/ Submit

Spec == Init /\ [][Next]_vars

(* Processes that are not killed run; a run ends; half a second passes.      *)
FairSpec ==
  /\ Spec
  /\ \A n \in Daemons : WF_vars(Lock(n) /\ UNCHANGED <<users, crashes>>) /\ WF_vars(EngineStep(n))
  /\ WF_vars(DaemonStep /\ UNCHANGED <<users, crashes>>)
  /\ SF_vars(SendReap /\ UNCHANGED <<users, crashes>>)
  /\ SF_vars(SendRelease /\ UNCHANGED <<users, crashes>>)
  /\ \A j \in Jobs : WF_vars(RunStep(j))
  /\ \A u \in Users : WF_vars(UserStep(u))
  /\ WF_vars(Submit)

-----------------------------------------------------------------------------
(* Properties. *)

Phases ==
  {"down", "failing", "written", "boot", "collect", "collecting", "recorded", "unlinked", "poll", "ack",
   "stopfile", "active", "reap", "check", "next", "feed", "release", "status", "write", "wait", "end",
   "close", "unlink"}
Engines ==
  [step : {"none", "loading", "read", "select", "full", "ack", "reap", "drain", "exited"},
   input : Seq({<<"reap">>, <<"release">>} \cup {<<"enqueue", j>> : j \in Jobs}),
   eof : BOOLEAN, slots : SUBSET Jobs, job : Jobs \cup {0}, before : Nat, code : {0, 1}]
Waiting ==
  {"idle", "start_paused", "drain_read", "stop_touch", "stop_wait", "wait_finished", "wait_service"}
Loops ==
  [feeding : Jobs \cup {0}, stopping : BOOLEAN, released : BOOLEAN, ending : BOOLEAN,
   scanned : SUBSET Jobs, paused : BOOLEAN, job : Jobs \cup {0}]

(* Every file and every process is of its kind; a pending job has no other   *)
(* file.  A dispatched one may have a record as well: while it is recorded,  *)
(* and for good if the daemon is killed then.                                *)
TypeOK ==
  /\ {pending, dispatched, completed, failed, acks} \subseteq SUBSET Jobs
  /\ pending \cap (dispatched \cup Finished) = {}
  /\ result \in [Jobs -> {"none", "ok", "error"}]
  /\ {paused, stop, ready} \subseteq BOOLEAN
  /\ status \in [running : BOOLEAN, paused : BOOLEAN, active : Nat, by : Nat]
  /\ daemon \in 0..MaxStarts /\ phase \in Phases /\ loop \in Loops
  /\ spawned \subseteq Daemons /\ starts \in 0..MaxStarts
  /\ engine \in [Daemons -> Engines] /\ released \in [Daemons -> BOOLEAN]
  /\ run \in [Jobs -> {"none", "ok", "error"} \cup Alive] /\ owner \in [Jobs -> Nat]
  /\ pc \in [Users -> Commands \cup Waiting] /\ seen \in [Users -> Nat] /\ commands \in Nat
  /\ daemonCrashes \in Nat /\ engineCrashes \in Nat

(* drain returns successfully only when no run is on a GPU.                  *)
DrainClearsGPUs ==
  [][\A u \in Users : At(u, "drain_read") /\ At(u, "idle")' /\ Drained =>
       \A j \in Jobs : run[j] \notin Alive]_vars

(* Nothing has been killed so far. *)
NoKills == daemonCrashes = 0 /\ engineCrashes = 0

(* A drain that returns with success although a run is on the GPU has read   *)
(* the status in the one iteration of the loop in which that run was         *)
(* dispatched, before the status is written again: after a resume or another *)
(* start an old status is wrong for no longer than that.                     *)
DrainStaleOnlyAtDispatch ==
  [][\A u \in Users : At(u, "drain_read") /\ At(u, "idle")' /\ Drained /\ NoKills =>
       (\A j \in Jobs : run[j] \notin Alive) \/ phase \in {"release", "status", "write"}]_vars

(* A job is recorded as completed when its run has succeeded, and as failed  *)
(* when it has failed or was never started, until something is killed.       *)
RecordsAreTrue ==
  NoKills =>
    /\ \A j \in completed : run[j] = "ok"
    /\ \A j \in failed : run[j] \in {"none", "error"}

(* The daemon never waits for an acknowledgement that cannot come: the job   *)
(* it feeds is in the engine's pipe, being enqueued, or acknowledged.        *)
FeedingIsAnswered ==
  phase # "down" /\ loop.feeding # 0 /\ ~Exited(daemon) =>
    \/ <<"enqueue", loop.feeding>> \in {engine[daemon].input[i] : i \in 1..Len(engine[daemon].input)}
    \/ engine[daemon].job = loop.feeding
    \/ loop.feeding \in acks

(* wait-batch returns success only when no job of the batch has failed.      *)
WaitReportsFailures ==
  [][\A u \in Users : 
       At(u, "wait_finished") /\ At(u, "idle")' /\ seen[u] = 0 => failed = {}]_vars

(* A dispatched job gets its result. *)
DispatchedFinish ==
  \A j \in Jobs : j \in dispatched ~> j \in Finished

(* stop returns. *)
StopFinishes ==
  \A u \in Users : pc[u] = "stop_wait" ~> pc[u] = "idle"

(* The loop implements RunQueue: each job is a run of its own, and has       *)
(* finished with its record, even if its dispatched file is still there.     *)
Named(S) == {<<j, j>> : j \in S}
Queue == INSTANCE RunQueue WITH
  JobIds <- Jobs, Runs <- Jobs,
  queued <- Named(pending), active <- Named(dispatched \ Finished), finished <- Named(Finished)
ImplementsRunQueue == Queue!Spec
=============================================================================
