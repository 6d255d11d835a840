----------------------------- MODULE Submission -----------------------------
(***************************************************************************)
(* The durable job store of the training queue service                     *)
(* (src/utils/training_queue/service.py): the client commands enqueue-run, *)
(* submit-batch, find-batch, new-batch and seal-batch, each a process of   *)
(* its own that holds flock locks and may be killed at every step, and     *)
(* the daemon's operations on the same files.                              *)
(*                                                                         *)
(* A job is a position in the sequence job: positions grow in the order    *)
(* the ids are drawn, which is the order of the time-stamped file names    *)
(* under pending/.  A payload stands for a job's script, data group and    *)
(* environment.  The rows of an atomic batch are a function from run names *)
(* to payloads, and that function stands for the specification's sha256.   *)
(***************************************************************************)
EXTENDS Naturals, Sequences

CONSTANTS
  Clients,            \* the processes that run service.py commands
  Daemon,             \* the process that runs _run_daemon
  Runs,               \* the stable run names, as naturals: they are sorted
  Payloads,
  Specs,              \* the atomic specifications the clients may submit
  NoSpec,             \* the specification of a batch made by new-batch
  MaxCommands,        \* bound: enqueue-run, submit-batch and find-batch calls
  MaxBatches,         \* bound: batches made by new-batch
  MaxClientCrashes,   \* bound
  MaxDaemonCrashes    \* bound

Rows == UNION {[D -> Payloads] : D \in SUBSET Runs}

ASSUME DaemonAssumption == Daemon \notin Clients
ASSUME RunsAssumption == Runs \subseteq Nat
ASSUME SpecsAssumption == Specs \subseteq Rows /\ \A s \in Specs : DOMAIN s # {}
ASSUME NoSpecAssumption == NoSpec \notin Specs
ASSUME BoundsAssumption ==
  {MaxCommands, MaxBatches, MaxClientCrashes, MaxDaemonCrashes} \subseteq Nat

VARIABLES
  job,         \* job[j]: the run, payload and batch_id written in j's file
  batch,       \* batch[b]: the file batches/<b>.json
  pending, dispatched, completed, failed,  \* the jobs with a file in each directory
  stable,      \* stable[r]: the job stable/<sha of r>.json names, 0 if no file
  held,        \* held[p]: the flock locks process p holds
  pc, cmd,     \* the step and the arguments of each client's command
  daemon,      \* "down", "interrupt" (failing what an earlier daemon left) or "loop"
  recorded,    \* the job whose result is written but whose dispatched file remains
  commands, clientCrashes, daemonCrashes

client == <<pc, cmd>>
done == <<dispatched, completed, failed>>
service == <<daemon, recorded>>
crashes == <<clientCrashes, daemonCrashes>>
vars == <<job, batch, pending, done, stable, held, client, service, commands, crashes>>

Jobs == 1..Len(job)
Batches == {b \in 1..Len(batch) : batch[b].exists}
Atomic(b) == batch[b].spec # NoSpec
Live == pending \cup dispatched
Finished == completed \cup failed

Processes == Clients \cup {Daemon}
SubmissionLock == <<"submission", 0>>
StableLock(r) == <<"stable", r>>
BatchLock(b) == <<"batch", b>>
Locks == {"submission", "stable", "batch"} \X Nat
Free(lock) == \A p \in Processes : lock \notin held[p]
Take(p, lock) == Free(lock) /\ held' = [held EXCEPT ![p] = @ \cup {lock}]

NoRows == [r \in {} |-> NoSpec]
NoCommand == [rows |-> NoRows, todo |-> {}, batch |-> 0, found |-> 0, find |-> FALSE]

Init ==
  /\ job = <<>> /\ batch = <<>>
  /\ pending = {} /\ dispatched = {} /\ completed = {} /\ failed = {}
  /\ stable = [r \in Runs |-> 0]
  /\ held = [p \in Processes |-> {}]
  /\ pc = [c \in Clients |-> "idle"]
  /\ cmd = [c \in Clients |-> NoCommand]
  /\ daemon = "down" /\ recorded = 0
  /\ commands = 0 /\ clientCrashes = 0 /\ daemonCrashes = 0

-----------------------------------------------------------------------------
(* Steps shared by the commands. *)

Running == daemon = "loop"      \* _require_running

At(c, label) == pc[c] = label
Goto(c, label) == pc' = [pc EXCEPT ![c] = label]

(* The command returns, or raises: its locks are released either way. *)
Exit(c) ==
  /\ Goto(c, "idle")
  /\ cmd' = [cmd EXCEPT ![c] = NoCommand]
  /\ held' = [held EXCEPT ![c] = {}]

Begin(c, label, command) ==
  /\ At(c, "idle") /\ Running
  /\ commands < MaxCommands /\ commands' = commands + 1
  /\ Goto(c, label)
  /\ cmd' = [cmd EXCEPT ![c] = command]
  /\ UNCHANGED <<job, batch, pending, stable, held>>

(* The next row of the command: run names are handled in their order. *)
NextRow(c, r) == r \in cmd[c].todo /\ \A q \in cmd[c].todo : r <= q

Existing(S, r) == {j \in S : job[j].run = r}

(* Mutant: a dispatched job no longer counts as live. *)
LiveJobsPendingOnly(r) == Existing(pending, r)
LiveJobs(r) == Existing(Live, r)

(* A job id is drawn and stable/<sha>.json is written with the new job. *)
Claim(c, r) ==
  /\ job' = Append(job, [run |-> r, payload |-> cmd[c].rows[r], batch |-> cmd[c].batch])
  /\ stable' = [stable EXCEPT ![r] = Len(job) + 1]

-----------------------------------------------------------------------------
(* enqueue-run: _enqueue_run and _stable_job. *)

EnqueueStart(c) ==
  \E r \in Runs, p \in Payloads, b \in Batches :
    /\ Atomic(b) => batch[b].sealed      \* only then has its id been printed
    /\ Begin(c, "e_stable", [NoCommand EXCEPT !.rows = [q \in {r} |-> p],
                                              !.todo = {r}, !.batch = b])

EnqueueLockRun(c) ==
  /\ At(c, "e_stable")
  /\ \E r \in cmd[c].todo : Take(c, StableLock(r))
  /\ Goto(c, "e_batch")
  /\ UNCHANGED <<job, batch, pending, stable, cmd, commands>>

EnqueueLockBatch(c) ==
  LET b == cmd[c].batch
  IN  /\ At(c, "e_batch") /\ Free(BatchLock(b))
      /\ IF batch[b].sealed
           THEN Exit(c)
           ELSE Take(c, BatchLock(b)) /\ Goto(c, "e_index") /\ UNCHANGED cmd
      /\ UNCHANGED <<job, batch, pending, stable, commands>>

(* The stable index names a job: is it still pending? *)
LookPending(c) ==
  \E r \in cmd[c].todo :
    /\ At(c, "e_index")
    /\ IF stable[r] = 0
         THEN Goto(c, "e_scan_pending") /\ UNCHANGED cmd
         ELSE /\ cmd' = [cmd EXCEPT ![c].found = stable[r]]
              /\ Goto(c, IF stable[r] \in pending THEN "e_attach" ELSE "e_dispatched")
    /\ UNCHANGED <<job, batch, pending, stable, held, commands>>

(* Or dispatched?  Otherwise the index entry is stale and is unlinked. *)
LookDispatched(c) ==
  \E r \in cmd[c].todo :
    /\ At(c, "e_dispatched")
    /\ IF cmd[c].found \in dispatched
         THEN Goto(c, "e_attach") /\ UNCHANGED stable
         ELSE Goto(c, "e_scan_pending") /\ stable' = [stable EXCEPT ![r] = 0]
    /\ UNCHANGED <<job, batch, pending, held, cmd, commands>>

(* Fallback: look through the files of one directory, and repair the index. *)
Scan(c, directory, otherwise) ==
  \E r \in cmd[c].todo :
    IF Existing(directory, r) = {}
      THEN Goto(c, otherwise) /\ UNCHANGED <<stable, cmd>>
      ELSE \E j \in Existing(directory, r) :
             /\ stable' = [stable EXCEPT ![r] = j]
             /\ cmd' = [cmd EXCEPT ![c].found = j]
             /\ Goto(c, "e_attach")

ScanPending(c) ==
  /\ At(c, "e_scan_pending") /\ Scan(c, pending, "e_scan_dispatched")
  /\ UNCHANGED <<job, batch, pending, held, commands>>

ScanDispatched(c) ==
  /\ At(c, "e_scan_dispatched") /\ Scan(c, dispatched, "e_claim")
  /\ UNCHANGED <<job, batch, pending, held, commands>>

(* An existing job joins the batch, unless its payload differs. *)
EnqueueAttach(c) ==
  LET b == cmd[c].batch
      j == cmd[c].found
  IN  /\ At(c, "e_attach")
      /\ batch' = IF job[j].payload = cmd[c].rows[job[j].run]
                    THEN [batch EXCEPT ![b].jobs = @ \cup {j}] ELSE batch
      /\ Exit(c)
      /\ UNCHANGED <<job, pending, stable, commands>>

EnqueueClaim(c) ==
  /\ At(c, "e_claim")
  /\ \E r \in cmd[c].todo : Claim(c, r)
  /\ cmd' = [cmd EXCEPT ![c].found = Len(job) + 1]
  /\ Goto(c, "e_publish")
  /\ UNCHANGED <<batch, pending, held, commands>>

EnqueuePublish(c) ==
  /\ At(c, "e_publish")
  /\ pending' = pending \cup {cmd[c].found}
  /\ Goto(c, "e_record")
  /\ UNCHANGED <<job, batch, stable, held, cmd, commands>>

EnqueueRecord(c) ==
  /\ At(c, "e_record")
  /\ batch' = [batch EXCEPT ![cmd[c].batch].jobs = @ \cup {cmd[c].found}]
  /\ Exit(c)
  /\ UNCHANGED <<job, pending, stable, commands>>

-----------------------------------------------------------------------------
(* submit-batch and find-batch: _submit_atomic_batch. *)

SubmitStart(c) ==
  \E s \in Specs, find \in BOOLEAN :
    Begin(c, "s_lock", [NoCommand EXCEPT !.rows = s, !.todo = DOMAIN s, !.find = find])

(* Mutant: the submission lock is not waited for. *)
SubmitLockSkipped(c) ==
  /\ At(c, "s_lock") /\ Goto(c, "s_runs")
  /\ UNCHANGED <<job, batch, pending, stable, held, cmd, commands>>
SubmitLock(c) ==
  /\ At(c, "s_lock") /\ Take(c, SubmissionLock)
  /\ Goto(c, "s_runs")
  /\ UNCHANGED <<job, batch, pending, stable, cmd, commands>>

SubmitLockRun(c) ==
  \E r \in cmd[c].todo :
    /\ At(c, "s_runs") /\ NextRow(c, r)
    /\ Take(c, StableLock(r))
    /\ cmd' = [cmd EXCEPT ![c].todo = @ \ {r}]
    /\ Goto(c, IF cmd[c].todo # {r} THEN "s_runs"
               ELSE IF cmd[c].find THEN "s_match" ELSE "s_recover")
    /\ UNCHANGED <<job, batch, pending, stable, commands>>

(* _recover_incomplete_atomic_batch: what an interrupted call left behind.  *)
(* Mutant: the specification is not compared. *)
IncompleteOfAnySpec(c) == {b \in Batches : Atomic(b) /\ ~batch[b].sealed}
Incomplete(c) == {b \in Batches : batch[b].spec = cmd[c].rows /\ ~batch[b].sealed}
OwnedPending(b) == {j \in pending : job[j].batch = b}
OwnedStable(b) == {r \in Runs : stable[r] # 0 /\ job[stable[r]].batch = b}

RecoverPending(c) ==
  /\ At(c, "s_recover")
  /\ \E b \in Incomplete(c) : \E j \in OwnedPending(b) : pending' = pending \ {j}
  /\ UNCHANGED <<job, batch, stable, held, client, commands>>

(* Mutant: the index is cleared before the pending files. *)
RecoverStableFirst(c) ==
  /\ At(c, "s_recover")
  /\ \E b \in Incomplete(c) : \E r \in OwnedStable(b) : stable' = [stable EXCEPT ![r] = 0]
  /\ UNCHANGED <<job, batch, pending, held, client, commands>>
RecoverStable(c) ==
  /\ At(c, "s_recover")
  /\ \E b \in Incomplete(c) :
       /\ OwnedPending(b) = {}
       /\ \E r \in OwnedStable(b) : stable' = [stable EXCEPT ![r] = 0]
  /\ UNCHANGED <<job, batch, pending, held, client, commands>>

(* Mutant: the batch file is unlinked first. *)
RecoverBatchFirst(c) ==
  /\ At(c, "s_recover")
  /\ \E b \in Incomplete(c) : batch' = [batch EXCEPT ![b].exists = FALSE]
  /\ UNCHANGED <<job, pending, stable, held, client, commands>>
RecoverBatch(c) ==
  /\ At(c, "s_recover")
  /\ \E b \in Incomplete(c) :
       /\ OwnedPending(b) = {} /\ OwnedStable(b) = {}
       /\ batch' = [batch EXCEPT ![b].exists = FALSE]
  /\ UNCHANGED <<job, pending, stable, held, client, commands>>

Recovered(c) ==
  /\ At(c, "s_recover") /\ Incomplete(c) = {}
  /\ Goto(c, "s_match")
  /\ UNCHANGED <<job, batch, pending, stable, held, cmd, commands>>

(* _matching_sealed_atomic_batch.  Printing the batch found and raising the *)
(* RuntimeError both end the command; find-batch ends in either case.       *)
(* Mutant: a batch with a finished job is not matched. *)
MatchingUnfinished(c) ==
  {b \in Batches : batch[b].spec = cmd[c].rows /\ batch[b].sealed /\ batch[b].jobs \subseteq Live}
Matching(c) == {b \in Batches : batch[b].spec = cmd[c].rows /\ batch[b].sealed}

SubmitMatch(c) ==
  /\ At(c, "s_match")
  /\ IF Matching(c) # {} \/ cmd[c].find
       THEN Exit(c)
       ELSE /\ cmd' = [cmd EXCEPT ![c].todo = DOMAIN cmd[c].rows]
            /\ Goto(c, "s_check") /\ UNCHANGED held
  /\ UNCHANGED <<job, batch, pending, stable, commands>>

(* One _stable_job call of the live check.  No job of the run can move while *)
(* this process holds the submission lock and the lock of the run.           *)
SubmitCheckRun(c) ==
  \E r \in cmd[c].todo :
    /\ At(c, "s_check") /\ NextRow(c, r)
    /\ IF LiveJobs(r) # {}
         THEN /\ \E j \in LiveJobs(r) : stable' = [stable EXCEPT ![r] = j]
              /\ Exit(c)
         ELSE /\ stable' = [stable EXCEPT ![r] = 0]
              /\ cmd' = [cmd EXCEPT ![c].todo = @ \ {r}]
              /\ Goto(c, IF cmd[c].todo = {r} THEN "s_batch" ELSE "s_check")
              /\ UNCHANGED held
    /\ UNCHANGED <<job, batch, pending, commands>>

SubmitBatch(c) ==
  /\ At(c, "s_batch")
  /\ batch' = Append(batch, [spec |-> cmd[c].rows, jobs |-> {}, sealed |-> FALSE, exists |-> TRUE])
  /\ cmd' = [cmd EXCEPT ![c].todo = DOMAIN cmd[c].rows, ![c].batch = Len(batch) + 1]
  /\ Goto(c, "s_claim")
  /\ UNCHANGED <<job, pending, stable, held, commands>>

SubmitClaim(c) ==
  \E r \in cmd[c].todo :
    /\ At(c, "s_claim") /\ NextRow(c, r)
    /\ Claim(c, r)
    /\ cmd' = [cmd EXCEPT ![c].found = Len(job) + 1, ![c].todo = @ \ {r}]
    /\ Goto(c, "s_publish")
    /\ UNCHANGED <<batch, pending, held, commands>>

SubmitPublish(c) ==
  /\ At(c, "s_publish")
  /\ pending' = pending \cup {cmd[c].found}
  /\ Goto(c, IF cmd[c].todo = {} THEN "s_seal" ELSE "s_claim")
  /\ UNCHANGED <<job, batch, stable, held, cmd, commands>>

SubmitSeal(c) ==
  LET b == cmd[c].batch
  IN  /\ At(c, "s_seal")
      /\ batch' = [batch EXCEPT ![b].jobs = {j \in Jobs : job[j].batch = b},
                                ![b].sealed = TRUE]
      /\ Exit(c)
      /\ UNCHANGED <<job, pending, stable, commands>>

-----------------------------------------------------------------------------
(* new-batch and seal-batch: one write each. *)

NewBatch(c) ==
  /\ At(c, "idle") /\ Running
  /\ Len(SelectSeq(batch, LAMBDA x : x.spec = NoSpec)) < MaxBatches
  /\ batch' = Append(batch, [spec |-> NoSpec, jobs |-> {}, sealed |-> FALSE, exists |-> TRUE])
  /\ UNCHANGED <<job, pending, stable, held, client, commands>>

(* Mutant: the batch is sealed without its lock. *)
SealBatchUnlocked(c) ==
  \E b \in Batches :
    /\ At(c, "idle") /\ ~Atomic(b)
    /\ batch' = [batch EXCEPT ![b].sealed = TRUE]
    /\ UNCHANGED <<job, pending, stable, held, client, commands>>
SealBatch(c) ==
  \E b \in Batches :
    /\ At(c, "idle") /\ Free(BatchLock(b))
    /\ ~Atomic(b)
    /\ batch' = [batch EXCEPT ![b].sealed = TRUE]
    /\ UNCHANGED <<job, pending, stable, held, client, commands>>

-----------------------------------------------------------------------------
(* The daemon's operations on the store. *)

(* _next_job: the first pending job, in file name order, that is not of an *)
(* unsealed atomic batch.                                                  *)
(* Mutants: the batch of a job is not looked at, or must be sealed atomic. *)
AnyPending == pending
OnlyAtomic == {j \in pending : Atomic(job[j].batch) /\ batch[job[j].batch].sealed}
Dispatchable == {j \in pending : Atomic(job[j].batch) => batch[job[j].batch].sealed}

(* Mutant: the newest file is taken. *)
DispatchNewest ==
  \E j \in Dispatchable :
    /\ Running /\ Free(SubmissionLock)
    /\ \A k \in Dispatchable : k <= j
    /\ pending' = pending \ {j}
    /\ dispatched' = dispatched \cup {j}
    /\ UNCHANGED <<completed, failed, held, service>>
Dispatch ==
  \E j \in Dispatchable :
    /\ Running /\ Free(SubmissionLock)
    /\ \A k \in Dispatchable : j <= k
    /\ pending' = pending \ {j}
    /\ dispatched' = dispatched \cup {j}
    /\ UNCHANGED <<completed, failed, held, service>>

(* _collect_results: the result's record is written, then the dispatched    *)
(* file is unlinked, under the submission lock.                             *)
(* Mutant: the dispatched file is unlinked before the record is written. *)
CollectUnlinksFirst ==
  \E j \in dispatched :
    /\ Running /\ recorded = 0 /\ Take(Daemon, SubmissionLock)
    /\ recorded' = j
    /\ dispatched' = dispatched \ {j}
    /\ UNCHANGED <<pending, completed, failed, daemon>>
Collect ==
  \E j \in dispatched, destination \in {"completed", "failed"} :
    /\ Running /\ recorded = 0 /\ Take(Daemon, SubmissionLock)
    /\ recorded' = j
    /\ completed' = IF destination = "completed" THEN completed \cup {j} ELSE completed
    /\ failed' = IF destination = "failed" THEN failed \cup {j} ELSE failed
    /\ UNCHANGED <<pending, dispatched, daemon>>

(* _run_daemon starts: the singleton lock is free, and _fail_dispatched     *)
(* takes the submission lock.                                               *)
DaemonStart ==
  /\ daemon = "down" /\ Take(Daemon, SubmissionLock)
  /\ daemon' = "interrupt"
  /\ UNCHANGED <<pending, done, recorded>>

FailDispatched ==
  \E j \in dispatched :
    /\ daemon = "interrupt" /\ recorded = 0
    /\ recorded' = j
    /\ failed' = failed \cup {j}
    /\ UNCHANGED <<pending, dispatched, completed, held, daemon>>

(* The unlink that ends either record. *)
(* Mutant: the submission lock is kept. *)
UnlinkKeepsLock ==
  /\ recorded # 0 /\ recorded' = 0
  /\ dispatched' = dispatched \ {recorded}
  /\ UNCHANGED <<pending, completed, failed, held, daemon>>
Unlink ==
  /\ recorded # 0
  /\ dispatched' = dispatched \ {recorded}
  /\ recorded' = 0
  /\ held' = [held EXCEPT ![Daemon] = IF Running THEN {} ELSE @]
  /\ UNCHANGED <<pending, completed, failed, daemon>>

DaemonReady ==
  /\ daemon = "interrupt" /\ recorded = 0 /\ dispatched = {}
  /\ daemon' = "loop"
  /\ held' = [held EXCEPT ![Daemon] = {}]
  /\ UNCHANGED <<pending, done, recorded>>

-----------------------------------------------------------------------------
(* kill -9 of a client or of the daemon: the kernel drops its locks. *)

ClientCrash(c) ==
  /\ ~At(c, "idle")
  /\ clientCrashes < MaxClientCrashes /\ clientCrashes' = clientCrashes + 1
  /\ Exit(c)
  /\ UNCHANGED <<job, batch, pending, done, stable, service, commands, daemonCrashes>>

DaemonCrash ==
  /\ daemon # "down"
  /\ daemonCrashes < MaxDaemonCrashes /\ daemonCrashes' = daemonCrashes + 1
  /\ daemon' = "down" /\ recorded' = 0
  /\ held' = [held EXCEPT ![Daemon] = {}]
  /\ UNCHANGED <<job, batch, pending, done, stable, client, commands, clientCrashes>>

EnqueueStep(c) ==
  \/ EnqueueLockRun(c) \/ EnqueueLockBatch(c)
  \/ LookPending(c) \/ LookDispatched(c) \/ ScanPending(c) \/ ScanDispatched(c)
  \/ EnqueueAttach(c) \/ EnqueueClaim(c) \/ EnqueuePublish(c) \/ EnqueueRecord(c)

SubmitStep(c) ==
  \/ SubmitLock(c) \/ SubmitLockRun(c)
  \/ RecoverPending(c) \/ RecoverStable(c) \/ RecoverBatch(c) \/ Recovered(c)
  \/ SubmitMatch(c) \/ SubmitCheckRun(c)
  \/ SubmitBatch(c) \/ SubmitClaim(c) \/ SubmitPublish(c) \/ SubmitSeal(c)

ClientStep(c) ==
  (EnqueueStep(c) \/ SubmitStep(c)) /\ UNCHANGED <<done, service, crashes>>

ClientStart(c) ==
  /\ EnqueueStart(c) \/ SubmitStart(c) \/ NewBatch(c) \/ SealBatch(c)
  /\ UNCHANGED <<done, service, crashes>>

DaemonStep ==
  /\ \/ Dispatch \/ Collect \/ DaemonStart \/ FailDispatched \/ Unlink \/ DaemonReady
  /\ UNCHANGED <<job, batch, stable, client, commands, crashes>>

Next ==
  \/ \E c \in Clients : ClientStart(c) \/ ClientStep(c) \/ ClientCrash(c)
  \/ DaemonStep
  \/ DaemonCrash

Spec == Init /\ [][Next]_vars

(* A process that is neither killed nor blocked on a lock takes its next step. *)
FairSpec ==
  Spec /\ WF_vars(DaemonStep) /\ \A c \in Clients : WF_vars(ClientStep(c))

-----------------------------------------------------------------------------
(* Properties. *)

Labels ==
  {"idle", "e_stable", "e_batch", "e_index", "e_dispatched", "e_scan_pending",
   "e_scan_dispatched", "e_attach", "e_claim", "e_publish", "e_record",
   "s_lock", "s_runs", "s_recover", "s_match", "s_check", "s_batch",
   "s_claim", "s_publish", "s_seal"}

JobFile == [run : Runs, payload : Payloads, batch : Nat]
BatchFile == [spec : Rows \cup {NoSpec}, jobs : SUBSET Nat, sealed : BOOLEAN, exists : BOOLEAN]
Command ==
  {x \in [rows : Rows, todo : SUBSET Runs, batch : Nat, found : Nat, find : BOOLEAN] :
     x.todo \subseteq DOMAIN x.rows}

(* Every file and every command's local variable is of the kind the code    *)
(* gives it; a recorded job still has its dispatched file.                  *)
TypeOK ==
  /\ job \in Seq(JobFile)
  /\ batch \in Seq(BatchFile)
  /\ pending \in SUBSET Nat /\ dispatched \in SUBSET Nat
  /\ completed \in SUBSET Nat /\ failed \in SUBSET Nat
  /\ stable \in [Runs -> Nat]
  /\ held \in [Processes -> SUBSET Locks]
  /\ pc \in [Clients -> Labels]
  /\ cmd \in [Clients -> Command]
  /\ daemon \in {"down", "interrupt", "loop"}
  /\ recorded \in dispatched \cup {0}
  /\ commands \in Nat /\ clientCrashes \in Nat /\ daemonCrashes \in Nat

(* A run name has at most one job that is pending or dispatched, whatever   *)
(* commands race for it and whichever of them is killed (enqueue-run        *)
(* returns the live job of a run, submit-batch refuses one).                *)
OneLiveJobPerRun ==
  \A j, k \in Live : job[j].run = job[k].run => j = k

(* The stable index names the live job of every run: a killed command or    *)
(* the recovery of an atomic batch never leaves a live job unindexed, which *)
(* is what lets _stable_job find it from the index alone.                   *)
IndexNamesLiveJob ==
  \A j \in Live : stable[job[j].run] = j

(* All-or-none submission: no job of an atomic batch leaves pending/ before *)
(* the batch is sealed, and a sealed one has one job for each of its rows.  *)
AtomicAllOrNone ==
  /\ \A j \in dispatched \cup Finished : Atomic(job[j].batch) => batch[job[j].batch].sealed
  /\ \A b \in Batches : Atomic(b) /\ batch[b].sealed =>
       /\ {<<job[j].run, job[j].payload>> : j \in batch[b].jobs}
            = {<<r, batch[b].spec[r]>> : r \in DOMAIN batch[b].spec}
       /\ \A j, k \in batch[b].jobs : job[j].run = job[k].run => j = k

(* _next_job reads the batch file of every pending job: recovery never      *)
(* unlinks a batch that a pending or dispatched job still names.            *)
LiveJobHasBatch ==
  \A j \in Live : batch[job[j].batch].exists

(* An exact retry of submit-batch finds the earlier batch: a specification  *)
(* never has two batch files.                                               *)
OneBatchPerSpec ==
  \A a, b \in Batches : Atomic(a) /\ batch[a].spec = batch[b].spec => a = b

(* Recovery of an incomplete batch only ever meets jobs of the runs it has  *)
(* locked ("atomic batch recovery found foreign runs" is never raised).     *)
RecoveryFindsOnlyOwnRuns ==
  \A c \in Clients : At(c, "s_recover") =>
    \A b \in Incomplete(c) :
      OwnedStable(b) \cup {job[j].run : j \in OwnedPending(b)} \subseteq DOMAIN cmd[c].rows

(* While the service runs, a retry that looks for its sealed batch sees     *)
(* each of its jobs in exactly one of the four directories ("sealed atomic  *)
(* batch has missing or duplicate jobs" is never raised), unless a daemon   *)
(* has been killed: a kill between the two steps of a record leaves two.    *)
MatchSeesEachJobOnce ==
  \A c \in Clients : At(c, "s_match") /\ Running /\ daemonCrashes = 0 =>
    \A b \in Matching(c) : \A j \in batch[b].jobs :
      \E D \in {pending, dispatched, completed, failed} :
        j \in D /\ \A E \in {pending, dispatched, completed, failed} : j \in E => E = D

(* No batch lists a job whose files are all gone: wait-batch on such a      *)
(* batch would never return.                                                *)
ListedJobsExist ==
  \A b \in Batches : batch[b].jobs \subseteq Live \cup Finished

(* A sealed batch never changes again: wait-batch may count its jobs.       *)
SealedBatchFrozen ==
  [][\A b \in Batches : batch[b].sealed => batch'[b] = batch[b]]_vars

(* Every command returns: the submission lock, the sorted run locks and the *)
(* batch lock are never waited for in a circle.                             *)
CommandsFinish ==
  \A c \in Clients : pc[c] # "idle" ~> pc[c] = "idle"

(* Every job of a sealed batch is dispatched and gets a result, so that     *)
(* wait-batch returns.                                                      *)
SealedBatchesFinish ==
  \A b \in 1..(MaxBatches + MaxCommands) :
    (b \in Batches /\ batch[b].sealed) ~> (b \in Batches /\ batch[b].jobs \subseteq Finished)

(* The store implements RunQueue: a pending job is accepted once _next_job  *)
(* may take it, and finished once its dispatched file is gone.              *)
Named(S) == {<<j, job[j].run>> : j \in S}
Queue == INSTANCE RunQueue WITH
  JobIds <- Nat,
  queued <- Named(Dispatchable),
  active <- Named(dispatched),
  finished <- Named(Finished \ dispatched)
ImplementsRunQueue == Queue!Spec
=============================================================================
