---------------------------- MODULE SubmissionProofs ----------------------------
(***************************************************************************)
(* Proofs about Submission for every set of clients, runs and              *)
(* specifications and every number of commands and crashes: its types, and *)
(* the inductive invariant IInv by rely and guarantee.  Every step of a    *)
(* client gives the guarantee StepOf, every other client's knowledge       *)
(* relies on nothing more, and the files' invariant follows from the       *)
(* guarantee alone.  Then the same for BInv, the batches.                  *)
(***************************************************************************)
EXTENDS SubmissionInvariant, SequenceTheorems, TLAPS

-----------------------------------------------------------------------------
(* Typing lemmas. *)

(* The rows of a command map run names to payloads. *)
LEMMA RowsType ==
  ASSUME NEW x \in Command
  PROVE  DOMAIN x.rows \subseteq Runs /\ x.rows \in [DOMAIN x.rows -> Payloads]
<1>1. PICK D \in SUBSET Runs : x.rows \in [D -> Payloads]
  BY DEF Command, Rows
<1> QED  BY <1>1

(* A command whose job, batch or rows to do are replaced is still one. *)
LEMMA CommandUpdate ==
  ASSUME NEW x \in Command, NEW n \in Nat, NEW t \in SUBSET DOMAIN x.rows
  PROVE  /\ [x EXCEPT !.found = n] \in Command
         /\ [x EXCEPT !.todo = t] \in Command
         /\ [x EXCEPT !.found = n, !.todo = t] \in Command
         /\ [x EXCEPT !.todo = t, !.batch = n] \in Command
<1> DEFINE Fields == [rows : Rows, todo : SUBSET Runs, batch : Nat, found : Nat, find : BOOLEAN]
<1>1. x \in Fields /\ x.todo \subseteq DOMAIN x.rows /\ DOMAIN x.rows \subseteq Runs
  BY RowsType DEF Command
<1>2. ASSUME NEW y \in Fields, y.rows = x.rows, y.todo \in {x.todo, t}  PROVE  y \in Command
  BY <1>1, <1>2 DEF Command
<1> HIDE DEF Command
<1>3. [x EXCEPT !.found = n] \in Command
  BY <1>1, <1>2
<1>4. [x EXCEPT !.todo = t] \in Command
  BY <1>1, <1>2
<1>5. [x EXCEPT !.found = n, !.todo = t] \in Command
  BY <1>1, <1>2
<1>6. [x EXCEPT !.todo = t, !.batch = n] \in Command
  BY <1>1, <1>2
<1> QED  BY <1>3, <1>4, <1>5, <1>6

(* A client between two commands has the empty one.                         *)
LEMMA NoCommandType == NoCommand \in Command
<1>1. NoRows \in [{} -> Payloads]
  BY DEF NoRows
<1>2. NoRows \in Rows
  BY <1>1 DEF Rows
<1> QED
  BY <1>2 DEF NoCommand, Command

(* What a process takes is a lock. *)
LEMMA TakeType ==
  ASSUME TypeOK, NEW p \in Processes, NEW lock \in Locks, Take(p, lock)
  PROVE  held' \in [Processes -> SUBSET Locks]
BY DEF TypeOK, Take

(* The locks that the client names are locks.                               *)
LEMMA LockTypes ==
  /\ SubmissionLock \in Locks
  /\ \A r \in Runs : StableLock(r) \in Locks
  /\ \A b \in Nat : BatchLock(b) \in Locks
BY RunsAssumption DEF SubmissionLock, StableLock, BatchLock, Locks

(* Writing one position of a sequence keeps its type and its length. *)
LEMMA SeqExcept ==
  ASSUME NEW S, NEW s \in Seq(S), NEW b, NEW e, b \in DOMAIN s => e \in S
  PROVE  [s EXCEPT ![b] = e] \in Seq(S) /\ Len([s EXCEPT ![b] = e]) = Len(s)
<1>1. s \in [1..Len(s) -> S] /\ Len(s) \in Nat
  BY LenProperties
<1>2. [s EXCEPT ![b] = e] \in [1..Len(s) -> S]
  BY <1>1
<1>3. [s EXCEPT ![b] = e] \in Seq(S)
  BY <1>1, <1>2, SeqDef
<1>4. DOMAIN [s EXCEPT ![b] = e] = 1..Len(s)
  BY <1>2
<1> QED  BY <1>1, <1>3, <1>4, LenProperties

(* So does a write of the jobs, or of a flag, of one batch file. *)
LEMMA BatchExcept ==
  ASSUME NEW s \in Seq(BatchFile), NEW b, NEW J, NEW flag \in BOOLEAN,
         b \in DOMAIN s => J \in SUBSET Nat
  PROVE  /\ [s EXCEPT ![b].jobs = J] \in Seq(BatchFile)
         /\ [s EXCEPT ![b].sealed = flag] \in Seq(BatchFile)
         /\ [s EXCEPT ![b].exists = flag] \in Seq(BatchFile)
         /\ [s EXCEPT ![b].jobs = J, ![b].sealed = flag] \in Seq(BatchFile)
<1> DEFINE e == [s[b] EXCEPT !.jobs = J]
           f == [s[b] EXCEPT !.sealed = flag]
           g == [s[b] EXCEPT !.exists = flag]
           h == [s[b] EXCEPT !.jobs = J, !.sealed = flag]
<1>1. /\ [s EXCEPT ![b].jobs = J] = [s EXCEPT ![b] = e]
      /\ [s EXCEPT ![b].sealed = flag] = [s EXCEPT ![b] = f]
      /\ [s EXCEPT ![b].exists = flag] = [s EXCEPT ![b] = g]
      /\ [s EXCEPT ![b].jobs = J, ![b].sealed = flag] = [s EXCEPT ![b] = h]
  OBVIOUS
<1>2. ASSUME b \in DOMAIN s
      PROVE  e \in BatchFile /\ f \in BatchFile /\ g \in BatchFile /\ h \in BatchFile
  <2>1. s[b] \in BatchFile
    BY <1>2, LenProperties
  <2> QED  BY <2>1, <1>2 DEF BatchFile
<1> HIDE DEF e, f, g, h
<1>3. /\ [s EXCEPT ![b] = e] \in Seq(BatchFile)
      /\ [s EXCEPT ![b] = f] \in Seq(BatchFile)
      /\ [s EXCEPT ![b] = g] \in Seq(BatchFile)
      /\ [s EXCEPT ![b] = h] \in Seq(BatchFile)
  BY <1>2, SeqExcept, SMT
<1> QED  BY <1>1, <1>3

(* Ending a command leaves labels, commands and locks well-typed.           *)
LEMMA ExitType ==
  ASSUME TypeOK, NEW c \in Clients, Exit(c)
  PROVE  /\ pc' \in [Clients -> Labels]
         /\ cmd' \in [Clients -> Command]
         /\ held' \in [Processes -> SUBSET Locks]
BY NoCommandType DEF TypeOK, Exit, Goto, Labels

(* Claiming a run appends one job and indexes it.                           *)
LEMMA ClaimType ==
  ASSUME TypeOK, NEW c \in Clients, NEW r \in cmd[c].todo, Claim(c, r)
  PROVE  /\ job' \in Seq(JobFile) /\ Len(job') = Len(job) + 1 /\ Len(job) \in Nat
         /\ stable' \in [Runs -> Nat]
<1>1. cmd[c] \in Command /\ r \in Runs
  BY DEF TypeOK, Command
<1>2. cmd[c].rows[r] \in Payloads /\ cmd[c].batch \in Nat
  BY <1>1, RowsType DEF Command
<1>3. job \in Seq(JobFile) /\ Len(job) \in Nat
  BY DEF TypeOK
<1> QED  BY <1>1, <1>2, <1>3 DEF TypeOK, Claim, JobFile

(* The initial values are of their types. *)
LEMMA TypeInit == Init => TypeOK
<1> SUFFICES ASSUME Init PROVE TypeOK
  OBVIOUS
<1>1. cmd \in [Clients -> Command]
  BY NoCommandType DEF Init
<1>2. job \in Seq(JobFile) /\ batch \in Seq(BatchFile)
  BY DEF Init
<1> QED
  BY <1>1, <1>2 DEF Init, TypeOK, Labels

(* Every step of every process keeps them. *)
LEMMA TypeStep == TypeOK /\ [Next]_vars => TypeOK'
<1> SUFFICES ASSUME TypeOK, [Next]_vars PROVE TypeOK'
  OBVIOUS
<1> USE DEF TypeOK, At, Goto, done, client, service, crashes
<1>u. CASE UNCHANGED vars
  BY <1>u DEF vars
<1>c. ASSUME NEW c \in Clients
      PROVE  /\ c \in Processes /\ cmd[c] \in Command
             /\ cmd[c].todo \subseteq Runs /\ cmd[c].todo \subseteq DOMAIN cmd[c].rows
             /\ cmd[c].batch \in Nat /\ cmd[c].found \in Nat /\ DOMAIN cmd[c].rows \subseteq Runs
  BY <1>c, RowsType DEF Processes, Command
<1>f. ASSUME NEW c \in Clients, NEW n \in Nat
      PROVE  [cmd EXCEPT ![c].found = n] \in [Clients -> Command]
  <2> DEFINE x == [cmd[c] EXCEPT !.found = n]
  <2>1. x \in Command
    BY <1>c, CommandUpdate
  <2>2. [cmd EXCEPT ![c].found = n] = [cmd EXCEPT ![c] = x]
    OBVIOUS
  <2> HIDE DEF x
  <2> QED  BY <2>1, <2>2
<1>t. ASSUME NEW c \in Clients, NEW t \in SUBSET DOMAIN cmd[c].rows, NEW n \in Nat
      PROVE  /\ [cmd EXCEPT ![c].todo = t] \in [Clients -> Command]
             /\ [cmd EXCEPT ![c].found = n, ![c].todo = t] \in [Clients -> Command]
             /\ [cmd EXCEPT ![c].todo = t, ![c].batch = n] \in [Clients -> Command]
  <2> DEFINE x == [cmd[c] EXCEPT !.todo = t]
             y == [cmd[c] EXCEPT !.found = n, !.todo = t]
             z == [cmd[c] EXCEPT !.todo = t, !.batch = n]
  <2>1. x \in Command /\ y \in Command /\ z \in Command
    BY <1>c, CommandUpdate
  <2>2. /\ [cmd EXCEPT ![c].todo = t] = [cmd EXCEPT ![c] = x]
        /\ [cmd EXCEPT ![c].found = n, ![c].todo = t] = [cmd EXCEPT ![c] = y]
        /\ [cmd EXCEPT ![c].todo = t, ![c].batch = n] = [cmd EXCEPT ![c] = z]
    OBVIOUS
  <2> HIDE DEF x, y, z
  <2> QED  BY <2>1, <2>2
<1>n. Len(job) \in Nat /\ Len(batch) \in Nat
  OBVIOUS
<1>j. ASSUME NEW b, NEW j \in Nat
      PROVE  [batch EXCEPT ![b].jobs = @ \cup {j}] \in Seq(BatchFile)
  <2> DEFINE J == batch[b].jobs \cup {j}
  <2>1. ASSUME b \in DOMAIN batch  PROVE  J \in SUBSET Nat
    <3>1. batch[b] \in BatchFile
      BY <2>1, LenProperties
    <3> QED  BY <3>1 DEF BatchFile
  <2>2. [batch EXCEPT ![b].jobs = @ \cup {j}] = [batch EXCEPT ![b].jobs = J]
    OBVIOUS
  <2> HIDE DEF J
  <2>3. [batch EXCEPT ![b].jobs = J] \in Seq(BatchFile)
    BY <2>1, BatchExcept
  <2> QED  BY <2>2, <2>3
<1>e. ASSUME NEW c \in Clients, EnqueueStep(c), UNCHANGED <<done, service, crashes>> PROVE TypeOK'
  <2> USE <1>e, <1>c, <1>n
  <2>1. CASE EnqueueLockRun(c)
    <3>1. held' \in [Processes -> SUBSET Locks]
      BY <2>1, TakeType, LockTypes DEF EnqueueLockRun
    <3> QED  BY <2>1, <3>1 DEF EnqueueLockRun, Labels
  <2>2. CASE EnqueueLockBatch(c)
    <3>1. CASE Exit(c)
      BY <2>2, <3>1, ExitType DEF EnqueueLockBatch
    <3>2. CASE Take(c, BatchLock(cmd[c].batch)) /\ Goto(c, "e_index") /\ UNCHANGED cmd
      <4>1. held' \in [Processes -> SUBSET Locks]
        BY <3>2, TakeType, LockTypes
      <4> QED  BY <2>2, <3>2, <4>1 DEF EnqueueLockBatch, Labels
    <3> QED  BY <2>2, <3>1, <3>2 DEF EnqueueLockBatch
  <2>3. CASE LookPending(c)
    <3>1. cmd' \in [Clients -> Command]
      <4>1. cmd' = cmd \/ \E r \in Runs : cmd' = [cmd EXCEPT ![c].found = stable[r]]
        BY <2>3 DEF LookPending
      <4>2. \A r \in Runs : stable[r] \in Nat
        OBVIOUS
      <4>3. \A r \in Runs : [cmd EXCEPT ![c].found = stable[r]] \in [Clients -> Command]
        BY <4>2, <1>f, Zenon
      <4> QED  BY <4>1, <4>3
    <3> QED  BY <2>3, <3>1 DEF LookPending, Labels
  <2>4. CASE LookDispatched(c)
    <3>1. stable' = stable \/ \E r \in Runs : stable' = [stable EXCEPT ![r] = 0]
      BY <2>4 DEF LookDispatched
    <3>2. stable' \in [Runs -> Nat]
      BY <3>1
    <3>3. pc' \in [Clients -> Labels]
      BY <2>4 DEF LookDispatched, Labels
    <3> QED  BY <2>4, <3>2, <3>3 DEF LookDispatched
  <2>5. ASSUME Scan(c, pending, "e_scan_dispatched") \/ Scan(c, dispatched, "e_claim")
        PROVE  /\ cmd' \in [Clients -> Command] /\ stable' \in [Runs -> Nat]
               /\ pc' \in [Clients -> Labels]
    <3>1. PICK S \in {pending, dispatched}, r \in cmd[c].todo :
            \/ UNCHANGED <<stable, cmd>>
            \/ \E j \in S : stable' = [stable EXCEPT ![r] = j] /\ cmd' = [cmd EXCEPT ![c].found = j]
      BY <2>5 DEF Scan, Existing
    <3>2. pc' \in [Clients -> Labels]
      BY <2>5 DEF Scan, Labels
    <3>3. \A j \in S : [cmd EXCEPT ![c].found = j] \in [Clients -> Command]
      <4>1. S \subseteq Nat
        OBVIOUS
      <4> QED  BY <4>1, <1>f, Zenon
    <3>4. cmd' \in [Clients -> Command]
      BY <3>1, <3>3
    <3>5. stable' \in [Runs -> Nat]
      BY <3>1
    <3> QED  BY <3>2, <3>4, <3>5
  <2>6. CASE ScanPending(c)
    BY <2>6, <2>5 DEF ScanPending
  <2>7. CASE ScanDispatched(c)
    BY <2>7, <2>5 DEF ScanDispatched
  <2>8. CASE EnqueueAttach(c)
    <3>1. batch' \in Seq(BatchFile)
      <4>1. batch' = batch \/ batch' = [batch EXCEPT ![cmd[c].batch].jobs = @ \cup {cmd[c].found}]
        BY <2>8 DEF EnqueueAttach
      <4>2. [batch EXCEPT ![cmd[c].batch].jobs = @ \cup {cmd[c].found}] \in Seq(BatchFile)
        BY <1>j, Zenon
      <4> QED  BY <4>1, <4>2
    <3> QED  BY <2>8, <3>1, ExitType DEF EnqueueAttach
  <2>9. CASE EnqueueClaim(c)
    <3>1. job' \in Seq(JobFile) /\ stable' \in [Runs -> Nat]
      BY <2>9, ClaimType DEF EnqueueClaim
    <3>2. cmd' \in [Clients -> Command]
      <4>1. cmd' = [cmd EXCEPT ![c].found = Len(job) + 1]
        BY <2>9 DEF EnqueueClaim
      <4>2. Len(job) + 1 \in Nat
        OBVIOUS
      <4>3. [cmd EXCEPT ![c].found = Len(job) + 1] \in [Clients -> Command]
        BY <4>2, <1>f, Zenon
      <4> QED  BY <4>1, <4>3, Zenon
    <3> QED  BY <2>9, <3>1, <3>2 DEF EnqueueClaim, Labels
  <2>10. CASE EnqueuePublish(c)
    BY <2>10 DEF EnqueuePublish, Labels
  <2>11. CASE EnqueueRecord(c)
    <3>1. batch' \in Seq(BatchFile)
      BY <2>11, <1>j DEF EnqueueRecord
    <3> QED  BY <2>11, <3>1, ExitType DEF EnqueueRecord
  <2> QED  BY <2>1, <2>2, <2>3, <2>4, <2>6, <2>7, <2>8, <2>9, <2>10, <2>11 DEF EnqueueStep
<1>s. ASSUME NEW c \in Clients, SubmitStep(c), UNCHANGED <<done, service, crashes>> PROVE TypeOK'
  <2> USE <1>s, <1>c, <1>n
  <2>1. CASE SubmitLock(c)
    <3>1. held' \in [Processes -> SUBSET Locks]
      BY <2>1, TakeType, LockTypes DEF SubmitLock
    <3> QED  BY <2>1, <3>1 DEF SubmitLock, Labels
  <2>2. CASE SubmitLockRun(c)
    <3>1. PICK r \in cmd[c].todo : SubmitLockRun(c)!(r)
      BY <2>2 DEF SubmitLockRun
    <3>2. held' \in [Processes -> SUBSET Locks]
      BY <3>1, TakeType, LockTypes
    <3>3. cmd' \in [Clients -> Command]
      <4>1. cmd[c].todo \ {r} \in SUBSET DOMAIN cmd[c].rows
        OBVIOUS
      <4>2. [cmd EXCEPT ![c].todo = cmd[c].todo \ {r}] \in [Clients -> Command]
        BY <4>1, <1>t, Zenon
      <4> QED  BY <4>2, <3>1
    <3> QED  BY <3>1, <3>2, <3>3 DEF Labels
  <2>3. CASE RecoverPending(c)
    BY <2>3 DEF RecoverPending
  <2>4. CASE RecoverStable(c)
    BY <2>4 DEF RecoverStable, OwnedStable
  <2>5. CASE RecoverBatch(c)
    <3>1. PICK b : batch' = [batch EXCEPT ![b].exists = FALSE]
      BY <2>5 DEF RecoverBatch
    <3>2. batch' \in Seq(BatchFile)
      BY <3>1, BatchExcept, Zenon
    <3> QED  BY <2>5, <3>2 DEF RecoverBatch
  <2>6. CASE Recovered(c)
    BY <2>6 DEF Recovered, Labels
  <2>7. CASE SubmitMatch(c)
    <3>1. CASE Exit(c)
      BY <2>7, <3>1, ExitType DEF SubmitMatch
    <3>2. CASE /\ cmd' = [cmd EXCEPT ![c].todo = DOMAIN cmd[c].rows]
               /\ Goto(c, "s_check") /\ UNCHANGED held
      <4>1. [cmd EXCEPT ![c].todo = DOMAIN cmd[c].rows] \in [Clients -> Command]
        BY <1>t, Zenon
      <4> QED  BY <2>7, <3>2, <4>1 DEF SubmitMatch, Labels
    <3> QED  BY <2>7, <3>1, <3>2 DEF SubmitMatch
  <2>8. CASE SubmitCheckRun(c)
    <3>1. PICK r \in cmd[c].todo : SubmitCheckRun(c)!(r)
      BY <2>8 DEF SubmitCheckRun
    <3>2. CASE LiveJobs(r) # {}
      <4>1. \E j \in Nat : stable' = [stable EXCEPT ![r] = j]
        BY <3>1, <3>2 DEF LiveJobs, Existing, Live
      <4> QED  BY <3>1, <3>2, <4>1, ExitType
    <3>3. CASE LiveJobs(r) = {}
      <4>1. cmd[c].todo \ {r} \in SUBSET DOMAIN cmd[c].rows
        OBVIOUS
      <4>2. [cmd EXCEPT ![c].todo = cmd[c].todo \ {r}] \in [Clients -> Command]
        BY <4>1, <1>t, Zenon
      <4>3. stable' = [stable EXCEPT ![r] = 0] /\ cmd' = [cmd EXCEPT ![c].todo = cmd[c].todo \ {r}]
        BY <3>1, <3>3
      <4>4. stable' \in [Runs -> Nat]
        BY <4>3
      <4>5. pc' \in [Clients -> Labels]
        BY <3>1, <3>3 DEF Labels
      <4> QED  BY <3>1, <3>3, <4>2, <4>3, <4>4, <4>5
    <3> QED  BY <3>2, <3>3
  <2>9. CASE SubmitBatch(c)
    <3>1. [spec |-> cmd[c].rows, jobs |-> {}, sealed |-> FALSE, exists |-> TRUE] \in BatchFile
      BY DEF Command, BatchFile
    <3>2. batch' \in Seq(BatchFile)
      BY <2>9, <3>1 DEF SubmitBatch
    <3>3. [cmd EXCEPT ![c].todo = DOMAIN cmd[c].rows, ![c].batch = Len(batch) + 1] \in [Clients -> Command]
      <4>1. Len(batch) + 1 \in Nat
        OBVIOUS
      <4> QED  BY <4>1, <1>t, Zenon
    <3> QED  BY <2>9, <3>2, <3>3 DEF SubmitBatch, Labels
  <2>10. CASE SubmitClaim(c)
    <3>1. PICK r \in cmd[c].todo : SubmitClaim(c)!(r)
      BY <2>10 DEF SubmitClaim
    <3>2. job' \in Seq(JobFile) /\ stable' \in [Runs -> Nat]
      BY <3>1, ClaimType
    <3>3. [cmd EXCEPT ![c].found = Len(job) + 1, ![c].todo = cmd[c].todo \ {r}] \in [Clients -> Command]
      <4>1. Len(job) + 1 \in Nat /\ cmd[c].todo \ {r} \in SUBSET DOMAIN cmd[c].rows
        OBVIOUS
      <4> QED  BY <4>1, <1>t, Zenon
    <3> QED  BY <3>1, <3>2, <3>3 DEF Labels
  <2>11. CASE SubmitPublish(c)
    BY <2>11 DEF SubmitPublish, Labels
  <2>12. CASE SubmitSeal(c)
    <3> DEFINE J == {j \in Jobs : job[j].batch = cmd[c].batch}
    <3>1. J \in SUBSET Nat
      BY DEF Jobs
    <3>2. [batch EXCEPT ![cmd[c].batch].jobs = J, ![cmd[c].batch].sealed = TRUE] \in Seq(BatchFile)
      BY <3>1, BatchExcept, Zenon
    <3> QED  BY <2>12, <3>2, ExitType DEF SubmitSeal
  <2> QED  BY <2>1, <2>2, <2>3, <2>4, <2>5, <2>6, <2>7, <2>8, <2>9, <2>10, <2>11, <2>12 DEF SubmitStep
<1>b. ASSUME NEW c \in Clients, UNCHANGED <<done, service, crashes>>,
             EnqueueStart(c) \/ SubmitStart(c) \/ NewBatch(c) \/ SealBatch(c)
      PROVE  TypeOK'
  <2> USE <1>b, <1>c, <1>n
  <2>1. ASSUME NEW label \in Labels, NEW command \in Command, Begin(c, label, command)
        PROVE  TypeOK'
    BY <2>1 DEF Begin
  <2>2. CASE EnqueueStart(c)
    <3>1. PICK r \in Runs, p \in Payloads, b \in Batches :
            Begin(c, "e_stable", [NoCommand EXCEPT !.rows = [q \in {r} |-> p],
                                                   !.todo = {r}, !.batch = b])
      BY <2>2 DEF EnqueueStart
    <3>2. [q \in {r} |-> p] \in Rows
      <4>1. {r} \in SUBSET Runs /\ [q \in {r} |-> p] \in [{r} -> Payloads]
        OBVIOUS
      <4> QED  BY <4>1 DEF Rows
    <3>3. [NoCommand EXCEPT !.rows = [q \in {r} |-> p], !.todo = {r}, !.batch = b] \in Command
      <4>1. [q \in {r} |-> p] \in Rows /\ {r} \subseteq DOMAIN [q \in {r} |-> p] /\ {r} \subseteq Runs
        BY <3>2
      <4>2. b \in Nat
        BY DEF Batches
      <4> HIDE DEF Rows
      <4> QED  BY <4>1, <4>2 DEF NoCommand, Command
    <3> QED  BY <3>1, <3>3, <2>1 DEF Labels
  <2>3. CASE SubmitStart(c)
    <3>1. PICK s \in Specs, find \in BOOLEAN :
            Begin(c, "s_lock", [NoCommand EXCEPT !.rows = s, !.todo = DOMAIN s, !.find = find])
      BY <2>3 DEF SubmitStart
    <3>2. s \in Rows /\ DOMAIN s \subseteq Runs
      BY SpecsAssumption DEF Rows
    <3>3. [NoCommand EXCEPT !.rows = s, !.todo = DOMAIN s, !.find = find] \in Command
      BY <3>2 DEF NoCommand, Command
    <3> QED  BY <3>1, <3>3, <2>1 DEF Labels
  <2>4. CASE NewBatch(c)
    <3>1. [spec |-> NoSpec, jobs |-> {}, sealed |-> FALSE, exists |-> TRUE] \in BatchFile
      BY DEF BatchFile
    <3>2. batch' \in Seq(BatchFile)
      BY <2>4, <3>1 DEF NewBatch
    <3> QED  BY <2>4, <3>2 DEF NewBatch
  <2>5. CASE SealBatch(c)
    <3>1. PICK b : batch' = [batch EXCEPT ![b].sealed = TRUE]
      BY <2>5 DEF SealBatch
    <3>2. batch' \in Seq(BatchFile)
      BY <3>1, BatchExcept, Zenon
    <3> QED  BY <2>5, <3>2 DEF SealBatch
  <2> QED  BY <2>2, <2>3, <2>4, <2>5
<1>k. ASSUME NEW c \in Clients, ClientCrash(c)  PROVE  TypeOK'
  BY <1>k, ExitType DEF ClientCrash
<1>d. CASE DaemonStep
  <2> USE <1>d DEF DaemonStep
  <2>1. Daemon \in Processes
    BY DEF Processes
  <2>2. CASE Dispatch
    BY <2>2 DEF Dispatch, Dispatchable
  <2>3. CASE Collect
    <3>1. held' \in [Processes -> SUBSET Locks]
      BY <2>1, <2>3, TakeType, LockTypes DEF Collect
    <3> QED  BY <2>3, <3>1 DEF Collect
  <2>4. CASE DaemonStart
    <3>1. held' \in [Processes -> SUBSET Locks]
      BY <2>1, <2>4, TakeType, LockTypes DEF DaemonStart
    <3> QED  BY <2>4, <3>1 DEF DaemonStart
  <2>5. CASE FailDispatched
    BY <2>5 DEF FailDispatched
  <2>6. CASE Unlink
    BY <2>1, <2>6 DEF Unlink
  <2>7. CASE DaemonReady
    BY <2>1, <2>7 DEF DaemonReady
  <2> QED  BY <2>2, <2>3, <2>4, <2>5, <2>6, <2>7
<1>x. CASE DaemonCrash
  BY <1>x DEF DaemonCrash, Processes
<1> QED
  BY <1>u, <1>e, <1>s, <1>b, <1>k, <1>d, <1>x DEF Next, ClientStart, ClientStep

(* The files and the local variables of the commands are well-typed in     *)
(* every reachable state.                                                   *)
THEOREM TypeCorrect == Spec => []TypeOK
<1>1. Init => TypeOK
  BY TypeInit
<1>2. TypeOK /\ [Next]_vars => TypeOK'
  BY TypeStep
<1> QED  BY <1>1, <1>2, PTL DEF Spec

-----------------------------------------------------------------------------
(* The guarantee of a client's step: the only index entries it writes are   *)
(* of runs it has locked and that have no live job, and the only job it     *)
(* publishes is the one the index names for such a run.                     *)
JobsKept ==
  /\ Len(job) <= Len(job') /\ \A j \in 1..Len(job) : job'[j] = job[j]
  /\ \A j \in 1..Len(job') : j > Len(job) =>
       /\ job'[j].batch \in 1..Len(batch)
       /\ Atomic(job'[j].batch) => job'[j].run \in DOMAIN batch[job'[j].batch].spec

BatchesKept ==
  /\ Len(batch) <= Len(batch')
  /\ \A b \in 1..Len(batch) :
       batch'[b].spec = batch[b].spec /\ (batch[b].sealed => batch'[b].sealed)

IndexKept(c) ==
  \A r \in Runs : stable'[r] # stable[r] =>
    /\ r \in LockedRuns(c)
    /\ \A j \in Live : job[j].run # r
    /\ stable'[r] \in 0..Len(job')
    /\ stable'[r] # 0 => job'[stable'[r]].run = r

PendingKept(c) ==
  \A j \in pending' \ pending :
    /\ j \in Jobs /\ job[j].run \in LockedRuns(c)
    /\ stable[job[j].run] = j /\ stable' = stable

OthersKept(c) ==
  /\ \A d \in Clients \ {c} : pc'[d] = pc[d] /\ cmd'[d] = cmd[d]
  /\ \A p \in Processes \ {c} : held'[p] = held[p]

StepOf(c) ==
  /\ OthersKept(c) /\ JobsKept /\ BatchesKept /\ IndexKept(c) /\ PendingKept(c)
  /\ UNCHANGED <<dispatched, completed, failed>>

(* Two clients never hold the lock of one run. *)
LEMMA LockedRunsDisjoint ==
  ASSUME TypeOK, Mutex, NEW c \in Clients, NEW d \in Clients, c # d,
         RunLocksHeld(c), RunLocksHeld(d)
  PROVE  LockedRuns(c) \cap LockedRuns(d) = {}
<1>1. c \in Processes /\ d \in Processes
  BY DEF Processes
<1>2. ASSUME NEW r \in LockedRuns(c) \cap LockedRuns(d) PROVE FALSE
  BY <1>1, <1>2 DEF Mutex, RunLocksHeld
<1> QED  BY <1>2

(* A client locks names of runs. *)
LEMMA LockedRunsType ==
  ASSUME TypeOK, NEW c \in Clients
  PROVE  LockedRuns(c) \subseteq Runs
<1>1. cmd[c] \in Command
  BY DEF TypeOK
<1> QED  BY <1>1, RowsType DEF LockedRuns, Command

(* It knows an index entry to be absent only under the lock of its run. *)
LEMMA UnindexedLocked ==
  ASSUME TypeOK, NEW c \in Clients
  PROVE  Unindexed(c) \subseteq LockedRuns(c)
<1>1. cmd[c] \in Command
  BY DEF TypeOK
<1> QED  BY <1>1 DEF LockedRuns, Unindexed, HoldsRun, HoldsRuns, Command

(* What a client knows is not disturbed by a step of another client. *)
LEMMA Rely ==
  ASSUME IInv, NEW c \in Clients, NEW d \in Clients, c # d, StepOf(c)
  PROVE  ClientInv(d)'
<1> USE DEF IInv
<1>1. /\ pc'[d] = pc[d] /\ cmd'[d] = cmd[d] /\ held'[d] = held[d]
  BY DEF StepOf, OthersKept, Processes
<1>2. LockedRuns(d)' = LockedRuns(d) /\ Unindexed(d)' = Unindexed(d)
  BY <1>1 DEF LockedRuns, Unindexed
<1>3. RunLocksHeld(d)'
  BY <1>1, <1>2 DEF ClientInv, RunLocksHeld, StableLock
<1>4. CommandOK(d)'
  <2>1. cmd[d] \in Command /\ Len(job) \in Nat /\ Len(batch) \in Nat /\ Len(job') >= Len(job) /\ Len(batch') >= Len(batch)
    BY DEF TypeOK, StepOf, JobsKept, BatchesKept
  <2>2. CommandOK(d)
    BY DEF ClientInv
  <2>3. cmd[d].batch # 0 =>
          /\ batch'[cmd[d].batch].spec = batch[cmd[d].batch].spec
          /\ batch[cmd[d].batch].sealed => batch'[cmd[d].batch].sealed
    BY <2>1, <2>2 DEF CommandOK, StepOf, BatchesKept
  <2> HIDE DEF IInv
  <2> QED  BY <1>1, <2>1, <2>2, <2>3 DEF CommandOK, Atomic
<1>5. IndexKnown(d)'
  <2>1. ASSUME NEW r \in LockedRuns(d)  PROVE  stable'[r] = stable[r]
    BY <2>1, LockedRunsDisjoint, LockedRunsType DEF ClientInv, StepOf, IndexKept
  <2>2. \A r \in Unindexed(d)' : stable'[r] = 0
    BY <1>2, <2>1, UnindexedLocked DEF ClientInv, IndexKnown
  <2>3. ASSUME pc[d] = "e_dispatched"
        PROVE  cmd[d].found \notin pending' /\ \A r \in cmd[d].todo : stable'[r] = cmd[d].found
    <3>1. LockedRuns(d) = cmd[d].todo
      BY <2>3 DEF LockedRuns, HoldsRun
    <3>2. cmd[d].found \notin pending /\ cmd[d].found # 0 /\ \A r \in cmd[d].todo : stable[r] = cmd[d].found
      BY <2>3 DEF ClientInv, IndexKnown
    <3>3. ASSUME cmd[d].found \in pending' \ pending  PROVE  FALSE
      <4>1. /\ cmd[d].found \in Jobs /\ job[cmd[d].found].run \in LockedRuns(c)
            /\ stable[job[cmd[d].found].run] = cmd[d].found
        BY <3>3 DEF StepOf, PendingKept
      <4>2. PICK r \in Runs : r = job[cmd[d].found].run
        BY <4>1, LockedRunsType
      <4>3. r \in LockedRuns(d)
        BY <3>1, <3>2, <4>2, <2>3, LockedRunsType DEF StoreInv, JobsOfBatches, ClientInv, CommandOK, HoldsRun
      <4> QED  BY <4>1, <4>2, <4>3, LockedRunsDisjoint DEF ClientInv
    <3> QED  BY <2>1, <3>1, <3>2, <3>3
  <2>4. ASSUME pc[d] \in {"e_publish", "s_publish"}
        PROVE  /\ job'[cmd[d].found].run \in LockedRuns(d)
               /\ stable'[job'[cmd[d].found].run] = cmd[d].found
    <3>1. /\ cmd[d].found \in 1..Len(job)
          /\ job[cmd[d].found].run \in LockedRuns(d)
          /\ stable[job[cmd[d].found].run] = cmd[d].found
      BY <2>4 DEF ClientInv, IndexKnown, CommandOK, TypeOK
    <3>2. job'[cmd[d].found] = job[cmd[d].found]
      BY <3>1 DEF StepOf, JobsKept
    <3> QED  BY <2>1, <3>1, <3>2
  <2> QED  BY <1>1, <1>2, <2>2, <2>3, <2>4 DEF ClientInv, IndexKnown
<1> QED  BY <1>3, <1>4, <1>5 DEF ClientInv

(* The guarantee keeps the invariant of the files. *)
LEMMA StoreStep ==
  ASSUME IInv, TypeOK', NEW c \in Clients, StepOf(c)
  PROVE  StoreInv'
<1> USE DEF IInv, StepOf, StoreInv
<1>1. /\ Len(job) \in Nat /\ Len(job') \in Nat /\ Len(batch) \in Nat /\ Len(batch') \in Nat
      /\ Len(job) <= Len(job') /\ Len(batch) <= Len(batch')
  BY DEF TypeOK, JobsKept, BatchesKept
<1>2. NoDanglingId'
  <2>1. \A j \in Jobs' : job'[j].batch \in 1..Len(batch')
    BY <1>1 DEF JobsKept, NoDanglingId, Jobs
  <2>2. (Live \cup Finished)' \subseteq Jobs'
    BY <1>1 DEF PendingKept, NoDanglingId, Jobs, Live, Finished
  <2>3. \A r \in Runs : stable'[r] \in 0..Len(job')
    BY <1>1 DEF IndexKept, NoDanglingId
  <2> QED  BY <2>1, <2>2, <2>3 DEF NoDanglingId
<1>3. JobsOfBatches'
  <2>1. ASSUME NEW j \in Jobs', Atomic(job[j].batch)'
        PROVE  job'[j].run \in DOMAIN batch'[job'[j].batch].spec
    <3>1. CASE j \in Jobs
      BY <1>1, <2>1, <3>1 DEF JobsKept, BatchesKept, NoDanglingId, JobsOfBatches, Jobs, Atomic
    <3>2. CASE j \notin Jobs
      BY <1>1, <2>1, <3>2 DEF JobsKept, BatchesKept, Jobs, Atomic
    <3> QED  BY <3>1, <3>2
  <2>2. ASSUME NEW j \in dispatched \cup Finished, Atomic(job[j].batch)'
        PROVE  batch'[job'[j].batch].sealed
    <3>1. j \in 1..Len(job) /\ job[j].batch \in 1..Len(batch)
      BY DEF NoDanglingId, Jobs, Live
    <3> QED
      BY <3>1, <2>2 DEF JobsKept, BatchesKept, JobsOfBatches, Atomic
  <2>3. ASSUME NEW r \in Runs, stable'[r] # 0  PROVE  job'[stable'[r]].run = r
    <3>1. CASE stable'[r] = stable[r]
      BY <1>1, <2>3, <3>1 DEF JobsKept, NoDanglingId, JobsOfBatches
    <3>2. CASE stable'[r] # stable[r]
      BY <2>3, <3>2 DEF IndexKept
    <3> QED  BY <3>1, <3>2
  <2> QED  BY <2>1, <2>2, <2>3 DEF JobsOfBatches, Finished
<1>4. IndexNamesLiveJob'
  <2> SUFFICES ASSUME NEW j \in Live'  PROVE  stable'[job'[j].run] = j
    BY DEF IndexNamesLiveJob
  <2>1. j \in Jobs /\ stable[job[j].run] = j
    BY DEF Live, PendingKept, IndexNamesLiveJob, NoDanglingId
  <2>2. job'[j] = job[j] /\ job[j].run \in Runs
    <3>1. job[j] \in JobFile
      BY <2>1, ElementOfSeq DEF TypeOK, Jobs
    <3> QED  BY <2>1, <3>1 DEF JobsKept, Jobs, JobFile
  <2>3. CASE j \in Live
    BY <2>1, <2>2, <2>3 DEF IndexKept
  <2>4. CASE j \notin Live
    BY <2>1, <2>2, <2>4 DEF PendingKept, Live
  <2> QED  BY <2>3, <2>4
<1> QED  BY <1>2, <1>3, <1>4

(* A step that writes no file. *)
LEMMA QuietStep ==
  ASSUME TypeOK, NEW c \in Clients, OthersKept(c),
         UNCHANGED <<job, batch, pending, stable, dispatched, completed, failed>>
  PROVE  StepOf(c)
<1>1. Len(job) \in Nat /\ Len(batch) \in Nat
  BY DEF TypeOK
<1> QED  BY <1>1 DEF StepOf, JobsKept, BatchesKept, IndexKept, PendingKept

(* A command that returns leaves no lock and no claim behind. *)
LEMMA ExitInv ==
  ASSUME TypeOK, TypeOK', NEW c \in Clients, Exit(c)
  PROVE  OthersKept(c) /\ ClientInv(c)'
<1>1. pc'[c] = "idle" /\ cmd'[c] = NoCommand
  BY DEF Exit, Goto, TypeOK
<1>2. OthersKept(c)
  BY DEF Exit, Goto, TypeOK, OthersKept
<1>3. Len(job') \in Nat /\ Len(batch') \in Nat
  BY DEF TypeOK
<1>4. LockedRuns(c)' = {} /\ Unindexed(c)' = {}
  BY <1>1 DEF LockedRuns, Unindexed, HoldsRun, HoldsRuns
<1> QED
  BY <1>1, <1>2, <1>3, <1>4 DEF ClientInv, RunLocksHeld, CommandOK, IndexKnown, NoCommand, HoldsRun, HoldsRuns

(* A write of a batch file that keeps its specification and its seal. *)
LEMMA BatchWrite ==
  ASSUME TypeOK, NEW b, NEW J
  PROVE  /\ batch' = [batch EXCEPT ![b].jobs = J] => BatchesKept
         /\ batch' = [batch EXCEPT ![b].sealed = TRUE] => BatchesKept
         /\ batch' = [batch EXCEPT ![b].exists = FALSE] => BatchesKept
         /\ batch' = [batch EXCEPT ![b].jobs = J, ![b].sealed = TRUE] => BatchesKept
<1>1. batch \in [1..Len(batch) -> BatchFile] /\ Len(batch) \in Nat
  BY LenProperties DEF TypeOK
<1>2. ASSUME NEW e, batch' = [batch EXCEPT ![b] = e],
             b \in 1..Len(batch) => e.spec = batch[b].spec /\ (batch[b].sealed => e.sealed)
      PROVE  BatchesKept
  <2>1. DOMAIN batch' = 1..Len(batch) /\ \A i \in 1..Len(batch) : batch'[i] = IF i = b THEN e ELSE batch[i]
    BY <1>1, <1>2
  <2>2. Len(batch') = Len(batch)
    BY <1>1, <2>1, SeqExcept, <1>2 DEF TypeOK
  <2> QED  BY <1>1, <1>2, <2>1, <2>2 DEF BatchesKept
<1> DEFINE e == [batch[b] EXCEPT !.jobs = J]
           f == [batch[b] EXCEPT !.sealed = TRUE]
           g == [batch[b] EXCEPT !.exists = FALSE]
           h == [batch[b] EXCEPT !.jobs = J, !.sealed = TRUE]
<1>3. /\ [batch EXCEPT ![b].jobs = J] = [batch EXCEPT ![b] = e]
      /\ [batch EXCEPT ![b].sealed = TRUE] = [batch EXCEPT ![b] = f]
      /\ [batch EXCEPT ![b].exists = FALSE] = [batch EXCEPT ![b] = g]
      /\ [batch EXCEPT ![b].jobs = J, ![b].sealed = TRUE] = [batch EXCEPT ![b] = h]
  OBVIOUS
<1>4. b \in 1..Len(batch) =>
        /\ e.spec = batch[b].spec /\ (batch[b].sealed => e.sealed)
        /\ f.spec = batch[b].spec /\ f.sealed
        /\ g.spec = batch[b].spec /\ (batch[b].sealed => g.sealed)
        /\ h.spec = batch[b].spec /\ h.sealed
  BY <1>1 DEF BatchFile
<1> HIDE DEF e, f, g, h
<1> QED  BY <1>2, <1>3, <1>4

(* The unlink of a batch file keeps the ids of the others. *)
LEMMA BatchLength ==
  ASSUME TypeOK, NEW b, batch' = [batch EXCEPT ![b].exists = FALSE]
  PROVE  Len(batch') = Len(batch)
<1> DEFINE e == [batch[b] EXCEPT !.exists = FALSE]
<1>1. batch' = [batch EXCEPT ![b] = e]
  OBVIOUS
<1>2. ASSUME b \in DOMAIN batch  PROVE  e \in BatchFile
  <2>1. batch[b] \in BatchFile
    BY <1>2, LenProperties DEF TypeOK
  <2> QED  BY <2>1 DEF BatchFile
<1> HIDE DEF e
<1> QED  BY <1>1, <1>2, SeqExcept DEF TypeOK

(* Every step of enqueue-run. *)
LEMMA EnqueueInv ==
  ASSUME IInv, TypeOK', NEW c \in Clients, EnqueueStep(c), UNCHANGED <<done, service, crashes>>
  PROVE  StepOf(c) /\ ClientInv(c)'
<1> USE DEF At, Goto
<1>1. /\ c \in Processes /\ cmd[c] \in Command /\ cmd[c].todo \subseteq Runs
      /\ Len(job) \in Nat /\ Len(batch) \in Nat /\ Len(job') \in Nat /\ Len(batch') \in Nat
  BY DEF IInv, TypeOK, Processes, Command
<1>2. ClientInv(c) /\ TypeOK
  BY DEF IInv
<1>3. UNCHANGED <<dispatched, completed, failed>>
  BY DEF done
<1>4. CASE EnqueueLockRun(c)
  <2>1. PICK r \in cmd[c].todo : held' = [held EXCEPT ![c] = @ \cup {StableLock(r)}]
    BY <1>4 DEF EnqueueLockRun, Take
  <2>2. pc[c] = "e_stable" /\ pc'[c] = "e_batch" /\ cmd' = cmd
    BY <1>4, <1>2 DEF EnqueueLockRun, TypeOK
  <2>3. OthersKept(c)
    BY <1>4, <2>1, <1>2 DEF EnqueueLockRun, OthersKept, TypeOK
  <2>4. StepOf(c)
    BY <1>4, <1>2, <1>3, <2>3, QuietStep DEF EnqueueLockRun
  <2>5. RunLocksHeld(c)'
    <3>1. LockedRuns(c)' = cmd[c].todo
      BY <2>2 DEF LockedRuns, HoldsRun
    <3>2. cmd[c].todo = {r}
      BY <1>2, <2>2 DEF ClientInv, CommandOK
    <3>3. StableLock(r) \in held'[c]
      BY <1>1, <1>2, <2>1 DEF TypeOK
    <3> QED  BY <3>1, <3>2, <3>3 DEF RunLocksHeld, StableLock
  <2>6. CommandOK(c)'
    BY <1>4, <1>2, <2>2 DEF EnqueueLockRun, ClientInv, CommandOK, HoldsRun, HoldsRuns, Atomic
  <2>7. IndexKnown(c)'
    BY <2>2 DEF IndexKnown, Unindexed
  <2> QED  BY <2>4, <2>5, <2>6, <2>7 DEF ClientInv
<1>5. CASE EnqueueLockBatch(c)
  <2>1. CASE Exit(c)
    BY <1>2, <1>3, <1>5, <2>1, ExitInv, QuietStep DEF EnqueueLockBatch
  <2>2. CASE Take(c, BatchLock(cmd[c].batch)) /\ ~batch[cmd[c].batch].sealed /\ Goto(c, "e_index") /\ UNCHANGED cmd
    <3>1. /\ pc[c] = "e_batch" /\ pc'[c] = "e_index" /\ cmd' = cmd
          /\ UNCHANGED <<job, batch, pending, stable>>
      BY <1>2, <1>5, <2>2 DEF EnqueueLockBatch, TypeOK
    <3>2. OthersKept(c) /\ held[c] \subseteq held'[c]
      BY <1>1, <1>2, <2>2 DEF Take, OthersKept, TypeOK
    <3>3. LockedRuns(c)' = LockedRuns(c) /\ Unindexed(c)' = {}
      BY <3>1 DEF LockedRuns, Unindexed, HoldsRun
    <3>4. RunLocksHeld(c)'
      BY <1>2, <3>2, <3>3 DEF ClientInv, RunLocksHeld, StableLock
    <3>5. CommandOK(c)'
      BY <1>2, <2>2, <3>1 DEF ClientInv, CommandOK, HoldsRun, HoldsRuns, Atomic
    <3>6. IndexKnown(c)'
      BY <3>1, <3>3 DEF IndexKnown
    <3> QED  BY <1>2, <1>3, <3>1, <3>2, <3>4, <3>5, <3>6, QuietStep DEF ClientInv
  <2> QED  BY <1>5, <2>1, <2>2 DEF EnqueueLockBatch
<1>6. CASE LookPending(c)
  <2>1. PICK r \in cmd[c].todo : LookPending(c)!(r)
    BY <1>6 DEF LookPending
  <2>2. /\ pc[c] = "e_index" /\ pc'[c] \in {"e_scan_pending", "e_attach", "e_dispatched"}
        /\ cmd'[c].todo = cmd[c].todo /\ cmd'[c].rows = cmd[c].rows /\ cmd'[c].batch = cmd[c].batch
        /\ cmd'[c].found \in {cmd[c].found, stable[r]}
        /\ UNCHANGED <<job, batch, pending, stable, held>>
    BY <1>1, <1>2, <2>1 DEF TypeOK, Command
  <2>3. OthersKept(c)
    BY <1>2, <2>1 DEF OthersKept, TypeOK
  <2>4. cmd[c].todo = {r} /\ r \in Runs
    BY <1>1, <1>2, <2>2 DEF ClientInv, CommandOK, HoldsRun
  <2>5. LockedRuns(c)' = LockedRuns(c)
    BY <2>2 DEF LockedRuns, HoldsRun
  <2>6. RunLocksHeld(c)'
    BY <1>2, <2>2, <2>5 DEF ClientInv, RunLocksHeld, StableLock
  <2>7. CommandOK(c)'
    BY <1>2, <2>2, <2>4 DEF IInv, StoreInv, NoDanglingId, ClientInv, CommandOK, HoldsRun, HoldsRuns, Atomic
  <2>8. IndexKnown(c)'
    <3>1. CASE stable[r] = 0
      BY <1>2, <2>1, <2>2, <2>4, <3>1 DEF IndexKnown, Unindexed, TypeOK
    <3>2. CASE stable[r] # 0
      BY <1>1, <1>2, <2>1, <2>2, <2>4, <3>2 DEF IndexKnown, Unindexed, TypeOK, Command
    <3> QED  BY <3>1, <3>2
  <2> QED  BY <1>2, <1>3, <2>2, <2>3, <2>6, <2>7, <2>8, QuietStep DEF ClientInv
<1>7. CASE LookDispatched(c)
  <2>1. PICK r \in cmd[c].todo : LookDispatched(c)!(r)
    BY <1>7 DEF LookDispatched
  <2>2. /\ pc[c] = "e_dispatched" /\ pc'[c] \in {"e_scan_pending", "e_attach"}
        /\ cmd' = cmd /\ UNCHANGED <<job, batch, pending, held>>
    BY <1>1, <1>2, <2>1 DEF TypeOK
  <2>3. OthersKept(c)
    BY <1>2, <2>1 DEF OthersKept, TypeOK
  <2>4. cmd[c].todo = {r} /\ r \in Runs /\ LockedRuns(c) = {r}
    BY <1>1, <1>2, <2>2 DEF ClientInv, CommandOK, HoldsRun, LockedRuns
  <2>5. LockedRuns(c)' = LockedRuns(c)
    BY <2>2 DEF LockedRuns, HoldsRun
  <2>6. RunLocksHeld(c)'
    BY <1>2, <2>2, <2>5 DEF ClientInv, RunLocksHeld, StableLock
  <2>7. CommandOK(c)'
    BY <1>2, <2>2 DEF ClientInv, CommandOK, HoldsRun, HoldsRuns, Atomic
  <2>8. IndexKnown(c)'
    BY <1>2, <2>1, <2>2, <2>4 DEF IndexKnown, Unindexed, TypeOK
  <2>9. stable[r] = cmd[c].found /\ cmd[c].found \notin pending
    BY <1>2, <2>2, <2>4 DEF ClientInv, IndexKnown
  <2>10. IndexKept(c)
    <3>1. ASSUME cmd[c].found \notin dispatched
          PROVE  \A j \in Live : job[j].run # r
      BY <2>9, <3>1 DEF IInv, StoreInv, IndexNamesLiveJob, Live
    <3> QED  BY <1>1, <1>2, <2>1, <2>2, <2>4, <3>1 DEF IndexKept, TypeOK
  <2>11. StepOf(c)
    BY <1>1, <1>3, <2>2, <2>3, <2>10 DEF StepOf, JobsKept, BatchesKept, PendingKept
  <2> QED  BY <2>6, <2>7, <2>8, <2>11 DEF ClientInv
<1>8. CASE ScanPending(c) \/ ScanDispatched(c)
  <2>1. PICK S \in SUBSET Live, r \in cmd[c].todo :
          \/ /\ Existing(S, r) = {} /\ UNCHANGED <<stable, cmd>>
             /\ \/ pc[c] = "e_scan_pending" /\ Goto(c, "e_scan_dispatched")
                \/ pc[c] = "e_scan_dispatched" /\ Goto(c, "e_claim")
          \/ \E j \in Existing(S, r) :
               /\ pc[c] \in {"e_scan_pending", "e_scan_dispatched"} /\ Goto(c, "e_attach")
               /\ stable' = [stable EXCEPT ![r] = j]
               /\ cmd' = [cmd EXCEPT ![c].found = j]
    BY <1>8 DEF ScanPending, ScanDispatched, Scan, Live
  <2>2. UNCHANGED <<job, batch, pending, held>>
    BY <1>8 DEF ScanPending, ScanDispatched
  <2>3. pc[c] \in {"e_scan_pending", "e_scan_dispatched"}
    BY <2>1
  <2>4. cmd[c].todo = {r} /\ r \in Runs /\ LockedRuns(c) = {r} /\ stable[r] = 0
    BY <1>1, <1>2, <2>3 DEF ClientInv, CommandOK, IndexKnown, HoldsRun, LockedRuns, Unindexed
  <2>5. Existing(S, r) = {}
    BY <2>4 DEF Existing, IInv, StoreInv, IndexNamesLiveJob, NoDanglingId, Jobs
  <2>6. /\ UNCHANGED <<stable, cmd>> /\ OthersKept(c)
        /\ pc'[c] \in {"e_scan_dispatched", "e_claim"}
    BY <1>2, <2>1, <2>2, <2>5 DEF OthersKept, TypeOK
  <2>7. LockedRuns(c)' = LockedRuns(c)
    BY <2>3, <2>6 DEF LockedRuns, HoldsRun
  <2>8. RunLocksHeld(c)'
    BY <1>2, <2>2, <2>7 DEF ClientInv, RunLocksHeld, StableLock
  <2>9. CommandOK(c)'
    BY <1>2, <2>2, <2>3, <2>6 DEF ClientInv, CommandOK, HoldsRun, HoldsRuns, Atomic
  <2>10. IndexKnown(c)'
    BY <2>4, <2>6 DEF IndexKnown, Unindexed
  <2> QED  BY <1>2, <1>3, <2>2, <2>6, <2>8, <2>9, <2>10, QuietStep DEF ClientInv
<1>9. CASE EnqueueAttach(c) \/ EnqueueRecord(c)
  <2>1. Exit(c) /\ UNCHANGED <<job, pending, stable>>
    BY <1>9 DEF EnqueueAttach, EnqueueRecord
  <2>2. \/ batch' = batch
        \/ batch' = [batch EXCEPT ![cmd[c].batch].jobs = @ \cup {cmd[c].found}]
    BY <1>9 DEF EnqueueAttach, EnqueueRecord
  <2>3. BatchesKept
    <3>1. CASE batch' = batch
      BY <1>1, <3>1 DEF BatchesKept
    <3>2. CASE batch' = [batch EXCEPT ![cmd[c].batch].jobs = @ \cup {cmd[c].found}]
      BY <1>2, <3>2, BatchWrite
    <3> QED  BY <2>2, <3>1, <3>2
  <2>4. OthersKept(c) /\ ClientInv(c)'
    BY <1>2, <2>1, ExitInv
  <2> QED
    BY <1>1, <1>3, <2>1, <2>3, <2>4 DEF StepOf, JobsKept, IndexKept, PendingKept
<1>10. CASE EnqueueClaim(c)
  <2>1. PICK r \in cmd[c].todo : Claim(c, r)
    BY <1>10 DEF EnqueueClaim
  <2>2. /\ pc[c] = "e_claim" /\ pc'[c] = "e_publish"
        /\ UNCHANGED <<batch, pending, held>> /\ OthersKept(c)
        /\ cmd'[c].todo = cmd[c].todo /\ cmd'[c].rows = cmd[c].rows /\ cmd'[c].batch = cmd[c].batch
        /\ cmd'[c].found = Len(job) + 1
    BY <1>1, <1>2, <1>10 DEF EnqueueClaim, OthersKept, TypeOK, Command
  <2>3. cmd[c].todo = {r} /\ r \in Runs /\ LockedRuns(c) = {r} /\ stable[r] = 0
    BY <1>1, <1>2, <2>2 DEF ClientInv, CommandOK, IndexKnown, HoldsRun, LockedRuns, Unindexed
  <2>4. cmd[c].batch \in 1..Len(batch) /\ ~Atomic(cmd[c].batch)
    BY <1>1, <1>2, <2>2 DEF ClientInv, CommandOK, HoldsRun
  <2>5. /\ Len(job') = Len(job) + 1
        /\ \A j \in 1..Len(job) : job'[j] = job[j]
        /\ job'[Len(job) + 1].run = r /\ job'[Len(job) + 1].batch = cmd[c].batch
        /\ stable' = [stable EXCEPT ![r] = Len(job) + 1]
    BY <1>1, <1>2, <2>1, ClaimType DEF Claim, TypeOK
  <2>6. \A j \in Live : job[j].run # r
    BY <2>3 DEF IInv, StoreInv, IndexNamesLiveJob, NoDanglingId, Jobs
  <2>7. JobsKept /\ IndexKept(c)
    BY <1>1, <1>2, <2>3, <2>4, <2>5, <2>6 DEF JobsKept, IndexKept, TypeOK
  <2>8. StepOf(c)
    BY <1>1, <1>3, <2>2, <2>7 DEF StepOf, BatchesKept, PendingKept
  <2>9. LockedRuns(c)' = LockedRuns(c) /\ Unindexed(c)' = {}
    BY <2>2 DEF LockedRuns, Unindexed, HoldsRun
  <2>10. RunLocksHeld(c)'
    BY <1>2, <2>2, <2>9 DEF ClientInv, RunLocksHeld, StableLock
  <2>11. CommandOK(c)'
    BY <1>1, <1>2, <2>2, <2>3, <2>4, <2>5 DEF CommandOK, HoldsRun, HoldsRuns, Atomic
  <2>12. IndexKnown(c)'
    BY <1>1, <1>2, <2>2, <2>3, <2>5, <2>9 DEF IndexKnown, TypeOK
  <2> QED  BY <2>8, <2>10, <2>11, <2>12 DEF ClientInv
<1>11. CASE EnqueuePublish(c)
  <2>1. /\ pc[c] = "e_publish" /\ pc'[c] = "e_record" /\ cmd' = cmd /\ pending' = pending \cup {cmd[c].found}
        /\ UNCHANGED <<job, batch, stable, held>> /\ OthersKept(c)
    BY <1>2, <1>11 DEF EnqueuePublish, OthersKept, TypeOK
  <2>2. LockedRuns(c)' = LockedRuns(c) /\ Unindexed(c)' = {}
    BY <2>1 DEF LockedRuns, Unindexed, HoldsRun
  <2>3. RunLocksHeld(c)'
    BY <1>2, <2>1, <2>2 DEF ClientInv, RunLocksHeld, StableLock
  <2>4. CommandOK(c)'
    BY <1>2, <2>1 DEF ClientInv, CommandOK, HoldsRun, HoldsRuns, Atomic
  <2>5. IndexKnown(c)'
    BY <1>2, <2>1, <2>2 DEF ClientInv, IndexKnown
  <2>6. PendingKept(c)
    BY <1>1, <1>2, <2>1 DEF ClientInv, IndexKnown, CommandOK, PendingKept, Jobs
  <2> QED
    BY <1>1, <1>3, <2>1, <2>3, <2>4, <2>5, <2>6 DEF ClientInv, StepOf, JobsKept, BatchesKept, IndexKept
<1> QED
  BY <1>4, <1>5, <1>6, <1>7, <1>8, <1>9, <1>10, <1>11 DEF EnqueueStep

(* Every step of submit-batch and find-batch. *)
LEMMA SubmitInv ==
  ASSUME IInv, TypeOK', NEW c \in Clients, SubmitStep(c), UNCHANGED <<done, service, crashes>>
  PROVE  StepOf(c) /\ ClientInv(c)'
<1> USE DEF At, Goto
<1>1. /\ c \in Processes /\ cmd[c] \in Command /\ cmd[c].todo \subseteq Runs
      /\ cmd[c].todo \subseteq DOMAIN cmd[c].rows
      /\ Len(job) \in Nat /\ Len(batch) \in Nat /\ Len(job') \in Nat /\ Len(batch') \in Nat
  BY DEF IInv, TypeOK, Processes, Command
<1>2. ClientInv(c) /\ TypeOK
  BY DEF IInv
<1>3. UNCHANGED <<dispatched, completed, failed>>
  BY DEF done
<1>4. CASE SubmitLock(c)
  <2>1. /\ pc[c] = "s_lock" /\ pc'[c] = "s_runs" /\ cmd' = cmd
        /\ held[c] \subseteq held'[c] /\ OthersKept(c) /\ UNCHANGED <<job, batch, pending, stable>>
    BY <1>1, <1>2, <1>4 DEF SubmitLock, Take, OthersKept, TypeOK
  <2>2. LockedRuns(c)' = {} /\ Unindexed(c)' = {}
    BY <1>2, <2>1 DEF ClientInv, CommandOK, LockedRuns, Unindexed, HoldsRun, HoldsRuns
  <2>3. ClientInv(c)'
    BY <1>2, <2>1, <2>2 DEF ClientInv, RunLocksHeld, CommandOK, IndexKnown, HoldsRun, HoldsRuns, Atomic
  <2> QED  BY <1>2, <1>3, <2>1, <2>3, QuietStep
<1>5. CASE SubmitLockRun(c)
  <2>1. PICK r \in cmd[c].todo : SubmitLockRun(c)!(r)
    BY <1>5 DEF SubmitLockRun
  <2>2. /\ pc[c] = "s_runs" /\ cmd'[c] = [cmd[c] EXCEPT !.todo = @ \ {r}]
        /\ pc'[c] = IF cmd[c].todo # {r} THEN "s_runs"
                    ELSE IF cmd[c].find THEN "s_match" ELSE "s_recover"
        /\ held'[c] = held[c] \cup {StableLock(r)}
        /\ OthersKept(c) /\ UNCHANGED <<job, batch, pending, stable>>
    BY <1>1, <1>2, <2>1 DEF Take, OthersKept, TypeOK
  <2>3. /\ cmd'[c].todo = cmd[c].todo \ {r} /\ cmd'[c].rows = cmd[c].rows
        /\ cmd'[c].batch = cmd[c].batch /\ cmd'[c].found = cmd[c].found
    BY <1>1, <2>2 DEF Command
  <2>4. LockedRuns(c)' \subseteq LockedRuns(c) \cup {r} /\ Unindexed(c)' = {}
    BY <1>1, <2>2, <2>3 DEF LockedRuns, Unindexed, HoldsRun, HoldsRuns
  <2>5. RunLocksHeld(c)'
    BY <1>2, <2>2, <2>4 DEF ClientInv, RunLocksHeld, StableLock
  <2>6. CommandOK(c)'
    BY <1>2, <2>2, <2>3 DEF ClientInv, CommandOK, HoldsRun, HoldsRuns, Atomic
  <2>7. IndexKnown(c)'
    BY <2>2, <2>4 DEF IndexKnown
  <2> QED  BY <1>2, <1>3, <2>2, <2>5, <2>6, <2>7, QuietStep DEF ClientInv
<1>6. ASSUME pc[c] = "s_recover", client' = client, held' = held
      PROVE  /\ OthersKept(c) /\ cmd[c].rows \in Specs /\ LockedRuns(c) = DOMAIN cmd[c].rows
             /\ job' = job /\ Len(batch') = Len(batch) => ClientInv(c)'
  <2>1. pc' = pc /\ cmd' = cmd
    BY <1>6 DEF client
  <2>2. LockedRuns(c)' = LockedRuns(c) /\ Unindexed(c)' = {}
    BY <1>6, <2>1 DEF LockedRuns, Unindexed, HoldsRun, HoldsRuns
  <2>3. RunLocksHeld(c)'
    BY <1>2, <1>6, <2>2 DEF ClientInv, RunLocksHeld, StableLock
  <2>4. job' = job /\ Len(batch') = Len(batch) => CommandOK(c)'
    BY <1>2, <1>6, <2>1 DEF ClientInv, CommandOK, HoldsRun, HoldsRuns
  <2>5. IndexKnown(c)'
    BY <1>6, <2>1, <2>2 DEF IndexKnown
  <2> QED
    BY <1>2, <1>6, <2>1, <2>3, <2>4, <2>5 DEF OthersKept, LockedRuns, HoldsRun, HoldsRuns, ClientInv, CommandOK
<1>7. CASE RecoverPending(c)
  BY <1>1, <1>3, <1>6, <1>7 DEF RecoverPending, StepOf, JobsKept, BatchesKept, IndexKept, PendingKept
<1>8. CASE RecoverStable(c)
  <2>0. PICK b \in Incomplete(c) :
          OwnedPending(b) = {} /\ \E r \in OwnedStable(b) : stable' = [stable EXCEPT ![r] = 0]
    BY <1>8 DEF RecoverStable
  <2>1. PICK r \in OwnedStable(b) : stable' = [stable EXCEPT ![r] = 0]
    BY <2>0
  <2>2. pc[c] = "s_recover" /\ client' = client /\ UNCHANGED <<job, batch, pending, held>>
    BY <1>8 DEF RecoverStable
  <2>3. OthersKept(c) /\ ClientInv(c)' /\ cmd[c].rows \in Specs /\ LockedRuns(c) = DOMAIN cmd[c].rows
    BY <1>6, <2>2
  <2>4. r \in Runs /\ stable[r] # 0 /\ job[stable[r]].batch = b /\ stable[r] \in Jobs
    BY <2>1 DEF OwnedStable, IInv, StoreInv, NoDanglingId, Jobs, TypeOK
  <2>5. batch[b].spec = cmd[c].rows /\ ~batch[b].sealed /\ Atomic(b)
    BY <2>0, <2>3, NoSpecAssumption DEF Incomplete, Atomic
  <2>6. r \in LockedRuns(c)
    BY <2>3, <2>4, <2>5 DEF IInv, StoreInv, JobsOfBatches
  <2>7. ASSUME NEW j \in Live, job[j].run = r  PROVE  FALSE
    <3>1. j = stable[r]
      BY <2>7 DEF IInv, StoreInv, IndexNamesLiveJob
    <3>2. CASE j \in pending
      BY <2>0, <2>4, <3>1, <3>2 DEF OwnedPending
    <3>3. CASE j \in dispatched
      BY <2>4, <2>5, <3>1, <3>3 DEF IInv, StoreInv, JobsOfBatches
    <3> QED  BY <3>2, <3>3 DEF Live
  <2>8. IndexKept(c)
    BY <1>1, <1>2, <2>1, <2>4, <2>6, <2>7 DEF IndexKept, TypeOK
  <2> QED
    BY <1>1, <1>3, <2>2, <2>3, <2>8 DEF StepOf, JobsKept, BatchesKept, PendingKept
<1>9. CASE RecoverBatch(c)
  <2>1. PICK b : batch' = [batch EXCEPT ![b].exists = FALSE]
    BY <1>9 DEF RecoverBatch
  <2>2. pc[c] = "s_recover" /\ client' = client /\ UNCHANGED <<job, pending, stable, held>>
    BY <1>9 DEF RecoverBatch
  <2>3. BatchesKept
    BY <1>2, <2>1, BatchWrite
  <2>4. Len(batch') = Len(batch)
    BY <1>2, <2>1, BatchLength
  <2> QED
    BY <1>1, <1>3, <1>6, <2>2, <2>3, <2>4 DEF StepOf, JobsKept, IndexKept, PendingKept
<1>10. CASE Recovered(c)
  <2>1. /\ pc[c] = "s_recover" /\ pc'[c] = "s_match" /\ cmd' = cmd
        /\ OthersKept(c) /\ UNCHANGED <<job, batch, pending, stable, held>>
    BY <1>1, <1>2, <1>10 DEF Recovered, OthersKept, TypeOK
  <2>2. LockedRuns(c)' = LockedRuns(c) /\ Unindexed(c)' = {}
    BY <2>1 DEF LockedRuns, Unindexed, HoldsRun, HoldsRuns
  <2>3. ClientInv(c)'
    BY <1>2, <2>1, <2>2 DEF ClientInv, RunLocksHeld, StableLock, CommandOK, IndexKnown, HoldsRun, HoldsRuns, Atomic
  <2> QED  BY <1>2, <1>3, <2>1, <2>3, QuietStep
<1>11. CASE SubmitMatch(c)
  <2>1. UNCHANGED <<job, batch, pending, stable>>
    BY <1>11 DEF SubmitMatch
  <2>2. CASE Exit(c)
    BY <1>2, <1>3, <2>1, <2>2, ExitInv, QuietStep
  <2>3. CASE ~Exit(c)
    <3>1. /\ pc[c] = "s_match" /\ pc'[c] = "s_check" /\ held' = held
          /\ cmd'[c] = [cmd[c] EXCEPT !.todo = DOMAIN cmd[c].rows] /\ OthersKept(c)
      BY <1>1, <1>2, <1>11, <2>3 DEF SubmitMatch, OthersKept, TypeOK
    <3>2. /\ cmd'[c].todo = DOMAIN cmd[c].rows /\ cmd'[c].rows = cmd[c].rows
          /\ cmd'[c].batch = cmd[c].batch /\ cmd'[c].found = cmd[c].found
      BY <1>1, <3>1 DEF Command
    <3>3. LockedRuns(c)' = LockedRuns(c) /\ Unindexed(c)' = {}
      BY <3>1, <3>2 DEF LockedRuns, Unindexed, HoldsRun, HoldsRuns
    <3>4. ClientInv(c)'
      BY <1>2, <2>1, <3>1, <3>2, <3>3 DEF ClientInv, RunLocksHeld, StableLock, CommandOK, IndexKnown, HoldsRun, HoldsRuns, Atomic
    <3> QED  BY <1>2, <1>3, <2>1, <3>1, <3>4, QuietStep
  <2> QED  BY <2>2, <2>3
<1>12. CASE SubmitCheckRun(c)
  <2>1. PICK r \in cmd[c].todo : SubmitCheckRun(c)!(r)
    BY <1>12 DEF SubmitCheckRun
  <2>2. pc[c] = "s_check" /\ r \in Runs /\ LockedRuns(c) = DOMAIN cmd[c].rows /\ r \in LockedRuns(c)
    BY <1>1, <2>1 DEF LockedRuns, HoldsRun, HoldsRuns
  <2>3. UNCHANGED <<job, batch, pending>>
    BY <2>1
  <2>4. CASE LiveJobs(r) # {}
    <3>1. PICK j \in LiveJobs(r) : stable' = [stable EXCEPT ![r] = j]
      BY <2>1, <2>4
    <3>2. stable[r] = j
      BY <3>1 DEF LiveJobs, Existing, IInv, StoreInv, IndexNamesLiveJob
    <3>3. stable' = stable
      BY <1>2, <3>1, <3>2 DEF TypeOK
    <3> QED  BY <1>2, <1>3, <2>1, <2>3, <2>4, <3>3, ExitInv, QuietStep
  <2>5. CASE LiveJobs(r) = {}
    <3>1. /\ stable' = [stable EXCEPT ![r] = 0] /\ held' = held /\ OthersKept(c)
          /\ cmd'[c] = [cmd[c] EXCEPT !.todo = @ \ {r}]
          /\ pc'[c] = IF cmd[c].todo = {r} THEN "s_batch" ELSE "s_check"
      BY <1>1, <1>2, <2>1, <2>5 DEF OthersKept, TypeOK
    <3>2. /\ cmd'[c].todo = cmd[c].todo \ {r} /\ cmd'[c].rows = cmd[c].rows
          /\ cmd'[c].batch = cmd[c].batch /\ cmd'[c].found = cmd[c].found
      BY <1>1, <3>1 DEF Command
    <3>3. LockedRuns(c)' = LockedRuns(c) /\ Unindexed(c)' \subseteq Unindexed(c) \cup {r}
      BY <1>1, <2>2, <3>1, <3>2 DEF LockedRuns, Unindexed, HoldsRun, HoldsRuns
    <3>4. RunLocksHeld(c)'
      BY <1>2, <3>1, <3>3 DEF ClientInv, RunLocksHeld, StableLock
    <3>5. CommandOK(c)'
      BY <1>2, <2>2, <2>3, <3>1, <3>2 DEF ClientInv, CommandOK, HoldsRun, HoldsRuns, Atomic
    <3>6. \A q \in Unindexed(c)' : stable'[q] = 0
      BY <1>2, <2>2, <3>1, <3>3, UnindexedLocked, LockedRunsType DEF ClientInv, IndexKnown, TypeOK
    <3>7. IndexKnown(c)'
      BY <3>1, <3>6 DEF IndexKnown
    <3>8. IndexKept(c)
      BY <1>1, <1>2, <2>2, <2>3, <2>5, <3>1 DEF IndexKept, TypeOK, LiveJobs, Existing
    <3> QED
      BY <1>1, <1>3, <2>3, <3>1, <3>4, <3>5, <3>7, <3>8 DEF StepOf, JobsKept, BatchesKept, PendingKept, ClientInv
  <2> QED  BY <2>4, <2>5
<1>13. CASE SubmitBatch(c)
  <2>1. /\ pc[c] = "s_batch" /\ pc'[c] = "s_claim" /\ OthersKept(c)
        /\ cmd'[c] = [cmd[c] EXCEPT !.todo = DOMAIN cmd[c].rows, !.batch = Len(batch) + 1]
        /\ UNCHANGED <<job, pending, stable, held>>
    BY <1>1, <1>2, <1>13 DEF SubmitBatch, OthersKept, TypeOK
  <2>2. /\ cmd'[c].todo = DOMAIN cmd[c].rows /\ cmd'[c].rows = cmd[c].rows
        /\ cmd'[c].batch = Len(batch) + 1 /\ cmd'[c].found = cmd[c].found
    BY <1>1, <2>1 DEF Command
  <2>3. /\ Len(batch') = Len(batch) + 1 /\ \A b \in 1..Len(batch) : batch'[b] = batch[b]
        /\ batch'[Len(batch) + 1].spec = cmd[c].rows
    BY <1>1, <1>2, <1>13 DEF SubmitBatch, TypeOK
  <2>4. LockedRuns(c)' = LockedRuns(c) /\ Unindexed(c)' = Unindexed(c)
    BY <2>1, <2>2 DEF LockedRuns, Unindexed, HoldsRun, HoldsRuns
  <2>5. ClientInv(c)'
    <3>1. RunLocksHeld(c)'
      BY <1>2, <2>1, <2>4 DEF ClientInv, RunLocksHeld, StableLock
    <3>2. CommandOK(c)'
      BY <1>1, <1>2, <2>1, <2>2, <2>3 DEF ClientInv, CommandOK, HoldsRun, HoldsRuns
    <3>3. IndexKnown(c)'
      BY <1>2, <2>1, <2>4 DEF ClientInv, IndexKnown
    <3> QED  BY <3>1, <3>2, <3>3 DEF ClientInv
  <2> QED
    BY <1>1, <1>3, <2>1, <2>3, <2>5 DEF StepOf, JobsKept, BatchesKept, IndexKept, PendingKept
<1>14. CASE SubmitClaim(c)
  <2>1. PICK r \in cmd[c].todo : SubmitClaim(c)!(r)
    BY <1>14 DEF SubmitClaim
  <2>2. /\ pc[c] = "s_claim" /\ pc'[c] = "s_publish" /\ OthersKept(c)
        /\ cmd'[c] = [cmd[c] EXCEPT !.found = Len(job) + 1, !.todo = @ \ {r}]
        /\ UNCHANGED <<batch, pending, held>>
    BY <1>1, <1>2, <2>1 DEF OthersKept, TypeOK
  <2>3. /\ cmd'[c].todo = cmd[c].todo \ {r} /\ cmd'[c].rows = cmd[c].rows
        /\ cmd'[c].batch = cmd[c].batch /\ cmd'[c].found = Len(job) + 1
    BY <1>1, <2>2 DEF Command
  <2>4. r \in Runs /\ r \in LockedRuns(c) /\ stable[r] = 0 /\ r \in DOMAIN cmd[c].rows
    BY <1>1, <1>2, <2>1, <2>2 DEF ClientInv, IndexKnown, LockedRuns, Unindexed, HoldsRun, HoldsRuns
  <2>5. cmd[c].batch \in 1..Len(batch) /\ batch[cmd[c].batch].spec = cmd[c].rows
    BY <1>1, <1>2, <2>2 DEF ClientInv, CommandOK
  <2>6. /\ Len(job') = Len(job) + 1
        /\ \A j \in 1..Len(job) : job'[j] = job[j]
        /\ job'[Len(job) + 1].run = r /\ job'[Len(job) + 1].batch = cmd[c].batch
        /\ stable' = [stable EXCEPT ![r] = Len(job) + 1]
    BY <1>1, <1>2, <2>1, ClaimType DEF Claim, TypeOK
  <2>7. \A j \in Live : job[j].run # r
    BY <2>4 DEF IInv, StoreInv, IndexNamesLiveJob, NoDanglingId, Jobs
  <2>8. JobsKept /\ IndexKept(c)
    BY <1>1, <1>2, <2>4, <2>5, <2>6, <2>7 DEF JobsKept, IndexKept, TypeOK
  <2>9. StepOf(c)
    BY <1>1, <1>3, <2>2, <2>8 DEF StepOf, BatchesKept, PendingKept
  <2>10. LockedRuns(c)' = LockedRuns(c) /\ Unindexed(c)' = Unindexed(c) \ {r}
    BY <2>2, <2>3 DEF LockedRuns, Unindexed, HoldsRun, HoldsRuns
  <2>11. RunLocksHeld(c)'
    BY <1>2, <2>2, <2>10 DEF ClientInv, RunLocksHeld, StableLock
  <2>12. CommandOK(c)'
    BY <1>1, <1>2, <2>2, <2>3, <2>5, <2>6 DEF ClientInv, CommandOK, HoldsRun, HoldsRuns
  <2>13. \A q \in Unindexed(c)' : stable'[q] = 0
    BY <1>2, <2>6, <2>10, UnindexedLocked, LockedRunsType DEF ClientInv, IndexKnown, TypeOK
  <2>14. IndexKnown(c)'
    BY <1>1, <1>2, <2>2, <2>3, <2>4, <2>6, <2>10, <2>13 DEF IndexKnown, TypeOK
  <2> QED  BY <2>9, <2>11, <2>12, <2>14 DEF ClientInv
<1>15. CASE SubmitPublish(c)
  <2>1. /\ pc[c] = "s_publish" /\ pc'[c] \in {"s_seal", "s_claim"} /\ cmd' = cmd
        /\ pending' = pending \cup {cmd[c].found}
        /\ UNCHANGED <<job, batch, stable, held>> /\ OthersKept(c)
    BY <1>2, <1>15 DEF SubmitPublish, OthersKept, TypeOK
  <2>2. LockedRuns(c)' = LockedRuns(c) /\ Unindexed(c)' \subseteq Unindexed(c)
    BY <2>1 DEF LockedRuns, Unindexed, HoldsRun, HoldsRuns
  <2>3. RunLocksHeld(c)'
    BY <1>2, <2>1, <2>2 DEF ClientInv, RunLocksHeld, StableLock
  <2>4. CommandOK(c)'
    BY <1>2, <2>1 DEF ClientInv, CommandOK, HoldsRun, HoldsRuns, Atomic
  <2>5. IndexKnown(c)'
    BY <1>2, <2>1, <2>2 DEF ClientInv, IndexKnown
  <2>6. PendingKept(c)
    BY <1>1, <1>2, <2>1 DEF ClientInv, IndexKnown, CommandOK, PendingKept, Jobs
  <2> QED
    BY <1>1, <1>3, <2>1, <2>3, <2>4, <2>5, <2>6 DEF ClientInv, StepOf, JobsKept, BatchesKept, IndexKept
<1>16. CASE SubmitSeal(c)
  <2> DEFINE J == {j \in Jobs : job[j].batch = cmd[c].batch}
  <2>1. Exit(c) /\ UNCHANGED <<job, pending, stable>>
        /\ batch' = [batch EXCEPT ![cmd[c].batch].jobs = J, ![cmd[c].batch].sealed = TRUE]
    BY <1>16 DEF SubmitSeal
  <2> HIDE DEF J
  <2>2. BatchesKept
    BY <1>2, <2>1, BatchWrite
  <2>3. OthersKept(c) /\ ClientInv(c)'
    BY <1>2, <2>1, ExitInv
  <2> QED
    BY <1>1, <1>3, <2>1, <2>2, <2>3 DEF StepOf, JobsKept, IndexKept, PendingKept
<1> QED
  BY <1>4, <1>5, <1>7, <1>8, <1>9, <1>10, <1>11, <1>12, <1>13, <1>14, <1>15, <1>16 DEF SubmitStep

(* The first step of a command, new-batch and seal-batch. *)
LEMMA StartInv ==
  ASSUME IInv, TypeOK', NEW c \in Clients, UNCHANGED <<done, service, crashes>>,
         EnqueueStart(c) \/ SubmitStart(c) \/ NewBatch(c) \/ SealBatch(c)
  PROVE  StepOf(c) /\ ClientInv(c)'
<1> USE DEF At, Goto
<1>1. /\ c \in Processes /\ Len(job) \in Nat /\ Len(batch) \in Nat
      /\ Len(job') \in Nat /\ Len(batch') \in Nat
  BY DEF IInv, TypeOK, Processes
<1>2. ClientInv(c) /\ TypeOK
  BY DEF IInv
<1>3. UNCHANGED <<dispatched, completed, failed>>
  BY DEF done
<1>4. CASE EnqueueStart(c)
  <2>0. PICK r \in Runs, p \in Payloads, b \in Batches : EnqueueStart(c)!(r, p, b)
    BY <1>4 DEF EnqueueStart
  <2> DEFINE x == [NoCommand EXCEPT !.rows = [q \in {r} |-> p], !.todo = {r}, !.batch = b]
  <2>1. x.todo = {r} /\ x.batch = b /\ x.found = 0
    BY DEF NoCommand
  <2>2. (Atomic(b) => batch[b].sealed) /\ b \in 1..Len(batch) /\ Begin(c, "e_stable", x)
    BY <2>0 DEF Batches
  <2> HIDE DEF x
  <2>3. /\ pc'[c] = "e_stable" /\ cmd'[c] = x /\ OthersKept(c)
        /\ UNCHANGED <<job, batch, pending, stable>>
    BY <1>2, <2>2 DEF Begin, OthersKept, TypeOK
  <2>4. LockedRuns(c)' = {} /\ Unindexed(c)' = {}
    BY <2>3 DEF LockedRuns, Unindexed, HoldsRun, HoldsRuns
  <2>5. RunLocksHeld(c)' /\ IndexKnown(c)'
    BY <2>3, <2>4 DEF RunLocksHeld, IndexKnown
  <2>6. b \in 0..Len(batch') /\ b # 0 /\ (Atomic(b)' => batch'[b].sealed)
    BY <1>1, <2>2, <2>3 DEF Atomic
  <2>7. CommandOK(c)'
    <3>1. /\ cmd'[c].todo = {r} /\ cmd'[c].batch = b /\ cmd'[c].found = 0 /\ pc'[c] = "e_stable"
      BY <2>1, <2>3
    <3>2. 0 \in 0..Len(job')
      BY <1>1
    <3> QED  BY <2>6, <3>1, <3>2 DEF CommandOK, HoldsRun, HoldsRuns
  <2>8. ClientInv(c)'
    BY <2>5, <2>7 DEF ClientInv
  <2> QED  BY <1>2, <1>3, <2>3, <2>8, QuietStep
<1>5. CASE SubmitStart(c)
  <2>0. PICK s \in Specs, find \in BOOLEAN : SubmitStart(c)!(s, find)
    BY <1>5 DEF SubmitStart
  <2> DEFINE x == [NoCommand EXCEPT !.rows = s, !.todo = DOMAIN s, !.find = find]
  <2>1. x.rows = s /\ x.todo = DOMAIN s /\ x.batch = 0 /\ x.found = 0
    BY DEF NoCommand
  <2>2. Begin(c, "s_lock", x)
    BY <2>0
  <2> HIDE DEF x
  <2>3. /\ pc'[c] = "s_lock" /\ cmd'[c] = x /\ OthersKept(c)
        /\ UNCHANGED <<job, batch, pending, stable>>
    BY <1>2, <2>2 DEF Begin, OthersKept, TypeOK
  <2>4. LockedRuns(c)' = {} /\ Unindexed(c)' = {}
    BY <2>3 DEF LockedRuns, Unindexed, HoldsRun, HoldsRuns
  <2>5. ClientInv(c)'
    BY <1>1, <2>1, <2>3, <2>4 DEF ClientInv, RunLocksHeld, CommandOK, IndexKnown, HoldsRun, HoldsRuns
  <2> QED  BY <1>2, <1>3, <2>3, <2>5, QuietStep
<1>6. ASSUME NewBatch(c) \/ SealBatch(c)
      PROVE  /\ pc[c] = "idle" /\ pc' = pc /\ cmd' = cmd /\ OthersKept(c)
             /\ UNCHANGED <<job, pending, stable>>
             /\ Len(batch') >= Len(batch) => ClientInv(c)'
  <2>1. /\ pc[c] = "idle" /\ pc' = pc /\ cmd' = cmd /\ held' = held
        /\ UNCHANGED <<job, pending, stable>>
    BY <1>6 DEF NewBatch, SealBatch, client
  <2>2. LockedRuns(c)' = {} /\ Unindexed(c)' = {}
    BY <2>1 DEF LockedRuns, Unindexed, HoldsRun, HoldsRuns
  <2> QED
    BY <1>1, <1>2, <2>1, <2>2 DEF ClientInv, RunLocksHeld, CommandOK, IndexKnown, HoldsRun, HoldsRuns, OthersKept
<1>7. ASSUME BatchesKept, NewBatch(c) \/ SealBatch(c)  PROVE StepOf(c) /\ ClientInv(c)'
  BY <1>1, <1>3, <1>6, <1>7 DEF StepOf, JobsKept, BatchesKept, IndexKept, PendingKept
<1>8. CASE NewBatch(c)
  <2>1. BatchesKept
    BY <1>1, <1>2, <1>8 DEF NewBatch, BatchesKept, TypeOK
  <2> QED  BY <1>7, <1>8, <2>1
<1>9. CASE SealBatch(c)
  <2>1. \E b : batch' = [batch EXCEPT ![b].sealed = TRUE]
    BY <1>9 DEF SealBatch
  <2>2. BatchesKept
    BY <1>2, <2>1, BatchWrite
  <2> QED  BY <1>7, <1>9, <2>2
<1> QED  BY <1>4, <1>5, <1>8, <1>9

(* The daemon moves and records jobs, and writes nothing a client relies on. *)
LEMMA DaemonInv ==
  ASSUME IInv, DaemonStep \/ DaemonCrash
  PROVE  (\A c \in Clients : ClientInv(c)') /\ StoreInv'
<1> USE DEF IInv
<1>1. /\ job' = job /\ batch' = batch /\ stable' = stable /\ pc' = pc /\ cmd' = cmd
  BY DEF DaemonStep, DaemonCrash, client
<1>2. \A c \in Clients : held'[c] = held[c]
  BY DaemonAssumption
     DEF DaemonStep, DaemonCrash, Dispatch, Collect, DaemonStart, FailDispatched, Unlink, DaemonReady,
         Take, TypeOK, Processes
<1>3. /\ pending' \subseteq pending /\ Live' \subseteq Live
      /\ (dispatched \cup Finished)' \subseteq dispatched \cup Finished \cup Dispatchable
  BY DEF DaemonStep, DaemonCrash, done, Dispatch, Collect, DaemonStart, FailDispatched, Unlink, DaemonReady,
         Live, Finished, Dispatchable
<1>4. ASSUME NEW c \in Clients  PROVE ClientInv(c)'
  <2>1. ClientInv(c) /\ held'[c] = held[c]
    BY <1>2
  <2>2. LockedRuns(c)' = LockedRuns(c) /\ Unindexed(c)' = Unindexed(c)
    BY <1>1 DEF LockedRuns, Unindexed
  <2>3. RunLocksHeld(c)'
    BY <2>1, <2>2 DEF ClientInv, RunLocksHeld, StableLock
  <2>4. CommandOK(c)'
    BY <1>1, <2>1 DEF ClientInv, CommandOK, Atomic
  <2>5. IndexKnown(c)'
    BY <1>1, <1>3, <2>1, <2>2 DEF ClientInv, IndexKnown
  <2> QED  BY <2>3, <2>4, <2>5 DEF ClientInv
<1>5. NoDanglingId'
  BY <1>1, <1>3 DEF StoreInv, NoDanglingId, Jobs, Live, Finished, Dispatchable
<1>6. JobsOfBatches'
  BY <1>1, <1>3 DEF StoreInv, JobsOfBatches, Jobs, Atomic, Dispatchable
<1>7. IndexNamesLiveJob'
  BY <1>1, <1>3 DEF StoreInv, IndexNamesLiveJob
<1> QED  BY <1>4, <1>5, <1>6, <1>7 DEF StoreInv

-----------------------------------------------------------------------------
(* Locks. *)

(* A step takes one free lock, drops all the locks of one process, or none. *)
LockStep ==
  \/ held' = held
  \/ \E p \in Processes : held' = [held EXCEPT ![p] = {}]
  \/ \E p \in Processes, lock \in Locks : Take(p, lock)

(* That is all a step of the system does to the locks. *)
LEMMA NextLocks == TypeOK /\ [Next]_vars => LockStep
<1> SUFFICES ASSUME TypeOK, [Next]_vars PROVE LockStep
  OBVIOUS
<1>u. CASE UNCHANGED vars
  BY <1>u DEF vars, LockStep
<1>p. Clients \subseteq Processes /\ Daemon \in Processes
  BY DEF Processes
<1>x. ASSUME NEW c \in Clients, Exit(c)  PROVE LockStep
  BY <1>p, <1>x DEF Exit, LockStep
<1>t. ASSUME NEW p \in Processes, NEW lock \in Locks, Take(p, lock)  PROVE LockStep
  BY <1>t DEF LockStep
<1>s. ASSUME UNCHANGED held  PROVE LockStep
  BY <1>s DEF LockStep
<1>c. ASSUME NEW c \in Clients
      PROVE cmd[c].todo \subseteq Runs /\ cmd[c].batch \in Nat /\ c \in Processes
  BY <1>c DEF TypeOK, Command, Processes
<1>e. ASSUME NEW c \in Clients, EnqueueStep(c)  PROVE LockStep
  <2>1. CASE EnqueueLockRun(c)
    BY <2>1, <1>c, <1>t, LockTypes DEF EnqueueLockRun
  <2>2. CASE EnqueueLockBatch(c)
    BY <2>2, <1>c, <1>t, <1>x, LockTypes DEF EnqueueLockBatch
  <2>3. CASE LookPending(c) \/ LookDispatched(c) \/ ScanPending(c) \/ ScanDispatched(c)
             \/ EnqueueClaim(c) \/ EnqueuePublish(c)
    BY <2>3, <1>s DEF LookPending, LookDispatched, ScanPending, ScanDispatched, EnqueueClaim, EnqueuePublish
  <2>4. CASE EnqueueAttach(c) \/ EnqueueRecord(c)
    BY <2>4, <1>x DEF EnqueueAttach, EnqueueRecord
  <2> QED  BY <1>e, <2>1, <2>2, <2>3, <2>4 DEF EnqueueStep
<1>f. ASSUME NEW c \in Clients, SubmitStep(c)  PROVE LockStep
  <2>1. CASE SubmitLock(c)
    BY <2>1, <1>c, <1>t, LockTypes DEF SubmitLock
  <2>2. CASE SubmitLockRun(c)
    BY <2>2, <1>c, <1>t, LockTypes DEF SubmitLockRun
  <2>3. CASE RecoverPending(c) \/ RecoverStable(c) \/ RecoverBatch(c) \/ Recovered(c)
             \/ SubmitBatch(c) \/ SubmitClaim(c) \/ SubmitPublish(c)
    BY <2>3, <1>s DEF RecoverPending, RecoverStable, RecoverBatch, Recovered, SubmitBatch, SubmitClaim, SubmitPublish
  <2>4. CASE SubmitMatch(c) \/ SubmitCheckRun(c) \/ SubmitSeal(c)
    BY <2>4, <1>x, <1>s DEF SubmitMatch, SubmitCheckRun, SubmitSeal
  <2> QED  BY <1>f, <2>1, <2>2, <2>3, <2>4 DEF SubmitStep
<1>b. ASSUME NEW c \in Clients, ClientStart(c)  PROVE LockStep
  BY <1>b, <1>s DEF ClientStart, EnqueueStart, SubmitStart, NewBatch, SealBatch, Begin
<1>k. ASSUME NEW c \in Clients, ClientCrash(c)  PROVE LockStep
  BY <1>k, <1>x DEF ClientCrash
<1>d. CASE DaemonStep
  <2>1. CASE Collect \/ DaemonStart
    BY <2>1, <1>p, <1>t, LockTypes DEF Collect, DaemonStart
  <2>2. CASE Dispatch \/ FailDispatched
    BY <2>2, <1>s DEF Dispatch, FailDispatched, service
  <2>3. CASE DaemonReady
    BY <2>3, <1>p DEF DaemonReady, LockStep
  <2>4. CASE Unlink
    BY <2>4, <1>p DEF Unlink, LockStep, TypeOK
  <2> QED  BY <1>d, <2>1, <2>2, <2>3, <2>4 DEF DaemonStep
<1>y. CASE DaemonCrash
  BY <1>y, <1>p DEF DaemonCrash, LockStep
<1> QED
  BY <1>u, <1>e, <1>f, <1>b, <1>k, <1>d, <1>y DEF Next, ClientStep

(* A lock that was free has one holder when it is taken. *)
LEMMA MutexStep == TypeOK /\ Mutex /\ [Next]_vars => Mutex'
<1> SUFFICES ASSUME TypeOK, Mutex, LockStep PROVE Mutex'
  BY NextLocks
<1>1. CASE held' = held
  BY <1>1 DEF Mutex
<1>2. CASE \E p \in Processes : held' = [held EXCEPT ![p] = {}]
  BY <1>2 DEF Mutex, TypeOK
<1>3. ASSUME NEW p \in Processes, NEW lock \in Locks, Take(p, lock)  PROVE Mutex'
  <2>1. /\ \A q \in Processes : lock \notin held[q]
        /\ \A q \in Processes : held'[q] = IF q = p THEN held[q] \cup {lock} ELSE held[q]
    BY <1>3 DEF Take, Free, TypeOK
  <2> QED  BY <2>1 DEF Mutex
<1> QED  BY <1>1, <1>2, <1>3 DEF LockStep

-----------------------------------------------------------------------------
(* No file and no command at the start. *)
LEMMA InvInit == Init => IInv
<1> SUFFICES ASSUME Init PROVE IInv
  OBVIOUS
<1>1. TypeOK
  BY TypeInit
<1>2. Mutex
  BY DEF Init, Mutex
<1>3. ASSUME NEW c \in Clients  PROVE ClientInv(c)
  BY DEF Init, ClientInv, RunLocksHeld, LockedRuns, CommandOK, IndexKnown, Unindexed, NoCommand, HoldsRun, HoldsRuns
<1>4. StoreInv
  BY DEF Init, StoreInv, NoDanglingId, JobsOfBatches, IndexNamesLiveJob, Jobs, Live, Finished
<1> QED  BY <1>1, <1>2, <1>3, <1>4 DEF IInv

(* A client's step by its guarantee, the daemon's by DaemonInv. *)
LEMMA InvStep == IInv /\ [Next]_vars => IInv'
<1> SUFFICES ASSUME IInv, [Next]_vars PROVE IInv'
  OBVIOUS
<1>1. TypeOK' /\ Mutex'
  BY TypeStep, MutexStep DEF IInv
<1>2. ASSUME NEW c \in Clients, StepOf(c), ClientInv(c)'  PROVE IInv'
  <2>1. StoreInv'
    BY <1>1, <1>2, StoreStep
  <2>2. \A d \in Clients : ClientInv(d)'
    BY <1>2, Rely
  <2> QED  BY <1>1, <2>1, <2>2 DEF IInv
<1>3. ASSUME NEW c \in Clients, ClientStart(c)  PROVE IInv'
  <2>1. StepOf(c) /\ ClientInv(c)'
    BY <1>1, <1>3, StartInv DEF ClientStart
  <2> QED  BY <1>2, <2>1
<1>4. ASSUME NEW c \in Clients, ClientStep(c)  PROVE IInv'
  <2>1. StepOf(c) /\ ClientInv(c)'
    BY <1>1, <1>4, EnqueueInv, SubmitInv DEF ClientStep
  <2> QED  BY <1>2, <2>1
<1>5. ASSUME NEW c \in Clients, ClientCrash(c)  PROVE IInv'
  <2>1. Exit(c) /\ UNCHANGED <<job, batch, pending, stable, dispatched, completed, failed>>
    BY <1>5 DEF ClientCrash, done
  <2>2. StepOf(c) /\ ClientInv(c)'
    BY <1>1, <2>1, ExitInv, QuietStep DEF IInv
  <2> QED  BY <1>2, <2>2
<1>6. CASE DaemonStep \/ DaemonCrash
  BY <1>1, <1>6, DaemonInv DEF IInv
<1>7. CASE UNCHANGED vars
  <2>1. UNCHANGED <<job, batch, pending, dispatched, completed, failed, stable, held, pc, cmd>>
    BY <1>7 DEF vars, done, client
  <2>2. StoreInv'
    BY <2>1 DEF IInv, StoreInv, NoDanglingId, JobsOfBatches, IndexNamesLiveJob, Jobs, Live, Finished, Atomic
  <2>3. ASSUME NEW c \in Clients  PROVE ClientInv(c)'
    <3>1. ClientInv(c)
      BY DEF IInv
    <3> QED
      BY <2>1, <3>1 DEF ClientInv, RunLocksHeld, LockedRuns, CommandOK, IndexKnown, Unindexed, StableLock, Atomic
  <2> QED  BY <1>1, <2>2, <2>3 DEF IInv
<1> QED  BY <1>3, <1>4, <1>5, <1>6, <1>7 DEF Next

(* The inductive invariant holds. *)
THEOREM InvariantCorrect == Spec => []IInv
<1> QED  BY InvInit, InvStep, PTL DEF Spec

(* The stable index names the live job of every run at every step of every  *)
(* command, whichever process is killed.                                    *)
THEOREM IndexCorrect == Spec => []IndexNamesLiveJob
<1>1. IInv => IndexNamesLiveJob
  BY DEF IInv, StoreInv
<1> QED  BY <1>1, InvariantCorrect, PTL

(* Two live jobs of a run would both be the one its index names. *)
THEOREM DeduplicationCorrect == Spec => []OneLiveJobPerRun
<1>1. IInv => OneLiveJobPerRun
  BY DEF IInv, StoreInv, IndexNamesLiveJob, OneLiveJobPerRun
<1> QED  BY <1>1, InvariantCorrect, PTL

(* An interrupted submission of the same rows only left index entries and   *)
(* pending jobs of runs the recovering client has locked: "atomic batch     *)
(* recovery found foreign runs" is never raised.                            *)
THEOREM RecoveryCorrect == Spec => []RecoveryFindsOnlyOwnRuns
<1>1. IInv => RecoveryFindsOnlyOwnRuns
  <2> SUFFICES ASSUME IInv, NEW c \in Clients, At(c, "s_recover"), NEW b \in Incomplete(c)
               PROVE  OwnedStable(b) \cup {job[j].run : j \in OwnedPending(b)} \subseteq DOMAIN cmd[c].rows
    BY DEF RecoveryFindsOnlyOwnRuns
  <2>1. batch[b].spec = cmd[c].rows /\ Atomic(b)
    BY NoSpecAssumption DEF Incomplete, Atomic, IInv, ClientInv, CommandOK, At, HoldsRuns
  <2>2. \A j \in Jobs : job[j].batch = b => job[j].run \in DOMAIN cmd[c].rows
    BY <2>1 DEF IInv, StoreInv, JobsOfBatches
  <2>3. OwnedPending(b) \subseteq {j \in Jobs : job[j].batch = b}
    BY DEF OwnedPending, IInv, StoreInv, NoDanglingId, Live
  <2>4. \A r \in OwnedStable(b) :
           stable[r] \in Jobs /\ job[stable[r]].batch = b /\ job[stable[r]].run = r
    BY DEF OwnedStable, IInv, TypeOK, StoreInv, NoDanglingId, JobsOfBatches, Jobs
  <2> QED  BY <2>2, <2>3, <2>4
<1> QED  BY <1>1, InvariantCorrect, PTL

-----------------------------------------------------------------------------
(***************************************************************************)
(* The inductive invariant BInv: what the submission lock and the batch    *)
(* locks are for.  Again by rely and guarantee, on top of the guarantee    *)
(* StepOf of the runs.                                                     *)
(***************************************************************************)

(* The guarantee: only the holder of the submission lock touches atomic     *)
(* batches, their jobs, or takes a pending job away; and a batch of         *)
(* new-batch is sealed only while its lock is free.                         *)
AtomicKept ==
  /\ \A b \in 1..Len(batch) : Atomic(b) => batch'[b] = batch[b]
  /\ \A b \in 1..Len(batch') : b > Len(batch) => batch'[b].spec = NoSpec
  /\ \A j \in 1..Len(job') : j > Len(job) => ~Atomic(job'[j].batch)
  /\ pending \subseteq pending'

BatchStepOf(c) ==
  /\ \A b \in 1..Len(batch) : ~Atomic(b) =>
       /\ batch'[b].exists = batch[b].exists
       /\ batch'[b].sealed # batch[b].sealed => Free(BatchLock(b))
  /\ SubmissionLock \notin held[c] => AtomicKept
  /\ UNCHANGED <<dispatched, completed, failed, daemon, recorded, daemonCrashes>>

(* Facts about positions that every proof below needs. *)
LEMMA Positions ==
  ASSUME IInv
  PROVE  /\ Len(job) \in Nat /\ Len(batch) \in Nat
         /\ \A j \in Jobs : job[j] \in JobFile /\ job[j].batch \in 1..Len(batch)
         /\ \A b \in 1..Len(batch) : batch[b] \in BatchFile
         /\ Live \cup Finished \subseteq Jobs
         /\ pending \subseteq Jobs /\ dispatched \subseteq Jobs
<1>1. job \in Seq(JobFile) /\ batch \in Seq(BatchFile)
  BY DEF IInv, TypeOK
<1>2. /\ \A j \in Jobs : job[j] \in JobFile
      /\ \A b \in 1..Len(batch) : batch[b] \in BatchFile
  BY <1>1, ElementOfSeq DEF Jobs
<1> QED  BY <1>1, <1>2 DEF IInv, StoreInv, NoDanglingId, Live, Finished

(* The batch of a command that has got as far as these labels. *)
LEMMA CommandBatch ==
  ASSUME IInv, NEW c \in Clients
  PROVE  /\ pc[c] \in HoldsRun \cup {"s_claim", "s_publish", "s_seal"} => cmd[c].batch \in 1..Len(batch)
         /\ pc[c] \in HoldsBatch => ~Atomic(cmd[c].batch)
         /\ pc[c] \in {"s_claim", "s_publish", "s_seal"} =>
              Atomic(cmd[c].batch) /\ batch[cmd[c].batch].spec = cmd[c].rows
<1>1. CommandOK(c) /\ cmd[c].batch \in Nat /\ Len(batch) \in Nat
  BY DEF IInv, ClientInv, TypeOK, Command
<1> QED  BY <1>1, NoSpecAssumption DEF CommandOK, HoldsBatch, HoldsRun, HoldsRuns, Atomic

-----------------------------------------------------------------------------
(* What a client knows of batches is not disturbed by another client. *)
LEMMA BatchRely ==
  ASSUME BInv, NEW c \in Clients, NEW d \in Clients, c # d,
         StepOf(c), BatchStepOf(c), TypeOK'
  PROVE  BatchLocksHeld(d)' /\ BatchKnown(d)'
<1>1. /\ IInv /\ BatchLocksHeld(c) /\ BatchLocksHeld(d) /\ BatchKnown(d)
      /\ CommandOK(c) /\ CommandOK(d) /\ IndexKnown(d) /\ RunLocksHeld(c) /\ RunLocksHeld(d)
      /\ TypeOK /\ Mutex
  BY DEF BInv, IInv, ClientInv
<1>2. /\ pc'[d] = pc[d] /\ cmd'[d] = cmd[d] /\ held'[d] = held[d]
      /\ c \in Processes /\ d \in Processes
  BY DEF StepOf, OthersKept, Processes
<1>3. /\ Len(job) \in Nat /\ Len(batch) \in Nat /\ Len(job') \in Nat /\ Len(batch') \in Nat
      /\ Len(job) <= Len(job') /\ Len(batch) <= Len(batch')
      /\ \A j \in Jobs : job'[j] = job[j]
      /\ \A b \in 1..Len(batch) : batch'[b].spec = batch[b].spec
  BY DEF StepOf, JobsKept, BatchesKept, TypeOK, Jobs
<1>4. ASSUME pc[d] \in HoldsSubmission  PROVE AtomicKept
  BY <1>1, <1>2, <1>4 DEF BatchLocksHeld, Mutex, BatchStepOf
<1>5. BatchLocksHeld(d)'
  <2>1. ASSUME pc[d] \in HoldsBatch  PROVE ~batch'[cmd[d].batch].sealed
    <3>1. /\ cmd[d].batch \in 1..Len(batch) /\ ~Atomic(cmd[d].batch)
          /\ BatchLock(cmd[d].batch) \in held[d] /\ ~batch[cmd[d].batch].sealed
      BY <1>1, <2>1, CommandBatch DEF BatchLocksHeld, HoldsBatch
    <3>2. ~Free(BatchLock(cmd[d].batch))
      BY <1>2, <3>1 DEF Free
    <3>3. batch'[cmd[d].batch].sealed = batch[cmd[d].batch].sealed
      BY <3>1, <3>2 DEF BatchStepOf
    <3> QED  BY <3>1, <3>3
  <2> QED
    BY <1>1, <1>2, <2>1 DEF BatchLocksHeld, SubmissionLock, BatchLock
<1>6. ASSUME pc[d] = "s_match", ~cmd[d].find
      PROVE  \A b \in Batches' : batch'[b].spec = cmd[d].rows => batch'[b].sealed
  <2>1. AtomicKept /\ cmd[d].rows \in Specs /\ Incomplete(d) = {}
    BY <1>1, <1>4, <1>6 DEF HoldsSubmission, HoldsRuns, CommandOK, BatchKnown
  <2> QED
    BY <1>3, <2>1, NoSpecAssumption DEF AtomicKept, Incomplete, Batches, Atomic
<1>7. ASSUME pc[d] \in {"s_check", "s_batch"}
      PROVE  \A b \in Batches' : batch'[b].spec # cmd[d].rows
  <2>1. AtomicKept /\ cmd[d].rows \in Specs /\ \A b \in Batches : batch[b].spec # cmd[d].rows
    BY <1>1, <1>4, <1>7 DEF HoldsSubmission, HoldsRuns, CommandOK, BatchKnown
  <2> QED
    BY <1>3, <2>1, NoSpecAssumption DEF AtomicKept, Batches, Atomic
<1>8. ASSUME pc[d] \in {"s_claim", "s_publish", "s_seal"}
      PROVE  LET b == cmd[d].batch IN
             /\ batch'[b] = batch[b] /\ JobsOf(b)' = JobsOf(b) /\ pending \subseteq pending'
  <2>1. AtomicKept
    BY <1>4, <1>8 DEF HoldsSubmission, HoldsRuns
  <2>2. cmd[d].batch \in 1..Len(batch) /\ Atomic(cmd[d].batch)
    BY <1>1, <1>8, CommandBatch
  <2>3. JobsOf(cmd[d].batch)' = JobsOf(cmd[d].batch)
    BY <1>2, <1>3, <2>1, <2>2 DEF AtomicKept, JobsOf, Jobs
  <2> QED  BY <2>1, <2>2, <2>3 DEF AtomicKept
<1>9. ASSUME pc[d] \in {"s_claim", "s_publish", "s_seal"}
      PROVE  LET b == cmd[d].batch IN
             /\ batch'[b].exists /\ ~batch'[b].sealed
             /\ AreRows(JobsOf(b), cmd[d].rows, DOMAIN cmd[d].rows \ cmd[d].todo)'
             /\ \A j \in JobsOf(b)' : j \in pending' \/ (pc[d] = "s_publish" /\ j = cmd[d].found)
  <2>1. \A j \in JobsOf(cmd[d].batch) : j \in Jobs
    BY DEF JobsOf
  <2> QED  BY <1>1, <1>2, <1>3, <1>8, <1>9, <2>1 DEF BatchKnown, AreRows
<1>10. ASSUME pc[d] \in {"e_publish", "s_publish"}
       PROVE  /\ job'[cmd[d].found].batch = cmd[d].batch
              /\ cmd[d].found \notin (Live \cup Finished)'
  <2>1. /\ cmd[d].found \in Jobs /\ job[cmd[d].found].run \in LockedRuns(d)
        /\ job[cmd[d].found].batch = cmd[d].batch /\ cmd[d].found \notin Live \cup Finished
    BY <1>1, <1>3, <1>10 DEF CommandOK, IndexKnown, BatchKnown, Jobs
  <2>2. cmd[d].found \notin pending' \ pending
    BY <1>1, <2>1, LockedRunsDisjoint DEF StepOf, PendingKept
  <2> QED  BY <1>3, <2>1, <2>2 DEF Live, Finished, BatchStepOf
<1>11. BatchKnown(d)'
  <2>1. pc[d] = "s_seal" => cmd[d].todo = {}
    BY <1>1 DEF BatchKnown
  <2> QED
    BY <1>2, <1>6, <1>7, <1>9, <1>10, <2>1 DEF BatchKnown, Incomplete
<1> QED  BY <1>5, <1>11
-----------------------------------------------------------------------------
(* Writing one batch file. *)
LEMMA BatchEdit ==
  ASSUME IInv, NEW b \in 1..Len(batch), NEW e, batch' = [batch EXCEPT ![b] = e], TypeOK'
  PROVE  /\ Len(batch') = Len(batch) /\ batch'[b] = e
         /\ \A i \in 1..Len(batch) : i # b => batch'[i] = batch[i]
<1>1. batch \in [1..Len(batch) -> BatchFile] /\ Len(batch) \in Nat
  BY LenProperties DEF IInv, TypeOK
<1>2. batch' \in [1..Len(batch') -> BatchFile] /\ Len(batch') \in Nat
  BY LenProperties DEF TypeOK
<1>3. DOMAIN batch' = 1..Len(batch)
  BY <1>1
<1>4. Len(batch') = Len(batch)
  BY <1>1, <1>2, <1>3
<1> QED  BY <1>1, <1>4

(* A step that keeps atomic batches as they are keeps what is said of them: *)
(* the jobs it publishes are of batches that are there, and those it takes  *)
(* away are of batches that were never sealed.                              *)
LEMMA PlainBatches ==
  ASSUME BInv, IInv', NEW c \in Clients, StepOf(c),
         \A b \in 1..Len(batch) : Atomic(b) => batch'[b] = batch[b],
         \A b \in 1..Len(batch) : ~Atomic(b) => batch'[b].exists = batch[b].exists,
         \A b \in 1..Len(batch') : b > Len(batch) => batch'[b].spec = NoSpec /\ batch'[b].exists,
         \A j \in pending' \ pending : batch[job[j].batch].exists,
         \A j \in pending \ pending' : Atomic(job[j].batch) /\ ~batch[job[j].batch].sealed
  PROVE  BatchesOK'
<1>1. IInv /\ BatchesOK /\ UNCHANGED <<dispatched, completed, failed>>
  BY DEF BInv, StepOf
<1>2. /\ Len(job) \in Nat /\ Len(batch) \in Nat /\ Len(job') \in Nat /\ Len(batch') \in Nat
      /\ Len(job) <= Len(job') /\ Len(batch) <= Len(batch')
      /\ \A j \in Jobs : job'[j] = job[j]
      /\ \A b \in 1..Len(batch) : batch'[b].spec = batch[b].spec
  BY <1>1 DEF StepOf, JobsKept, BatchesKept, IInv, TypeOK, Jobs
<1>3. \A b \in 1..Len(batch') : Atomic(b)' => b \in 1..Len(batch) /\ Atomic(b) /\ batch'[b] = batch[b]
  BY <1>2 DEF Atomic
<1>4. \A b \in 1..Len(batch') : ~batch'[b].exists => Atomic(b)' /\ ~batch'[b].sealed
  BY <1>1, <1>2 DEF BatchesOK, Atomic
<1>5. LiveJobHasBatch'
  <2> SUFFICES ASSUME NEW j \in Live'  PROVE  batch'[job'[j].batch].exists
    BY DEF LiveJobHasBatch
  <2>1. j \in Jobs /\ job'[j] = job[j] /\ job[j].batch \in 1..Len(batch)
    BY <1>1, <1>2, Positions DEF Live, StepOf, PendingKept
  <2>2. batch[job[j].batch].exists
    BY <1>1 DEF Live, BatchesOK, LiveJobHasBatch
  <2> QED  BY <2>1, <2>2
<1>6. OneBatchPerSpec'
  <2> SUFFICES ASSUME NEW a \in Batches', NEW b \in Batches', Atomic(a)', batch'[a].spec = batch'[b].spec
               PROVE  a = b
    BY DEF OneBatchPerSpec
  <2>1. a \in 1..Len(batch') /\ b \in 1..Len(batch') /\ Atomic(b)'
    BY DEF Batches, Atomic
  <2> QED
    BY <1>1, <1>3, <2>1 DEF BatchesOK, OneBatchPerSpec, Batches
<1>7. ASSUME NEW b \in 1..Len(batch'), Atomic(b)', batch'[b].sealed
      PROVE  /\ batch'[b].jobs \subseteq (JobsOf(b) \cap (Live \cup Finished))'
             /\ AreRows(batch[b].jobs, batch[b].spec, DOMAIN batch[b].spec)'
  <2>1. b \in 1..Len(batch) /\ Atomic(b) /\ batch'[b] = batch[b] /\ batch[b].sealed
    BY <1>3, <1>7
  <2>2. /\ batch[b].jobs \subseteq JobsOf(b) \cap (Live \cup Finished)
        /\ AreRows(batch[b].jobs, batch[b].spec, DOMAIN batch[b].spec)
    BY <1>1, <2>1 DEF BatchesOK
  <2>3. \A j \in batch[b].jobs : j \in Jobs' /\ job'[j] = job[j] /\ j \in (Live \cup Finished)'
    BY <1>1, <1>2, <2>1, <2>2 DEF JobsOf, Jobs, Live, Finished
  <2>4. batch'[b].jobs \subseteq (JobsOf(b) \cap (Live \cup Finished))'
    BY <2>1, <2>2, <2>3 DEF JobsOf
  <2>5. AreRows(batch[b].jobs, batch[b].spec, DOMAIN batch[b].spec)'
    BY <2>1, <2>2, <2>3 DEF AreRows
  <2> QED  BY <2>4, <2>5
<1> QED  BY <1>4, <1>5, <1>6, <1>7 DEF BatchesOK

(* No client touches what the daemon records, if the job it publishes is    *)
(* not yet anywhere.                                                        *)
LEMMA PlacedStep ==
  ASSUME BInv, NEW c \in Clients, StepOf(c), UNCHANGED <<service, daemonCrashes>>,
         (pending' \ pending) \cap (Live \cup Finished) = {}
  PROVE  JobsPlaced'
<1>1. held'[Daemon] = held[Daemon]
  BY DaemonAssumption DEF StepOf, OthersKept, Processes
<1>2. UNCHANGED <<dispatched, completed, failed, recorded, daemon>>
  BY DEF StepOf, service
<1> QED  BY <1>1, <1>2 DEF BInv, JobsPlaced, Live, Finished, SubmissionLock

(* What every case below is to show. *)
BatchGood(c) ==
  BatchStepOf(c) /\ BatchLocksHeld(c)' /\ BatchKnown(c)' /\ BatchesOK' /\ JobsPlaced'

(* A step that writes neither jobs nor batches. *)
LEMMA QuietBatch ==
  ASSUME BInv, IInv', NEW c \in Clients, StepOf(c),
         UNCHANGED <<job, batch, pending, service, daemonCrashes>>
  PROVE  BatchStepOf(c) /\ BatchesOK' /\ JobsPlaced'
<1>1. Len(job) \in Nat /\ Len(batch) \in Nat
  BY DEF BInv, IInv, TypeOK
<1>2. UNCHANGED <<dispatched, completed, failed, recorded, daemon>>
  BY DEF StepOf, service
<1>3. AtomicKept
  BY <1>1 DEF AtomicKept
<1>4. BatchStepOf(c)
  BY <1>2, <1>3 DEF BatchStepOf
<1>5. BatchesOK'
  BY <1>1, PlainBatches
<1>6. JobsPlaced'
  BY PlacedStep
<1> QED  BY <1>4, <1>5, <1>6

(* A command that has returned knows nothing. *)
LEMMA IdleBatch ==
  ASSUME NEW c \in Clients, pc'[c] = "idle"
  PROVE  BatchLocksHeld(c)' /\ BatchKnown(c)'
BY DEF BatchLocksHeld, BatchKnown, HoldsSubmission, HoldsBatch, HoldsRun, HoldsRuns

(* An enqueue-run that has the lock of its batch keeps it. *)
LEMMA KeepsBatch ==
  ASSUME NEW c \in Clients, BatchLocksHeld(c), pc[c] \in HoldsBatch, pc'[c] \in HoldsBatch \ {"e_publish"},
         cmd'[c].batch = cmd[c].batch, held'[c] = held[c], batch' = batch
  PROVE  BatchLocksHeld(c)' /\ BatchKnown(c)'
BY DEF BatchLocksHeld, BatchKnown, HoldsSubmission, HoldsBatch, HoldsRun, HoldsRuns, BatchLock

(* The jobs of a batch of new-batch may be written while its lock is held. *)
LEMMA JobsWrite ==
  ASSUME BInv, TypeOK', IInv', NEW c \in Clients, StepOf(c), pc[c] \in HoldsBatch, NEW J,
         batch' \in {batch, [batch EXCEPT ![cmd[c].batch].jobs = J]},
         UNCHANGED <<job, pending, service, daemonCrashes>>
  PROVE  BatchStepOf(c) /\ BatchesOK' /\ JobsPlaced'
<1> DEFINE b == cmd[c].batch
           e == [batch[b] EXCEPT !.jobs = J]
<1>1. CASE batch' = batch
  BY <1>1, QuietBatch
<1>2. CASE batch' = [batch EXCEPT ![cmd[c].batch].jobs = J]
  <2>1. b \in 1..Len(batch) /\ ~Atomic(b) /\ IInv /\ Len(job) \in Nat /\ Len(batch) \in Nat
    BY CommandBatch DEF BInv, HoldsBatch, IInv, TypeOK
  <2>2. batch[b] \in BatchFile
    BY <2>1, Positions
  <2>3. batch' = [batch EXCEPT ![b] = e]
    BY <1>2
  <2>4. e.sealed = batch[b].sealed /\ e.exists = batch[b].exists /\ e.spec = batch[b].spec
    BY <2>2 DEF BatchFile
  <2> HIDE DEF e, b
  <2>5. /\ Len(batch') = Len(batch) /\ batch'[b] = e
        /\ \A i \in 1..Len(batch) : i # b => batch'[i] = batch[i]
    BY <2>1, <2>3, BatchEdit
  <2>6. AtomicKept
    BY <2>1, <2>5 DEF AtomicKept
  <2>7. BatchStepOf(c)
    BY <2>4, <2>5, <2>6 DEF BatchStepOf, StepOf, service
  <2>8. BatchesOK'
    BY <2>1, <2>4, <2>5, <2>6, PlainBatches DEF AtomicKept
  <2> QED  BY <2>7, <2>8, PlacedStep
<1> QED  BY <1>1, <1>2

(* Every step of enqueue-run. *)
LEMMA BatchEnqueue ==
  ASSUME BInv, TypeOK', IInv', NEW c \in Clients, StepOf(c), EnqueueStep(c),
         UNCHANGED <<done, service, crashes>>
  PROVE  BatchGood(c)
<1> USE DEF At, Goto, BatchGood
<1>1. /\ IInv /\ TypeOK /\ BatchLocksHeld(c) /\ BatchKnown(c) /\ CommandOK(c) /\ BatchesOK
      /\ c \in Processes /\ cmd[c] \in Command /\ Len(job) \in Nat /\ Len(batch) \in Nat
      /\ daemonCrashes' = daemonCrashes
  BY DEF BInv, IInv, ClientInv, TypeOK, Processes, crashes
<1>2. CASE EnqueueLockRun(c)
  <2>1. pc'[c] = "e_batch" /\ UNCHANGED <<job, batch, pending>>
    BY <1>1, <1>2 DEF EnqueueLockRun, TypeOK
  <2>2. BatchLocksHeld(c)' /\ BatchKnown(c)'
    BY <2>1 DEF BatchLocksHeld, BatchKnown, HoldsSubmission, HoldsBatch, HoldsRun, HoldsRuns
  <2> QED  BY <1>1, <2>1, <2>2, QuietBatch
<1>3. CASE EnqueueLockBatch(c)
  <2>1. CASE Exit(c)
    <3>1. pc'[c] = "idle" /\ UNCHANGED <<job, batch, pending>>
      BY <1>1, <1>3, <2>1 DEF EnqueueLockBatch, Exit, TypeOK
    <3> QED  BY <1>1, <3>1, QuietBatch, IdleBatch
  <2>2. CASE Take(c, BatchLock(cmd[c].batch)) /\ ~batch[cmd[c].batch].sealed /\ Goto(c, "e_index") /\ UNCHANGED cmd
    <3>1. /\ pc'[c] = "e_index" /\ cmd' = cmd /\ UNCHANGED <<job, batch, pending>>
          /\ BatchLock(cmd[c].batch) \in held'[c]
      BY <1>1, <1>3, <2>2 DEF EnqueueLockBatch, Take, TypeOK
    <3>2. BatchLocksHeld(c)' /\ BatchKnown(c)'
      BY <2>2, <3>1 DEF BatchLocksHeld, BatchKnown, HoldsSubmission, HoldsBatch, HoldsRun, HoldsRuns, BatchLock
    <3> QED  BY <1>1, <3>1, <3>2, QuietBatch
  <2> QED  BY <1>3, <2>1, <2>2 DEF EnqueueLockBatch
<1>4. CASE LookPending(c) \/ LookDispatched(c) \/ ScanPending(c) \/ ScanDispatched(c)
  <2>1. /\ pc[c] \in HoldsBatch /\ UNCHANGED <<job, batch, pending, held>>
        /\ pc'[c] \in {"e_index", "e_attach", "e_scan_pending", "e_scan_dispatched", "e_dispatched", "e_claim"}
        /\ cmd'[c].batch = cmd[c].batch
    <3>1. CASE LookPending(c)
      BY <1>1, <3>1 DEF LookPending, HoldsBatch, HoldsRun, TypeOK, Command
    <3>2. CASE LookDispatched(c)
      BY <1>1, <3>2 DEF LookDispatched, HoldsBatch, HoldsRun, TypeOK, Command
    <3>3. CASE ScanPending(c)
      BY <1>1, <3>3 DEF ScanPending, Scan, HoldsBatch, HoldsRun, TypeOK, Command
    <3>4. CASE ScanDispatched(c)
      BY <1>1, <3>4 DEF ScanDispatched, Scan, HoldsBatch, HoldsRun, TypeOK, Command
    <3> QED  BY <1>4, <3>1, <3>2, <3>3, <3>4
  <2>2. pc'[c] \in HoldsBatch \ {"e_publish"}
    BY <2>1 DEF HoldsBatch, HoldsRun
  <2> QED  BY <1>1, <2>1, <2>2, QuietBatch, KeepsBatch
<1>5. CASE EnqueueAttach(c) \/ EnqueueRecord(c)
  <2>1. /\ pc[c] \in HoldsBatch /\ pc'[c] = "idle" /\ UNCHANGED <<job, pending>>
        /\ \E J : batch' \in {batch, [batch EXCEPT ![cmd[c].batch].jobs = J]}
    <3>1. CASE EnqueueAttach(c)
      BY <1>1, <3>1 DEF EnqueueAttach, Exit, HoldsBatch, HoldsRun, TypeOK
    <3>2. CASE EnqueueRecord(c)
      BY <1>1, <3>2 DEF EnqueueRecord, Exit, HoldsBatch, HoldsRun, TypeOK
    <3> QED  BY <1>5, <3>1, <3>2
  <2> QED  BY <1>1, <2>1, JobsWrite, IdleBatch
<1>6. CASE EnqueueClaim(c)
  <2>1. PICK r \in cmd[c].todo : Claim(c, r)
    BY <1>6 DEF EnqueueClaim
  <2>2. /\ pc[c] = "e_claim" /\ pc'[c] = "e_publish" /\ UNCHANGED <<batch, pending, held>>
        /\ cmd'[c].found = Len(job) + 1 /\ cmd'[c].batch = cmd[c].batch
    BY <1>1, <1>6 DEF EnqueueClaim, TypeOK, Command
  <2>3. /\ Len(job') = Len(job) + 1 /\ job'[Len(job) + 1].batch = cmd[c].batch
    BY <1>1, <2>1 DEF Claim, TypeOK
  <2>4. cmd[c].batch \in 1..Len(batch) /\ ~Atomic(cmd[c].batch)
    BY <1>1, <2>2, CommandBatch DEF HoldsBatch, HoldsRun
  <2>5. AtomicKept
    BY <1>1, <2>2, <2>3, <2>4 DEF AtomicKept
  <2>6. BatchStepOf(c)
    BY <2>2, <2>5 DEF BatchStepOf, StepOf, service, crashes
  <2>7. BatchLocksHeld(c)'
    BY <1>1, <2>2 DEF BatchLocksHeld, HoldsSubmission, HoldsBatch, HoldsRun, HoldsRuns, BatchLock
  <2>8. Len(job) + 1 \notin (Live \cup Finished)'
    <3>1. Live \cup Finished \subseteq 1..Len(job)
      BY <1>1, Positions DEF Jobs
    <3>2. (Live \cup Finished)' = Live \cup Finished
      BY <2>2 DEF Live, Finished, done
    <3> QED  BY <1>1, <3>1, <3>2
  <2>9. BatchKnown(c)'
    BY <2>2, <2>3, <2>8 DEF BatchKnown
  <2>10. BatchesOK'
    BY <1>1, <2>2, <2>5, PlainBatches DEF AtomicKept
  <2> QED  BY <1>1, <2>2, <2>6, <2>7, <2>9, <2>10, PlacedStep
<1>7. CASE EnqueuePublish(c)
  <2>1. /\ pc[c] = "e_publish" /\ pc'[c] = "e_record" /\ pending' = pending \cup {cmd[c].found}
        /\ cmd' = cmd /\ UNCHANGED <<job, batch, held>>
    BY <1>1, <1>7 DEF EnqueuePublish, TypeOK
  <2>2. /\ cmd[c].batch \in 1..Len(batch) /\ ~Atomic(cmd[c].batch)
        /\ job[cmd[c].found].batch = cmd[c].batch /\ cmd[c].found \notin Live \cup Finished
    BY <1>1, <2>1, CommandBatch DEF BatchKnown, HoldsBatch, HoldsRun
  <2>3. batch[cmd[c].batch].exists
    BY <1>1, <2>2 DEF BatchesOK
  <2>4. BatchStepOf(c)
    BY <1>1, <2>1 DEF BatchStepOf, AtomicKept, StepOf, service, crashes
  <2>5. BatchLocksHeld(c)' /\ BatchKnown(c)'
    BY <1>1, <2>1, KeepsBatch DEF HoldsBatch, HoldsRun
  <2>6. BatchesOK'
    BY <1>1, <2>1, <2>2, <2>3, PlainBatches
  <2>7. JobsPlaced'
    BY <1>1, <2>1, <2>2, PlacedStep
  <2> QED  BY <2>4, <2>5, <2>6, <2>7
<1> QED  BY <1>2, <1>3, <1>4, <1>5, <1>6, <1>7 DEF EnqueueStep

(* A submit-batch that has the submission lock keeps it. *)
LEMMA KeepsSubmission ==
  ASSUME NEW c \in Clients, pc'[c] \in HoldsSubmission, SubmissionLock \in held'[c]
  PROVE  BatchLocksHeld(c)'
BY DEF BatchLocksHeld, HoldsSubmission, HoldsBatch, HoldsRun, HoldsRuns, SubmissionLock

(* Every step of submit-batch and find-batch up to the new batch. *)
LEMMA BatchSubmit ==
  ASSUME BInv, TypeOK', IInv', NEW c \in Clients, StepOf(c), UNCHANGED <<done, service, crashes>>,
         \/ SubmitLock(c) \/ SubmitLockRun(c)
         \/ RecoverPending(c) \/ RecoverStable(c) \/ RecoverBatch(c) \/ Recovered(c)
         \/ SubmitMatch(c) \/ SubmitCheckRun(c) \/ SubmitBatch(c)
  PROVE  BatchGood(c)
<1> USE DEF At, Goto, BatchGood
<1>1. /\ IInv /\ TypeOK /\ BatchLocksHeld(c) /\ BatchKnown(c) /\ CommandOK(c) /\ BatchesOK
      /\ c \in Processes /\ cmd[c] \in Command /\ Len(job) \in Nat /\ Len(batch) \in Nat
      /\ daemonCrashes' = daemonCrashes /\ UNCHANGED <<dispatched, completed, failed>>
  BY DEF BInv, IInv, ClientInv, TypeOK, Processes, crashes, done
<1>2. CASE SubmitLock(c)
  <2>1. /\ pc'[c] = "s_runs" /\ SubmissionLock \in held'[c] /\ UNCHANGED <<job, batch, pending>>
    BY <1>1, <1>2 DEF SubmitLock, Take, TypeOK
  <2>2. BatchKnown(c)'
    BY <2>1 DEF BatchKnown
  <2> QED  BY <1>1, <2>1, <2>2, QuietBatch, KeepsSubmission DEF HoldsSubmission
<1>3. CASE SubmitLockRun(c)
  <2>1. PICK r \in cmd[c].todo : SubmitLockRun(c)!(r)
    BY <1>3 DEF SubmitLockRun
  <2>2. /\ pc[c] = "s_runs" /\ held[c] \subseteq held'[c] /\ UNCHANGED <<job, batch, pending>>
        /\ cmd'[c].find = cmd[c].find
        /\ pc'[c] \in {"s_runs", "s_match", "s_recover"} /\ (pc'[c] = "s_match" => cmd[c].find)
    BY <1>1, <2>1 DEF Take, TypeOK, Command
  <2>3. BatchKnown(c)'
    BY <2>2 DEF BatchKnown
  <2>4. BatchLocksHeld(c)'
    BY <1>1, <2>2, KeepsSubmission DEF BatchLocksHeld, HoldsSubmission, HoldsRuns
  <2> QED  BY <1>1, <2>2, <2>3, <2>4, QuietBatch
<1>4. CASE RecoverStable(c)
  <2>1. pc[c] = "s_recover" /\ pc' = pc /\ held' = held /\ UNCHANGED <<job, batch, pending>>
    BY <1>4 DEF RecoverStable, client
  <2>2. BatchLocksHeld(c)' /\ BatchKnown(c)'
    BY <1>1, <2>1, KeepsSubmission DEF BatchKnown, BatchLocksHeld, HoldsSubmission, HoldsRuns
  <2> QED  BY <1>1, <2>1, <2>2, QuietBatch
<1>5. CASE Recovered(c)
  <2>1. /\ pc[c] = "s_recover" /\ pc'[c] = "s_match" /\ Incomplete(c) = {} /\ cmd' = cmd
        /\ UNCHANGED <<job, batch, pending, held>>
    BY <1>1, <1>5 DEF Recovered, TypeOK
  <2>2. BatchLocksHeld(c)' /\ BatchKnown(c)'
    BY <1>1, <2>1, KeepsSubmission DEF BatchKnown, Incomplete, Batches, BatchLocksHeld, HoldsSubmission, HoldsRuns
  <2> QED  BY <1>1, <2>1, <2>2, QuietBatch
<1>6. CASE SubmitMatch(c)
  <2>1. CASE Exit(c)
    <3>1. pc'[c] = "idle" /\ UNCHANGED <<job, batch, pending>>
      BY <1>1, <1>6, <2>1 DEF SubmitMatch, Exit, TypeOK
    <3> QED  BY <1>1, <3>1, QuietBatch, IdleBatch
  <2>2. CASE ~Exit(c)
    <3>1. /\ pc[c] = "s_match" /\ Matching(c) = {} /\ ~cmd[c].find /\ pc'[c] = "s_check"
          /\ cmd'[c].rows = cmd[c].rows /\ UNCHANGED <<job, batch, pending, held>>
      BY <1>1, <1>6, <2>2 DEF SubmitMatch, TypeOK, Command
    <3>2. \A b \in Batches : batch[b].spec # cmd[c].rows
      BY <1>1, <3>1 DEF BatchKnown, Matching, Incomplete
    <3>3. BatchLocksHeld(c)' /\ BatchKnown(c)'
      BY <1>1, <3>1, <3>2, KeepsSubmission DEF BatchKnown, Batches, BatchLocksHeld, HoldsSubmission, HoldsRuns
    <3> QED  BY <1>1, <3>1, <3>3, QuietBatch
  <2> QED  BY <2>1, <2>2
<1>7. CASE SubmitCheckRun(c)
  <2>1. PICK r \in cmd[c].todo : SubmitCheckRun(c)!(r)
    BY <1>7 DEF SubmitCheckRun
  <2>2. CASE Exit(c)
    <3>1. pc'[c] = "idle" /\ UNCHANGED <<job, batch, pending>>
      BY <1>1, <2>1, <2>2 DEF Exit, TypeOK
    <3> QED  BY <1>1, <3>1, QuietBatch, IdleBatch
  <2>3. CASE ~Exit(c)
    <3>1. /\ pc[c] = "s_check" /\ pc'[c] \in {"s_check", "s_batch"}
          /\ cmd'[c].rows = cmd[c].rows /\ UNCHANGED <<job, batch, pending, held>>
      BY <1>1, <2>1, <2>3 DEF TypeOK, Command
    <3>2. BatchLocksHeld(c)' /\ BatchKnown(c)'
      BY <1>1, <3>1, KeepsSubmission DEF BatchKnown, Batches, BatchLocksHeld, HoldsSubmission, HoldsRuns
    <3> QED  BY <1>1, <3>1, <3>2, QuietBatch
  <2> QED  BY <2>2, <2>3
<1>8. CASE RecoverPending(c)
  <2>1. PICK b \in Incomplete(c) : \E j \in OwnedPending(b) : pending' = pending \ {j}
    BY <1>8 DEF RecoverPending
  <2> PICK j \in OwnedPending(b) : pending' = pending \ {j}
    BY <2>1
  <2>2. pc[c] = "s_recover" /\ pc' = pc /\ held' = held /\ UNCHANGED <<job, batch>>
    BY <1>8 DEF RecoverPending, client
  <2>3. j \in pending /\ Atomic(job[j].batch) /\ ~batch[job[j].batch].sealed
    BY <1>1, <2>2, <2>1, NoSpecAssumption DEF OwnedPending, Incomplete, CommandOK, HoldsRuns, Atomic
  <2>4. SubmissionLock \in held[c]
    BY <1>1, <2>2 DEF BatchLocksHeld, HoldsSubmission, HoldsRuns
  <2>5. BatchStepOf(c)
    BY <1>1, <2>2, <2>4 DEF BatchStepOf, service
  <2>6. BatchLocksHeld(c)' /\ BatchKnown(c)'
    BY <2>2, <2>4, KeepsSubmission DEF BatchKnown, HoldsSubmission, HoldsRuns
  <2>7. BatchesOK'
    BY <1>1, <2>1, <2>2, <2>3, PlainBatches
  <2>8. JobsPlaced'
    BY <1>1, <2>1, PlacedStep
  <2> QED  BY <2>5, <2>6, <2>7, <2>8
<1>9. CASE RecoverBatch(c)
  <2>1. PICK b \in Incomplete(c) :
          OwnedPending(b) = {} /\ OwnedStable(b) = {} /\ batch' = [batch EXCEPT ![b].exists = FALSE]
    BY <1>9 DEF RecoverBatch
  <2>2. pc[c] = "s_recover" /\ pc' = pc /\ held' = held /\ UNCHANGED <<job, pending>>
    BY <1>9 DEF RecoverBatch, client
  <2>3. b \in 1..Len(batch) /\ Atomic(b) /\ ~batch[b].sealed /\ batch[b].exists /\ batch[b] \in BatchFile
    BY <1>1, <2>1, <2>2, NoSpecAssumption, Positions
       DEF Incomplete, Batches, CommandOK, HoldsRuns, Atomic
  <2> DEFINE e == [batch[b] EXCEPT !.exists = FALSE]
  <2>4. batch' = [batch EXCEPT ![b] = e] /\ ~e.exists /\ ~e.sealed /\ e.spec = batch[b].spec
    BY <2>1, <2>3 DEF BatchFile
  <2> HIDE DEF e
  <2>5. /\ Len(batch') = Len(batch) /\ batch'[b] = e
        /\ \A i \in 1..Len(batch) : i # b => batch'[i] = batch[i]
    BY <1>1, <2>3, <2>4, BatchEdit
  <2>6. SubmissionLock \in held[c]
    BY <1>1, <2>2 DEF BatchLocksHeld, HoldsSubmission, HoldsRuns
  <2>7. BatchStepOf(c)
    BY <1>1, <2>3, <2>5, <2>6 DEF BatchStepOf, service
  <2>8. BatchLocksHeld(c)' /\ BatchKnown(c)'
    BY <2>2, <2>6, KeepsSubmission DEF BatchKnown, HoldsSubmission, HoldsRuns
  <2>9. \A j \in Live : j \in Jobs /\ job[j].batch \in 1..Len(batch) /\ job[j].batch # b
    <3>1. \A j \in Live : j \in Jobs /\ job[j].batch \in 1..Len(batch)
      BY <1>1, Positions
    <3>2. \A j \in pending : job[j].batch # b
      BY <2>1 DEF OwnedPending
    <3>3. \A j \in dispatched : job[j].batch # b
      BY <1>1, <2>3 DEF IInv, StoreInv, JobsOfBatches
    <3> QED  BY <3>1, <3>2, <3>3 DEF Live
  <2>10. BatchesOK'
    <3>1. \A i \in 1..Len(batch') : ~batch'[i].exists => Atomic(i)' /\ ~batch'[i].sealed
      BY <1>1, <2>3, <2>4, <2>5 DEF BatchesOK, Atomic
    <3>2. LiveJobHasBatch'
      BY <1>1, <2>2, <2>5, <2>9 DEF BatchesOK, LiveJobHasBatch, Live
    <3>3. OneBatchPerSpec'
      BY <1>1, <2>3, <2>4, <2>5 DEF BatchesOK, OneBatchPerSpec, Batches, Atomic
    <3>4. ASSUME NEW i \in 1..Len(batch'), Atomic(i)', batch'[i].sealed
          PROVE  /\ batch'[i].jobs \subseteq (JobsOf(i) \cap (Live \cup Finished))'
                 /\ AreRows(batch[i].jobs, batch[i].spec, DOMAIN batch[i].spec)'
      BY <1>1, <2>2, <2>4, <2>5, <3>4 DEF BatchesOK, Atomic, AreRows, JobsOf, Jobs, Live, Finished
    <3> QED  BY <3>1, <3>2, <3>3, <3>4 DEF BatchesOK
  <2> QED  BY <1>1, <2>2, <2>7, <2>8, <2>10, PlacedStep
<1>10. CASE SubmitBatch(c)
  <2> DEFINE e == [spec |-> cmd[c].rows, jobs |-> {}, sealed |-> FALSE, exists |-> TRUE]
             new == Len(batch) + 1
  <2>1. /\ pc[c] = "s_batch" /\ pc'[c] = "s_claim" /\ held' = held /\ UNCHANGED <<job, pending>>
        /\ cmd'[c].rows = cmd[c].rows /\ cmd'[c].todo = DOMAIN cmd[c].rows /\ cmd'[c].batch = new
        /\ batch' = Append(batch, e)
    BY <1>1, <1>10 DEF SubmitBatch, TypeOK, Command
  <2>2. e.spec = cmd[c].rows /\ ~e.sealed /\ e.exists /\ new \notin 1..Len(batch)
    BY <1>1
  <2> HIDE DEF e
  <2>3. /\ Len(batch') = new /\ batch'[new] = e /\ new \in 1..Len(batch')
        /\ \A i \in 1..Len(batch) : batch'[i] = batch[i]
        /\ \A i \in 1..Len(batch') : i = new \/ i \in 1..Len(batch)
    BY <1>1, <2>1 DEF TypeOK
  <2> HIDE DEF new
  <2>4. SubmissionLock \in held[c]
    BY <1>1, <2>1 DEF BatchLocksHeld, HoldsSubmission, HoldsRuns
  <2>5. BatchStepOf(c)
    BY <1>1, <2>3, <2>4 DEF BatchStepOf, service
  <2>6. \A j \in Jobs : job[j].batch # new
    BY <1>1, <2>2, Positions
  <2>7. BatchLocksHeld(c)' /\ BatchKnown(c)'
    <3>1. BatchLocksHeld(c)'
      BY <2>1, <2>4, KeepsSubmission DEF HoldsSubmission, HoldsRuns
    <3>2. JobsOf(cmd[c].batch)' = {}
      BY <2>1, <2>6 DEF JobsOf, Jobs
    <3>3. AreRows(JobsOf(cmd[c].batch), cmd[c].rows, DOMAIN cmd[c].rows \ cmd[c].todo)'
      BY <2>1, <3>2 DEF AreRows
    <3>4. BatchKnown(c)'
      BY <2>1, <2>2, <2>3, <3>2, <3>3 DEF BatchKnown
    <3> QED  BY <3>1, <3>4
  <2>8. BatchesOK'
    <3>1. \A i \in 1..Len(batch') : ~batch'[i].exists => Atomic(i)' /\ ~batch'[i].sealed
      BY <1>1, <2>2, <2>3 DEF BatchesOK, Atomic
    <3>2. LiveJobHasBatch'
      <4>1. \A j \in Live : job[j].batch \in 1..Len(batch)
        BY <1>1, Positions
      <4> QED  BY <1>1, <2>1, <2>3, <4>1 DEF BatchesOK, LiveJobHasBatch, Live
    <3>3. OneBatchPerSpec'
      <4>1. \A b \in Batches : batch[b].spec # cmd[c].rows
        BY <1>1, <2>1 DEF BatchKnown
      <4> QED  BY <1>1, <2>2, <2>3, <4>1 DEF BatchesOK, OneBatchPerSpec, Batches, Atomic
    <3>4. ASSUME NEW i \in 1..Len(batch'), Atomic(i)', batch'[i].sealed
          PROVE  /\ batch'[i].jobs \subseteq (JobsOf(i) \cap (Live \cup Finished))'
                 /\ AreRows(batch[i].jobs, batch[i].spec, DOMAIN batch[i].spec)'
      BY <1>1, <2>1, <2>2, <2>3, <3>4 DEF BatchesOK, Atomic, AreRows, JobsOf, Jobs, Live, Finished
    <3> QED  BY <3>1, <3>2, <3>3, <3>4 DEF BatchesOK
  <2> QED  BY <1>1, <2>1, <2>5, <2>7, <2>8, PlacedStep
<1> QED  BY <1>2, <1>3, <1>4, <1>5, <1>6, <1>7, <1>8, <1>9, <1>10

(* The steps of submit-batch on its own batch: a claimed row, its pending   *)
(* file, and the seal once every row is pending.                            *)
LEMMA BatchFill ==
  ASSUME BInv, TypeOK', IInv', NEW c \in Clients, StepOf(c), UNCHANGED <<done, service, crashes>>,
         SubmitClaim(c) \/ SubmitPublish(c) \/ SubmitSeal(c)
  PROVE  BatchGood(c)
<1> USE DEF At, Goto, BatchGood
<1> DEFINE b == cmd[c].batch
<1>1. /\ IInv /\ TypeOK /\ BatchLocksHeld(c) /\ BatchKnown(c) /\ CommandOK(c) /\ BatchesOK
      /\ c \in Processes /\ cmd[c] \in Command /\ Len(job) \in Nat /\ Len(batch) \in Nat
      /\ daemonCrashes' = daemonCrashes /\ UNCHANGED <<dispatched, completed, failed>>
  BY DEF BInv, IInv, ClientInv, TypeOK, Processes, crashes, done
<1>2. /\ pc[c] \in {"s_claim", "s_publish", "s_seal"} /\ SubmissionLock \in held[c]
      /\ b \in 1..Len(batch) /\ Atomic(b) /\ batch[b].spec = cmd[c].rows
      /\ batch[b].exists /\ ~batch[b].sealed
      /\ AreRows(JobsOf(b), cmd[c].rows, DOMAIN cmd[c].rows \ cmd[c].todo)
      /\ \A j \in JobsOf(b) : j \in pending \/ (pc[c] = "s_publish" /\ j = cmd[c].found)
  <2>1. pc[c] \in {"s_claim", "s_publish", "s_seal"}
    BY DEF SubmitClaim, SubmitPublish, SubmitSeal
  <2> QED  BY <1>1, <2>1, CommandBatch DEF BatchKnown, BatchLocksHeld, HoldsSubmission, HoldsRuns
<1>3. CASE SubmitClaim(c)
  <2> DEFINE n == Len(job) + 1
  <2>1. PICK r \in cmd[c].todo : SubmitClaim(c)!(r)
    BY <1>3 DEF SubmitClaim
  <2>2. /\ pc[c] = "s_claim" /\ pc'[c] = "s_publish" /\ UNCHANGED <<batch, pending, held>>
        /\ cmd'[c].found = n /\ cmd'[c].todo = cmd[c].todo \ {r}
        /\ cmd'[c].rows = cmd[c].rows /\ cmd'[c].batch = b
    BY <1>1, <2>1 DEF TypeOK, Command
  <2>3. /\ Len(job') = n /\ \A j \in 1..Len(job) : job'[j] = job[j]
        /\ job'[n].run = r /\ job'[n].payload = cmd[c].rows[r] /\ job'[n].batch = b
    BY <1>1, <2>1 DEF Claim, TypeOK
  <2>4. BatchStepOf(c)
    BY <1>1, <1>2, <2>2 DEF BatchStepOf, service
  <2>5. BatchLocksHeld(c)'
    BY <1>2, <2>2, KeepsSubmission DEF HoldsSubmission, HoldsRuns
  <2>6. n \notin (Live \cup Finished)' /\ n \notin Jobs
    <3>1. Live \cup Finished \subseteq 1..Len(job)
      BY <1>1, Positions DEF Jobs
    <3>2. (Live \cup Finished)' = Live \cup Finished
      BY <1>1, <2>2 DEF Live, Finished
    <3> QED  BY <1>1, <3>1, <3>2 DEF Jobs
  <2>7. JobsOf(b) \subseteq Jobs /\ JobsOf(cmd[c].batch)' = JobsOf(b) \cup {n}
    BY <1>1, <2>2, <2>3 DEF JobsOf, Jobs
  <2>8. r \in DOMAIN cmd[c].rows /\ r \in cmd[c].todo
    BY <1>1 DEF Command
  <2>9. \A j \in JobsOf(b) : job'[j] = job[j]
    BY <2>3, <2>7 DEF Jobs
  <2>10. AreRows(JobsOf(cmd[c].batch), cmd[c].rows, DOMAIN cmd[c].rows \ cmd[c].todo)'
    <3> DEFINE S == JobsOf(b) \cup {n}
               done1 == DOMAIN cmd[c].rows \ (cmd[c].todo \ {r})
    <3>1. \A j \in S : job'[j].run \in done1 /\ job'[j].payload = cmd[c].rows[job'[j].run]
      BY <1>2, <2>3, <2>8, <2>9 DEF AreRows
    <3>2. \A q \in done1 : \E j \in S : job'[j].run = q
      BY <1>2, <2>3, <2>9 DEF AreRows
    <3>3. \A j, k \in S : job'[j].run = job'[k].run => j = k
      BY <1>2, <2>3, <2>8, <2>9 DEF AreRows
    <3> QED  BY <2>2, <2>7, <3>1, <3>2, <3>3 DEF AreRows
  <2>11. \A j \in JobsOf(cmd[c].batch)' : j \in pending' \/ j = n
    BY <1>2, <2>2, <2>7
  <2>12. BatchKnown(c)'
    BY <1>2, <2>2, <2>3, <2>6, <2>10, <2>11 DEF BatchKnown
  <2>13. BatchesOK'
    BY <1>1, <2>2, PlainBatches
  <2> QED  BY <1>1, <2>2, <2>4, <2>5, <2>12, <2>13, PlacedStep
<1>4. CASE SubmitPublish(c)
  <2>1. /\ pc[c] = "s_publish" /\ pending' = pending \cup {cmd[c].found} /\ cmd' = cmd
        /\ pc'[c] \in {"s_claim", "s_seal"} /\ (pc'[c] = "s_seal" => cmd[c].todo = {})
        /\ UNCHANGED <<job, batch, held>>
    BY <1>1, <1>4 DEF SubmitPublish, TypeOK
  <2>2. job[cmd[c].found].batch = b /\ cmd[c].found \notin Live \cup Finished
    BY <1>1, <2>1 DEF BatchKnown
  <2>3. BatchStepOf(c)
    BY <1>1, <1>2, <2>1 DEF BatchStepOf, service
  <2>4. BatchLocksHeld(c)'
    BY <1>2, <2>1, KeepsSubmission DEF HoldsSubmission, HoldsRuns
  <2>5. JobsOf(b)' = JobsOf(b)
    BY <2>1 DEF JobsOf, Jobs
  <2>6. AreRows(JobsOf(b), cmd[c].rows, DOMAIN cmd[c].rows \ cmd[c].todo)'
    BY <1>2, <2>1, <2>5 DEF AreRows
  <2>7. BatchKnown(c)'
    BY <1>2, <2>1, <2>5, <2>6 DEF BatchKnown
  <2>8. BatchesOK'
    BY <1>1, <1>2, <2>1, <2>2, PlainBatches
  <2>9. JobsPlaced'
    BY <1>1, <2>1, <2>2, PlacedStep
  <2> QED  BY <2>3, <2>4, <2>7, <2>8, <2>9
<1>5. CASE SubmitSeal(c)
  <2> DEFINE e == [batch[b] EXCEPT !.jobs = JobsOf(b), !.sealed = TRUE]
  <2>1. /\ pc[c] = "s_seal" /\ pc'[c] = "idle" /\ UNCHANGED <<job, pending>> /\ batch' = [batch EXCEPT ![b] = e]
    BY <1>1, <1>5 DEF SubmitSeal, Exit, TypeOK, JobsOf
  <2>2. batch[b] \in BatchFile
    BY <1>1, <1>2, Positions
  <2>3. e.sealed /\ e.exists /\ e.spec = batch[b].spec /\ e.jobs = JobsOf(b)
    BY <1>2, <2>2 DEF BatchFile
  <2> HIDE DEF e, b
  <2>4. /\ Len(batch') = Len(batch) /\ batch'[b] = e
        /\ \A i \in 1..Len(batch) : i # b => batch'[i] = batch[i]
    BY <1>1, <1>2, <2>1, BatchEdit
  <2>5. BatchStepOf(c)
    BY <1>1, <1>2, <2>4 DEF BatchStepOf, service
  <2>6. cmd[c].todo = {}
    BY <1>1, <2>1 DEF BatchKnown
  <2>7. BatchesOK'
    <3>1. \A i \in 1..Len(batch') : ~batch'[i].exists => Atomic(i)' /\ ~batch'[i].sealed
      BY <1>1, <2>3, <2>4 DEF BatchesOK, Atomic
    <3>2. LiveJobHasBatch'
      <4>1. \A j \in Live : j \in Jobs /\ job[j].batch \in 1..Len(batch)
        BY <1>1, Positions
      <4> QED  BY <1>1, <2>1, <2>3, <2>4, <4>1 DEF BatchesOK, LiveJobHasBatch, Live
    <3>3. OneBatchPerSpec'
      BY <1>1, <1>2, <2>3, <2>4 DEF BatchesOK, OneBatchPerSpec, Batches, Atomic
    <3>4. ASSUME NEW i \in 1..Len(batch'), Atomic(i)', batch'[i].sealed, i # b
          PROVE  /\ batch'[i].jobs \subseteq (JobsOf(i) \cap (Live \cup Finished))'
                 /\ AreRows(batch[i].jobs, batch[i].spec, DOMAIN batch[i].spec)'
      BY <1>1, <2>1, <2>4, <3>4 DEF BatchesOK, Atomic, AreRows, JobsOf, Jobs, Live, Finished
    <3>5. /\ batch'[b].jobs \subseteq (JobsOf(b) \cap (Live \cup Finished))
          /\ JobsOf(b) \subseteq pending
      BY <1>2, <2>1, <2>3, <2>4 DEF b, Live
    <3>6. AreRows(batch'[b].jobs, batch'[b].spec, DOMAIN batch'[b].spec)
      BY <1>2, <2>3, <2>4, <2>6 DEF AreRows, b
    <3>7. ASSUME NEW i \in 1..Len(batch'), i = b
          PROVE  /\ batch'[i].jobs \subseteq (JobsOf(i) \cap (Live \cup Finished))'
                 /\ AreRows(batch[i].jobs, batch[i].spec, DOMAIN batch[i].spec)'
      BY <1>1, <2>1, <3>5, <3>6, <3>7 DEF AreRows, JobsOf, Jobs, Live, Finished
    <3> QED  BY <3>1, <3>2, <3>3, <3>4, <3>7 DEF BatchesOK
  <2> QED  BY <1>1, <2>1, <2>5, <2>7, PlacedStep, IdleBatch
<1> QED  BY <1>3, <1>4, <1>5

(* The first step of a command, new-batch and seal-batch. *)
LEMMA BatchStart ==
  ASSUME BInv, TypeOK', IInv', NEW c \in Clients, StepOf(c), UNCHANGED <<done, service, crashes>>,
         EnqueueStart(c) \/ SubmitStart(c) \/ NewBatch(c) \/ SealBatch(c)
  PROVE  BatchGood(c)
<1> USE DEF At, Goto, BatchGood
<1>1. /\ IInv /\ TypeOK /\ BatchesOK /\ c \in Processes
      /\ Len(job) \in Nat /\ Len(batch) \in Nat /\ daemonCrashes' = daemonCrashes
  BY DEF BInv, IInv, TypeOK, Processes, crashes
<1>2. CASE EnqueueStart(c) \/ SubmitStart(c)
  <2>1. pc'[c] \in {"e_stable", "s_lock"} /\ UNCHANGED <<job, batch, pending>>
    BY <1>1, <1>2 DEF EnqueueStart, SubmitStart, Begin, TypeOK
  <2>2. BatchLocksHeld(c)' /\ BatchKnown(c)'
    BY <2>1 DEF BatchLocksHeld, BatchKnown, HoldsSubmission, HoldsBatch, HoldsRun, HoldsRuns
  <2> QED  BY <1>1, <2>1, <2>2, QuietBatch
<1>3. CASE NewBatch(c)
  <2> DEFINE e == [spec |-> NoSpec, jobs |-> {}, sealed |-> FALSE, exists |-> TRUE]
  <2>1. pc'[c] = "idle" /\ batch' = Append(batch, e) /\ UNCHANGED <<job, pending>>
    BY <1>1, <1>3 DEF NewBatch, client
  <2>2. e.spec = NoSpec /\ e.exists
    OBVIOUS
  <2> HIDE DEF e
  <2>3. /\ Len(batch') = Len(batch) + 1 /\ batch'[Len(batch) + 1] = e
        /\ \A i \in 1..Len(batch) : batch'[i] = batch[i]
    BY <1>1, <2>1 DEF TypeOK
  <2>4. \A i \in 1..Len(batch') : i > Len(batch) => batch'[i] = e
    BY <1>1, <2>3
  <2>5. AtomicKept
    BY <1>1, <2>1, <2>2, <2>3, <2>4 DEF AtomicKept
  <2>6. BatchStepOf(c)
    BY <1>1, <2>3, <2>5 DEF BatchStepOf, StepOf, service
  <2>7. BatchesOK'
    BY <1>1, <2>1, <2>2, <2>3, <2>4, PlainBatches
  <2> QED  BY <1>1, <2>1, <2>6, <2>7, PlacedStep, IdleBatch
<1>4. CASE SealBatch(c)
  <2>1. PICK b \in Batches : SealBatch(c)!(b)
    BY <1>4 DEF SealBatch
  <2> DEFINE e == [batch[b] EXCEPT !.sealed = TRUE]
  <2>2. /\ pc'[c] = "idle" /\ batch' = [batch EXCEPT ![b] = e] /\ UNCHANGED <<job, pending>>
        /\ b \in 1..Len(batch) /\ ~Atomic(b) /\ Free(BatchLock(b)) /\ batch[b].exists
    BY <1>1, <2>1 DEF client, Batches
  <2>3. batch[b] \in BatchFile
    BY <1>1, <2>2, Positions
  <2>4. e.exists = batch[b].exists /\ e.spec = batch[b].spec
    BY <2>2, <2>3 DEF BatchFile
  <2> HIDE DEF e
  <2>5. /\ Len(batch') = Len(batch) /\ batch'[b] = e
        /\ \A i \in 1..Len(batch) : i # b => batch'[i] = batch[i]
    BY <1>1, <2>2, BatchEdit
  <2>6. AtomicKept
    BY <1>1, <2>2, <2>5 DEF AtomicKept
  <2>7. BatchStepOf(c)
    BY <1>1, <2>2, <2>4, <2>5, <2>6 DEF BatchStepOf, StepOf, service
  <2>8. BatchesOK'
    <3>1. \A i \in 1..Len(batch) : Atomic(i) => batch'[i] = batch[i]
      BY <2>6 DEF AtomicKept
    <3>2. \A i \in 1..Len(batch) : ~Atomic(i) => batch'[i].exists = batch[i].exists
      BY <2>4, <2>5
    <3>3. \A i \in 1..Len(batch') : i > Len(batch) => FALSE
      BY <1>1, <2>5
    <3> QED  BY <2>2, <3>1, <3>2, <3>3, PlainBatches
  <2> QED  BY <1>1, <2>2, <2>7, <2>8, PlacedStep, IdleBatch
<1> QED  BY <1>2, <1>3, <1>4

-----------------------------------------------------------------------------
(* A killed daemon knows nothing; one that runs never has a job in two      *)
(* directories but the one it is recording.                                 *)
LEMMA DaemonPlaced ==
  ASSUME BInv, DaemonStep \/ DaemonCrash
  PROVE  JobsPlaced'
<1>1. JobsPlaced /\ TypeOK /\ Daemon \in Processes
  BY DEF BInv, IInv, Processes
<1>2. 0 \notin dispatched
  <2>1. dispatched \subseteq 1..Len(job)
    BY Positions DEF BInv, Jobs
  <2> QED  BY <2>1, <1>1 DEF TypeOK
<1>3. CASE DaemonCrash
  BY <1>1, <1>3 DEF DaemonCrash, done, JobsPlaced, Finished, TypeOK
<1>4. ASSUME DaemonStep  PROVE daemonCrashes' = daemonCrashes
  BY <1>4 DEF DaemonStep, crashes
<1>5. CASE DaemonStep /\ Dispatch
  BY <1>1, <1>4, <1>5 DEF Dispatch, Dispatchable, Running, Free, service, JobsPlaced, Finished
<1>6. CASE DaemonStep /\ Collect
  <2>1. PICK j \in dispatched, destination \in {"completed", "failed"} : Collect!(j, destination)
    BY <1>6 DEF Collect
  <2>2. /\ SubmissionLock \in held'[Daemon] /\ recorded' = j /\ recorded = 0 /\ j \in Finished'
        /\ daemon' = daemon /\ daemon = "loop" /\ pending' = pending /\ dispatched' = dispatched
        /\ Finished' = Finished \cup {j}
        /\ \/ completed' = completed \cup {j} /\ failed' = failed
           \/ completed' = completed /\ failed' = failed \cup {j}
    BY <1>1, <2>1 DEF Take, TypeOK, Running, Finished
  <2>3. pending' \cap (dispatched' \cup Finished') = {}
    BY <1>1, <2>2 DEF JobsPlaced
  <2>4. daemonCrashes = 0 => completed' \cap failed' = {} /\ dispatched' \cap Finished' \subseteq {j}
    BY <1>1, <1>2, <2>2 DEF JobsPlaced, Finished
  <2> QED  BY <1>4, <1>6, <2>2, <2>3, <2>4 DEF JobsPlaced
<1>7. CASE DaemonStep /\ DaemonStart
  BY <1>1, <1>4, <1>7 DEF DaemonStart, Take, TypeOK, done, JobsPlaced, Finished
<1>8. CASE DaemonStep /\ FailDispatched
  BY <1>1, <1>2, <1>4, <1>8 DEF FailDispatched, JobsPlaced, Finished
<1>9. CASE DaemonStep /\ Unlink
  BY <1>1, <1>4, <1>9 DEF Unlink, Running, JobsPlaced, Finished
<1>10. CASE DaemonStep /\ DaemonReady
  BY <1>1, <1>4, <1>10 DEF DaemonReady, done, JobsPlaced, Finished
<1> QED  BY <1>3, <1>5, <1>6, <1>7, <1>8, <1>9, <1>10 DEF DaemonStep

(* The daemon's steps: no job of an unsealed atomic batch is dispatched. *)
LEMMA BatchDaemon ==
  ASSUME BInv, DaemonStep \/ DaemonCrash
  PROVE  (\A c \in Clients : BatchLocksHeld(c)' /\ BatchKnown(c)') /\ BatchesOK'
<1>1. job' = job /\ batch' = batch /\ pc' = pc /\ cmd' = cmd /\ IInv /\ BatchesOK
  BY DEF DaemonStep, DaemonCrash, client, BInv
<1>2. \A c \in Clients : held'[c] = held[c]
  BY <1>1, DaemonAssumption
     DEF DaemonStep, DaemonCrash, Dispatch, Collect, DaemonStart, FailDispatched, Unlink, DaemonReady,
         Take, IInv, TypeOK, Processes
<1>3. /\ Live' \subseteq Live /\ Live \cup Finished \subseteq (Live \cup Finished)'
      /\ (Live \cup Finished)' \subseteq Live \cup Finished
      /\ pending \ pending' \subseteq Dispatchable
  <2>1. CASE DaemonCrash
    BY <2>1 DEF DaemonCrash, done, Live, Finished
  <2>2. CASE Dispatch
    BY <2>2 DEF Dispatch, Live, Finished, Dispatchable
  <2>3. CASE Collect
    BY <2>3 DEF Collect, Live, Finished
  <2>4. CASE DaemonStart \/ DaemonReady
    BY <2>4 DEF DaemonStart, DaemonReady, done, Live, Finished
  <2>5. CASE FailDispatched
    BY <2>5 DEF FailDispatched, Live, Finished
  <2>6. CASE Unlink
    BY <2>6 DEF BInv, JobsPlaced, Unlink, Live, Finished
  <2> QED  BY <2>1, <2>2, <2>3, <2>4, <2>5, <2>6 DEF DaemonStep
<1>4. ASSUME NEW c \in Clients  PROVE BatchLocksHeld(c)' /\ BatchKnown(c)'
  <2>1. BatchLocksHeld(c) /\ BatchKnown(c)
    BY DEF BInv
  <2>2. BatchLocksHeld(c)'
    BY <1>1, <1>2, <2>1 DEF BatchLocksHeld, BatchLock, SubmissionLock
  <2>3. ASSUME pc[c] \in {"s_claim", "s_publish", "s_seal"}
        PROVE  \A j \in JobsOf(cmd[c].batch) : j \notin pending \ pending'
    BY <1>1, <1>3, <2>1, <2>3, CommandBatch DEF Dispatchable, BatchKnown, JobsOf
  <2>4. JobsOf(cmd[c].batch)' = JobsOf(cmd[c].batch) /\ Incomplete(c)' = Incomplete(c) /\ Batches' = Batches
    BY <1>1 DEF JobsOf, Jobs, Incomplete, Batches
  <2>5. AreRows(JobsOf(cmd[c].batch), cmd[c].rows, DOMAIN cmd[c].rows \ cmd[c].todo)'
          = AreRows(JobsOf(cmd[c].batch), cmd[c].rows, DOMAIN cmd[c].rows \ cmd[c].todo)
    BY <1>1, <2>4 DEF AreRows
  <2>6. BatchKnown(c)'
    BY <1>1, <1>3, <2>1, <2>3, <2>4, <2>5 DEF BatchKnown
  <2> QED  BY <2>2, <2>6
<1>5. BatchesOK'
  BY <1>1, <1>3 DEF BatchesOK, LiveJobHasBatch, OneBatchPerSpec, Batches, Atomic, AreRows, JobsOf, Jobs
<1> QED  BY <1>4, <1>5

-----------------------------------------------------------------------------
(* No file and no command at the start. *)
LEMMA BInvInit == Init => BInv
<1> SUFFICES ASSUME Init PROVE BInv
  OBVIOUS
<1>1. IInv
  BY InvInit
<1>2. ASSUME NEW c \in Clients  PROVE BatchLocksHeld(c) /\ BatchKnown(c)
  BY DEF Init, BatchLocksHeld, BatchKnown, HoldsSubmission, HoldsBatch, HoldsRun, HoldsRuns
<1>3. BatchesOK /\ JobsPlaced
  BY DEF Init, BatchesOK, JobsPlaced, LiveJobHasBatch, OneBatchPerSpec, Batches, Live, Finished
<1> QED  BY <1>1, <1>2, <1>3 DEF BInv

(* What a client's step does: the guarantees, and what is left to be said   *)
(* of it.                                                                   *)
LEMMA ClientGood ==
  ASSUME BInv, IInv', NEW c \in Clients, ClientStart(c) \/ ClientStep(c) \/ ClientCrash(c)
  PROVE  StepOf(c) /\ BatchGood(c)
<1>1. IInv /\ TypeOK /\ TypeOK'
  BY DEF BInv, IInv
<1>2. CASE ClientStart(c)
  BY <1>1, <1>2, StartInv, BatchStart DEF ClientStart
<1>3. CASE ClientStep(c)
  <2>1. StepOf(c)
    BY <1>1, <1>3, EnqueueInv, SubmitInv DEF ClientStep
  <2>2. CASE EnqueueStep(c)
    BY <1>1, <1>3, <2>1, <2>2, BatchEnqueue DEF ClientStep
  <2>3. CASE SubmitStep(c)
    BY <1>1, <1>3, <2>1, <2>3, BatchSubmit, BatchFill DEF ClientStep, SubmitStep
  <2> QED  BY <1>3, <2>2, <2>3 DEF ClientStep
<1>4. CASE ClientCrash(c)
  <2>1. /\ Exit(c) /\ UNCHANGED <<job, batch, pending, stable, dispatched, completed, failed>>
        /\ UNCHANGED <<service, daemonCrashes>>
    BY <1>4 DEF ClientCrash, done
  <2>2. StepOf(c) /\ pc'[c] = "idle"
    BY <1>1, <2>1, ExitInv, QuietStep DEF Exit, Goto, TypeOK
  <2> QED  BY <1>1, <2>1, <2>2, QuietBatch, IdleBatch DEF BatchGood
<1> QED  BY <1>2, <1>3, <1>4

(* A client's step by its guarantees, the daemon's by the lemmas above. *)
LEMMA BInvStep == BInv /\ [Next]_vars => BInv'
<1> SUFFICES ASSUME BInv, [Next]_vars PROVE BInv'
  OBVIOUS
<1>1. IInv' /\ TypeOK'
  BY InvStep DEF BInv, IInv
<1>2. ASSUME NEW c \in Clients, ClientStart(c) \/ ClientStep(c) \/ ClientCrash(c)  PROVE BInv'
  <2>1. StepOf(c) /\ BatchGood(c)
    BY <1>1, <1>2, ClientGood
  <2>2. \A d \in Clients : BatchLocksHeld(d)' /\ BatchKnown(d)'
    BY <1>1, <2>1, BatchRely DEF BatchGood
  <2> QED  BY <1>1, <2>1, <2>2 DEF BInv, BatchGood
<1>3. CASE DaemonStep \/ DaemonCrash
  BY <1>1, <1>3, BatchDaemon, DaemonPlaced DEF BInv
<1>4. CASE UNCHANGED vars
  <2>1. /\ UNCHANGED <<job, batch, pending, dispatched, completed, failed, held, pc, cmd>>
        /\ UNCHANGED <<daemon, recorded, daemonCrashes>>
    BY <1>4 DEF vars, done, client, service, crashes
  <2>2. ASSUME NEW c \in Clients  PROVE BatchLocksHeld(c)' /\ BatchKnown(c)'
    <3>1. BatchLocksHeld(c) /\ BatchKnown(c)
      BY DEF BInv
    <3> QED
      BY <2>1, <3>1 DEF BatchLocksHeld, BatchKnown, AreRows, JobsOf, Jobs, Incomplete, Batches, Live, Finished,
                        SubmissionLock, BatchLock
  <2>3. BatchesOK' /\ JobsPlaced'
    BY <2>1 DEF BInv, BatchesOK, JobsPlaced, LiveJobHasBatch, OneBatchPerSpec, Batches, Atomic, AreRows, JobsOf,
                Jobs, Live, Finished, SubmissionLock
  <2> QED  BY <1>1, <2>2, <2>3 DEF BInv
<1> QED  BY <1>2, <1>3, <1>4 DEF Next

-----------------------------------------------------------------------------
(* The inductive invariant of batches holds. *)
THEOREM BatchInvariantCorrect == Spec => []BInv
<1> QED  BY BInvInit, BInvStep, PTL DEF Spec

(* All-or-none submission: no job of an atomic batch leaves pending/ before *)
(* the batch is sealed, and a sealed one has one job for each of its rows.  *)
THEOREM AllOrNoneCorrect == Spec => []AtomicAllOrNone
<1>1. BInv => AtomicAllOrNone
  <2> SUFFICES ASSUME BInv PROVE AtomicAllOrNone
    OBVIOUS
  <2>1. \A j \in dispatched \cup Finished : Atomic(job[j].batch) => batch[job[j].batch].sealed
    BY DEF BInv, IInv, StoreInv, JobsOfBatches
  <2>2. ASSUME NEW b \in Batches, Atomic(b), batch[b].sealed
        PROVE  /\ {<<job[j].run, job[j].payload>> : j \in batch[b].jobs}
                    = {<<r, batch[b].spec[r]>> : r \in DOMAIN batch[b].spec}
               /\ \A j, k \in batch[b].jobs : job[j].run = job[k].run => j = k
    <3>1. AreRows(batch[b].jobs, batch[b].spec, DOMAIN batch[b].spec)
      BY <2>2 DEF BInv, BatchesOK, Batches
    <3> QED  BY <3>1 DEF AreRows
  <2> QED  BY <2>1, <2>2 DEF AtomicAllOrNone
<1> QED  BY <1>1, BatchInvariantCorrect, PTL

(* Recovery never unlinks the batch file of a pending or dispatched job. *)
THEOREM BatchFileCorrect == Spec => []LiveJobHasBatch
<1>1. BInv => LiveJobHasBatch
  BY DEF BInv, BatchesOK
<1> QED  BY <1>1, BatchInvariantCorrect, PTL

(* A retry of a submission, however often it and its predecessors were      *)
(* killed, never leaves a second batch file of the specification.           *)
THEOREM RetryCorrect == Spec => []OneBatchPerSpec
<1>1. BInv => OneBatchPerSpec
  BY DEF BInv, BatchesOK
<1> QED  BY <1>1, BatchInvariantCorrect, PTL

(* The client that matches a batch holds the submission lock, so no record  *)
(* is half done and each job of the batch is in one directory.              *)
THEOREM MatchCorrect == Spec => []MatchSeesEachJobOnce
<1>1. BInv => MatchSeesEachJobOnce
  <2> SUFFICES ASSUME BInv, NEW c \in Clients, At(c, "s_match"), daemonCrashes = 0,
                      NEW b \in Matching(c), NEW j \in batch[b].jobs
               PROVE  \E D \in {pending, dispatched, completed, failed} :
                        j \in D /\ \A E \in {pending, dispatched, completed, failed} : j \in E => E = D
    BY DEF MatchSeesEachJobOnce
  <2>1. CommandOK(c) /\ BatchLocksHeld(c) /\ Mutex /\ c \in Processes /\ Daemon \in Processes /\ c # Daemon
    BY DaemonAssumption DEF BInv, IInv, ClientInv, Processes
  <2>2. b \in 1..Len(batch) /\ Atomic(b) /\ batch[b].sealed
    BY <2>1, NoSpecAssumption DEF Matching, Batches, Atomic, CommandOK, At, HoldsRuns
  <2>3. j \in Live \cup Finished
    BY <2>2 DEF BInv, BatchesOK
  <2>4. recorded = 0
    BY <2>1 DEF BInv, JobsPlaced, BatchLocksHeld, HoldsSubmission, HoldsRuns, At, Mutex
  <2>5. j # 0
    <3>1. j \in 1..Len(job) /\ Len(job) \in Nat
      BY <2>3, Positions DEF BInv, Jobs
    <3> QED  BY <3>1
  <2>6. /\ pending \cap (dispatched \cup Finished) = {} /\ completed \cap failed = {}
        /\ j \notin dispatched \cap Finished
    BY <2>4, <2>5 DEF BInv, JobsPlaced
  <2>7. CASE j \in pending
    BY <2>6, <2>7 DEF Finished
  <2>8. CASE j \in dispatched
    BY <2>6, <2>8 DEF Finished
  <2>9. CASE j \in completed
    BY <2>6, <2>9 DEF Finished
  <2>10. CASE j \in failed
    BY <2>6, <2>10 DEF Finished
  <2> QED  BY <2>3, <2>7, <2>8, <2>9, <2>10 DEF Live, Finished
<1> QED  BY <1>1, BatchInvariantCorrect, PTL

(* Every write of a batch file is of one that is not sealed yet. *)
LEMMA SealedKept ==
  ASSUME BInv, [Next]_vars, NEW b \in Batches, batch[b].sealed
  PROVE  batch'[b] = batch[b]
<1>1. /\ IInv /\ TypeOK /\ b \in 1..Len(batch) /\ Len(batch) \in Nat
      /\ \A i \in 1..Len(batch) : batch[i] \in BatchFile
  BY Positions DEF BInv, IInv, TypeOK, Batches
<1>2. ASSUME NEW a, NEW e, batch' = [batch EXCEPT ![a] = e], a # b  PROVE batch'[b] = batch[b]
  BY <1>2
<1>3. ASSUME NEW e, batch' = Append(batch, e)  PROVE batch'[b] = batch[b]
  BY <1>1, <1>3 DEF TypeOK
<1>4. ASSUME NEW c \in Clients, EnqueueStep(c), batch' # batch  PROVE batch'[b] = batch[b]
  <2>1. pc[c] \in HoldsBatch /\ \E e : batch' = [batch EXCEPT ![cmd[c].batch] = e]
    BY <1>4 DEF EnqueueStep, EnqueueLockRun, EnqueueLockBatch, LookPending, LookDispatched, ScanPending,
                ScanDispatched, EnqueueAttach, EnqueueClaim, EnqueuePublish, EnqueueRecord, At, HoldsBatch, HoldsRun
  <2>2. cmd[c].batch # b
    BY <2>1 DEF BInv, BatchLocksHeld
  <2> QED  BY <1>2, <2>1, <2>2
<1>5. ASSUME NEW c \in Clients, SubmitStep(c), batch' # batch  PROVE batch'[b] = batch[b]
  <2>1. CASE SubmitBatch(c)
    BY <1>3, <2>1 DEF SubmitBatch
  <2>2. CASE RecoverBatch(c)
    BY <1>2, <2>2 DEF RecoverBatch, Incomplete
  <2>3. CASE SubmitSeal(c)
    <3>1. cmd[c].batch # b
      BY <2>3 DEF BInv, BatchKnown, SubmitSeal, At
    <3> DEFINE e == [batch[cmd[c].batch] EXCEPT !.jobs = {j \in Jobs : job[j].batch = cmd[c].batch}, !.sealed = TRUE]
    <3>2. batch' = [batch EXCEPT ![cmd[c].batch] = e]
      BY <2>3 DEF SubmitSeal
    <3> HIDE DEF e
    <3> QED  BY <1>2, <3>1, <3>2
  <2> QED
    BY <1>5, <2>1, <2>2, <2>3
       DEF SubmitStep, SubmitLock, SubmitLockRun, RecoverPending, RecoverStable, Recovered, SubmitMatch,
           SubmitCheckRun, SubmitClaim, SubmitPublish
<1>6. ASSUME NEW c \in Clients, ClientStart(c), batch' # batch  PROVE batch'[b] = batch[b]
  <2>1. CASE NewBatch(c)
    BY <1>3, <2>1 DEF NewBatch
  <2>2. CASE SealBatch(c)
    <3>1. PICK a \in Batches : batch' = [batch EXCEPT ![a].sealed = TRUE]
      BY <2>2 DEF SealBatch
    <3>2. CASE a = b
      <4>1. batch[b].sealed = TRUE /\ batch[b] \in BatchFile
        BY <1>1 DEF BatchFile
      <4>2. [batch[b] EXCEPT !.sealed = TRUE] = batch[b]
        BY <4>1 DEF BatchFile
      <4>3. batch' = [batch EXCEPT ![b] = [batch[b] EXCEPT !.sealed = TRUE]] /\ b \in DOMAIN batch
        BY <1>1, <3>1, <3>2 DEF TypeOK
      <4> QED  BY <4>2, <4>3
    <3> QED  BY <1>2, <3>1, <3>2
  <2> QED  BY <1>6, <2>1, <2>2 DEF ClientStart, EnqueueStart, SubmitStart, Begin
<1> QED
  BY <1>4, <1>5, <1>6 DEF Next, ClientStep, ClientCrash, DaemonStep, DaemonCrash, vars

(* A sealed batch never changes again: wait-batch may count its jobs. *)
THEOREM FrozenCorrect == Spec => SealedBatchFrozen
<1>1. BInv /\ [Next]_vars => [\A b \in Batches : batch[b].sealed => batch'[b] = batch[b]]_vars
  BY SealedKept
<1> QED  BY <1>1, BatchInvariantCorrect, PTL DEF Spec, SealedBatchFrozen

-----------------------------------------------------------------------------
(* The store implements RunQueue. *)

(* A job is named the same for ever. *)
LEMMA NamedKept ==
  ASSUME IInv, \A j \in Jobs : job'[j] = job[j]
  PROVE  \A S \in SUBSET Jobs : {<<j, job'[j].run>> : j \in S} = Named(S)
BY DEF Named

(* No client takes back a job that may be dispatched. *)
LEMMA DispatchableKept ==
  ASSUME BInv, IInv', NEW c \in Clients, ClientStart(c) \/ ClientStep(c) \/ ClientCrash(c)
  PROVE  Dispatchable \subseteq Dispatchable'
<1>1. StepOf(c)
  BY ClientGood
<1>2. ASSUME NEW j \in Dispatchable  PROVE j \in pending'
  <2>1. j \in pending /\ (Atomic(job[j].batch) => batch[job[j].batch].sealed)
    BY DEF Dispatchable
  <2>2. CASE ClientStart(c) \/ ClientCrash(c)
    BY <2>1, <2>2 DEF ClientStart, ClientCrash, EnqueueStart, SubmitStart, NewBatch, SealBatch, Begin
  <2>3. CASE EnqueueStep(c)
    BY <2>1, <2>3
       DEF EnqueueStep, EnqueueLockRun, EnqueueLockBatch, LookPending, LookDispatched, ScanPending,
           ScanDispatched, EnqueueAttach, EnqueueClaim, EnqueuePublish, EnqueueRecord
  <2>4. CASE RecoverPending(c)
    <3>1. PICK b \in Incomplete(c) : \E k \in OwnedPending(b) : pending' = pending \ {k}
      BY <2>4 DEF RecoverPending
    <3>2. Atomic(b) /\ ~batch[b].sealed
      BY <2>4, NoSpecAssumption
         DEF RecoverPending, At, Incomplete, Atomic, BInv, IInv, ClientInv, CommandOK, HoldsRuns
    <3> QED  BY <2>1, <3>1, <3>2 DEF OwnedPending
  <2>5. CASE SubmitStep(c) /\ ~RecoverPending(c)
    BY <2>1, <2>5
       DEF SubmitStep, SubmitLock, SubmitLockRun, RecoverStable, RecoverBatch, Recovered, SubmitMatch,
           SubmitCheckRun, SubmitBatch, SubmitClaim, SubmitPublish, SubmitSeal
  <2> QED  BY <2>2, <2>3, <2>4, <2>5 DEF ClientStep
<1>3. ASSUME NEW j \in Dispatchable, Atomic(job[j].batch)'  PROVE batch'[job'[j].batch].sealed
  <2>1. j \in Jobs /\ job[j].batch \in 1..Len(batch)
    BY Positions DEF BInv, Dispatchable
  <2>2. job'[j] = job[j] /\ batch'[job[j].batch].spec = batch[job[j].batch].spec
    BY <1>1, <2>1 DEF StepOf, JobsKept, BatchesKept, Jobs
  <2>3. batch[job[j].batch].sealed
    BY <1>3, <2>2 DEF Dispatchable, Atomic
  <2> QED  BY <1>1, <2>1, <2>2, <2>3 DEF StepOf, BatchesKept
<1> QED  BY <1>2, <1>3 DEF Dispatchable

(* A step of a client accepts the jobs it makes dispatchable, if any. *)
LEMMA ClientRefines ==
  ASSUME BInv, BInv', NEW c \in Clients, ClientStart(c) \/ ClientStep(c) \/ ClientCrash(c)
  PROVE  Queue!Accept \/ UNCHANGED Queue!vars
<1> DEFINE queued == Named(Dispatchable)
           new == Named(Dispatchable)' \ Named(Dispatchable)
<1>1. /\ IInv /\ IInv' /\ JobsPlaced' /\ StepOf(c)
      /\ Dispatchable \subseteq Dispatchable' /\ Live \cup Finished \subseteq Jobs
      /\ (Live \cup Finished)' \subseteq Jobs' /\ Jobs \subseteq Jobs'
  <2>1. IInv /\ IInv' /\ JobsPlaced' /\ StepOf(c)
    BY ClientGood DEF BInv
  <2>2. Jobs \subseteq Jobs'
    BY <2>1 DEF StepOf, JobsKept, IInv, TypeOK, Jobs
  <2> QED  BY <2>1, <2>2, DispatchableKept DEF IInv, StoreInv, NoDanglingId
<1>2. \A j \in Jobs : job'[j] = job[j]
  BY <1>1 DEF StepOf, JobsKept, Jobs
<1>3. /\ dispatched' = dispatched /\ Finished' = Finished
      /\ Dispatchable \subseteq Jobs /\ dispatched \subseteq Jobs /\ Finished \ dispatched \subseteq Jobs
      /\ Dispatchable' \subseteq pending'
  BY <1>1 DEF StepOf, Finished, Live, Dispatchable
<1>4. Named(dispatched)' = Named(dispatched) /\ Named(Finished \ dispatched)' = Named(Finished \ dispatched)
  <2>1. /\ Named(dispatched)' = {<<j, job'[j].run>> : j \in dispatched}
        /\ Named(Finished \ dispatched)' = {<<j, job'[j].run>> : j \in Finished \ dispatched}
    BY <1>3 DEF Named
  <2> QED  BY <1>1, <1>2, <1>3, <2>1, NamedKept
<1>5. Named(Dispatchable) \subseteq Named(Dispatchable)'
  BY <1>1, <1>2, <1>3 DEF Named
<1>6. \A j \in Jobs' : j \in Nat /\ job'[j].run \in Runs
  <2>1. job' \in Seq(JobFile) /\ Len(job') \in Nat
    BY <1>1 DEF IInv, TypeOK
  <2>2. \A j \in 1..Len(job') : job'[j] \in JobFile
    BY <2>1, ElementOfSeq
  <2> QED  BY <2>1, <2>2 DEF Jobs, JobFile
<1>7. \A j, k \in Live' : job'[j].run = job'[k].run => j = k
  BY <1>1 DEF IInv, StoreInv, IndexNamesLiveJob
<1>8. \A x \in new : \E j \in Dispatchable' \ Dispatchable : x = <<j, job'[j].run>>
  BY <1>2, <1>3 DEF Named
<1>9. \A j \in Dispatchable' \ Dispatchable :
         /\ j \in Live' /\ j \in Jobs' /\ j \notin Dispatchable \cup dispatched \cup Finished
  BY <1>1, <1>3 DEF JobsPlaced, Live
<1>10. Dispatchable \cup dispatched \subseteq Live'
  BY <1>1, <1>3 DEF Live
<1>11. new \subseteq Nat \X Runs
  BY <1>6, <1>8, <1>9
<1>12. ASSUME NEW x \in new, x \in Named(Finished \ dispatched)  PROVE FALSE
  BY <1>8, <1>9, <1>12 DEF Named
<1>13. ASSUME NEW x \in new, NEW y \in Named(Dispatchable) \cup Named(dispatched), x[2] = y[2]  PROVE FALSE
  <2>1. PICK j \in Dispatchable' \ Dispatchable : x = <<j, job'[j].run>>
    BY <1>8
  <2>2. PICK k \in Dispatchable \cup dispatched : y = <<k, job[k].run>>
    BY DEF Named
  <2>3. job'[k] = job[k]
    BY <1>2, <1>3
  <2> QED  BY <1>7, <1>9, <1>10, <1>13, <2>1, <2>2, <2>3
<1>14. ASSUME NEW x \in new, NEW y \in new, x[1] = y[1] \/ x[2] = y[2]  PROVE x = y
  <2>1. PICK j \in Dispatchable' \ Dispatchable : x = <<j, job'[j].run>>
    BY <1>8
  <2>2. PICK k \in Dispatchable' \ Dispatchable : y = <<k, job'[k].run>>
    BY <1>8
  <2> QED  BY <1>7, <1>9, <1>14, <2>1, <2>2
<1>15. CASE new = {}
  BY <1>4, <1>5, <1>15 DEF Queue!vars
<1>16. CASE new # {}
  <2>1. Queue!Busy = {y[2] : y \in Named(Dispatchable) \cup Named(dispatched)}
    BY DEF Queue!Busy
  <2>2. \A x \in new : x \notin Named(Finished \ dispatched) /\ x[2] \notin Queue!Busy
    BY <1>12, <1>13, <2>1
  <2> QED  BY <1>4, <1>5, <1>11, <1>14, <1>16, <2>2 DEF Queue!Accept
<1> QED  BY <1>15, <1>16

(* The daemon activates the first job it may, and a job is finished when    *)
(* its dispatched file is gone.                                             *)
LEMMA DaemonRefines ==
  ASSUME BInv, DaemonStep \/ DaemonCrash
  PROVE  Queue!Activate \/ Queue!Finish \/ UNCHANGED Queue!vars
<1>1. /\ job' = job /\ batch' = batch /\ JobsPlaced /\ TypeOK /\ dispatched \subseteq Jobs /\ Len(job) \in Nat
  BY Positions DEF BInv, IInv, DaemonStep, DaemonCrash
<1>2. \A S, T : Named(S \cup T) = Named(S) \cup Named(T) /\ (S \subseteq T => Named(S) \subseteq Named(T))
  BY DEF Named
<1>3. \A S : \A j \in S : Named(S \ {j}) = Named(S) \ {<<j, job[j].run>>}
  BY DEF Named
<1>4. ASSUME dispatched' = dispatched, pending' = pending, (Finished \ dispatched)' = Finished \ dispatched
      PROVE  UNCHANGED Queue!vars
  <2>1. Dispatchable' = Dispatchable
    BY <1>1, <1>4 DEF Dispatchable, Atomic
  <2>2. /\ Named(Dispatchable)' = Named(Dispatchable) /\ Named(dispatched)' = Named(dispatched)
        /\ Named(Finished \ dispatched)' = Named(Finished \ dispatched)
    BY <1>1, <1>4, <2>1 DEF Named
  <2> QED  BY <2>2 DEF Queue!vars
<1>5. CASE DaemonCrash \/ DaemonStart \/ DaemonReady
  BY <1>4, <1>5 DEF DaemonCrash, DaemonStart, DaemonReady, done, Finished
<1>6. CASE Collect
  BY <1>4, <1>6 DEF Collect, Finished
<1>7. CASE FailDispatched
  BY <1>4, <1>7 DEF FailDispatched, Finished
<1>8. CASE Dispatch
  <2>1. PICK j \in Dispatchable : Dispatch!(j)
    BY <1>8 DEF Dispatch
  <2>2. /\ Dispatchable' = Dispatchable \ {j} /\ dispatched' = dispatched \cup {j}
        /\ (Finished \ dispatched)' = Finished \ dispatched
    BY <1>1, <2>1 DEF Dispatchable, Atomic, JobsPlaced, Finished
  <2> DEFINE x == <<j, job[j].run>>
  <2>3. /\ Named(Dispatchable)' = Named(Dispatchable) \ {x}
        /\ Named(dispatched)' = Named(dispatched) \cup {x}
        /\ Named(Finished \ dispatched)' = Named(Finished \ dispatched)
    BY <1>1, <2>2 DEF Named
  <2>4. x \in Named(Dispatchable) /\ \A y \in Named(Dispatchable) : x[1] <= y[1]
    BY <2>1 DEF Named
  <2> HIDE DEF x
  <2> QED  BY <2>3, <2>4 DEF Queue!Activate
<1>9. CASE Unlink
  <2>1. /\ recorded \in dispatched /\ recorded \in Finished /\ dispatched' = dispatched \ {recorded}
        /\ pending' = pending /\ Finished' = Finished
    BY <1>1, <1>9 DEF Unlink, TypeOK, JobsPlaced, Finished
  <2>2. Dispatchable' = Dispatchable /\ (Finished \ dispatched)' = (Finished \ dispatched) \cup {recorded}
    BY <1>1, <2>1 DEF Dispatchable, Atomic
  <2> DEFINE x == <<recorded, job[recorded].run>>
  <2>3. /\ Named(Dispatchable)' = Named(Dispatchable)
        /\ Named(dispatched)' = Named(dispatched) \ {x}
        /\ Named(Finished \ dispatched)' = Named(Finished \ dispatched) \cup {x}
        /\ x \in Named(dispatched)
    BY <1>1, <2>1, <2>2 DEF Named
  <2> HIDE DEF x
  <2> QED  BY <2>3 DEF Queue!Finish
<1> QED  BY <1>5, <1>6, <1>7, <1>8, <1>9 DEF DaemonStep

(* The job store, with its locks, its kills and its recoveries, is the      *)
(* queue it promises: a submission is accepted at once or not at all, an    *)
(* accepted job is never withdrawn, is dispatched once, oldest first, and a *)
(* run never has two unfinished jobs.                                       *)
THEOREM RefinementCorrect == Spec => ImplementsRunQueue
<1>1. Init => Queue!Init
  BY DEF Init, Queue!Init, Named, Dispatchable, Finished
<1>2. BInv /\ BInv' /\ [Next]_vars => [Queue!Next]_Queue!vars
  <2> SUFFICES ASSUME BInv, BInv', [Next]_vars  PROVE Queue!Next \/ UNCHANGED Queue!vars
    BY DEF Queue!Next
  <2>1. CASE UNCHANGED vars
    BY <2>1 DEF vars, done, Queue!vars, Named, Dispatchable, Finished, Atomic
  <2>2. CASE Next
    BY <2>2, ClientRefines, DaemonRefines DEF Next, Queue!Next
  <2> QED  BY <2>1, <2>2
<1> QED  BY <1>1, <1>2, BatchInvariantCorrect, PTL DEF Spec, ImplementsRunQueue, Queue!Spec
=============================================================================
