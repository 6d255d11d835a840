--------------------------- MODULE TrainingProofs ---------------------------
(***************************************************************************)
(* What holds of module Training for every set of attempts, run names,     *)
(* data groups and GPUs: its types, and the invariant LocksHeld, from      *)
(* which it follows that a GPU trains one run at a time, that the periodic *)
(* check never sees one train, and that a run name has one live process.   *)
(***************************************************************************)
EXTENDS Training, TLAPS

Modes == {"shared", "exclusive"}

(* What an attempt and a check may lock is a lock. *)
LEMMA LocksAreLocks ==
  /\ {PrepLock, SequenceLock, SharedLock} \subseteq Locks
  /\ \A a \in Attempts : {RunLock(a), DataLock(a), SlotLock(Gpu[a]), DeviceLock(Gpu[a])} \subseteq Locks
  /\ \A g \in Gpus : DeviceLock(g) \in Locks
  /\ \A a \in Attempts : a \in Processes /\ Gpu[a] \in Gpus
  /\ \A g \in Gpus : Check(g) \in Processes
BY DEF Locks, Gpus, Processes

HeldType == held \in [Processes -> SUBSET (Locks \X Modes)]

(* Taking a lock keeps the table of locks well-typed.                       *)
LEMMA TakeType ==
  ASSUME HeldType, NEW p \in Processes, NEW lock \in Locks, NEW mode \in Modes, Take(p, lock, mode)
  PROVE  HeldType'
BY DEF HeldType, Take

(* So does giving locks back.                                               *)
LEMMA DropType ==
  ASSUME HeldType, NEW p \in Processes, NEW locks, Drop(p, locks)
  PROVE  HeldType'
BY DEF HeldType, Drop

(* Every step of an attempt changes its own label, stage, shell and locks.   *)
LEMMA WorkType ==
  ASSUME TypeOK, NEW a \in Attempts, Work(a)
  PROVE  TypeOK'
<1> USE DEF At, Goto, Labels
<1>1. HeldType
  BY DEF TypeOK, HeldType, Modes
<1>2. HeldType' /\ pc' \in [Attempts -> Labels] => held' \in [Processes -> SUBSET (Locks \X {"shared", "exclusive"})]
  BY DEF HeldType, Modes
<1>3. Stages \in Nat \ {0}
  BY BoundsAssumption
<1>4. a \in Processes /\ Gpu[a] \in Gpus /\ RunLock(a) \in Locks /\ DataLock(a) \in Locks
      /\ SlotLock(Gpu[a]) \in Locks /\ DeviceLock(Gpu[a]) \in Locks
      /\ PrepLock \in Locks /\ SequenceLock \in Locks /\ SharedLock \in Locks
  BY LocksAreLocks
<1>5. "shared" \in Modes /\ "exclusive" \in Modes
  BY DEF Modes
<1>6. Group[a] \in Groups
  BY DEF Groups
<1>7. CASE Own(a)
  <2>1. HeldType'
    BY <1>1, <1>4, <1>5, <1>7, TakeType DEF Own, HeldType
  <2> QED BY <1>7, <2>1, <1>2 DEF Own, TypeOK, Work, caches
<1>8. CASE TakePrep(a)
  <2>1. HeldType'
    BY <1>1, <1>4, <1>5, <1>8, TakeType DEF TakePrep
  <2> QED BY <1>8, <2>1, <1>2 DEF TakePrep, TypeOK, Work, caches
<1>9. CASE CheckReady(a)
  BY <1>9 DEF CheckReady, TypeOK, Work, caches
<1>10. CASE TakeData(a)
  <2>1. HeldType'
    BY <1>1, <1>4, <1>5, <1>10, TakeType DEF TakeData
  <2> QED BY <1>10, <2>1, <1>2 DEF TakeData, TypeOK, Work, caches
<1>11. CASE RecheckReady(a)
  <2>1. HeldType'
    BY <1>1, <1>4, <1>11, DropType DEF RecheckReady, HeldType
  <2> QED BY <1>11, <2>1, <1>2 DEF RecheckReady, TypeOK, Work, caches
<1>12. CASE TakeSequences(a)
  <2>1. HeldType'
    BY <1>1, <1>4, <1>5, <1>12, TakeType DEF TakeSequences, HeldType
  <2> QED BY <1>12, <2>1, <1>2 DEF TakeSequences, TypeOK, Work, caches
<1>13. CASE BuildSequences(a)
  <2>1. HeldType'
    BY <1>1, <1>4, <1>13, DropType DEF BuildSequences
  <2> QED BY <1>13, <2>1, <1>2 DEF BuildSequences, TypeOK, Work, caches
<1>14. CASE TakeShared(a)
  <2>1. HeldType'
    BY <1>1, <1>4, <1>5, <1>14, TakeType DEF TakeShared, HeldType
  <2> QED BY <1>14, <2>1, <1>2 DEF TakeShared, TypeOK, Work, caches
<1>15. CASE BuildShared(a)
  <2>1. HeldType'
    BY <1>1, <1>4, <1>15, DropType DEF BuildShared
  <2> QED BY <1>15, <2>1, <1>2 DEF BuildShared, TypeOK, Work, caches
<1>16. CASE Built(a)
  <2>1. HeldType'
    BY <1>1, <1>4, <1>16, DropType DEF Built
  <2> QED BY <1>16, <2>1, <1>2, <1>6 DEF Built, TypeOK, Work, caches
<1>17. CASE TakeWarmup(a)
  <2>1. HeldType'
    BY <1>1, <1>4, <1>5, <1>17, TakeType DEF TakeWarmup
  <2> QED BY <1>17, <2>1, <1>2 DEF TakeWarmup, TypeOK, Work, caches
<1>18. CASE Prepare(a)
  <2>1. HeldType'
    BY <1>1, <1>4, <1>18, DropType DEF Prepare
  <2> QED BY <1>18, <2>1, <1>2 DEF Prepare, TypeOK, Work, caches
<1>19. CASE Wait(a) \/ WaitMemory(a) \/ PrepareAgain(a)
  BY <1>19 DEF Wait, WaitMemory, PrepareAgain, TypeOK, Work, caches
<1>20. CASE TakeGPU(a)
  <2>1. HeldType'
    BY <1>1, <1>4, <1>5, <1>20, TakeType DEF TakeGPU
  <2> QED BY <1>20, <2>1, <1>2 DEF TakeGPU, TypeOK, Work, caches
<1>21. CASE TakeGate(a)
  <2>1. HeldType'
    BY <1>1, <1>4, <1>5, <1>21, TakeType DEF TakeGate
  <2> QED BY <1>21, <2>1, <1>2 DEF TakeGate, TypeOK, Work, caches
<1>22. CASE Train(a)
  <2>1. HeldType'
    BY <1>1, <1>4, <1>22, DropType DEF Train
  <2>2. stage[a] \in 1..Stages
    BY DEF TypeOK
  <2>3. stage[a] < Stages => stage[a] + 1 \in 1..Stages
    BY <2>2, <1>3
  <2>4. CASE stage[a] < Stages
    <3>1. stage' = [stage EXCEPT ![a] = stage[a] + 1]
      BY <1>22, <2>4 DEF Train
    <3> QED BY <3>1, <2>3, <2>4, <2>1, <1>22, <1>2 DEF Train, TypeOK, Work, caches
  <2>5. CASE ~(stage[a] < Stages)
    <3>1. stage' = stage
      BY <1>22, <2>5 DEF Train
    <3> QED BY <3>1, <2>5, <2>1, <1>22, <1>2 DEF Train, TypeOK, Work, caches
  <2> QED BY <2>4, <2>5
<1>23. CASE Exit(a)
  <2>1. HeldType'
    BY <1>1, <1>4, <1>5, <1>23 DEF Exit, HeldType
  <2> QED BY <1>23, <2>1, <1>2 DEF Exit, TypeOK, Work, caches
<1>24. CASE ShellExit(a)
  <2>1. HeldType'
    BY <1>1, <1>4, <1>24, DropType DEF ShellExit
  <2> QED BY <1>24, <2>1, <1>2 DEF ShellExit, TypeOK, Work, caches
<1> QED
  BY <1>7, <1>8, <1>9, <1>10, <1>11, <1>12, <1>13, <1>14, <1>15, <1>16, <1>17, <1>18, <1>19,
     <1>20, <1>21, <1>22, <1>23, <1>24 DEF Work

(* Every file, label and lock of the training processes keeps its kind, for  *)
(* every set of attempts and GPUs and all bounds.                            *)
THEOREM TrainingTypeCorrect == Spec => []TypeOK
<1>1. Init => TypeOK
  <2> SUFFICES ASSUME Init PROVE TypeOK
    OBVIOUS
  <2>1. 1 \in 1..Stages /\ 0 \in 0..MaxChecks /\ 0 \in 0..MaxDeaths
    BY BoundsAssumption
  <2>2. stage \in [Attempts -> 1..Stages]
    BY <2>1 DEF Init
  <2>3. pc \in [Attempts -> Labels]
    BY DEF Init, Labels
  <2> QED BY <2>1, <2>2, <2>3 DEF Init, TypeOK
<1>2. TypeOK /\ [Next]_vars => TypeOK'
  <2> SUFFICES ASSUME TypeOK, [Next]_vars PROVE TypeOK'
    OBVIOUS
  <2>1. HeldType
    BY DEF TypeOK, HeldType, Modes
  <2>2. HeldType' => held' \in [Processes -> SUBSET (Locks \X {"shared", "exclusive"})]
    BY DEF HeldType, Modes
  <2>3. MaxChecks \in Nat /\ MaxDeaths \in Nat
    BY BoundsAssumption
  <2>4. ASSUME NEW a \in Attempts, Work(a) PROVE TypeOK'
    BY <2>4, WorkType
  <2>5. ASSUME NEW a \in Attempts, Die(a) PROVE TypeOK'
    <3>1. HeldType'
      <4>1. RunLock(a) \in Locks /\ a \in Processes
        BY LocksAreLocks
      <4>2. "exclusive" \in Modes
        BY DEF Modes
      <4> QED BY <2>1, <2>5, <4>1, <4>2 DEF Die, HeldType
    <3>2. deaths' \in 0..MaxDeaths
      BY <2>3, <2>5 DEF Die, TypeOK
    <3> QED BY <2>2, <2>5, <3>1, <3>2 DEF Die, TypeOK, Goto, Labels, caches
  <2>6. CASE Release
    BY <2>6 DEF Release, TypeOK, caches
  <2>7. ASSUME NEW g \in Gpus, CheckStart(g) PROVE TypeOK'
    <3>1. checks' \in 0..MaxChecks
      BY <2>3, <2>7 DEF CheckStart, TypeOK
    <3> QED BY <2>7, <3>1 DEF CheckStart, TypeOK, caches
  <2>8. ASSUME NEW g \in Gpus, CheckGate(g) PROVE TypeOK'
    <3>1. HeldType'
      <4>1. DeviceLock(g) \in Locks /\ Check(g) \in Processes
        BY LocksAreLocks
      <4>2. "exclusive" \in Modes
        BY DEF Modes
      <4> QED BY <2>1, <2>8, <4>1, <4>2, TakeType DEF CheckGate
    <3> QED BY <2>2, <2>8, <3>1 DEF CheckGate, TypeOK, caches
  <2>9. ASSUME NEW g \in Gpus, CheckEnd(g) PROVE TypeOK'
    <3>1. HeldType'
      <4>1. Check(g) \in Processes
        BY LocksAreLocks
      <4> QED BY <2>1, <2>9, <4>1, DropType DEF CheckEnd
    <3> QED BY <2>2, <2>9, <3>1 DEF CheckEnd, TypeOK, caches
  <2>10. CASE UNCHANGED vars
    BY <2>10 DEF vars, TypeOK, caches
  <2> QED BY <2>4, <2>5, <2>6, <2>7, <2>8, <2>9, <2>10 DEF Next
<1> QED BY <1>1, <1>2, PTL DEF Spec

-----------------------------------------------------------------------------
(* Exclusion: a step takes one lock that is free for its mode, or drops.     *)

(* What a process p does to its locks: nothing, a Take, or less.             *)
LockStep(p) ==
  \/ UNCHANGED held
  \/ \E lock \in Locks, mode \in Modes : Take(p, lock, mode)
  \/ \E S \in SUBSET held[p] : held' = [held EXCEPT ![p] = S]

(* To give locks back is a step that only leaves fewer of them.             *)
LEMMA DropIsLess ==
  ASSUME NEW p \in Processes, NEW locks, Drop(p, locks)
  PROVE  LockStep(p)
<1> DEFINE S == {h \in held[p] : h[1] \notin locks}
<1>1. S \in SUBSET held[p] /\ held' = [held EXCEPT ![p] = S]
  BY DEF Drop
<1> QED BY <1>1 DEF LockStep

(* Exclusion is kept by whoever takes a free lock or gives locks back.      *)
LEMMA ExclusionStep ==
  ASSUME HeldType, Exclusion, NEW p \in Processes, LockStep(p)
  PROVE  Exclusion'
<1> SUFFICES ASSUME NEW q \in Processes, NEW r \in Processes, q # r,
                    NEW h \in held'[q], NEW k \in held'[r], h[1] = k[1]
             PROVE  h[2] = "shared" /\ k[2] = "shared"
  BY DEF Exclusion
<1>1. CASE UNCHANGED held
  BY <1>1 DEF Exclusion
<1>2. ASSUME NEW S \in SUBSET held[p], held' = [held EXCEPT ![p] = S]
      PROVE  h[2] = "shared" /\ k[2] = "shared"
  <2>1. h \in held[q] /\ k \in held[r]
    BY <1>2 DEF HeldType
  <2> QED BY <2>1 DEF Exclusion
<1>3. ASSUME NEW lock \in Locks, NEW mode \in Modes, Take(p, lock, mode)
      PROVE  h[2] = "shared" /\ k[2] = "shared"
  <2>1. held' = [held EXCEPT ![p] = held[p] \cup {<<lock, mode>>}] /\ Free(lock, mode)
    BY <1>3 DEF Take
  <2>2. \A s \in Processes : s # p => held'[s] = held[s]
    BY <2>1 DEF HeldType
  <2>3. held'[p] = held[p] \cup {<<lock, mode>>}
    BY <2>1 DEF HeldType
  <2>4. \A s \in Processes : \A x \in held[s] :
          x[1] = lock => x[2] = "shared" /\ mode = "shared"
    <3> SUFFICES ASSUME NEW s \in Processes, NEW x \in held[s], x[1] = lock
                 PROVE  x[2] = "shared" /\ mode = "shared"
      OBVIOUS
    <3>1. x \in Locks \X Modes
      BY DEF HeldType
    <3>2. x = <<lock, x[2]>> /\ x[2] \in Modes
      BY <3>1
    <3>3. x[2] = "shared"
      BY <2>1, <3>2 DEF Free, Holders, Modes
    <3>4. mode = "shared"
      BY <2>1, <3>2, <3>3 DEF Free, Holders, Modes
    <3> QED BY <3>3, <3>4
  <2>5. CASE q # p /\ r # p
    BY <2>2, <2>5 DEF Exclusion
  <2>6. CASE q = p /\ r # p
    <3>1. k \in held[r]
      BY <2>2, <2>6
    <3>2. CASE h \in held[p]
      BY <3>1, <3>2, <2>6 DEF Exclusion
    <3>3. CASE h = <<lock, mode>>
      BY <3>1, <3>3, <2>4
    <3> QED BY <2>3, <2>6, <3>2, <3>3
  <2>7. CASE q # p /\ r = p
    <3>1. h \in held[q]
      BY <2>2, <2>7
    <3>2. CASE k \in held[p]
      BY <3>1, <3>2, <2>7 DEF Exclusion
    <3>3. CASE k = <<lock, mode>>
      BY <3>1, <3>3, <2>4
    <3> QED BY <2>3, <2>7, <3>2, <3>3
  <2> QED BY <2>5, <2>6, <2>7
<1> QED BY <1>1, <1>2, <1>3 DEF LockStep

-----------------------------------------------------------------------------
(* LocksHeld: a step of an attempt leaves the others and the checks alone.   *)

Frame(a) ==
  /\ \A b \in Attempts \ {a} : pc'[b] = pc[b] /\ (b \in shell' <=> b \in shell)
  /\ \A p \in Processes \ {a} : held'[p] = held[p]
  /\ check' = check

(* A step of one attempt leaves what all the others hold as it was.         *)
LEMMA FrameStep ==
  ASSUME TypeOK, LocksHeld, NEW a \in Attempts, Frame(a), LockStep(a), HeldAtStep(a)'
  PROVE  LocksHeld'
<1>1. HeldType /\ a \in Processes
  BY LocksAreLocks DEF TypeOK, HeldType, Modes
<1>2. Exclusion'
  BY <1>1, ExclusionStep DEF LocksHeld
<1>3. ASSUME NEW b \in Attempts PROVE HeldAtStep(b)'
  <2>1. CASE b = a
    BY <2>1
  <2>2. CASE b # a
    <3>1. pc'[b] = pc[b] /\ (b \in shell' <=> b \in shell) /\ held'[b] = held[b]
      BY <2>2, LocksAreLocks DEF Frame
    <3>2. HeldAtStep(b)
      BY DEF LocksHeld
    <3> QED BY <3>1, <3>2 DEF HeldAtStep, Alive, At, IsTraining, RunLock, SlotLock, DeviceLock
  <2> QED BY <2>1, <2>2
<1>4. ASSUME NEW g \in Gpus PROVE HeldBySampling(g)'
  <2>1. Check(g) \in Processes \ {a}
    BY LocksAreLocks, ChecksAssumption
  <2>2. held'[Check(g)] = held[Check(g)] /\ check' = check
    BY <2>1 DEF Frame
  <2> QED BY <2>2 DEF LocksHeld, HeldBySampling, DeviceLock
<1> QED BY <1>2, <1>3, <1>4 DEF LocksHeld

(* The locks of one attempt are different ones.                             *)
LEMMA DistinctLocks ==
  ASSUME NEW a \in Attempts
  PROVE  /\ RunLock(a) \notin {PrepLock, SequenceLock, SharedLock, DataLock(a), SlotLock(Gpu[a]), DeviceLock(Gpu[a])}
         /\ SlotLock(Gpu[a]) # DeviceLock(Gpu[a])
BY DEF RunLock, PrepLock, SequenceLock, SharedLock, DataLock, SlotLock, DeviceLock

(* The locks of an attempt after each kind of step. *)
LEMMA OwnLocks ==
  ASSUME HeldType, NEW p \in Processes
  PROVE  /\ \A lock, mode : Take(p, lock, mode) => held'[p] = held[p] \cup {<<lock, mode>>}
         /\ \A locks : Drop(p, locks) => held'[p] = {h \in held[p] : h[1] \notin locks}
BY DEF HeldType, Take, Drop

(* Taking or giving back is nothing to the other processes.                 *)
LEMMA OtherLocks ==
  ASSUME HeldType, NEW p \in Processes
  PROVE  /\ \A lock, mode : Take(p, lock, mode) => \A q \in Processes \ {p} : held'[q] = held[q]
         /\ \A locks : Drop(p, locks) => \A q \in Processes \ {p} : held'[q] = held[q]
BY DEF HeldType, Take, Drop

(* Labels that ask for no more than the run lock. *)
Plain == Labels \ {"start", "gate", "memory", "prepare again", "train", "ended"}

(* Which labels are plain.                                                  *)
LEMMA PlainLabels ==
  /\ "prep" \in Plain /\ "ready" \in Plain /\ "data" \in Plain /\ "data ready" \in Plain
  /\ "sequences" \in Plain /\ "build sequences" \in Plain /\ "shared" \in Plain
  /\ "build shared" \in Plain /\ "built" \in Plain /\ "warmup" \in Plain /\ "prepare" \in Plain
  /\ "wait" \in Plain /\ "gpu" \in Plain /\ "exit" \in Plain
BY DEF Plain, Labels

(* At a plain label the run lock is enough.                                 *)
LEMMA PlainStep ==
  ASSUME NEW a \in Attempts, pc'[a] \in Plain, <<RunLock(a), "exclusive">> \in held'[a]
  PROVE  HeldAtStep(a)'
<1>1. <<RunLock(a)', "exclusive">> \in held'[a]
  BY DEF RunLock
<1> QED BY <1>1 DEF HeldAtStep, Plain, Labels, At, IsTraining

(* Every step of an attempt keeps what is held at each label.               *)
LEMMA WorkLocks ==
  ASSUME TypeOK, LocksHeld, NEW a \in Attempts, Work(a)
  PROVE  LocksHeld'
<1>1. HeldType /\ a \in Processes /\ pc \in [Attempts -> Labels] /\ HeldAtStep(a)
  BY LocksAreLocks DEF TypeOK, HeldType, Modes, LocksHeld
<1>2. /\ RunLock(a) \in Locks /\ DataLock(a) \in Locks /\ SlotLock(Gpu[a]) \in Locks
      /\ DeviceLock(Gpu[a]) \in Locks
      /\ PrepLock \in Locks /\ SequenceLock \in Locks /\ SharedLock \in Locks
  BY LocksAreLocks
<1>3. "shared" \in Modes /\ "exclusive" \in Modes
  BY DEF Modes
<1>4. /\ \A lock, mode : Take(a, lock, mode) => held'[a] = held[a] \cup {<<lock, mode>>}
      /\ \A locks : Drop(a, locks) => held'[a] = {h \in held[a] : h[1] \notin locks}
  BY <1>1, OwnLocks
<1>5. /\ \A lock, mode : Take(a, lock, mode) => \A q \in Processes \ {a} : held'[q] = held[q]
      /\ \A locks : Drop(a, locks) => \A q \in Processes \ {a} : held'[q] = held[q]
  BY <1>1, OtherLocks
<1>6. \A lock \in Locks, mode \in Modes : Take(a, lock, mode) => LockStep(a)
  BY DEF LockStep
<1>7. \A locks : Drop(a, locks) => LockStep(a)
  BY <1>1, DropIsLess
<1>8. UNCHANGED held => LockStep(a) /\ \A q \in Processes \ {a} : held'[q] = held[q]
  BY DEF LockStep
<1>9. \A label : Goto(a, label) => pc'[a] = label /\ \A b \in Attempts \ {a} : pc'[b] = pc[b]
  BY <1>1 DEF Goto
<1>10. check' = check
  BY DEF Work
<1>11. Alive(a) \/ a \in shell => <<RunLock(a), "exclusive">> \in held[a]
  BY <1>1 DEF HeldAtStep
<1> DEFINE Distinct == RunLock(a) \notin {PrepLock, SequenceLock, SharedLock, DataLock(a), SlotLock(Gpu[a]), DeviceLock(Gpu[a])}
<1>12. Distinct
  BY DistinctLocks
<1> HIDE DEF Distinct
<1>13. CASE Own(a)
  <2>1. At(a, "start") /\ UNCHANGED <<stage, caches, released>>
    BY <1>13 DEF Own
  <2>2. CASE Free(RunLock(a), "exclusive")
    <3>1. Take(a, RunLock(a), "exclusive") /\ Goto(a, "prep") /\ shell' = shell \cup ({a} \cap Queued)
      BY <1>13, <2>2 DEF Own
    <3>4. \A b \in Attempts \ {a} : pc'[b] = pc[b] /\ (b \in shell' <=> b \in shell)
      BY <3>1, <1>9
    <3>2. Frame(a) /\ LockStep(a)
      <4>1. \A q \in Processes \ {a} : held'[q] = held[q]
        BY <3>1, <1>5
      <4>2. LockStep(a)
        BY <3>1, <1>2, <1>3, <1>6
      <4> QED BY <3>4, <4>1, <4>2, <1>10 DEF Frame
    <3>3. pc'[a] \in Plain /\ <<RunLock(a), "exclusive">> \in held'[a]
      <4>1. pc'[a] = "prep"
        BY <3>1, <1>9
      <4>2. <<RunLock(a), "exclusive">> \in held'[a]
        BY <3>1, <1>4
      <4> QED BY <4>1, <4>2, PlainLabels
    <3> QED BY <3>2, <3>3, PlainStep, FrameStep
  <2>3. CASE ~Free(RunLock(a), "exclusive")
    <3>1. Goto(a, "ended") /\ UNCHANGED <<held, shell>>
      BY <1>13, <2>3 DEF Own
    <3>2. Frame(a) /\ LockStep(a)
      BY <3>1, <1>8, <1>9, <1>10 DEF Frame
    <3>3. HeldAtStep(a)'
      <4>1. pc'[a] = "ended" /\ shell' = shell /\ held' = held
        BY <3>1, <1>9
      <4> QED BY <4>1, <1>11 DEF HeldAtStep, Alive, At, IsTraining, RunLock
    <3> QED BY <3>2, <3>3, FrameStep
  <2> QED BY <2>2, <2>3
<1>14. ASSUME \/ TakePrep(a) \/ TakeData(a) \/ TakeWarmup(a) \/ CheckReady(a) \/ Wait(a)
              \/ TakeSequences(a) \/ TakeShared(a)
       PROVE  LocksHeld'
  <2>6. Alive(a) /\ shell' = shell
    BY <1>14 DEF TakePrep, TakeData, TakeWarmup, CheckReady, Wait, TakeSequences, TakeShared, Alive, At
  <2>5. \E label \in Plain : Goto(a, label)
    BY <1>14, Zenon, PlainLabels DEF TakePrep, TakeData, TakeWarmup, CheckReady, Wait, TakeSequences, TakeShared
  <2>1. /\ Alive(a) /\ shell' = shell /\ pc'[a] \in Plain
        /\ \A b \in Attempts \ {a} : pc'[b] = pc[b]
    BY <2>6, <2>5, <1>9
  <2>2. UNCHANGED held \/ \E lock \in Locks, mode \in Modes : Take(a, lock, mode)
    BY <1>14, <1>2, <1>3 DEF TakePrep, TakeData, TakeWarmup, CheckReady, Wait, TakeSequences, TakeShared
  <2>3. Frame(a) /\ LockStep(a)
    BY <2>1, <2>2, <1>5, <1>6, <1>8, <1>10 DEF Frame
  <2>4. <<RunLock(a), "exclusive">> \in held'[a]
    BY <2>1, <2>2, <1>4, <1>11
  <2> QED BY <2>1, <2>3, <2>4, PlainStep, FrameStep
<1>15. ASSUME RecheckReady(a) \/ BuildSequences(a) \/ BuildShared(a) \/ Built(a) \/ Prepare(a)
       PROVE  LocksHeld'
  <2>6. Alive(a) /\ shell' = shell
    BY <1>15 DEF RecheckReady, BuildSequences, BuildShared, Built, Prepare, Alive, At
  <2>5. \E label \in Plain : Goto(a, label)
    BY <1>15, Zenon, PlainLabels DEF RecheckReady, BuildSequences, BuildShared, Built, Prepare
  <2>1. /\ Alive(a) /\ shell' = shell /\ pc'[a] \in Plain
        /\ \A b \in Attempts \ {a} : pc'[b] = pc[b]
    BY <2>6, <2>5, <1>9
  <2>2. UNCHANGED held \/ \E locks : Drop(a, locks) /\ RunLock(a) \notin locks
    BY <1>15, <1>12 DEF RecheckReady, BuildSequences, BuildShared, Built, Prepare, Distinct
  <2>3. Frame(a) /\ LockStep(a)
    BY <2>1, <2>2, <1>5, <1>7, <1>8, <1>10 DEF Frame
  <2>4. <<RunLock(a), "exclusive">> \in held'[a]
    BY <2>1, <2>2, <1>4, <1>11
  <2> QED BY <2>1, <2>3, <2>4, PlainStep, FrameStep
<1>16. CASE TakeGPU(a)
  <2>1. /\ Alive(a) /\ shell' = shell
    BY <1>16 DEF TakeGPU, Alive, At
  <2>2. CASE a \in Queued
    <3>1. Take(a, SlotLock(Gpu[a]), "exclusive") /\ Goto(a, "gate")
      BY <1>16, <2>2 DEF TakeGPU
    <3>2. Frame(a) /\ LockStep(a)
      BY <2>1, <3>1, <1>2, <1>3, <1>5, <1>6, <1>9, <1>10 DEF Frame
    <3>3. pc'[a] = "gate" /\ <<SlotLock(Gpu[a]), "exclusive">> \in held'[a]
          /\ <<RunLock(a), "exclusive">> \in held'[a]
      BY <2>1, <3>1, <1>4, <1>9, <1>11
    <3>4. HeldAtStep(a)'
      BY <2>2, <3>3 DEF HeldAtStep, At, IsTraining, RunLock, SlotLock
    <3> QED BY <3>2, <3>4, FrameStep
  <2>3. CASE a \notin Queued
    <3>1. Take(a, DeviceLock(Gpu[a]), "exclusive") /\ Goto(a, "train")
      BY <1>16, <2>3 DEF TakeGPU
    <3>2. Frame(a) /\ LockStep(a)
      BY <2>1, <3>1, <1>2, <1>3, <1>5, <1>6, <1>9, <1>10 DEF Frame
    <3>3. pc'[a] = "train" /\ <<DeviceLock(Gpu[a]), "exclusive">> \in held'[a]
          /\ <<RunLock(a), "exclusive">> \in held'[a]
      BY <2>1, <3>1, <1>4, <1>9, <1>11
    <3>4. HeldAtStep(a)'
      BY <2>3, <3>3 DEF HeldAtStep, At, IsTraining, RunLock, DeviceLock
    <3> QED BY <3>2, <3>4, FrameStep
  <2> QED BY <2>2, <2>3
<1>17. CASE TakeGate(a)
  <2>1. /\ Alive(a) /\ At(a, "gate") /\ shell' = shell
        /\ Take(a, DeviceLock(Gpu[a]), "shared") /\ Goto(a, "memory")
    BY <1>17 DEF TakeGate, Alive, At
  <2>2. Frame(a) /\ LockStep(a)
    BY <2>1, <1>2, <1>3, <1>5, <1>6, <1>9, <1>10 DEF Frame
  <2>3. a \in Queued /\ <<SlotLock(Gpu[a]), "exclusive">> \in held[a]
    BY <2>1, <1>1 DEF HeldAtStep, At
  <2>4. /\ pc'[a] = "memory" /\ <<SlotLock(Gpu[a]), "exclusive">> \in held'[a]
        /\ <<DeviceLock(Gpu[a]), "shared">> \in held'[a] /\ <<RunLock(a), "exclusive">> \in held'[a]
    BY <2>1, <2>3, <1>4, <1>9, <1>11
  <2>5. HeldAtStep(a)'
    BY <2>3, <2>4 DEF HeldAtStep, At, IsTraining, RunLock, SlotLock, DeviceLock
  <2> QED BY <2>2, <2>5, FrameStep
<1>18. CASE WaitMemory(a) \/ PrepareAgain(a)
  <2>1. /\ pc[a] \in {"memory", "prepare again"} /\ pc'[a] \in {"prepare again", "train"}
        /\ shell' = shell /\ held' = held /\ \A b \in Attempts \ {a} : pc'[b] = pc[b]
    BY <1>18, <1>9 DEF WaitMemory, PrepareAgain, At
  <2>2. Frame(a) /\ LockStep(a)
    BY <2>1, <1>8, <1>10 DEF Frame
  <2>3. /\ a \in Queued /\ <<SlotLock(Gpu[a]), "exclusive">> \in held[a]
        /\ <<DeviceLock(Gpu[a]), "shared">> \in held[a] /\ <<RunLock(a), "exclusive">> \in held[a]
    BY <2>1, <1>1 DEF HeldAtStep, Alive, IsTraining
  <2>4. HeldAtStep(a)'
    BY <2>1, <2>3 DEF HeldAtStep, At, IsTraining, RunLock, SlotLock, DeviceLock
  <2> QED BY <2>2, <2>4, FrameStep
<1>19. CASE Train(a)
  <2>6. Alive(a) /\ shell' = shell /\ Drop(a, {SlotLock(Gpu[a]), DeviceLock(Gpu[a])})
    BY <1>19 DEF Train, Alive, At
  <2>5. \E label \in Plain : Goto(a, label)
    BY <1>19, PlainLabels DEF Train
  <2>1. /\ Alive(a) /\ shell' = shell /\ pc'[a] \in Plain
        /\ \A b \in Attempts \ {a} : pc'[b] = pc[b]
        /\ Drop(a, {SlotLock(Gpu[a]), DeviceLock(Gpu[a])})
    BY <2>6, <2>5, <1>9
  <2>2. Frame(a) /\ LockStep(a)
    BY <2>1, <1>5, <1>7, <1>10 DEF Frame
  <2>3. <<RunLock(a), "exclusive">> \in held'[a]
    BY <2>1, <1>4, <1>11, <1>12 DEF Distinct
  <2> QED BY <2>1, <2>2, <2>3, PlainStep, FrameStep
<1>20. CASE Exit(a)
  <2> DEFINE S == IF a \in shell THEN {<<RunLock(a), "exclusive">>} ELSE {}
  <2>1. Alive(a) /\ shell' = shell /\ Goto(a, "ended") /\ held' = [held EXCEPT ![a] = S]
    BY <1>20 DEF Exit, Alive, At
  <2>2. S \in SUBSET held[a]
    BY <2>1, <1>11
  <2> HIDE DEF S
  <2>3. LockStep(a)
    BY <2>1, <2>2 DEF LockStep
  <2>4. Frame(a) /\ held'[a] = S
    BY <2>1, <1>1, <1>9, <1>10 DEF Frame, HeldType
  <2>5. HeldAtStep(a)'
    <3>1. pc'[a] = "ended" /\ (a \in shell' => <<RunLock(a), "exclusive">> \in held'[a])
      BY <2>1, <2>4, <1>9 DEF S
    <3> QED BY <3>1 DEF HeldAtStep, Alive, At, IsTraining, RunLock
  <2> QED BY <2>3, <2>4, <2>5, FrameStep
<1>21. CASE ShellExit(a)
  <2>1. At(a, "ended") /\ shell' = shell \ {a} /\ Drop(a, {RunLock(a)}) /\ pc' = pc
    BY <1>21 DEF ShellExit
  <2>2. Frame(a) /\ LockStep(a)
    BY <2>1, <1>5, <1>7, <1>10 DEF Frame
  <2>3. HeldAtStep(a)'
    BY <2>1 DEF HeldAtStep, Alive, At, IsTraining
  <2> QED BY <2>2, <2>3, FrameStep
<1> QED
  BY <1>13, <1>14, <1>15, <1>16, <1>17, <1>18, <1>19, <1>20, <1>21 DEF Work

(* A death leaves the shell its run lock, or the process its own.            *)
LEMMA DieLocks ==
  ASSUME TypeOK, LocksHeld, NEW a \in Attempts, Die(a)
  PROVE  LocksHeld'
<1>1. HeldType /\ a \in Processes /\ pc \in [Attempts -> Labels] /\ HeldAtStep(a)
  BY LocksAreLocks DEF TypeOK, HeldType, Modes, LocksHeld
<1>2. Alive(a) /\ check' = check
  BY DEF Die, Alive
<1>3. <<RunLock(a), "exclusive">> \in held[a]
  BY <1>1, <1>2 DEF HeldAtStep
<1> DEFINE S == IF a \in shell THEN {<<RunLock(a), "exclusive">>} ELSE {}
<1>4. S \in SUBSET held[a]
  BY <1>3
<1>5. ASSUME Goto(a, "ended"), shell' = shell, held' = [held EXCEPT ![a] = S]
      PROVE  LocksHeld'
  <2>1. a \in shell => <<RunLock(a), "exclusive">> \in S
    OBVIOUS
  <2> HIDE DEF S
  <2>2. LockStep(a)
    BY <1>4, <1>5 DEF LockStep
  <2>3. pc'[a] = "ended" /\ \A b \in Attempts \ {a} : pc'[b] = pc[b]
    BY <1>1, <1>5 DEF Goto
  <2>4. Frame(a) /\ held'[a] = S
    BY <1>1, <1>2, <1>5, <2>3 DEF Frame, HeldType
  <2>5. HeldAtStep(a)'
    BY <1>5, <2>1, <2>3, <2>4 DEF HeldAtStep, Alive, At, IsTraining, RunLock
  <2> QED BY <2>2, <2>4, <2>5, FrameStep
<1>6. ASSUME a \in shell, shell' = shell \ {a}, UNCHANGED <<pc, held>>
      PROVE  LocksHeld'
  <2>1. Frame(a) /\ LockStep(a)
    BY <1>2, <1>6 DEF Frame, LockStep
  <2>2. HeldAtStep(a)'
    BY <1>1, <1>6 DEF HeldAtStep, Alive, At, IsTraining, RunLock, SlotLock, DeviceLock
  <2> QED BY <2>1, <2>2, FrameStep
<1> QED BY <1>5, <1>6 DEF Die

(* A check takes and gives back the lock of its own device.                  *)
LEMMA CheckLocks ==
  ASSUME TypeOK, LocksHeld, NEW g \in Gpus, LockStep(Check(g)), HeldBySampling(g)',
         pc' = pc, shell' = shell,
         \A f \in Gpus \ {g} : check'[f] = check[f],
         \A p \in Processes \ {Check(g)} : held'[p] = held[p]
  PROVE  LocksHeld'
<1>1. HeldType /\ Check(g) \in Processes
  BY LocksAreLocks DEF TypeOK, HeldType, Modes
<1>2. Exclusion'
  BY <1>1, ExclusionStep DEF LocksHeld
<1>3. ASSUME NEW a \in Attempts PROVE HeldAtStep(a)'
  <2>1. a \in Processes \ {Check(g)}
    BY LocksAreLocks, ChecksAssumption
  <2>2. held'[a] = held[a] /\ HeldAtStep(a)
    BY <2>1 DEF LocksHeld
  <2> QED BY <2>2 DEF HeldAtStep, Alive, At, IsTraining, RunLock, SlotLock, DeviceLock
<1>4. ASSUME NEW f \in Gpus, f # g PROVE HeldBySampling(f)'
  <2>1. Check(f) \in Processes \ {Check(g)}
    BY <1>4, LocksAreLocks DEF Check
  <2>2. held'[Check(f)] = held[Check(f)] /\ check'[f] = check[f] /\ HeldBySampling(f)
    BY <1>4, <2>1 DEF LocksHeld
  <2> QED BY <2>2 DEF HeldBySampling, DeviceLock
<1>5. \A f \in Gpus : HeldBySampling(f)'
  BY <1>4
<1> QED BY <1>2, <1>3, <1>5 DEF LocksHeld

(* Whoever trains, samples or owns a run name holds the locks of its step,   *)
(* and no lock has two holders unless they share it: for every set of        *)
(* attempts, with processes and shells dying at any step.                    *)
THEOREM LocksCorrect == Spec => []LocksHeld
<1>1. Init => LocksHeld
  BY LocksAreLocks DEF Init, LocksHeld, Exclusion, HeldAtStep, HeldBySampling, Alive, At, IsTraining
<1>2. TypeOK /\ LocksHeld /\ [Next]_vars => LocksHeld'
  <2> SUFFICES ASSUME TypeOK, LocksHeld, [Next]_vars PROVE LocksHeld'
    OBVIOUS
  <2>1. HeldType /\ check \in [Gpus -> {"idle", "gate", "sampling"}]
    BY DEF TypeOK, HeldType, Modes
  <2>2. ASSUME NEW a \in Attempts, Work(a) PROVE LocksHeld'
    BY <2>2, WorkLocks
  <2>3. ASSUME NEW a \in Attempts, Die(a) PROVE LocksHeld'
    BY <2>3, DieLocks
  <2>4. ASSUME UNCHANGED <<pc, shell, held, check>> PROVE LocksHeld'
    BY <2>4 DEF LocksHeld, Exclusion, HeldAtStep, HeldBySampling, Alive, At, IsTraining,
       RunLock, SlotLock, DeviceLock
  <2>5. CASE Release
    BY <2>4, <2>5 DEF Release
  <2>6. ASSUME NEW g \in Gpus, CheckStart(g) PROVE LocksHeld'
    <3>1. check'[g] = "gate" /\ \A f \in Gpus \ {g} : check'[f] = check[f]
      BY <2>1, <2>6 DEF CheckStart
    <3>2. HeldBySampling(g)' /\ LockStep(Check(g))
      BY <2>6, <3>1 DEF CheckStart, HeldBySampling, LockStep
    <3>3. pc' = pc /\ shell' = shell /\ held' = held
      BY <2>6 DEF CheckStart
    <3> QED BY <3>1, <3>2, <3>3, CheckLocks
  <2>7. ASSUME NEW g \in Gpus, CheckGate(g) PROVE LocksHeld'
    <3>1. Check(g) \in Processes /\ DeviceLock(g) \in Locks /\ "exclusive" \in Modes
      BY LocksAreLocks DEF Modes
    <3>2. Take(Check(g), DeviceLock(g), "exclusive") /\ pc' = pc /\ shell' = shell
      BY <2>7 DEF CheckGate
    <3>3. check'[g] = "sampling" /\ \A f \in Gpus \ {g} : check'[f] = check[f]
      BY <2>1, <2>7 DEF CheckGate
    <3>4. /\ <<DeviceLock(g), "exclusive">> \in held'[Check(g)]
          /\ \A p \in Processes \ {Check(g)} : held'[p] = held[p]
      BY <2>1, <3>1, <3>2, OwnLocks, OtherLocks
    <3>5. HeldBySampling(g)' /\ LockStep(Check(g))
      BY <3>1, <3>2, <3>4 DEF HeldBySampling, LockStep, DeviceLock
    <3> QED BY <3>2, <3>3, <3>4, <3>5, CheckLocks
  <2>8. ASSUME NEW g \in Gpus, CheckEnd(g) PROVE LocksHeld'
    <3>1. Check(g) \in Processes
      BY LocksAreLocks
    <3>2. Drop(Check(g), {DeviceLock(g)}) /\ pc' = pc /\ shell' = shell
      BY <2>8 DEF CheckEnd
    <3>3. check'[g] = "idle" /\ \A f \in Gpus \ {g} : check'[f] = check[f]
      BY <2>1, <2>8 DEF CheckEnd
    <3>4. \A p \in Processes \ {Check(g)} : held'[p] = held[p]
      BY <2>1, <3>1, <3>2, OtherLocks
    <3>5. HeldBySampling(g)' /\ LockStep(Check(g))
      BY <3>1, <3>2, <3>3, DropIsLess DEF HeldBySampling
    <3> QED BY <3>2, <3>3, <3>4, <3>5, CheckLocks
  <2>9. CASE UNCHANGED vars
    BY <2>4, <2>9 DEF vars
  <2> QED BY <2>2, <2>3, <2>5, <2>6, <2>7, <2>8, <2>9 DEF Next
<1> QED BY <1>1, <1>2, TrainingTypeCorrect, PTL DEF Spec

-----------------------------------------------------------------------------
(* What the locks are for. *)

(* Two runs train on one GPU only by two exclusive holders of its slot or of *)
(* its device, or by one that shares the device with an exclusive one.       *)
THEOREM GPUCorrect == Spec => []OneTrainerPerGPU
<1>1. LocksHeld => OneTrainerPerGPU
  <2> SUFFICES ASSUME LocksHeld, NEW a \in Attempts, NEW b \in Attempts,
                      IsTraining(a), IsTraining(b), Gpu[a] = Gpu[b], a # b
               PROVE  FALSE
    BY DEF OneTrainerPerGPU
  <2>1. a \in Processes /\ b \in Processes /\ Exclusion /\ HeldAtStep(a) /\ HeldAtStep(b)
    BY LocksAreLocks DEF LocksHeld
  <2>2. ASSUME NEW lock, NEW mode, <<lock, "exclusive">> \in held[a], <<lock, mode>> \in held[b]
        PROVE  FALSE
    BY <2>1, <2>2 DEF Exclusion
  <2>3. ASSUME NEW lock, NEW mode, <<lock, mode>> \in held[a], <<lock, "exclusive">> \in held[b]
        PROVE  FALSE
    BY <2>1, <2>3 DEF Exclusion
  <2>4. SlotLock(Gpu[a]) = SlotLock(Gpu[b]) /\ DeviceLock(Gpu[a]) = DeviceLock(Gpu[b])
    OBVIOUS
  <2>5. CASE a \in Queued /\ b \in Queued
    BY <2>1, <2>2, <2>4, <2>5 DEF HeldAtStep
  <2>6. CASE a \in Queued /\ b \notin Queued
    <3>1. At(b, "train")
      BY <2>1, <2>6 DEF HeldAtStep, IsTraining, At
    <3> QED BY <2>1, <2>3, <2>4, <2>6, <3>1 DEF HeldAtStep
  <2>7. CASE a \notin Queued
    <3>1. At(a, "train") /\ (b \notin Queued => At(b, "train"))
      BY <2>1, <2>7 DEF HeldAtStep, IsTraining, At
    <3> QED BY <2>1, <2>2, <2>4, <2>7, <3>1 DEF HeldAtStep
  <2> QED BY <2>5, <2>6, <2>7
<1> QED BY <1>1, LocksCorrect, PTL

(* The check samples with its device locked exclusively, and every run that  *)
(* trains there holds that lock in some mode.                                *)
THEOREM CheckCorrect == Spec => []ChecksSeeNoTraining
<1>1. LocksHeld => ChecksSeeNoTraining
  <2> SUFFICES ASSUME LocksHeld, NEW a \in Attempts, check[Gpu[a]] = "sampling", IsTraining(a)
               PROVE  FALSE
    BY DEF ChecksSeeNoTraining
  <2>1. /\ a \in Processes /\ Check(Gpu[a]) \in Processes /\ a # Check(Gpu[a])
        /\ Exclusion /\ HeldAtStep(a) /\ HeldBySampling(Gpu[a])
    BY LocksAreLocks, ChecksAssumption DEF LocksHeld
  <2>2. <<DeviceLock(Gpu[a]), "exclusive">> \in held[Check(Gpu[a])]
    BY <2>1 DEF HeldBySampling
  <2>3. \E mode : <<DeviceLock(Gpu[a]), mode>> \in held[a]
    BY <2>1 DEF HeldAtStep, IsTraining, At
  <2> QED BY <2>1, <2>2, <2>3 DEF Exclusion
<1> QED BY <1>1, LocksCorrect, PTL

(* Every live process holds the lock of its run name, exclusively, whether   *)
(* its shell lives or not.                                                   *)
THEOREM OwnershipCorrect == Spec => []OneProcessPerRun
<1>1. LocksHeld => OneProcessPerRun
  <2> SUFFICES ASSUME LocksHeld, NEW a \in Attempts, NEW b \in Attempts,
                      Alive(a), Alive(b), Name[a] = Name[b], a # b
               PROVE  FALSE
    BY DEF OneProcessPerRun
  <2>1. a \in Processes /\ b \in Processes /\ Exclusion /\ HeldAtStep(a) /\ HeldAtStep(b)
    BY LocksAreLocks DEF LocksHeld
  <2>2. <<RunLock(a), "exclusive">> \in held[a] /\ <<RunLock(a), "exclusive">> \in held[b]
    BY <2>1 DEF HeldAtStep, RunLock
  <2> QED BY <2>1, <2>2 DEF Exclusion
<1> QED BY <1>1, LocksCorrect, PTL

-----------------------------------------------------------------------------
(* The caches.  CachesBuilt needs no more than which locks are held while    *)
(* they are built and read, and where in its preparation an attempt is.      *)

(* The steps of an attempt that need no lock of a cache. *)
Unbound == {"start", "prep", "warmup", "wait", "gpu", "gate", "memory", "prepare again", "train", "exit", "ended"}

(* The lock of the preparation is none of those that are dropped before its end. *)
LEMMA PrepDistinct ==
  ASSUME NEW a \in Attempts
  PROVE  PrepLock \notin {SequenceLock, SharedLock, DataLock(a)}
BY DEF PrepLock, SequenceLock, SharedLock, DataLock

(* An attempt that takes a step holds what the next one builds or reads under. *)
LEMMA BuilderWork ==
  ASSUME TypeOK, NEW a \in Attempts, Work(a), BuilderHolds(a)
  PROVE  BuilderHolds(a)'
<1> DEFINE mode == IF a \in Cold THEN "exclusive" ELSE "shared"
           Prep(m) == <<PrepLock, m>>
<1>1. HeldType /\ a \in Processes /\ pc \in [Attempts -> Labels]
  BY LocksAreLocks DEF TypeOK, HeldType, Modes
<1>2. /\ \A lock, m : Take(a, lock, m) => held'[a] = held[a] \cup {<<lock, m>>}
      /\ \A locks : Drop(a, locks) => held'[a] = {h \in held[a] : h[1] \notin locks}
  BY <1>1, OwnLocks
<1>3. \A label : Goto(a, label) => pc'[a] = label
  BY <1>1 DEF Goto
<1>4. PrepLock \notin {SequenceLock, SharedLock, DataLock(a)}
  BY PrepDistinct
<1>5. /\ a \in Cold => pc[a] \notin {"ready", "data", "data ready"}
      /\ pc[a] \in {"ready", "data", "data ready", "sequences", "build sequences", "shared", "build shared", "built"} =>
           Prep(mode) \in held[a]
  BY DEF BuilderHolds
<1>6. ASSUME pc'[a] \in Unbound  PROVE BuilderHolds(a)'
  BY <1>6 DEF BuilderHolds, At, Unbound
<1>7. ASSUME pc'[a] \in {"ready", "data", "data ready"}, a \notin Cold, Prep(mode) \in held'[a]
      PROVE  BuilderHolds(a)'
  BY <1>7 DEF BuilderHolds, At, PrepLock
<1>8. ASSUME pc'[a] \in {"sequences", "shared", "build shared", "built"}, Prep(mode) \in held'[a]
      PROVE  BuilderHolds(a)'
  BY <1>8 DEF BuilderHolds, At, PrepLock
<1>9. CASE Own(a) \/ Wait(a) \/ WaitMemory(a) \/ PrepareAgain(a) \/ TakeGPU(a) \/ TakeGate(a) \/ Train(a) \/ Exit(a)
           \/ Prepare(a)
  <2>1. \E label \in Unbound : Goto(a, label)
    BY <1>9 DEF Own, Wait, WaitMemory, PrepareAgain, TakeGPU, TakeGate, Train, Exit, Prepare, Unbound
  <2> QED  BY <1>3, <1>6, <2>1
<1>10. CASE ShellExit(a)
  BY <1>10, <1>6 DEF ShellExit, At, Unbound
<1>20. /\ \A lock, m : Take(a, lock, m) => held[a] \subseteq held'[a] /\ <<lock, m>> \in held'[a]
       /\ \A locks : Drop(a, locks) /\ PrepLock \notin locks /\ Prep(mode) \in held[a] => Prep(mode) \in held'[a]
  BY <1>2
<1>11. CASE TakePrep(a)
  BY <1>11, <1>20, <1>3, <1>7, <1>8 DEF TakePrep
<1>12. CASE CheckReady(a)
  BY <1>12, <1>3, <1>5, <1>7, <1>8 DEF CheckReady, At
<1>13. CASE TakeData(a)
  BY <1>13, <1>20, <1>3, <1>5, <1>7 DEF TakeData, At
<1>14. CASE RecheckReady(a)
  <2>1. Prep(mode) \in held[a] /\ pc'[a] = "sequences"
    BY <1>14, <1>3, <1>5 DEF RecheckReady, At
  <2>2. Prep(mode) \in held'[a]
    BY <1>14, <1>4, <1>20, <2>1 DEF RecheckReady
  <2> QED  BY <1>8, <2>1, <2>2
<1>15. CASE TakeSequences(a)
  <2>1. At(a, "sequences") /\ Prep(mode) \in held[a]
    BY <1>15, <1>5 DEF TakeSequences, At
  <2>2. CASE Goto(a, "shared") /\ UNCHANGED held
    BY <1>3, <1>8, <2>1, <2>2
  <2>3. CASE Goto(a, "build sequences") /\ Take(a, SequenceLock, "exclusive")
    <3>1. pc'[a] = "build sequences" /\ Prep(mode) \in held'[a] /\ <<SequenceLock, "exclusive">> \in held'[a]
      BY <1>20, <1>3, <2>1, <2>3
    <3> QED  BY <3>1 DEF BuilderHolds, At, PrepLock, SequenceLock
  <2> QED  BY <1>15, <2>2, <2>3 DEF TakeSequences
<1>16. CASE BuildSequences(a) \/ BuildShared(a)
  <2>1. Prep(mode) \in held[a] /\ pc'[a] \in {"shared", "built"}
    BY <1>16, <1>3, <1>5 DEF BuildSequences, BuildShared, At
  <2>2. Prep(mode) \in held'[a]
    BY <1>16, <1>4, <1>20, <2>1 DEF BuildSequences, BuildShared
  <2> QED  BY <1>8, <2>1, <2>2
<1>17. CASE TakeShared(a)
  <2>1. Prep(mode) \in held[a]
    BY <1>17, <1>5 DEF TakeShared, At
  <2>2. Prep(mode) \in held'[a]
    BY <1>17, <1>20, <2>1 DEF TakeShared
  <2>3. pc'[a] \in {"build shared", "built"}
    BY <1>17, <1>3 DEF TakeShared
  <2> QED  BY <2>2, <2>3, <1>8
<1>18. CASE Built(a)
  <2>1. CASE a \in Cold
    BY <1>18, <1>3, <1>6, <2>1 DEF Built, Unbound
  <2>2. CASE a \notin Cold
    <3>1. pc'[a] = "prepare" /\ Prep("shared") \in held'[a]
      BY <1>18, <1>20, <1>3, <1>4, <1>5, <2>2 DEF Built, At
    <3> QED  BY <3>1 DEF BuilderHolds, At, PrepLock
  <2> QED  BY <2>1, <2>2
<1>19. CASE TakeWarmup(a)
  <2>1. pc'[a] = "prepare" /\ Prep("shared") \in held'[a]
    BY <1>19, <1>20, <1>3 DEF TakeWarmup
  <2> QED  BY <2>1 DEF BuilderHolds, At, PrepLock
<1> QED
  BY <1>9, <1>10, <1>11, <1>12, <1>13, <1>14, <1>15, <1>16, <1>17, <1>18, <1>19 DEF Work

(* Other steps leave it what it holds. *)
LEMMA BuilderFrame ==
  ASSUME NEW b \in Attempts, BuilderHolds(b), held'[b] = held[b], pc'[b] = pc[b]
  PROVE  BuilderHolds(b)'
BY DEF BuilderHolds, At, PrepLock, SequenceLock

(* A step of one attempt touches no lock and no step of another.             *)
LEMMA WorkFrame ==
  ASSUME TypeOK, NEW a \in Attempts, Work(a) \/ Die(a), NEW b \in Attempts, b # a
  PROVE  held'[b] = held[b] /\ pc'[b] = pc[b]
<1>1. HeldType /\ a \in Processes /\ b \in Processes /\ pc \in [Attempts -> Labels]
  BY LocksAreLocks DEF TypeOK, HeldType, Modes
<1>2. /\ \A lock, m : Take(a, lock, m) => held'[b] = held[b]
      /\ \A locks : Drop(a, locks) => held'[b] = held[b]
  BY <1>1, OtherLocks
<1>3. \A S : held' = [held EXCEPT ![a] = S] => held'[b] = held[b]
  BY <1>1 DEF HeldType
<1>4. \A label : Goto(a, label) => pc'[b] = pc[b]
  BY <1>1 DEF Goto
<1>5. held'[b] = held[b]
  BY <1>2, <1>3 DEF Work, Own, TakePrep, CheckReady, TakeData, RecheckReady, TakeSequences, BuildSequences, TakeShared,
     BuildShared, Built, TakeWarmup, Prepare, Wait, TakeGPU, TakeGate, WaitMemory, PrepareAgain, Train, Exit, ShellExit,
     Die
<1>6. pc'[b] = pc[b]
  BY <1>4 DEF Work, Own, TakePrep, CheckReady, TakeData, RecheckReady, TakeSequences, BuildSequences, TakeShared,
     BuildShared, Built, TakeWarmup, Prepare, Wait, TakeGPU, TakeGate, WaitMemory, PrepareAgain, Train, Exit, ShellExit,
     Die
<1> QED  BY <1>5, <1>6

(* The steps that begin and end the building of the cache are the only ones  *)
(* that change it, or enter and leave the step that builds.                  *)
LEMMA CacheSteps ==
  ASSUME TypeOK, NEW a \in Attempts, Work(a), ~TakeSequences(a), ~BuildSequences(a)
  PROVE  /\ sequences' = sequences /\ pc[a] # "build sequences" /\ pc'[a] # "build sequences"
         /\ pc'[a] \in Reading => pc[a] \in Reading
<1>1. \A label : Goto(a, label) => pc'[a] = label
  BY DEF TypeOK, Goto
<1>2. sequences' = sequences
  BY DEF caches, Work, Own, TakePrep, CheckReady, TakeData, RecheckReady, TakeShared, BuildShared, Built, TakeWarmup,
     Prepare, Wait, TakeGPU, TakeGate, WaitMemory, PrepareAgain, Train, Exit, ShellExit
<1>3. pc[a] # "build sequences"
  BY DEF At, Work, Own, TakePrep, CheckReady, TakeData, RecheckReady, TakeShared, BuildShared, Built, TakeWarmup,
     Prepare, Wait, TakeGPU, TakeGate, WaitMemory, PrepareAgain, Train, Exit, ShellExit
<1>4. CASE Own(a) \/ TakePrep(a) \/ CheckReady(a) \/ TakeData(a) \/ RecheckReady(a) \/ Train(a) \/ Exit(a) \/ ShellExit(a)
  <2>1. pc'[a] \in {"prep", "ended", "sequences", "ready", "data", "data ready", "exit"}
    BY <1>1, <1>4 DEF At, Own, TakePrep, CheckReady, TakeData, RecheckReady, Train, Exit, ShellExit
  <2> QED  BY <1>2, <1>3, <2>1 DEF Reading
<1>5. CASE \/ TakeShared(a) \/ BuildShared(a) \/ Built(a) \/ TakeWarmup(a) \/ Prepare(a) \/ Wait(a) \/ TakeGPU(a)
           \/ TakeGate(a) \/ WaitMemory(a) \/ PrepareAgain(a)
  <2>1. pc[a] \in Reading
    BY <1>5 DEF At, TakeShared, BuildShared, Built, TakeWarmup, Prepare, Wait, TakeGPU, TakeGate, WaitMemory,
       PrepareAgain, Reading
  <2>2. \E label \in Reading : Goto(a, label)
    BY <1>5 DEF TakeShared, BuildShared, Built, TakeWarmup, Prepare, Wait, TakeGPU, TakeGate, WaitMemory,
       PrepareAgain, Reading
  <2>3. pc'[a] \in Reading
    BY <1>1, <2>2
  <2> QED  BY <1>2, <1>3, <2>1, <2>3 DEF Reading
<1> QED  BY <1>4, <1>5 DEF Work

(* Two attempts never build the cache at once. *)
LEMMA OneBuilder ==
  ASSUME LocksHeld, CachesBuilt, NEW a \in Attempts, NEW b \in Attempts, a # b
  PROVE  ~(At(a, "build sequences") /\ At(b, "build sequences"))
<1> SUFFICES ASSUME At(a, "build sequences"), At(b, "build sequences")  PROVE FALSE
  OBVIOUS
<1>1. {<<SequenceLock, "exclusive">>} \subseteq held[a] /\ {<<SequenceLock, "exclusive">>} \subseteq held[b]
  BY DEF CachesBuilt, BuilderHolds
<1>2. a \in Processes /\ b \in Processes
  BY LocksAreLocks
<1> QED  BY <1>1, <1>2 DEF LocksHeld, Exclusion

(* The cache stays whole unless someone builds it, and who builds it with no *)
(* one dead builds it first or has the preparation to itself.                *)
LEMMA CachesWork ==
  ASSUME TypeOK, LocksHeld, CachesBuilt, NEW a \in Attempts, Work(a)
  PROVE  CachesBuilt'
<1>1. \A b \in Attempts : BuilderHolds(b)'
  <2> SUFFICES ASSUME NEW b \in Attempts  PROVE BuilderHolds(b)'
    OBVIOUS
  <2>1. BuilderHolds(a) /\ BuilderHolds(b)
    BY DEF CachesBuilt
  <2>2. CASE b = a
    BY <2>1, <2>2, BuilderWork
  <2>3. CASE b # a
    BY <2>1, <2>3, WorkFrame, BuilderFrame
  <2> QED  BY <2>2, <2>3
<1>2. /\ \A b \in Attempts : b # a => pc'[b] = pc[b]
      /\ deaths' = deaths /\ \A label : Goto(a, label) => pc'[a] = label
  BY WorkFrame DEF Work, TypeOK, Goto
<1>3. CASE ~TakeSequences(a) /\ ~BuildSequences(a)
  <2>1. /\ sequences' = sequences /\ pc[a] # "build sequences" /\ pc'[a] # "build sequences"
        /\ pc'[a] \in Reading => pc[a] \in Reading
    BY <1>3, CacheSteps
  <2>2. \A b \in Attempts : /\ At(b, "build sequences")' <=> At(b, "build sequences")
                            /\ pc'[b] \in Reading => pc[b] \in Reading
    BY <1>2, <2>1 DEF At
  <2> QED  BY <1>1, <1>2, <2>1, <2>2 DEF CachesBuilt, At
<1>4. CASE TakeSequences(a)
  <2>1. At(a, "sequences") /\ Free(SequenceLock, "exclusive")
    BY <1>4 DEF TakeSequences
  <2>2. CASE sequences = "whole" /\ a \notin Cold
    <3>1. pc'[a] = "shared" /\ sequences' = "whole"
      BY <1>2, <1>4, <2>2 DEF TakeSequences
    <3>2. \A b \in Attempts : ~At(b, "build sequences") /\ ~At(b, "build sequences")'
      BY <1>2, <2>2, <3>1 DEF CachesBuilt, At
    <3> QED  BY <1>1, <3>1, <3>2 DEF CachesBuilt
  <2>3. CASE ~(sequences = "whole" /\ a \notin Cold)
    <3>1. pc'[a] = "build sequences" /\ sequences' = "partial"
      BY <1>2, <1>4, <2>3 DEF TakeSequences
    <3>2. \A b \in Attempts : ~At(b, "build sequences")
      <4> SUFFICES ASSUME NEW b \in Attempts, At(b, "build sequences")  PROVE FALSE
        OBVIOUS
      <4>1. <<SequenceLock, "exclusive">> \in held[b] /\ b \in Processes
        BY LocksAreLocks DEF CachesBuilt, BuilderHolds
      <4> QED  BY <2>1, <4>1 DEF Free, Holders
    <3>3. ASSUME a \notin Cold, deaths = 0 \/ Cold = {}, NEW b \in Attempts  PROVE pc[b] \notin Reading
      <4>1. sequences \in {"none", "partial"}
        BY <2>3, <3>3 DEF TypeOK
      <4> QED  BY <3>2, <3>3, <4>1 DEF CachesBuilt
    <3>4. \A b \in Attempts : pc'[b] \in Reading => pc[b] \in Reading
      BY <1>2, <3>1 DEF Reading
    <3>5. \A b \in Attempts : At(b, "build sequences")' => b = a
      BY <1>2, <3>2 DEF At
    <3>6. (\E b \in Attempts \ Cold : At(b, "build sequences"))' /\ deaths = 0 => \A b \in Attempts : pc'[b] \notin Reading
      BY <3>3, <3>4, <3>5
    <3>7. Cold = {} => \A b \in Attempts : pc'[b] \notin Reading
      BY <3>3, <3>4
    <3>8. (\E b \in Attempts : At(b, "build sequences"))'
      BY <3>1 DEF At
    <3> QED  BY <1>1, <1>2, <3>1, <3>6, <3>7, <3>8 DEF CachesBuilt
  <2> QED  BY <2>2, <2>3
<1>5. CASE BuildSequences(a)
  <2>1. At(a, "build sequences") /\ pc'[a] = "shared" /\ sequences' = "whole"
    BY <1>2, <1>5 DEF BuildSequences
  <2>2. \A b \in Attempts : ~At(b, "build sequences")'
    BY <1>2, <2>1, OneBuilder DEF At
  <2> QED  BY <1>1, <2>1, <2>2 DEF CachesBuilt
<1> QED  BY <1>3, <1>4, <1>5

(* A death leaves the cache as it is, and the dead one builds nothing. *)
LEMMA CachesDie ==
  ASSUME TypeOK, CachesBuilt, NEW a \in Attempts, Die(a)
  PROVE  CachesBuilt'
<1>1. /\ \A b \in Attempts : b # a => held'[b] = held[b] /\ pc'[b] = pc[b]
      /\ pc'[a] = "ended" \/ (pc'[a] = pc[a] /\ held'[a] = held[a])
      /\ sequences' = sequences /\ deaths' # 0
  <2>1. deaths \in Nat
    BY BoundsAssumption DEF TypeOK
  <2>2. deaths' # 0
    BY <2>1 DEF Die
  <2>3. pc'[a] = "ended" \/ (pc'[a] = pc[a] /\ held'[a] = held[a])
    BY DEF Die, Goto, TypeOK
  <2> QED  BY <2>2, <2>3, WorkFrame DEF Die, caches
<1>2. ASSUME NEW b \in Attempts  PROVE BuilderHolds(b)'
  <2>1. BuilderHolds(b)
    BY DEF CachesBuilt
  <2>2. CASE pc'[b] = pc[b] /\ held'[b] = held[b]
    BY <2>1, <2>2, BuilderFrame
  <2>3. CASE pc'[b] = "ended"
    BY <2>3 DEF BuilderHolds, At
  <2> QED  BY <1>1, <2>2, <2>3
<1>3. \A b \in Attempts : /\ At(b, "build sequences")' => At(b, "build sequences")
                          /\ pc'[b] \in Reading => pc[b] \in Reading
  BY <1>1 DEF At, Reading
<1> QED  BY <1>1, <1>2, <1>3 DEF CachesBuilt, At

(* What is known of the caches holds for every set of attempts, whichever of *)
(* them rebuild, with processes and shells dying at any step.                *)
THEOREM CachesBuiltCorrect == Spec => []CachesBuilt
<1>1. Init => CachesBuilt
  BY DEF Init, CachesBuilt, BuilderHolds, At, Reading
<1>2. TypeOK /\ LocksHeld /\ CachesBuilt /\ [Next]_vars => CachesBuilt'
  <2> SUFFICES ASSUME TypeOK, LocksHeld, CachesBuilt, [Next]_vars  PROVE CachesBuilt'
    OBVIOUS
  <2>1. ASSUME UNCHANGED <<pc, sequences, deaths>>, \A a \in Attempts : held'[a] = held[a]  PROVE CachesBuilt'
    <3>1. \A a \in Attempts : BuilderHolds(a)'
      BY <2>1, BuilderFrame DEF CachesBuilt
    <3> QED  BY <2>1, <3>1 DEF CachesBuilt, At
  <2>2. ASSUME NEW a \in Attempts, Work(a)  PROVE CachesBuilt'
    BY <2>2, CachesWork
  <2>3. ASSUME NEW a \in Attempts, Die(a)  PROVE CachesBuilt'
    BY <2>3, CachesDie
  <2>4. CASE Release
    BY <2>1, <2>4 DEF Release, caches
  <2>5. ASSUME NEW g \in Gpus, CheckStart(g) \/ CheckGate(g) \/ CheckEnd(g)  PROVE CachesBuilt'
    <3>1. HeldType /\ Check(g) \in Processes /\ \A a \in Attempts : a \in Processes \ {Check(g)}
      BY LocksAreLocks, ChecksAssumption DEF TypeOK, HeldType, Modes
    <3>2. \A a \in Attempts : held'[a] = held[a]
      BY <2>5, <3>1, OtherLocks DEF CheckStart, CheckGate, CheckEnd
    <3>3. UNCHANGED <<pc, sequences, deaths>>
      BY <2>5 DEF CheckStart, CheckGate, CheckEnd, caches
    <3> QED  BY <2>1, <3>2, <3>3
  <2>6. CASE UNCHANGED vars
    BY <2>1, <2>6 DEF vars, caches
  <2> QED  BY <2>2, <2>3, <2>4, <2>5, <2>6 DEF Next
<1> QED  BY <1>1, <1>2, TrainingTypeCorrect, LocksCorrect, PTL DEF Spec

(* As long as no run rebuilds, every run is prepared and trained from a      *)
(* whole cache, whoever died while it was built.                             *)
THEOREM WholeCacheCorrect == ASSUME Cold = {} PROVE Spec => []ReadsWholeCache
<1>1. CachesBuilt => ReadsWholeCache
  BY DEF CachesBuilt, ReadsWholeCache, Reading
<1> QED  BY <1>1, CachesBuiltCorrect, PTL

(* As long as nobody dies, no two runs build the cache at once and none      *)
(* warms its loaders while another one builds it, with any number of runs    *)
(* that rebuild.                                                             *)
THEOREM BuildsAloneCorrect == Spec => []BuildsAlone
<1>1. LocksHeld /\ CachesBuilt => BuildsAlone
  <2> SUFFICES ASSUME LocksHeld, CachesBuilt, deaths = 0, NEW a \in Attempts, NEW b \in Attempts,
                      pc[a] = "build sequences", a # b, pc[b] \in {"build sequences", "prepare"}
               PROVE  FALSE
    BY DEF BuildsAlone
  <2>1. At(b, "prepare")
    BY OneBuilder DEF At
  <2>2. a \in Cold
    BY <2>1 DEF CachesBuilt, At, Reading
  <2>3. <<PrepLock, "exclusive">> \in held[a] /\ <<PrepLock, "shared">> \in held[b]
    BY <2>1, <2>2 DEF CachesBuilt, BuilderHolds
  <2>4. a \in Processes /\ b \in Processes
    BY LocksAreLocks
  <2> QED  BY <2>3, <2>4 DEF LocksHeld, Exclusion
<1> QED  BY <1>1, CachesBuiltCorrect, LocksCorrect, PTL
================================================================================
