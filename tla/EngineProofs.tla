------------------------------ MODULE EngineProofs ------------------------------
(***************************************************************************)
(* What holds of module Engine for every number of GPUs and runs, all      *)
(* queue depths, and any foreign programs and checks that go wrong: its    *)
(* types, that no check samples a GPU on which a run of the queue trains,  *)
(* and that a drained queue leaves neither a run nor a check.              *)
(***************************************************************************)
EXTENDS Engine, FiniteSetTheorems, SequenceTheorems, WellFoundedInduction, TLAPS

-----------------------------------------------------------------------------
(* The inductive invariant. *)

(* The engine sees the end of a run after it, and the runs it has not been   *)
(* given, or is placing, have no process.                                    *)
RunsKnown ==
  /\ \A j \in reaped : Ended(j)
  /\ \A j \in Jobs : j > job \/ (j = job /\ pc \in {"select", "choose"}) => run[j] = "none"

(* A GPU is withheld while it is checked. *)
ChecksWithhold == \A g \in Gpus : pool.check[g] # "none" => pool.state[g] = "checking"

(* A GPU that is rejected, or checked without the gate, has no runs: a       *)
(* periodic check rejects nothing unless it cannot write.                    *)
RejectedAreEmpty ==
  faults = 0 =>
    \A g \in Gpus : pool.state[g] = "rejected" \/ pool.check[g] \in {"shot", "failed"} =>
      \A j \in Running : on[j] # g

SamplesAlone == \A g \in Gpus : pool.check[g] = "sampling" => Gated(g) = {}

DrainedKnown == At("drained") => Running = {} /\ \A g \in Gpus : pool.check[g] = "none"

IInv == TypeOK /\ RunsKnown /\ ChecksWithhold /\ RejectedAreEmpty /\ SamplesAlone /\ DrainedKnown

-----------------------------------------------------------------------------
(* Numbers and lists. *)

(* A set of numbers has a least one. *)
LEMMA Least ==
  ASSUME NEW S \in SUBSET Nat, S # {}
  PROVE  \E n \in S : \A m \in S : n <= m
<1> DEFINE R == {ss \in Nat \X Nat : ss[1] < ss[2]}
<1>1. IsWellFoundedOn(R, Nat)
  BY NatLessThanWellFounded DEF OpToRel
<1>2. \A x, y \in Nat : y < x => <<y, x>> \in R
  OBVIOUS
<1> HIDE DEF R
<1>3. PICK x \in S : \A y \in S : ~(<<y, x>> \in R)
  BY <1>1, WFMin
<1>4. \A y \in S : ~(y < x)
  BY <1>2, <1>3
<1> QED  BY <1>4

(* Counting round the places from any of them stays among them. *)
LEMMA AroundIsPlace ==
  ASSUME NEW first \in Nat \ {0}, NEW k \in Nat, NEW n \in Nat \ {0}
  PROVE  Around(first, k, n) \in 1..n
BY DEF Around

(* A set of numbers up to a bound has a greatest one. *)
LEMMA Greatest ==
  ASSUME NEW b \in Nat, NEW S \in SUBSET (1..b), S # {}
  PROVE  \E n \in S : \A m \in S : m <= n
<1> DEFINE U == {b - x : x \in S}
<1>1. U \in SUBSET Nat /\ U # {}
  <2>1. \A x \in S : x \in 1..b /\ b - x \in Nat
    OBVIOUS
  <2>2. PICK x \in S : TRUE
    OBVIOUS
  <2>3. b - x \in U
    OBVIOUS
  <2>4. \A u \in U : u \in Nat
    BY <2>1
  <2> QED  BY <2>3, <2>4
<1>2. PICK u \in U : \A v \in U : u <= v
  BY <1>1, Least
<1>3. PICK n \in S : u = b - n
  OBVIOUS
<1>4. ASSUME NEW m \in S  PROVE m <= n
  <2>1. b - n <= b - m
    BY <1>2, <1>3
  <2> QED  BY <2>1
<1> QED  BY <1>4

(* A set of GPUs is finite. *)
LEMMA GpuSets == GpuCount \in Nat \ {0} /\ \A S \in SUBSET Gpus : IsFiniteSet(S) /\ Cardinality(S) \in Nat
<1>1. GpuCount \in Nat \ {0}
  BY CountsAssumption
<1>2. IsFiniteSet(1..GpuCount)
  BY <1>1, FS_Interval
<1> QED  BY <1>1, <1>2, FS_Subset, FS_CardinalityType DEF Gpus

(* A set of GPUs can be listed. *)
LEMMA ListedIsSequence ==
  ASSUME NEW S \in SUBSET Gpus
  PROVE  Listed(S) \in Seq(S)
<1> DEFINE Order(T, s) == s \in [1..Cardinality(T) -> T] /\ \A i, k \in DOMAIN s : i < k => s[i] < s[k]
           Bad == {n \in Nat : \E T \in SUBSET Gpus : Cardinality(T) = n /\ ~\E s : Order(T, s)}
<1>1. \A T \in SUBSET Gpus : IsFiniteSet(T) /\ Cardinality(T) \in Nat
  BY GpuSets
<1>2. Bad = {}
  <2> SUFFICES ASSUME Bad # {} PROVE FALSE
    OBVIOUS
  <2>1. PICK n \in Bad : \A m \in Bad : n <= m
    BY Least
  <2>2. PICK T \in SUBSET Gpus : Cardinality(T) = n /\ ~\E s : Order(T, s)
    BY <2>1
  <2>3. CASE T = {}
    <3>1. Cardinality(T) = 0
      BY <2>3, FS_EmptySet
    <3>2. Order(T, [i \in 1..0 |-> 0])
      BY <2>3, <3>1
    <3> QED  BY <2>2, <3>2
  <2>4. CASE T # {}
    <3>1. PICK m \in T : \A x \in T : x <= m
      BY <2>4, GpuSets, Greatest DEF Gpus
    <3> DEFINE U == T \ {m}
    <3>2. Cardinality(U) = n - 1 /\ n - 1 \in Nat /\ U \in SUBSET Gpus
      <4>1. IsFiniteSet(T) /\ Cardinality(U) = Cardinality(T) - 1
        BY <1>1, <3>1, FS_RemoveElement
      <4> QED  BY <1>1, <2>2, <4>1
    <3>3. n - 1 \notin Bad
      BY <2>1, <3>2
    <3>4. PICK s : Order(U, s)
      BY <3>2, <3>3
    <3> DEFINE t == [i \in 1..n |-> IF i = n THEN m ELSE s[i]]
    <3>5. Order(T, t)
      <4>1. s \in [1..n - 1 -> U] /\ n \in Nat
        BY <3>2, <3>4
      <4>2. \A i \in 1..n : i # n => i \in 1..n - 1 /\ s[i] \in U
        BY <4>1
      <4>3. \A x \in U : x \in T /\ x \in Nat /\ m \in Nat /\ x < m
        BY <3>1, GpuSets DEF Gpus
      <4>4. \A i \in 1..n : i # n => s[i] \in T /\ s[i] \in Nat /\ m \in Nat /\ s[i] < m
        BY <4>2, <4>3
      <4>5. t \in [1..Cardinality(T) -> T]
        BY <2>2, <3>1, <4>4
      <4>6. ASSUME NEW i \in 1..n, NEW k \in 1..n, i < k  PROVE t[i] < t[k]
        <5>1. i # n /\ i \in 1..n - 1 /\ t[i] = s[i]
          BY <2>2, <4>1, <4>2, <4>6
        <5>2. CASE k = n
          BY <4>4, <5>1, <5>2
        <5>3. CASE k # n
          <6>1. k \in 1..n - 1 /\ t[k] = s[k]
            BY <4>2, <5>3
          <6>2. i \in DOMAIN s /\ k \in DOMAIN s
            BY <4>1, <5>1, <6>1
          <6> QED  BY <3>4, <4>6, <5>1, <6>1, <6>2
        <5> QED  BY <5>2, <5>3
      <4> QED  BY <2>2, <4>5, <4>6
    <3> QED  BY <2>2, <3>5
  <2> QED  BY <2>3, <2>4
<1>3. \E s : Order(S, s)
  BY <1>1, <1>2
<1>4. Listed(S) \in [1..Cardinality(S) -> S]
  BY <1>3 DEF Listed
<1> QED  BY <1>1, <1>4

-----------------------------------------------------------------------------
(* What the engine does with the GPUs. *)

(* A check that has ended leaves a GPU available or rejected, the others     *)
(* stay as they are.                                                         *)
LEMMA SyncedKnown ==
  ASSUME NEW p \in Pools
  PROVE  LET q == Synced(p)
         IN  /\ q \in Pools
             /\ \A g \in Gpus :
                  /\ q.check[g] = "none" \/ (q.check[g] = p.check[g] /\ q.state[g] = p.state[g])
                  /\ q.state[g] = "rejected" => p.state[g] = "rejected" \/ p.check[g] = "failed"
<1> DEFINE over == {g \in Gpus : p.state[g] = "checking" /\ p.check[g] \in {"passed", "failed"}}
           light == {g \in over : p.check[g] = "passed"}
           known == {p.workers[i] : i \in DOMAIN p.workers}
           state == [g \in Gpus |-> IF g \in light THEN "available"
                                    ELSE IF g \in over THEN "rejected" ELSE p.state[g]]
           check == [g \in Gpus |-> IF g \in over THEN "none" ELSE p.check[g]]
           due == [g \in Gpus |-> p.due[g] /\ g \notin over]
           workers == p.workers \o Listed(light \ known)
           periodic == IF p.periodic \in over THEN 0 ELSE p.periodic
<1>1. /\ p.state \in [Gpus -> GpuStates] /\ p.check \in [Gpus -> CheckSteps] /\ p.due \in [Gpus -> BOOLEAN]
      /\ p.workers \in Seq(Gpus) /\ p.periodic \in Gpus \cup {0} /\ p.next \in Gpus
  BY DEF Pools
<1>2. Synced(p) = [p EXCEPT !.state = state, !.check = check, !.due = due, !.workers = workers, !.periodic = periodic]
  BY DEF Synced
<1>3. state \in [Gpus -> GpuStates] /\ check \in [Gpus -> CheckSteps] /\ due \in [Gpus -> BOOLEAN]
  BY <1>1 DEF GpuStates, CheckSteps
<1>4. workers \in Seq(Gpus) /\ periodic \in Gpus \cup {0}
  <2>1. Listed(light \ known) \in Seq(light \ known)
    BY ListedIsSequence
  <2>2. Listed(light \ known) \in Seq(Gpus)
    BY <2>1
  <2> QED  BY <1>1, <2>2
<1>5. \A g \in Gpus : /\ check[g] = "none" \/ (check[g] = p.check[g] /\ state[g] = p.state[g])
                      /\ state[g] = "rejected" => p.state[g] = "rejected" \/ p.check[g] = "failed"
  OBVIOUS
<1> HIDE DEF state, check, due, workers, periodic
<1>6. Synced(p) \in Pools /\ Synced(p).state = state /\ Synced(p).check = check
  BY <1>1, <1>2, <1>3, <1>4 DEF Pools
<1> QED  BY <1>5, <1>6

(* A GPU is tried again, or it is withheld for the periodic check.           *)
LEMMA RecheckedKnown ==
  ASSUME NEW p \in Pools
  PROVE  LET q == Rechecked(p)
         IN  /\ q \in Pools /\ q.workers = p.workers
             /\ \A g \in Gpus :
                  \/ q.state[g] = p.state[g] /\ q.check[g] = p.check[g]
                  \/ q.state[g] = "checking" /\ q.check[g] = "shot" /\ p.state[g] = "rejected"
                  \/ q.state[g] = "checking" /\ q.check[g] = "gate"
<1> DEFINE retried == {g \in Gpus : p.state[g] = "rejected" /\ p.due[g]}
           state == [g \in Gpus |-> IF g \in retried THEN "checking" ELSE p.state[g]]
           check == [g \in Gpus |-> IF g \in retried THEN "shot" ELSE p.check[g]]
           q == [p EXCEPT !.state = state, !.check = check]
           places == {k \in 0..GpuCount - 1 :
                        LET g == Around(p.next, k, GpuCount) IN p.state[g] = "available" /\ p.due[g]}
           first == CHOOSE k \in places : \A l \in places : k <= l
           gpu == Around(p.next, first, GpuCount)
           r == [q EXCEPT !.state[gpu] = "checking", !.check[gpu] = "gate",
                          !.periodic = gpu, !.next = (gpu % GpuCount) + 1]
<1>1. /\ p.state \in [Gpus -> GpuStates] /\ p.check \in [Gpus -> CheckSteps] /\ p.due \in [Gpus -> BOOLEAN]
      /\ p.workers \in Seq(Gpus) /\ p.periodic \in Gpus \cup {0} /\ p.next \in Gpus
  BY DEF Pools
<1>2. Rechecked(p) = p \/ Rechecked(p) = q \/ (places # {} /\ Rechecked(p) = r)
  BY DEF Rechecked
<1>3. state \in [Gpus -> GpuStates] /\ check \in [Gpus -> CheckSteps]
  BY <1>1 DEF GpuStates, CheckSteps
<1>4. \A g \in Gpus : \/ state[g] = p.state[g] /\ check[g] = p.check[g]
                      \/ state[g] = "checking" /\ check[g] = "shot" /\ p.state[g] = "rejected"
  OBVIOUS
<1>5. ASSUME places # {}  PROVE gpu \in Gpus /\ (gpu % GpuCount) + 1 \in Gpus
  <2>1. places \in SUBSET Nat /\ GpuCount \in Nat \ {0} /\ p.next \in Nat \ {0}
    BY <1>1, GpuSets DEF Gpus
  <2>2. first \in places
    <3>1. \E k \in places : \A l \in places : k <= l
      BY <1>5, <2>1, Least
    <3> QED  BY <3>1
  <2> HIDE DEF first, places
  <2>3. gpu \in 1..GpuCount
    BY <2>1, <2>2, AroundIsPlace
  <2> HIDE DEF gpu
  <2>4. (gpu % GpuCount) + 1 \in 1..GpuCount
    BY <2>1, <2>3
  <2> QED  BY <2>3, <2>4 DEF Gpus
<1> HIDE DEF state, check, places, gpu
<1>6. q \in Pools /\ q.state = state /\ q.check = check /\ q.workers = p.workers
  BY <1>1, <1>3 DEF Pools
<1>7. ASSUME places # {}
      PROVE  /\ r \in Pools /\ r.workers = p.workers
             /\ r.state = [state EXCEPT ![gpu] = "checking"] /\ r.check = [check EXCEPT ![gpu] = "gate"]
  BY <1>1, <1>3, <1>5, <1>7 DEF Pools, GpuStates, CheckSteps
<1>8. CASE Rechecked(p) = p
  BY <1>8
<1>9. CASE Rechecked(p) = q
  BY <1>4, <1>6, <1>9
<1>10. CASE places # {} /\ Rechecked(p) = r
  BY <1>3, <1>4, <1>7, <1>10
<1> QED  BY <1>2, <1>8, <1>9, <1>10

-----------------------------------------------------------------------------
(* The invariant is inductive. *)

(* The engine's own variables change. *)
LEMMA EngineFrame ==
  ASSUME IInv, TypeOK', RunsKnown', UNCHANGED <<pool, jobs, faults>>, pc' = pc \/ pc' # "drained"
  PROVE  IInv'
<1>1. UNCHANGED <<Running, run, on, reaped>> /\ \A g \in Gpus : Gated(g)' = Gated(g)
  BY DEF jobs, Running, Gated
<1>2. ChecksWithhold' /\ RejectedAreEmpty' /\ SamplesAlone' /\ DrainedKnown'
  BY <1>1 DEF IInv, ChecksWithhold, RejectedAreEmpty, SamplesAlone, DrainedKnown, At
<1> QED  BY <1>2 DEF IInv

(* Reading a command keeps the invariant.                                   *)
LEMMA CommandKeeps ==
  ASSUME IInv, Enqueue \/ Reap \/ Release \/ Drain \/ WaitForPrepared
  PROVE  IInv'
<1>1. TypeOK /\ RunsKnown /\ JobCount \in Nat
  BY CountsAssumption DEF IInv
<1>2. UNCHANGED <<pool, loaded, jobs, turn, bounds, run, on, reaped, rechecks, loads, faults>>
  BY DEF Enqueue, Reap, Release, Drain, WaitForPrepared, jobs, bounds
<1>3. CASE Enqueue
  <2>1. At("command") /\ job < JobCount /\ job' = job + 1 /\ pc' \in {"select", "command"}
        /\ depth' \in Depths /\ UNCHANGED <<released, draining>>
    BY <1>1, <1>3 DEF Enqueue, TypeOK, At
  <2>2. TypeOK'
    BY <1>1, <1>2, <2>1 DEF TypeOK
  <2>3. RunsKnown'
    BY <1>1, <1>2, <2>1 DEF TypeOK, RunsKnown, Jobs, Ended
  <2> QED  BY <1>2, <2>1, <2>2, <2>3, EngineFrame
<1>4. CASE Reap \/ Release \/ Drain \/ WaitForPrepared
  <2>1. UNCHANGED <<job, depth>> /\ pc' \in {"reaping", "prepared", "drain", "command"} /\ released' \in BOOLEAN
        /\ draining' \in BOOLEAN
    BY <1>1, <1>4 DEF Reap, Release, Drain, WaitForPrepared, TypeOK, At
  <2>2. TypeOK'
    BY <1>1, <1>2, <2>1 DEF TypeOK
  <2>3. RunsKnown'
    BY <1>1, <1>2, <2>1 DEF RunsKnown, Ended
  <2> QED  BY <1>2, <2>1, <2>2, <2>3, EngineFrame
<1> QED  BY <1>3, <1>4

(* The GPUs are looked at, and runs that have ended are seen.                *)
LEMMA PoolKeeps ==
  ASSUME IInv, TypeOK', RunsKnown', UNCHANGED <<run, on, faults>>, Running' \subseteq Running,
         ~At("drained"), pc' # "drained",
         \A g \in Gpus :
           \/ pool'.check[g] = "none" /\ (pool'.state[g] = "rejected" =>
                                            pool.state[g] = "rejected" \/ pool.check[g] = "failed")
           \/ pool'.check[g] = pool.check[g] /\ pool'.state[g] = pool.state[g]
           \/ /\ pool'.state[g] = "checking" /\ pool'.check[g] = "shot"
              /\ pool.state[g] = "rejected" \/ pool.check[g] = "failed"
           \/ pool'.state[g] = "checking" /\ pool'.check[g] = "gate"
  PROVE  IInv'
<1>1. \A g \in Gpus : Gated(g)' = Gated(g)
  BY DEF Gated
<1>2. ChecksWithhold'
  BY DEF IInv, ChecksWithhold
<1>3. RejectedAreEmpty'
  BY DEF IInv, RejectedAreEmpty
<1>4. SamplesAlone'
  BY <1>1 DEF IInv, SamplesAlone
<1>5. DrainedKnown'
  BY DEF DrainedKnown, At
<1> QED  BY <1>2, <1>3, <1>4, <1>5 DEF IInv

(* Reaping a run that has ended keeps it.                                   *)
LEMMA ReapOneKeeps ==
  ASSUME IInv, NEW j \in Jobs, ReapOne(j)
  PROVE  IInv'
<1>1. TypeOK /\ RunsKnown /\ pool \in Pools
  BY DEF IInv, TypeOK
<1>2. /\ pc \in {"reaping", "select", "drain"} /\ Ended(j) /\ reaped' = reaped \cup {j}
      /\ pool' = Rechecked(Synced(pool)) /\ depth' \in Depths
      /\ UNCHANGED <<loaded, run, on, released, turn, pc, job, draining, rechecks, loads, faults>>
  BY DEF ReapOne, bounds
<1> DEFINE s == Synced(pool)
<1>3. /\ s \in Pools
      /\ \A g \in Gpus :
           /\ s.check[g] = "none" \/ (s.check[g] = pool.check[g] /\ s.state[g] = pool.state[g])
           /\ s.state[g] = "rejected" => pool.state[g] = "rejected" \/ pool.check[g] = "failed"
  BY <1>1, SyncedKnown
<1> HIDE DEF s
<1>4. /\ pool' = Rechecked(s) /\ Rechecked(s) \in Pools
      /\ \A g \in Gpus :
           \/ Rechecked(s).state[g] = s.state[g] /\ Rechecked(s).check[g] = s.check[g]
           \/ Rechecked(s).state[g] = "checking" /\ Rechecked(s).check[g] = "shot" /\ s.state[g] = "rejected"
           \/ Rechecked(s).state[g] = "checking" /\ Rechecked(s).check[g] = "gate"
  <2>1. pool' = Rechecked(s)
    BY <1>2 DEF s
  <2> QED  BY <1>3, <2>1, RecheckedKnown
<1>5. TypeOK'
  BY <1>1, <1>2, <1>4 DEF TypeOK
<1>6. RunsKnown'
  BY <1>1, <1>2 DEF RunsKnown, Ended
<1>7. Running' \subseteq Running
  BY <1>2 DEF Running
<1>8. \A g \in Gpus :
        \/ pool'.check[g] = "none" /\ (pool'.state[g] = "rejected" =>
                                         pool.state[g] = "rejected" \/ pool.check[g] = "failed")
        \/ pool'.check[g] = pool.check[g] /\ pool'.state[g] = pool.state[g]
        \/ /\ pool'.state[g] = "checking" /\ pool'.check[g] = "shot"
           /\ pool.state[g] = "rejected" \/ pool.check[g] = "failed"
        \/ pool'.state[g] = "checking" /\ pool'.check[g] = "gate"
  BY <1>3, <1>4
<1> QED  BY <1>2, <1>5, <1>6, <1>7, <1>8, PoolKeeps DEF At

(* Finding no run to reap keeps it.                                         *)
LEMMA ReapNoneKeeps ==
  ASSUME IInv, ReapNone
  PROVE  IInv'
<1>1. TypeOK /\ RunsKnown /\ pool \in Pools
  BY DEF IInv, TypeOK
<1>2. /\ pc \in {"reaping", "select", "drain"} /\ pool' = Synced(pool) /\ depth' \in Depths
      /\ pc' \in {"command", "choose", "drain"} /\ (pc' = "choose" => pc = "select")
      /\ UNCHANGED <<loaded, run, on, reaped, released, turn, job, draining, rechecks, loads, faults>>
  BY <1>1 DEF ReapNone, jobs, bounds, TypeOK
<1>3. /\ Synced(pool) \in Pools
      /\ \A g \in Gpus :
           /\ Synced(pool).check[g] = "none"
              \/ (Synced(pool).check[g] = pool.check[g] /\ Synced(pool).state[g] = pool.state[g])
           /\ Synced(pool).state[g] = "rejected" => pool.state[g] = "rejected" \/ pool.check[g] = "failed"
  BY <1>1, SyncedKnown
<1>4. TypeOK'
  BY <1>1, <1>2, <1>3 DEF TypeOK
<1>5. RunsKnown'
  BY <1>1, <1>2 DEF RunsKnown, Ended
<1>6. Running' = Running
  BY <1>2 DEF Running
<1> QED  BY <1>2, <1>3, <1>4, <1>5, <1>6, PoolKeeps DEF At

(* Looking at the pool again keeps it.                                      *)
LEMMA ChooseAgainKeeps ==
  ASSUME IInv, ChooseAgain
  PROVE  IInv'
<1>1. TypeOK /\ RunsKnown /\ pool \in Pools
  BY DEF IInv, TypeOK
<1>2. /\ pc = "choose" /\ pool' = Rechecked(pool) /\ pc' = "select"
      /\ UNCHANGED <<loaded, run, on, reaped, released, depth, turn, job, draining, rechecks, loads, faults>>
  BY DEF ChooseAgain, At, jobs, bounds
<1>3. /\ Rechecked(pool) \in Pools
      /\ \A g \in Gpus :
           \/ Rechecked(pool).state[g] = pool.state[g] /\ Rechecked(pool).check[g] = pool.check[g]
           \/ /\ Rechecked(pool).state[g] = "checking" /\ Rechecked(pool).check[g] = "shot"
              /\ pool.state[g] = "rejected"
           \/ Rechecked(pool).state[g] = "checking" /\ Rechecked(pool).check[g] = "gate"
  BY <1>1, RecheckedKnown
<1>4. TypeOK'
  BY <1>1, <1>2, <1>3 DEF TypeOK
<1>5. RunsKnown'
  BY <1>1, <1>2 DEF RunsKnown, Ended
<1>6. Running' = Running
  BY <1>2 DEF Running
<1> QED  BY <1>2, <1>3, <1>4, <1>5, <1>6, PoolKeeps DEF At

(* A run gets an available GPU: no check samples it, and it is not rejected. *)
LEMMA ChooseWorkerKeeps ==
  ASSUME IInv, ChooseWorker
  PROVE  IInv'
<1> DEFINE p == Rechecked(pool)
           n == Len(p.workers)
<1>1. TypeOK /\ RunsKnown /\ pool \in Pools /\ pc = "choose"
  BY DEF IInv, TypeOK, ChooseWorker, At
<1>2. PICK k \in 0..n - 1 :
        LET worker == Around(turn, k, n)
            full == Cardinality(Running) + 1 >= n * depth
        IN /\ worker \in Eligible(p) /\ \A l \in 0..k - 1 : Around(turn, l, n) \notin Eligible(p)
           /\ pool' = p /\ turn' = (worker % n) + 1
           /\ run' = [run EXCEPT ![job] = "preparing"] /\ on' = [on EXCEPT ![job] = p.workers[worker]]
           /\ pc' = IF ~released /\ full THEN "prepared" ELSE "command"
  BY DEF ChooseWorker
<1>3. UNCHANGED <<loaded, reaped, released, depth, job, draining, rechecks, loads, faults>>
  BY DEF ChooseWorker, bounds
<1>4. /\ p \in Pools
      /\ \A g \in Gpus :
           \/ p.state[g] = pool.state[g] /\ p.check[g] = pool.check[g]
           \/ p.state[g] = "checking" /\ p.check[g] = "shot" /\ pool.state[g] = "rejected"
           \/ p.state[g] = "checking" /\ p.check[g] = "gate"
  BY <1>1, RecheckedKnown
<1> DEFINE worker == Around(turn, k, n)
           gpu == p.workers[worker]
<1>5. worker \in DOMAIN p.workers /\ p.state[gpu] = "available"
  BY <1>2 DEF Eligible
<1> HIDE DEF p
<1>6. p.workers \in Seq(Gpus) /\ n \in Nat
  BY <1>4 DEF Pools
<1>7. worker \in 1..n /\ gpu \in Gpus
  BY <1>5, <1>6
<1> HIDE DEF worker, n, gpu
<1>8. /\ pool' = p /\ turn' = (worker % n) + 1 /\ pc' \in {"prepared", "command"}
      /\ run' = [run EXCEPT ![job] = "preparing"] /\ on' = [on EXCEPT ![job] = gpu]
  BY <1>2 DEF worker, n, gpu
<1>9. turn' \in Nat \ {0}
  <2>1. worker \in Nat /\ n \in Nat \ {0}
    BY <1>6, <1>7
  <2>2. worker % n \in Nat
    BY <2>1
  <2> QED  BY <1>8, <2>2
<1>10. TypeOK'
  <2>1. run' \in [Jobs -> RunSteps] /\ on' \in [Jobs -> Gpus \cup {0}]
    BY <1>1, <1>7, <1>8 DEF TypeOK, RunSteps
  <2> QED  BY <1>1, <1>3, <1>4, <1>8, <1>9, <2>1 DEF TypeOK
<1>11. RunsKnown'
  <2>1. reaped \subseteq Jobs /\ run \in [Jobs -> RunSteps] /\ (run[job] = "none" \/ job \notin Jobs)
    BY <1>1 DEF TypeOK, RunsKnown
  <2>2. job \notin reaped
    BY <1>1 DEF RunsKnown, TypeOK, Ended
  <2>3. \A j \in Jobs : j # job => run'[j] = run[j]
    BY <1>1, <1>8 DEF TypeOK
  <2>4. \A j \in reaped : Ended(j)'
    BY <1>1, <2>2, <2>3 DEF RunsKnown, TypeOK, Ended
  <2>5. \A j \in Jobs : j > job => run'[j] = "none"
    BY <1>1, <2>3 DEF RunsKnown, TypeOK, Jobs
  <2> QED  BY <1>3, <1>8, <2>4, <2>5 DEF RunsKnown
<1>12. \A j \in Jobs : /\ j # job => run'[j] = run[j] /\ on'[j] = on[j]
                       /\ j = job => run'[j] = "preparing" /\ on'[j] = gpu
  BY <1>1, <1>8 DEF TypeOK
<1>13. \A g \in Gpus : pool'.check[g] # "none" => pool'.state[g] = "checking"
  BY <1>4, <1>8 DEF IInv, ChecksWithhold
<1>14. RejectedAreEmpty'
  <2> SUFFICES ASSUME faults' = 0, NEW g \in Gpus, pool'.state[g] = "rejected" \/ pool'.check[g] \in {"shot", "failed"},
                      NEW j \in Running'
               PROVE  on'[j] # g
    BY DEF RejectedAreEmpty
  <2>1. g # gpu
    BY <1>5, <1>8, <1>13
  <2>2. pool.state[g] = "rejected" \/ pool.check[g] \in {"shot", "failed"}
    BY <1>4, <1>8
  <2>3. j \in Jobs /\ (j # job => j \in Running)
    BY <1>3, <1>12 DEF Running
  <2> QED  BY <1>3, <1>12, <2>1, <2>2, <2>3 DEF IInv, RejectedAreEmpty
<1>15. SamplesAlone'
  <2>1. \A g \in Gpus : Gated(g)' \subseteq Gated(g)
    BY <1>12 DEF Gated
  <2> QED  BY <1>4, <1>8, <2>1 DEF IInv, SamplesAlone
<1>16. DrainedKnown'
  BY <1>8 DEF DrainedKnown, At
<1> QED  BY <1>10, <1>11, <1>13, <1>14, <1>15, <1>16 DEF IInv, ChecksWithhold

(* The engine ends without a run and without a check. *)
LEMMA DrainedKeeps ==
  ASSUME IInv, Drained
  PROVE  IInv'
<1>1. TypeOK /\ RunsKnown /\ pool \in Pools
  BY DEF IInv, TypeOK
<1>2. /\ Running = {} /\ pc' = "drained" /\ pool' = [pool EXCEPT !.check = [g \in Gpus |-> "none"]]
      /\ UNCHANGED <<loaded, run, on, reaped, released, depth, turn, job, draining, rechecks, loads, faults>>
  BY DEF Drained, jobs, bounds
<1>3. pool' \in Pools /\ pool'.state = pool.state /\ \A g \in Gpus : pool'.check[g] = "none"
  BY <1>1, <1>2 DEF Pools, CheckSteps
<1>4. TypeOK'
  BY <1>1, <1>2, <1>3 DEF TypeOK
<1>5. RunsKnown'
  BY <1>1, <1>2 DEF RunsKnown, Ended
<1>6. Running' = Running
  BY <1>2 DEF Running
<1>7. ChecksWithhold' /\ RejectedAreEmpty' /\ SamplesAlone' /\ DrainedKnown'
  BY <1>2, <1>3, <1>6 DEF ChecksWithhold, RejectedAreEmpty, SamplesAlone, DrainedKnown
<1> QED  BY <1>4, <1>5, <1>7 DEF IInv

(* A run trains behind the gate of its GPU. *)
LEMMA RunKeeps ==
  ASSUME IInv, NEW j \in Jobs, RunStep(j)
  PROVE  IInv'
<1>1. TypeOK /\ RunsKnown
  BY DEF IInv
<1>2. UNCHANGED <<pool, loaded, on, reaped, released, depth, turn, pc, job, draining, rechecks, loads, faults>>
  BY DEF RunStep, Prepare, TakeSlot, TakeGate, WaitForMemory, Train, RunUnchanged, engine, bounds
<1>3. PICK to \in RunSteps \ {"none"} :
        /\ run' = [run EXCEPT ![j] = to] /\ run[j] \notin {"none", "ok", "error"}
        /\ to = "training" => run[j] = "gate"
        /\ to = "gate" => pool.check[on[j]] # "sampling"
  BY DEF RunStep, Prepare, TakeSlot, TakeGate, WaitForMemory, Train, Advance, RunSteps
<1>4. \A k \in Jobs : /\ k # j => run'[k] = run[k]
                      /\ run[k] = "none" <=> run'[k] = "none"
                      /\ Ended(k) => run'[k] = run[k]
  BY <1>1, <1>3 DEF TypeOK, Ended
<1>5. TypeOK'
  <2>1. run' \in [Jobs -> RunSteps]
    BY <1>1, <1>3 DEF TypeOK
  <2> QED  BY <1>1, <1>2, <2>1 DEF TypeOK
<1>6. RunsKnown'
  BY <1>1, <1>2, <1>4 DEF RunsKnown, Ended, TypeOK
<1>7. Running' = Running
  BY <1>2, <1>4 DEF Running
<1>8. SamplesAlone'
  <2> SUFFICES ASSUME NEW g \in Gpus, pool'.check[g] = "sampling"  PROVE Gated(g)' = {}
    BY DEF SamplesAlone
  <2>1. Gated(g) = {}
    BY <1>2 DEF IInv, SamplesAlone
  <2>2. \A k \in Jobs : on[k] = g => run'[k] \notin {"gate", "training"}
    BY <1>1, <1>2, <1>3, <1>4, <2>1 DEF Gated, TypeOK
  <2> QED  BY <1>2, <2>2 DEF Gated
<1>9. ChecksWithhold' /\ RejectedAreEmpty' /\ DrainedKnown'
  BY <1>2, <1>7 DEF IInv, ChecksWithhold, RejectedAreEmpty, DrainedKnown, At
<1> QED  BY <1>5, <1>6, <1>8, <1>9 DEF IInv

(* A check ends, or goes behind the gate when no run trains. *)
LEMMA CheckKeeps ==
  ASSUME IInv, NEW g \in Gpus, CheckStep(g) \/ Fault(g)
  PROVE  IInv'
<1>1. TypeOK /\ RunsKnown /\ pool \in Pools
  BY DEF IInv, TypeOK
<1>2. /\ UNCHANGED <<loaded, run, on, reaped, released, depth, turn, pc, job, draining, rechecks, loads>>
      /\ faults' \in 0..MaxFaults /\ (faults' = faults \/ faults' # 0)
  BY <1>1, BoundsAssumption DEF CheckStep, Shot, PassGate, Sample, Fault, CheckUnchanged, jobs, engine, TypeOK
<1>3. PICK to \in {"sampling", "passed", "failed"} :
        /\ pool' = [pool EXCEPT !.check[g] = to] /\ pool.check[g] # "none"
        /\ to = "sampling" => Gated(g) = {}
        /\ to = "failed" => pool.check[g] = "shot" \/ faults' # 0
  BY <1>1, BoundsAssumption DEF CheckStep, Shot, PassGate, Sample, Fault, EndCheck, TypeOK
<1>4. /\ pool' \in Pools /\ pool'.state = pool.state /\ pool'.check[g] = to
      /\ \A h \in Gpus : h # g => pool'.check[h] = pool.check[h]
  BY <1>1, <1>3 DEF Pools, CheckSteps
<1>5. TypeOK'
  BY <1>1, <1>2, <1>4 DEF TypeOK
<1>6. RunsKnown'
  BY <1>1, <1>2 DEF RunsKnown, Ended
<1>7. Running' = Running /\ \A h \in Gpus : Gated(h)' = Gated(h)
  BY <1>2 DEF Running, Gated
<1>8. ChecksWithhold'
  BY <1>3, <1>4 DEF IInv, ChecksWithhold
<1>9. RejectedAreEmpty'
  BY <1>2, <1>3, <1>4, <1>7 DEF IInv, RejectedAreEmpty
<1>10. SamplesAlone'
  BY <1>3, <1>4, <1>7 DEF IInv, SamplesAlone
<1>11. DrainedKnown'
  BY <1>2, <1>3 DEF IInv, DrainedKnown, At
<1> QED  BY <1>5, <1>6, <1>8, <1>9, <1>10, <1>11 DEF IInv

(* Time passes, and foreign programs come and go. *)
LEMMA WorldKeeps ==
  ASSUME IInv, NEW g \in Gpus, Elapse(g) \/ Load(g) \/ Unload(g)
  PROVE  IInv'
<1>1. TypeOK /\ RunsKnown /\ pool \in Pools
  BY DEF IInv, TypeOK
<1>2. UNCHANGED <<run, on, reaped, released, depth, turn, pc, job, draining, faults>>
  BY DEF Elapse, Load, Unload, jobs, engine, bounds
<1>3. loaded' \subseteq Gpus /\ rechecks' \in 0..MaxRechecks /\ loads' \in Nat
  BY <1>1, BoundsAssumption DEF Elapse, Load, Unload, bounds, TypeOK
<1>4. pool' \in Pools /\ pool'.state = pool.state /\ pool'.check = pool.check
  BY <1>1 DEF Elapse, Load, Unload, Pools
<1>5. TypeOK'
  BY <1>1, <1>2, <1>3, <1>4 DEF TypeOK
<1>6. RunsKnown'
  BY <1>1, <1>2 DEF RunsKnown, Ended
<1>7. Running' = Running /\ \A h \in Gpus : Gated(h)' = Gated(h)
  BY <1>2 DEF Running, Gated
<1>8. ChecksWithhold' /\ RejectedAreEmpty' /\ SamplesAlone' /\ DrainedKnown'
  BY <1>2, <1>4, <1>7 DEF IInv, ChecksWithhold, RejectedAreEmpty, SamplesAlone, DrainedKnown, At
<1> QED  BY <1>5, <1>6, <1>8 DEF IInv

(* Every step keeps the invariant.                                          *)
LEMMA StepKeeps == IInv /\ [Next]_vars => IInv'
<1> SUFFICES ASSUME IInv, [Next]_vars PROVE IInv'
  OBVIOUS
<1>1. CASE UNCHANGED vars
  <2>1. UNCHANGED <<pool, loaded, jobs, run, on, reaped, released, depth, turn, pc, job, draining, rechecks, loads, faults>>
    BY <1>1 DEF vars, jobs, engine, bounds
  <2>2. TypeOK' /\ RunsKnown'
    BY <2>1 DEF IInv, TypeOK, RunsKnown, Ended
  <2> QED  BY <2>1, <2>2, EngineFrame
<1>2. CASE Next
  BY <1>2, CommandKeeps, ReapOneKeeps, ReapNoneKeeps, ChooseWorkerKeeps, ChooseAgainKeeps, DrainedKeeps, RunKeeps,
     CheckKeeps, WorldKeeps DEF Next, EngineStep
<1> QED  BY <1>1, <1>2

(* The invariant holds in the first state.                                  *)
LEMMA InitKnown == Init => IInv
<1> SUFFICES ASSUME Init PROVE IInv
  OBVIOUS
<1>1. PICK start \in Starts : LET busy == start[1] IN
        /\ loaded = busy /\ loads = start[2]
        /\ pool = [state    |-> [g \in Gpus |-> IF g \in busy THEN "checking" ELSE "available"],
                   check    |-> [g \in Gpus |-> IF g \in busy THEN "shot" ELSE "none"],
                   due      |-> [g \in Gpus |-> FALSE],
                   workers  |-> Listed(Gpus \ busy),
                   periodic |-> 0, next |-> 1]
  BY StartsAssumption DEF Init
<1> DEFINE busy == start[1]
<1>2. /\ run = [j \in Jobs |-> "none"] /\ on = [j \in Jobs |-> 0] /\ reaped = {}
      /\ released = FALSE /\ depth \in Depths /\ turn = 1 /\ pc = "command" /\ job = 0
      /\ draining = FALSE /\ rechecks = 0 /\ faults = 0
  BY DEF Init
<1>3. busy \subseteq Gpus /\ start[2] \in Nat /\ 1 \in Gpus /\ JobCount \in Nat \ {0}
  BY StartsAssumption, CountsAssumption, GpuSets DEF Gpus
<1>4. Listed(Gpus \ busy) \in Seq(Gpus)
  <2>1. Listed(Gpus \ busy) \in Seq(Gpus \ busy)
    BY ListedIsSequence
  <2> QED  BY <2>1
<1>5. pool \in Pools
  BY <1>1, <1>3, <1>4 DEF Pools, GpuStates, CheckSteps
<1>6. TypeOK
  <2>1. run \in [Jobs -> RunSteps] /\ on \in [Jobs -> Gpus \cup {0}] /\ reaped \subseteq Jobs
    BY <1>2 DEF RunSteps
  <2>2. rechecks \in 0..MaxRechecks /\ loads \in Nat /\ faults \in 0..MaxFaults /\ job \in 0..JobCount
    BY <1>1, <1>2, <1>3, BoundsAssumption
  <2>3. loaded \subseteq Gpus
    BY <1>1, <1>3
  <2>4. released \in BOOLEAN /\ draining \in BOOLEAN
    BY <1>2
  <2>5. depth \in Depths /\ turn \in Nat \ {0} /\ pc = "command"
    BY <1>2
  <2> QED  BY <1>5, <2>1, <2>2, <2>3, <2>4, <2>5 DEF TypeOK
<1>7. Running = {} /\ \A g \in Gpus : Gated(g) = {}
  BY <1>2 DEF Running, Gated
<1>8. RunsKnown
  BY <1>2 DEF RunsKnown
<1>9. ChecksWithhold /\ RejectedAreEmpty /\ SamplesAlone /\ DrainedKnown
  BY <1>1, <1>2, <1>7 DEF ChecksWithhold, RejectedAreEmpty, SamplesAlone, DrainedKnown, At
<1> QED  BY <1>6, <1>8, <1>9 DEF IInv

(* The invariant of the engine: what a GPU is withheld for, and where runs   *)
(* may be.                                                                   *)
THEOREM EngineInvariantCorrect == Spec => []IInv
BY InitKnown, StepKeeps, PTL DEF Spec

(* Every variable is of its kind. *)
THEOREM EngineTypesCorrect == Spec => []TypeOK
<1>1. IInv => TypeOK
  BY DEF IInv
<1> QED  BY <1>1, EngineInvariantCorrect, PTL

(* No check samples a GPU on which a run of the queue trains: a single check *)
(* is of a GPU without runs, unless a check could not write its evidence, and*)
(* a periodic one is behind the gate.                                        *)
THEOREM ChecksCorrect == Spec => []ChecksSeeNoRuns
<1>1. IInv => ChecksSeeNoRuns
  <2> SUFFICES ASSUME IInv, NEW g \in Gpus, pool.check[g] = "sampling" \/ (pool.check[g] = "shot" /\ faults = 0)
               PROVE  Training(g) = {}
    BY DEF ChecksSeeNoRuns
  <2>1. CASE pool.check[g] = "sampling"
    BY <2>1 DEF IInv, SamplesAlone, Gated, Training
  <2>2. CASE pool.check[g] = "shot" /\ faults = 0
    <3>1. \A j \in Running : on[j] # g
      BY <2>2 DEF IInv, RejectedAreEmpty
    <3>2. Training(g) \subseteq Running
      BY DEF Training, Running, IInv, RunsKnown, Ended
    <3> QED  BY <3>1, <3>2 DEF Training
  <2> QED  BY <2>1, <2>2
<1> QED  BY <1>1, EngineInvariantCorrect, PTL

(* A drained queue has no run and no check left: its GPUs are free.          *)
THEOREM DrainedCorrect == Spec => []DrainedIsClean
<1>1. IInv => DrainedIsClean
  BY DEF IInv, DrainedKnown, DrainedIsClean, Running, RunsKnown, Ended, TypeOK
<1> QED  BY <1>1, EngineInvariantCorrect, PTL
================================================================================
