------------------------------ MODULE DaemonProofs ------------------------------
(***************************************************************************)
(* What holds of module Daemon for every set of jobs and users, every      *)
(* number of daemons, commands and kills: its types, that a dispatched     *)
(* file is unlinked only after its record, that the daemon never waits for *)
(* an answer that cannot come, and that the loop implements RunQueue; and, *)
(* with one queue depth, that until a kill what is recorded of a run is    *)
(* true, and that a drain which ends beside a run has read the status in   *)
(* the iteration that dispatched it.                                       *)
(***************************************************************************)
EXTENDS DaemonInvariant, FiniteSetTheorems, SequenceTheorems, TLAPS

-----------------------------------------------------------------------------
(* Types, without the directories a job is in. *)

Inputs0 == {<<"reap">>, <<"release">>} \cup {<<"enqueue", j>> : j \in Jobs}
FilesType ==
  /\ pending \in SUBSET Jobs /\ dispatched \in SUBSET Jobs /\ completed \in SUBSET Jobs
  /\ failed \in SUBSET Jobs /\ acks \in SUBSET Jobs /\ result \in [Jobs -> {"none", "ok", "error"}]
FlagsType == paused \in BOOLEAN /\ stop \in BOOLEAN /\ ready \in BOOLEAN
StatusType == status \in [running : BOOLEAN, paused : BOOLEAN, active : Nat, by : Nat]
ServiceType ==
  /\ daemon \in 0..MaxStarts /\ phase \in Phases /\ loop \in Loops
  /\ spawned \in SUBSET Daemons /\ starts \in 0..MaxStarts
ProcessType ==
  /\ engine \in [Daemons -> Engines] /\ released \in [Daemons -> BOOLEAN]
  /\ run \in [Jobs -> {"none", "ok", "error"} \cup Alive] /\ owner \in [Jobs -> Nat]
UsersType ==
  /\ pc \in [Users -> Commands \cup Waiting] /\ seen \in [Users -> Nat] /\ commands \in Nat
  /\ daemonCrashes \in Nat /\ engineCrashes \in Nat
Types == FilesType /\ FlagsType /\ StatusType /\ ServiceType /\ ProcessType /\ UsersType

(* A pending job has no other file. *)
PendingAlone == pending \cap (dispatched \cup Finished) = {}

(* The types and the directories of the jobs make the type invariant. *)
LEMMA TypesOK == TypeOK <=> Types /\ PendingAlone
BY Zenon DEF TypeOK, Types, FilesType, FlagsType, StatusType, ServiceType, ProcessType, UsersType, PendingAlone

(* With it, a record precedes the unlinking. *)
Filed == PendingAlone /\ Recorded

(* The same, after a step. *)
LEMMA TypesOKNext == Types' /\ Filed' => TypeOK' /\ Recorded'
<1>1. Types' /\ PendingAlone' => TypeOK'
  BY TypesOK, PTL
<1> QED  BY <1>1 DEF Filed

(* A set of jobs is finite. *)
LEMMA JobSets == \A S \in SUBSET Jobs : IsFiniteSet(S) /\ Cardinality(S) \in Nat
BY JobsAssumption, FS_Subset, FS_CardinalityType

-----------------------------------------------------------------------------
(* The engines.  An action of engine n changes some of its fields. *)

EngineSteps == {"none", "loading", "read", "select", "full", "ack", "reap", "drain", "exited"}
EngineRecords(S, I, L, J) ==
  [step : S, input : I, eof : BOOLEAN, slots : L, job : J, before : Nat, code : {0, 1}]

(* f becomes g by a change of the record of n alone. *)
Changed(f, g, n, step, input, eof, slots, job, before, code) ==
  /\ g[n].step = step /\ g[n].input = input /\ g[n].eof = eof /\ g[n].slots = slots
  /\ g[n].job = job /\ g[n].before = before /\ g[n].code = code
  /\ \A m \in DOMAIN f \ {n} : g[m] = f[m]

Engines0 == [Daemons -> EngineRecords(EngineSteps, Seq(Inputs0), SUBSET Jobs, Jobs \cup {0})]

(* A step changes the engine of n alone, to a record of these fields. *)
Alters(n, step, input, eof, slots, job, before, code) ==
  engine' \in Engines0 /\ Changed(engine, engine', n, step, input, eof, slots, job, before, code)

(* The records of the types are those of the lemma above. *)
LEMMA EngineKinds == [Daemons -> Engines] = Engines0
BY DEF Engines, Engines0, EngineRecords, EngineSteps, Inputs0

(* The fields of an engine. *)
LEMMA EngineFields ==
  ASSUME ProcessType, NEW n \in Daemons
  PROVE  /\ engine[n].step \in EngineSteps /\ engine[n].input \in Seq(Inputs0) /\ engine[n].eof \in BOOLEAN
         /\ engine[n].slots \in SUBSET Jobs /\ engine[n].job \in Jobs \cup {0} /\ engine[n].before \in Nat
         /\ engine[n].code \in {0, 1} /\ Cardinality(engine[n].slots) \in Nat
<1>1. engine[n] \in EngineRecords(EngineSteps, Seq(Inputs0), SUBSET Jobs, Jobs \cup {0})
  BY EngineKinds DEF ProcessType, Engines0
<1> DEFINE I == Seq(Inputs0)
           L == SUBSET Jobs
           J == Jobs \cup {0}
<1>2. /\ engine[n].step \in EngineSteps /\ engine[n].input \in I /\ engine[n].eof \in BOOLEAN
      /\ engine[n].slots \in L /\ engine[n].job \in J /\ engine[n].before \in Nat
      /\ engine[n].code \in {0, 1}
  <2> HIDE DEF I, L, J
  <2> QED  BY <1>1 DEF EngineRecords, I, L, J
<1> QED  BY <1>2, JobSets

(* A command that is read is a command the daemon has sent. *)
LEMMA Commanded ==
  ASSUME ProcessType, NEW n \in Daemons, engine[n].input # <<>>
  PROVE  /\ Head(engine[n].input) \in Inputs0 /\ Tail(engine[n].input) \in Seq(Inputs0)
         /\ Command(n, "enqueue") =>
              Head(engine[n].input)[2] \in Jobs /\ Head(engine[n].input) = <<"enqueue", Head(engine[n].input)[2]>>
<1>1. engine[n].input \in Seq(Inputs0)
  BY EngineFields
<1>2. Head(engine[n].input) \in Inputs0 /\ Tail(engine[n].input) \in Seq(Inputs0)
  BY <1>1, HeadTailProperties
<1>3. \A x \in Inputs0 : x[1] = "enqueue" => x[2] \in Jobs /\ x = <<"enqueue", x[2]>>
  BY DEF Inputs0
<1> QED  BY <1>2, <1>3 DEF Command

(* The fields that an action writes change, the others do not. *)
LEMMA EngineAlters ==
  ASSUME ProcessType, NEW n \in Daemons
  PROVE  LET e == engine[n]
         IN  /\ \A step \in EngineSteps :
                  engine' = [engine EXCEPT ![n].step = step] => Alters(n, step, e.input, e.eof, e.slots, e.job, e.before, e.code)
             /\ \A eof \in BOOLEAN :
                  engine' = [engine EXCEPT ![n].eof = eof] => Alters(n, e.step, e.input, eof, e.slots, e.job, e.before, e.code)
             /\ \A input \in Seq(Inputs0) :
                  engine' = [engine EXCEPT ![n].input = input] => Alters(n, e.step, input, e.eof, e.slots, e.job, e.before, e.code)
             /\ \A slots \in SUBSET Jobs :
                  engine' = [engine EXCEPT ![n].slots = slots] => Alters(n, e.step, e.input, e.eof, slots, e.job, e.before, e.code)
             /\ \A input \in Seq(Inputs0), step \in EngineSteps :
                  engine' = [engine EXCEPT ![n].input = input, ![n].step = step] => Alters(n, step, input, e.eof, e.slots, e.job, e.before, e.code)
             /\ \A slots \in SUBSET Jobs, step \in EngineSteps :
                  engine' = [engine EXCEPT ![n].slots = slots, ![n].step = step] => Alters(n, step, e.input, e.eof, slots, e.job, e.before, e.code)
             /\ \A code \in {0, 1}, step \in EngineSteps :
                  engine' = [engine EXCEPT ![n].code = code, ![n].step = step] => Alters(n, step, e.input, e.eof, e.slots, e.job, e.before, code)
             /\ \A step \in EngineSteps, job \in Jobs \cup {0}, before \in Nat, code \in {0, 1} :
                  engine' = [engine EXCEPT ![n].step = step, ![n].job = job, ![n].before = before, ![n].code = code] => Alters(n, step, e.input, e.eof, e.slots, job, before, code)
             /\ \A input \in Seq(Inputs0), job \in Jobs \cup {0}, before \in Nat, code \in {0, 1}, step \in EngineSteps :
                  engine' = [engine EXCEPT ![n].input = input, ![n].job = job, ![n].before = before, ![n].code = code, ![n].step = step] => Alters(n, step, input, e.eof, e.slots, job, before, code)
<1> DEFINE e == engine[n]
           I == Seq(Inputs0)
           L == SUBSET Jobs
           J == Jobs \cup {0}
           R == EngineRecords(EngineSteps, I, L, J)
<1>1. engine \in [Daemons -> R] /\ e \in R /\ Engines0 = [Daemons -> R]
  BY EngineKinds DEF ProcessType, Engines0
<1> HIDE DEF I, L, J
<1>2. ASSUME NEW h \in R, engine' = [engine EXCEPT ![n] = h]
      PROVE  Alters(n, h.step, h.input, h.eof, h.slots, h.job, h.before, h.code)
  <2> HIDE DEF R
  <2>1. engine' \in [Daemons -> R] /\ engine'[n] = h /\ \A m \in Daemons \ {n} : engine'[m] = engine[m]
    BY <1>1, <1>2
  <2> QED  BY <1>1, <2>1 DEF Alters, Changed
<1>3. engine = [engine EXCEPT ![n] = e] /\ DOMAIN engine = Daemons
  BY <1>1
<1>4. ASSUME NEW step \in EngineSteps,
             engine' = [engine EXCEPT ![n].step = step]
      PROVE  Alters(n, step, e.input, e.eof, e.slots, e.job, e.before, e.code)
  <2> HIDE DEF e
  <2>1. PICK h : h = [e EXCEPT !.step = step]
    OBVIOUS
  <2>2. h \in R /\ h.step = step /\ h.input = e.input /\ h.eof = e.eof /\ h.slots = e.slots /\ h.job = e.job /\ h.before = e.before /\ h.code = e.code
    BY <1>1, <2>1 DEF EngineRecords
  <2>3. engine' = [engine EXCEPT ![n] = h]
    BY <1>4, <2>1 DEF e
  <2> HIDE DEF R
  <2> QED  BY <1>2, <2>2, <2>3
<1>5. ASSUME NEW eof \in BOOLEAN,
             engine' = [engine EXCEPT ![n].eof = eof]
      PROVE  Alters(n, e.step, e.input, eof, e.slots, e.job, e.before, e.code)
  <2> HIDE DEF e
  <2>1. PICK h : h = [e EXCEPT !.eof = eof]
    OBVIOUS
  <2>2. h \in R /\ h.step = e.step /\ h.input = e.input /\ h.eof = eof /\ h.slots = e.slots /\ h.job = e.job /\ h.before = e.before /\ h.code = e.code
    BY <1>1, <2>1 DEF EngineRecords
  <2>3. engine' = [engine EXCEPT ![n] = h]
    BY <1>5, <2>1 DEF e
  <2> HIDE DEF R
  <2> QED  BY <1>2, <2>2, <2>3
<1>6. ASSUME NEW input \in I,
             engine' = [engine EXCEPT ![n].input = input]
      PROVE  Alters(n, e.step, input, e.eof, e.slots, e.job, e.before, e.code)
  <2> HIDE DEF e
  <2>1. PICK h : h = [e EXCEPT !.input = input]
    OBVIOUS
  <2>2. h \in R /\ h.step = e.step /\ h.input = input /\ h.eof = e.eof /\ h.slots = e.slots /\ h.job = e.job /\ h.before = e.before /\ h.code = e.code
    BY <1>1, <2>1 DEF EngineRecords
  <2>3. engine' = [engine EXCEPT ![n] = h]
    BY <1>6, <2>1 DEF e
  <2> HIDE DEF R
  <2> QED  BY <1>2, <2>2, <2>3
<1>7. ASSUME NEW slots \in L,
             engine' = [engine EXCEPT ![n].slots = slots]
      PROVE  Alters(n, e.step, e.input, e.eof, slots, e.job, e.before, e.code)
  <2> HIDE DEF e
  <2>1. PICK h : h = [e EXCEPT !.slots = slots]
    OBVIOUS
  <2>2. h \in R /\ h.step = e.step /\ h.input = e.input /\ h.eof = e.eof /\ h.slots = slots /\ h.job = e.job /\ h.before = e.before /\ h.code = e.code
    BY <1>1, <2>1 DEF EngineRecords
  <2>3. engine' = [engine EXCEPT ![n] = h]
    BY <1>7, <2>1 DEF e
  <2> HIDE DEF R
  <2> QED  BY <1>2, <2>2, <2>3
<1>8. ASSUME NEW input \in I, NEW step \in EngineSteps,
             engine' = [engine EXCEPT ![n].input = input, ![n].step = step]
      PROVE  Alters(n, step, input, e.eof, e.slots, e.job, e.before, e.code)
  <2> HIDE DEF e
  <2>1. PICK h : h = [e EXCEPT !.input = input, !.step = step]
    OBVIOUS
  <2>2. h \in R /\ h.step = step /\ h.input = input /\ h.eof = e.eof /\ h.slots = e.slots /\ h.job = e.job /\ h.before = e.before /\ h.code = e.code
    BY <1>1, <2>1 DEF EngineRecords
  <2>3. engine' = [engine EXCEPT ![n] = h]
    BY <1>8, <2>1 DEF e
  <2> HIDE DEF R
  <2> QED  BY <1>2, <2>2, <2>3
<1>9. ASSUME NEW slots \in L, NEW step \in EngineSteps,
             engine' = [engine EXCEPT ![n].slots = slots, ![n].step = step]
      PROVE  Alters(n, step, e.input, e.eof, slots, e.job, e.before, e.code)
  <2> HIDE DEF e
  <2>1. PICK h : h = [e EXCEPT !.slots = slots, !.step = step]
    OBVIOUS
  <2>2. h \in R /\ h.step = step /\ h.input = e.input /\ h.eof = e.eof /\ h.slots = slots /\ h.job = e.job /\ h.before = e.before /\ h.code = e.code
    BY <1>1, <2>1 DEF EngineRecords
  <2>3. engine' = [engine EXCEPT ![n] = h]
    BY <1>9, <2>1 DEF e
  <2> HIDE DEF R
  <2> QED  BY <1>2, <2>2, <2>3
<1>10. ASSUME NEW code \in {0, 1}, NEW step \in EngineSteps,
             engine' = [engine EXCEPT ![n].code = code, ![n].step = step]
      PROVE  Alters(n, step, e.input, e.eof, e.slots, e.job, e.before, code)
  <2> HIDE DEF e
  <2>1. PICK h : h = [e EXCEPT !.code = code, !.step = step]
    OBVIOUS
  <2>2. h \in R /\ h.step = step /\ h.input = e.input /\ h.eof = e.eof /\ h.slots = e.slots /\ h.job = e.job /\ h.before = e.before /\ h.code = code
    BY <1>1, <2>1 DEF EngineRecords
  <2>3. engine' = [engine EXCEPT ![n] = h]
    BY <1>10, <2>1 DEF e
  <2> HIDE DEF R
  <2> QED  BY <1>2, <2>2, <2>3
<1>11. ASSUME NEW step \in EngineSteps, NEW job \in J, NEW before \in Nat, NEW code \in {0, 1},
             engine' = [engine EXCEPT ![n].step = step, ![n].job = job, ![n].before = before, ![n].code = code]
      PROVE  Alters(n, step, e.input, e.eof, e.slots, job, before, code)
  <2> HIDE DEF e
  <2>1. PICK h : h = [e EXCEPT !.step = step, !.job = job, !.before = before, !.code = code]
    OBVIOUS
  <2>2. h \in R /\ h.step = step /\ h.input = e.input /\ h.eof = e.eof /\ h.slots = e.slots /\ h.job = job /\ h.before = before /\ h.code = code
    BY <1>1, <2>1 DEF EngineRecords
  <2>3. engine' = [engine EXCEPT ![n] = h]
    BY <1>11, <2>1 DEF e
  <2> HIDE DEF R
  <2> QED  BY <1>2, <2>2, <2>3
<1>12. ASSUME NEW input \in I, NEW job \in J, NEW before \in Nat, NEW code \in {0, 1}, NEW step \in EngineSteps,
             engine' = [engine EXCEPT ![n].input = input, ![n].job = job, ![n].before = before, ![n].code = code, ![n].step = step]
      PROVE  Alters(n, step, input, e.eof, e.slots, job, before, code)
  <2> HIDE DEF e
  <2>1. PICK h : h = [e EXCEPT !.input = input, !.job = job, !.before = before, !.code = code, !.step = step]
    OBVIOUS
  <2>2. h \in R /\ h.step = step /\ h.input = input /\ h.eof = e.eof /\ h.slots = e.slots /\ h.job = job /\ h.before = before /\ h.code = code
    BY <1>1, <2>1 DEF EngineRecords
  <2>3. engine' = [engine EXCEPT ![n] = h]
    BY <1>12, <2>1 DEF e
  <2> HIDE DEF R
  <2> QED  BY <1>2, <2>2, <2>3
<1> QED  BY <1>4, <1>5, <1>6, <1>7, <1>8, <1>9, <1>10, <1>11, <1>12 DEF I, L, J

-----------------------------------------------------------------------------
(* What the actions do to the engines. *)

(* The actions of engine n. *)
LEMMA EngineEffects ==
  ASSUME ProcessType, NEW n \in Daemons
  PROVE  LET e == engine[n]
             free == Cardinality(e.slots)
         IN  /\ Load(n) => Alters(n, "read", e.input, e.eof, e.slots, e.job, e.before, e.code)
             /\ ReadEnqueue(n) =>
                  \/ Alters(n, "ack", Tail(e.input), e.eof, e.slots, Head(e.input)[2], free, 1)
                  \/ Alters(n, "select", Tail(e.input), e.eof, e.slots, Head(e.input)[2], free, 0)
             /\ \A j \in Jobs : Reap(n, j) =>
                  Alters(n, e.step, e.input, e.eof, e.slots \ {j}, e.job, e.before, e.code)
             /\ Spawn(n) /\ JobKnown(n) =>
                  Alters(n, "full", e.input, e.eof, e.slots \cup {e.job}, e.job, e.before, e.code)
             /\ Full(n) =>
                  \/ /\ released[n] \/ Cardinality(e.slots) < Depth[e.job]
                     /\ Alters(n, "ack", e.input, e.eof, e.slots, e.job, e.before, e.code)
                     /\ UNCHANGED released
                  \/ /\ ~(released[n] \/ Cardinality(e.slots) < Depth[e.job])
                     /\ \E code \in {0, 1} : Alters(n, "ack", e.input, e.eof, e.slots, e.job, e.before, code)
                     /\ released' = [released EXCEPT ![n] = TRUE]
             /\ Ack(n) => Alters(n, "read", e.input, e.eof, e.slots, 0, 0, 0)
             /\ ReadReap(n) => Alters(n, "reap", Tail(e.input), e.eof, e.slots, e.job, e.before, e.code)
             /\ ReapDone(n) => Alters(n, "read", e.input, e.eof, e.slots, e.job, e.before, e.code)
             /\ ReadRelease(n) => Alters(n, e.step, Tail(e.input), e.eof, e.slots, e.job, e.before, e.code)
             /\ ReadEnd(n) => Alters(n, "drain", e.input, e.eof, e.slots, e.job, e.before, e.code)
             /\ DrainDone(n) => Alters(n, "exited", e.input, e.eof, e.slots, e.job, e.before, e.code)
             /\ EngineCrash(n) => Alters(n, "exited", e.input, e.eof, e.slots, e.job, e.before, e.code)
<1> DEFINE e == engine[n]
           free == Cardinality(e.slots)
<1>1. /\ e.step \in EngineSteps /\ e.input \in Seq(Inputs0) /\ e.eof \in BOOLEAN
      /\ e.slots \in SUBSET Jobs /\ e.job \in Jobs \cup {0} /\ e.before \in Nat
      /\ e.code \in {0, 1} /\ free \in Nat
  BY EngineFields
<1>2. \A s \in EngineSteps : EGoto(n, s) => Alters(n, s, e.input, e.eof, e.slots, e.job, e.before, e.code)
  BY EngineAlters DEF EGoto
<1>3. {"read", "ack", "select", "full", "reap", "drain", "exited"} \subseteq EngineSteps
  BY DEF EngineSteps
<1>4. /\ Load(n) => EGoto(n, "read")
      /\ ReapDone(n) => EGoto(n, "read")
      /\ ReadEnd(n) => EGoto(n, "drain")
      /\ DrainDone(n) => EGoto(n, "exited")
      /\ EngineCrash(n) => EGoto(n, "exited")
  BY DEF Load, ReapDone, ReadEnd, DrainDone, EngineCrash
<1>5. ASSUME ReadEnqueue(n)
      PROVE  \/ Alters(n, "ack", Tail(e.input), e.eof, e.slots, Head(e.input)[2], free, 1)
             \/ Alters(n, "select", Tail(e.input), e.eof, e.slots, Head(e.input)[2], free, 0)
  <2>1. Command(n, "enqueue") /\ e.input # <<>>
    BY <1>5 DEF ReadEnqueue, Command
  <2>2. Tail(e.input) \in Seq(Inputs0) /\ Head(e.input)[2] \in Jobs \cup {0}
    BY <2>1, Commanded
  <2> DEFINE input == Tail(e.input)
             job == Head(e.input)[2]
             To(step, code) == engine' = [engine EXCEPT ![n].input = input, ![n].job = job, ![n].before = free,
                                                        ![n].code = code, ![n].step = step]
  <2>3. To("ack", 1) \/ To("select", 0)
    <3>1. PICK refused \in BOOLEAN :
             engine' = [engine EXCEPT ![n].input = Tail(@),
                                ![n].job = Head(engine[n].input)[2],
                                ![n].before = Cardinality(engine[n].slots),
                                ![n].code = IF refused THEN 1 ELSE 0,
                                ![n].step = IF refused THEN "ack" ELSE "select"]
      BY <1>5 DEF ReadEnqueue
    <3>2. CASE refused
      BY <3>1, <3>2
    <3>3. CASE ~refused
      BY <3>1, <3>3
    <3> QED  BY <3>2, <3>3
  <2> HIDE DEF input, job, free
  <2> QED  BY <1>1, <1>3, <2>2, <2>3, EngineAlters DEF input, job
<1>6. ASSUME NEW j \in Jobs, Reap(n, j)
      PROVE  Alters(n, e.step, e.input, e.eof, e.slots \ {j}, e.job, e.before, e.code)
  <2>1. engine' = [engine EXCEPT ![n].slots = engine[n].slots \ {j}]
    BY <1>6 DEF Reap
  <2> QED  BY <1>1, <2>1, EngineAlters
<1>7. ASSUME Spawn(n), JobKnown(n)
      PROVE  Alters(n, "full", e.input, e.eof, e.slots \cup {e.job}, e.job, e.before, e.code)
  <2>1. e.job \in Jobs
    BY <1>7 DEF Spawn, JobKnown, EStep
  <2>2. engine' = [engine EXCEPT ![n].slots = engine[n].slots \cup {engine[n].job}, ![n].step = "full"]
    BY <1>7 DEF Spawn
  <2>3. e.slots \cup {e.job} \in SUBSET Jobs
    BY <1>1, <2>1
  <2> QED  BY <1>3, <2>2, <2>3, EngineAlters
<1>8. ASSUME Full(n)
      PROVE  \/ /\ released[n] \/ Cardinality(e.slots) < Depth[e.job]
                /\ Alters(n, "ack", e.input, e.eof, e.slots, e.job, e.before, e.code)
                /\ UNCHANGED released
             \/ /\ ~(released[n] \/ Cardinality(e.slots) < Depth[e.job])
                /\ \E code \in {0, 1} : Alters(n, "ack", e.input, e.eof, e.slots, e.job, e.before, code)
                /\ released' = [released EXCEPT ![n] = TRUE]
  <2>1. CASE released[n] \/ Cardinality(e.slots) < Depth[e.job]
    <3>1. EGoto(n, "ack") /\ UNCHANGED released
      BY <1>8, <2>1 DEF Full
    <3> QED  BY <1>2, <1>3, <2>1, <3>1
  <2>2. CASE ~(released[n] \/ Cardinality(e.slots) < Depth[e.job])
    <3>1. PICK code \in {0, 1} : engine' = [engine EXCEPT ![n].code = code, ![n].step = "ack"]
      BY <1>8, <2>2 DEF Full
    <3>2. Alters(n, "ack", e.input, e.eof, e.slots, e.job, e.before, code)
      BY <1>3, <3>1, EngineAlters
    <3>3. released' = [released EXCEPT ![n] = TRUE]
      BY <1>8, <2>2 DEF Full
    <3> QED  BY <2>2, <3>2, <3>3
  <2> QED  BY <2>1, <2>2
<1>9. ASSUME Ack(n)
      PROVE  Alters(n, "read", e.input, e.eof, e.slots, 0, 0, 0)
  <2>1. engine' = [engine EXCEPT ![n].step = "read", ![n].job = 0, ![n].before = 0, ![n].code = 0]
    BY <1>9 DEF Ack
  <2> QED  BY <1>3, <2>1, EngineAlters
<1>10. ASSUME ReadReap(n)
       PROVE  Alters(n, "reap", Tail(e.input), e.eof, e.slots, e.job, e.before, e.code)
  <2>1. Tail(e.input) \in Seq(Inputs0)
    BY <1>10, Commanded DEF ReadReap, Command
  <2>2. engine' = [engine EXCEPT ![n].input = Tail(engine[n].input), ![n].step = "reap"]
    BY <1>10 DEF ReadReap
  <2> QED  BY <1>3, <2>1, <2>2, EngineAlters
<1>11. ASSUME ReadRelease(n)
       PROVE  Alters(n, e.step, Tail(e.input), e.eof, e.slots, e.job, e.before, e.code)
  <2>1. Tail(e.input) \in Seq(Inputs0)
    BY <1>11, Commanded DEF ReadRelease, Command
  <2>2. engine' = [engine EXCEPT ![n].input = Tail(engine[n].input)]
    BY <1>11 DEF ReadRelease
  <2> QED  BY <2>1, <2>2, EngineAlters
<1> QED  BY <1>2, <1>3, <1>4, <1>5, <1>6, <1>7, <1>8, <1>9, <1>10, <1>11

(* The actions of the daemon: it spawns its engine, writes to its input,     *)
(* closes it, and terminates it.                                             *)
LEMMA DaemonEffects ==
  ASSUME ProcessType, daemon \in Daemons
  PROVE  LET e == engine[daemon]
             Sent(command) ==
               Alters(daemon, e.step, Append(e.input, command), e.eof, e.slots, e.job, e.before, e.code)
             Closed == Alters(daemon, e.step, e.input, TRUE, e.slots, e.job, e.before, e.code)
         IN  /\ Boot => Alters(daemon, "loading", e.input, e.eof, e.slots, e.job, e.before, e.code)
             /\ CheckActive => UNCHANGED engine \/ (dispatched = {} /\ Closed)
             /\ SendReap => UNCHANGED engine \/ (Sent(<<"reap">>) /\ ~Exited(daemon))
             /\ Feed /\ JobFed =>
                  \/ phase' = "end" /\ UNCHANGED <<engine, loop>>
                  \/ Sent(<<"enqueue", loop.job>>) /\ ~Exited(daemon)
             /\ SendRelease => UNCHANGED engine \/ (Sent(<<"release">>) /\ ~Exited(daemon))
             /\ End => Alters(daemon, "exited", e.input, e.eof, e.slots, e.job, e.before, e.code)
             /\ DaemonCrash => Closed
<1> DEFINE e == engine[daemon]
           Sent(command) ==
             Alters(daemon, e.step, Append(e.input, command), e.eof, e.slots, e.job, e.before, e.code)
           Closed == Alters(daemon, e.step, e.input, TRUE, e.slots, e.job, e.before, e.code)
<1>1. e.input \in Seq(Inputs0)
  BY EngineFields
<1>2. "loading" \in EngineSteps /\ "exited" \in EngineSteps
  BY DEF EngineSteps
<1>3. ASSUME NEW command \in Inputs0, Send(command)
      PROVE  Sent(command)
  <2>1. Append(e.input, command) \in Seq(Inputs0)
    BY <1>1
  <2>2. engine' = [engine EXCEPT ![daemon].input = Append(engine[daemon].input, command)]
    BY <1>3 DEF Send
  <2> QED  BY <2>1, <2>2, EngineAlters
<1>4. <<"reap">> \in Inputs0 /\ <<"release">> \in Inputs0 /\ \A j \in Jobs : <<"enqueue", j>> \in Inputs0
  BY DEF Inputs0
<1>5. Boot => Alters(daemon, "loading", e.input, e.eof, e.slots, e.job, e.before, e.code)
  BY <1>2, EngineAlters DEF Boot
<1>6. End => Alters(daemon, "exited", e.input, e.eof, e.slots, e.job, e.before, e.code)
  BY <1>2, EngineAlters DEF End
<1>7. engine' = [engine EXCEPT ![daemon].eof = TRUE] => Closed
  BY EngineAlters
<1>8. /\ CheckActive => UNCHANGED engine \/ (dispatched = {} /\ engine' = [engine EXCEPT ![daemon].eof = TRUE])
      /\ DaemonCrash => engine' = [engine EXCEPT ![daemon].eof = TRUE]
  BY DEF CheckActive, DaemonCrash
<1>9. /\ SendReap => UNCHANGED engine \/ (Send(<<"reap">>) /\ ~Exited(daemon))
      /\ SendRelease => UNCHANGED engine \/ (Send(<<"release">>) /\ ~Exited(daemon))
  BY DEF SendReap, SendRelease
<1>10. Feed /\ JobFed => \/ phase' = "end" /\ UNCHANGED <<engine, loop>>
                         \/ loop.job \in Jobs /\ Send(<<"enqueue", loop.job>>) /\ ~Exited(daemon)
  BY DEF Feed, JobFed
<1> HIDE DEF Sent, Closed
<1>11. /\ SendReap => UNCHANGED engine \/ (Sent(<<"reap">>) /\ ~Exited(daemon))
       /\ SendRelease => UNCHANGED engine \/ (Sent(<<"release">>) /\ ~Exited(daemon))
       /\ Feed /\ JobFed =>
                  \/ phase' = "end" /\ UNCHANGED <<engine, loop>>
                  \/ Sent(<<"enqueue", loop.job>>) /\ ~Exited(daemon)
  BY <1>3, <1>4, <1>9, <1>10
<1> QED  BY <1>5, <1>6, <1>7, <1>8, <1>11 DEF Sent, Closed

-----------------------------------------------------------------------------
(* What the daemon does to the files of the jobs. *)

(* A record. *)
Records(j) ==
  /\ j \in dispatched
  /\ \/ completed' = completed \cup {j} /\ UNCHANGED failed
     \/ failed' = failed \cup {j} /\ UNCHANGED completed
  /\ UNCHANGED <<pending, dispatched, result, acks>>
(* A dispatched file that is unlinked. *)
Unlinks ==
  /\ dispatched' = dispatched \ {loop.job}
  /\ UNCHANGED <<pending, completed, failed, result, acks>>
(* A result that is unlinked. *)
Consumes(j) ==
  /\ result' = [result EXCEPT ![j] = "none"]
  /\ UNCHANGED <<pending, dispatched, completed, failed, acks>>
Takes(j) ==
  /\ \A k \in pending : j <= k
  /\ pending' = pending \ {j} /\ dispatched' = dispatched \cup {j}
  /\ UNCHANGED <<completed, failed, result, acks>>

(* The daemon writes a record, unlinks a dispatched file that has one or a   *)
(* result, takes a job, or takes an acknowledgement.                         *)
LEMMA DaemonMoves ==
  ASSUME DaemonStep
  PROVE  \/ UNCHANGED files
         \/ \E j \in Jobs : Records(j) /\ phase' \in {"recorded", "written"} /\ loop' = [loop EXCEPT !.job = j]
         \/ Unlinks /\ phase \in {"recorded", "written"}
         \/ \E j \in Jobs \cup {loop.job} : Consumes(j)
         \/ (\E j \in pending : Takes(j)) /\ phase = "next"
         \/ Acknowledge
<1>1. CASE \E j \in Jobs : FailRecord(j)
  BY <1>1 DEF FailRecord, Records, Step
<1>2. CASE \E j \in Jobs : Discard(j) \/ Record(j)
  <2>1. CASE \E j \in Jobs : Discard(j)
    BY <2>1 DEF Discard, Consumes
  <2>2. CASE \E j \in Jobs : Record(j)
    BY <2>2 DEF Record, Records, Step
  <2> QED  BY <1>2, <2>1, <2>2
<1>3. CASE FailUnlink \/ UnlinkDispatched
  BY <1>3 DEF FailUnlink, UnlinkDispatched, Unlinks, Step
<1>4. CASE NextJob
  <2>1. CASE pending = {}
    BY <1>4, <2>1 DEF NextJob, files
  <2>2. CASE pending # {}
    BY <1>4, <2>2 DEF NextJob, Takes, Step
  <2> QED  BY <2>1, <2>2
<1>5. CASE UnlinkResult
  BY <1>5 DEF UnlinkResult, Consumes
<1>6. CASE \/ FailDone \/ Boot \/ Scan \/ CollectDone \/ Poll \/ CheckStop \/ CheckActive \/ WaitEngine \/ SendReap
           \/ SkipReap \/ CheckDispatch \/ Feed \/ SendRelease \/ SkipRelease \/ ReadPaused \/ WriteStatus \/ End
           \/ Close \/ Unlink
  BY <1>6, Zenon DEF FailDone, Boot, Scan, CollectDone, Poll, CheckStop, CheckActive, WaitEngine, SendReap, SkipReap,
     CheckDispatch, Feed, SendRelease, SkipRelease, ReadPaused, WriteStatus, End, Close, Unlink
<1> QED  BY <1>1, <1>2, <1>3, <1>4, <1>5, <1>6, Zenon DEF DaemonStep

(* A job that is dispatched leaves pending; a record precedes the unlinking. *)
LEMMA DaemonFiles ==
  ASSUME FilesType, Filed, loop \in Loops, DaemonStep
  PROVE  FilesType' /\ Filed'
<1>1. FilesType' /\ PendingAlone'
  <2>1. CASE UNCHANGED files
    BY <2>1 DEF files, FilesType, Filed, PendingAlone, Finished
  <2>2. CASE \E j \in Jobs : Records(j)
    BY <2>2 DEF Records, FilesType, Filed, PendingAlone, Finished
  <2>3. CASE Unlinks
    BY <2>3 DEF Unlinks, FilesType, Filed, PendingAlone, Finished
  <2>4. CASE \E j \in Jobs \cup {loop.job} : Consumes(j)
    BY <2>4 DEF Consumes, FilesType, Filed, PendingAlone, Finished
  <2>5. CASE \E j \in pending : Takes(j)
    BY <2>5 DEF Takes, FilesType, Filed, PendingAlone, Finished
  <2>6. CASE Acknowledge
    BY <2>6 DEF Acknowledge, FilesType, Filed, PendingAlone, Finished
  <2> QED  BY <2>1, <2>2, <2>3, <2>4, <2>5, <2>6, DaemonMoves
<1>2. Recorded'
  <2>1. CASE \E j \in Jobs : FailRecord(j)
    BY <2>1 DEF FailRecord, Recorded, Finished, Loops
  <2>2. CASE \E j \in Jobs : Record(j)
    BY <2>2 DEF Record, Recorded, Finished, Loops
  <2>3. CASE ~(\E j \in Jobs : FailRecord(j) \/ Record(j))
    <3>1. phase' \notin {"recorded", "written"}
      BY <2>3 DEF DaemonStep, FailUnlink, FailDone, Boot, Scan, Discard, UnlinkDispatched, UnlinkResult, CollectDone,
         Poll, Acknowledge, CheckStop, CheckActive, WaitEngine, SendReap, SkipReap, CheckDispatch, NextJob, Feed,
         SendRelease, SkipRelease, ReadPaused, WriteStatus, End, Close, Unlink, Step
    <3> QED  BY <3>1 DEF Recorded
  <2> QED  BY <2>1, <2>2, <2>3
<1> QED  BY <1>1, <1>2 DEF Filed

(* The fields of the local variables of the daemon. *)
LEMMA LoopFields ==
  ASSUME loop \in Loops
  PROVE  /\ NewLoop \in Loops
         /\ loop.feeding \in Jobs \cup {0} /\ loop.scanned \in SUBSET Jobs /\ loop.paused \in BOOLEAN
         /\ loop.job \in Jobs \cup {0}
         /\ \A S \in SUBSET Jobs : [loop EXCEPT !.scanned = S] \in Loops
         /\ \A j \in Jobs \cup {0} : /\ [loop EXCEPT !.feeding = j] \in Loops
                                     /\ [loop EXCEPT !.job = j] \in Loops
                                     /\ [loop EXCEPT !.feeding = j, !.job = 0] \in Loops
         /\ \A b \in BOOLEAN : /\ [loop EXCEPT !.stopping = b] \in Loops
                               /\ [loop EXCEPT !.released = b] \in Loops
                               /\ [loop EXCEPT !.ending = b] \in Loops
                               /\ [loop EXCEPT !.paused = b] \in Loops
BY DEF Loops, NewLoop

(* The local variables, the step and the service files keep their types. *)
LEMMA DaemonService ==
  ASSUME FilesType, FlagsType, StatusType, ServiceType, DaemonStep
  PROVE  FlagsType' /\ StatusType' /\ ServiceType'
<1>1. spawned' = spawned /\ starts' = starts /\ daemon' = daemon
  BY Zenon DEF DaemonStep, FailRecord, FailUnlink, FailDone, Boot, Scan,
     Discard, Record, UnlinkDispatched, UnlinkResult, CollectDone, Poll, Acknowledge, CheckStop, CheckActive, WaitEngine,
     SendReap, SkipReap, CheckDispatch, NextJob, Feed, SendRelease, SkipRelease, ReadPaused, WriteStatus, End, Close,
     Unlink
<1>2. phase' \in Phases
  BY DEF DaemonStep, FailRecord, FailUnlink, FailDone, Boot, Scan,
     Discard, Record, UnlinkDispatched, UnlinkResult, CollectDone, Poll, Acknowledge, CheckStop, CheckActive, WaitEngine,
     SendReap, SkipReap, CheckDispatch, NextJob, Feed, SendRelease, SkipRelease, ReadPaused, WriteStatus, End, Close,
     Unlink, Step, Phases, ServiceType
<1>3. FlagsType'
  BY DEF DaemonStep, FailRecord, FailUnlink, FailDone, Boot, Scan,
     Discard, Record, UnlinkDispatched, UnlinkResult, CollectDone, Poll, Acknowledge, CheckStop, CheckActive, WaitEngine,
     SendReap, SkipReap, CheckDispatch, NextJob, Feed, SendRelease, SkipRelease, ReadPaused, WriteStatus, End, Close,
     Unlink, FlagsType, flags
<1>4. loop \in Loops
  BY DEF ServiceType
<1>5. loop' \in Loops
  <2>1. CASE \/ FailUnlink \/ FailDone \/ Boot \/ UnlinkDispatched \/ CollectDone \/ Poll \/ CheckActive \/ WaitEngine
             \/ SendReap \/ SkipReap \/ CheckDispatch \/ SkipRelease \/ WriteStatus \/ Close \/ Unlink
    BY <1>4, <2>1, Zenon DEF FailUnlink, FailDone, Boot, UnlinkDispatched, CollectDone, Poll, CheckActive, WaitEngine,
       SendReap, SkipReap, CheckDispatch, SkipRelease, WriteStatus, Close, Unlink
  <2>2. CASE Scan
    <3>1. {j \in Jobs : result[j] # "none"} \in SUBSET Jobs
      OBVIOUS
    <3> QED  BY <1>4, <2>2, <3>1, LoopFields DEF Scan
  <2>3. CASE (\E j \in Jobs : Discard(j)) \/ UnlinkResult
    <3>1. PICK j \in Jobs \cup {loop.job} : loop' = [loop EXCEPT !.scanned = loop.scanned \ {j}]
      BY <2>3 DEF Discard, UnlinkResult
    <3>2. loop.scanned \ {j} \in SUBSET Jobs
      BY <1>4, LoopFields
    <3> QED  BY <1>4, <3>1, <3>2, LoopFields
  <2>6. CASE \E j \in Jobs : FailRecord(j) \/ Record(j)
    <3>1. PICK j \in Jobs : loop' = [loop EXCEPT !.job = j]
      BY <2>6 DEF FailRecord, Record
    <3> QED  BY <1>4, <3>1, LoopFields
  <2>4. CASE Acknowledge \/ CheckStop \/ ReadPaused \/ SendRelease \/ End
    <3>1. \/ UNCHANGED loop
          \/ loop' = [loop EXCEPT !.feeding = 0]
          \/ loop' = [loop EXCEPT !.stopping = TRUE]
          \/ loop' = [loop EXCEPT !.paused = paused]
          \/ loop' = [loop EXCEPT !.released = TRUE]
          \/ loop' = [loop EXCEPT !.ending = TRUE]
      BY <2>4 DEF Acknowledge, CheckStop, ReadPaused, SendRelease, End
    <3>2. paused \in BOOLEAN
      BY DEF FlagsType
    <3> QED  BY <1>4, <3>1, <3>2, LoopFields
  <2>5. CASE NextJob \/ Feed
    <3>1. \/ UNCHANGED loop
          \/ \E j \in pending : loop' = [loop EXCEPT !.job = j]
          \/ loop' = [loop EXCEPT !.feeding = loop.job, !.job = 0]
      BY <2>5 DEF NextJob, Feed
    <3>2. pending \subseteq Jobs /\ loop.job \in Jobs \cup {0}
      BY <1>4, LoopFields DEF FilesType
    <3> QED  BY <1>4, <3>1, <3>2, LoopFields
  <2> QED  BY <2>1, <2>2, <2>3, <2>4, <2>5, <2>6, Zenon DEF DaemonStep
<1>6. StatusType'
  <2>1. CASE WriteStatus
    <3>1. Cardinality(dispatched) \in Nat
      BY JobSets DEF FilesType
    <3>2. daemon \in Nat
      BY BoundsAssumption DEF ServiceType
    <3>3. loop.paused \in BOOLEAN
      BY <1>4, LoopFields
    <3> QED  BY <2>1, <3>1, <3>2, <3>3 DEF WriteStatus, StatusType
  <2>2. CASE Close
    <3>1. daemon \in Nat /\ paused \in BOOLEAN /\ Cardinality(dispatched) \in Nat
      BY BoundsAssumption, JobSets DEF ServiceType, FlagsType, FilesType
    <3> QED  BY <2>2, <3>1 DEF Close, StatusType
  <2>3. CASE ~WriteStatus /\ ~Close
    <3>1. UNCHANGED status
      BY <2>3, Zenon DEF DaemonStep, FailRecord, FailUnlink, FailDone, Boot, Scan,
     Discard, Record, UnlinkDispatched, UnlinkResult, CollectDone, Poll, Acknowledge, CheckStop, CheckActive,
         WaitEngine, SendReap, SkipReap, CheckDispatch, NextJob, Feed, SendRelease, SkipRelease, ReadPaused, End,
         Unlink
    <3> QED  BY <3>1 DEF StatusType
  <2> QED  BY <2>1, <2>2, <2>3
<1> QED  BY <1>1, <1>2, <1>3, <1>5, <1>6 DEF ServiceType

(* The processes keep their types. *)
LEMMA DaemonProcesses ==
  ASSUME ProcessType, daemon \in Daemons, JobFed, DaemonStep
  PROVE  ProcessType'
<1>1. UNCHANGED <<run, owner>>
  BY Zenon DEF DaemonStep, FailRecord, FailUnlink, FailDone, Boot, Scan,
     Discard, Record, UnlinkDispatched, UnlinkResult, CollectDone, Poll, Acknowledge, CheckStop, CheckActive, WaitEngine,
     SendReap, SkipReap, CheckDispatch, NextJob, Feed, SendRelease, SkipRelease, ReadPaused, WriteStatus, End, Close,
     Unlink, processes
<1>2. released' \in [Daemons -> BOOLEAN]
  <2>1. UNCHANGED released \/ released' = [released EXCEPT ![daemon] = TRUE]
    BY Zenon DEF DaemonStep, FailRecord, FailUnlink, FailDone, Boot, Scan,
     Discard, Record, UnlinkDispatched, UnlinkResult, CollectDone, Poll, Acknowledge, CheckStop, CheckActive, WaitEngine,
       SendReap, SkipReap, CheckDispatch, NextJob, Feed, SendRelease, SkipRelease, ReadPaused, WriteStatus, End, Close,
       Unlink, processes
  <2> QED  BY <2>1 DEF ProcessType
<1>3. engine' \in [Daemons -> Engines]
  <2>1. UNCHANGED engine \/ Boot \/ CheckActive \/ SendReap \/ Feed \/ SendRelease \/ End
    BY Zenon DEF DaemonStep, FailRecord, FailUnlink, FailDone, Scan,
     Discard, Record, UnlinkDispatched, UnlinkResult, CollectDone, Poll, Acknowledge, CheckStop, WaitEngine, SkipReap,
       CheckDispatch, NextJob, SkipRelease, ReadPaused, WriteStatus, Close, Unlink, processes
  <2>2. UNCHANGED engine \/ engine' \in Engines0
    BY <2>1, DaemonEffects DEF Alters
  <2> QED  BY <2>2, EngineKinds DEF ProcessType
<1> QED  BY <1>1, <1>2, <1>3 DEF ProcessType

-----------------------------------------------------------------------------
(* What the daemon and its engine know of each other. *)

(* The elements of a sequence that grows or is read. *)
LEMMA Elements ==
  ASSUME NEW S, NEW s \in Seq(S)
  PROVE  LET In(t) == {t[i] : i \in 1..Len(t)}
         IN  /\ \A x \in S : In(Append(s, x)) = In(s) \cup {x}
             /\ s # <<>> => In(s) \subseteq In(Tail(s)) \cup {Head(s)} /\ In(Tail(s)) \subseteq In(s)
<1> DEFINE In(t) == {t[i] : i \in 1..Len(t)}
<1>1. ASSUME NEW x \in S  PROVE In(Append(s, x)) = In(s) \cup {x}
  <2>1. /\ Len(Append(s, x)) = Len(s) + 1 /\ Append(s, x)[Len(s) + 1] = x
        /\ \A i \in 1..Len(s) : Append(s, x)[i] = s[i]
    OBVIOUS
  <2>2. Len(s) \in Nat
    OBVIOUS
  <2> QED  BY <2>1, <2>2
<1>2. ASSUME s # <<>>  PROVE In(s) \subseteq In(Tail(s)) \cup {Head(s)} /\ In(Tail(s)) \subseteq In(s)
  <2>1. /\ Len(s) \in Nat \ {0} /\ Len(Tail(s)) = Len(s) - 1 /\ Head(s) = s[1]
        /\ \A i \in 1..Len(s) - 1 : Tail(s)[i] = s[i + 1]
    BY <1>2
  <2>2. ASSUME NEW i \in 1..Len(s)  PROVE s[i] \in In(Tail(s)) \cup {Head(s)}
    <3>1. CASE i = 1
      BY <2>1, <3>1
    <3>2. CASE i # 1
      <4>1. i - 1 \in 1..Len(Tail(s)) /\ Tail(s)[i - 1] = s[i]
        BY <2>1, <3>2
      <4> QED  BY <4>1
    <3> QED  BY <3>1, <3>2
  <2>3. ASSUME NEW i \in 1..Len(Tail(s))  PROVE Tail(s)[i] \in In(s)
    <3>1. i + 1 \in 1..Len(s) /\ Tail(s)[i] = s[i + 1]
      BY <2>1
    <3> QED  BY <3>1
  <2> QED  BY <2>2, <2>3
<1> QED  BY <1>1, <1>2

(* The daemon touches its own engine only, spawns it once, and takes nothing *)
(* out of its input.                                                         *)
LEMMA DaemonTouches ==
  ASSUME ProcessType, daemon \in Daemons, JobFed, DaemonStep
  PROVE  /\ phase # "down" /\ (phase' = "boot" => Booting) /\ UNCHANGED <<spawned, starts, daemon>>
         /\ \A n \in Daemons \ {daemon} : engine'[n] = engine[n]
         /\ engine'[daemon].job = engine[daemon].job
         /\ \/ Boot /\ engine'[daemon].step = "loading"
            \/ phase # "boot" /\ engine'[daemon].step \in {engine[daemon].step, "exited"}
         /\ phase' = "boot" => UNCHANGED <<engine, loop>>
         /\ Inputs(daemon) \subseteq Inputs(daemon)'
<1> DEFINE e == engine[daemon]
           In(t) == {t[i] : i \in 1..Len(t)}
           Sent(command) ==
             Alters(daemon, e.step, Append(e.input, command), e.eof, e.slots, e.job, e.before, e.code)
<1>1. /\ phase # "down" /\ (phase' = "boot" => Booting /\ UNCHANGED <<engine, loop>>) /\ (phase = "boot" => Boot)
  BY DEF processes, DaemonStep, FailRecord, FailUnlink, FailDone, Boot, Scan,
     Discard, Record, UnlinkDispatched, UnlinkResult, CollectDone, Poll, Acknowledge, CheckStop, CheckActive, WaitEngine,
     SendReap, SkipReap, CheckDispatch, NextJob, Feed, SendRelease, SkipRelease, ReadPaused, WriteStatus, End, Close,
     Unlink, Step
<1>2. UNCHANGED <<spawned, starts, daemon>>
  BY Zenon DEF DaemonStep, FailRecord, FailUnlink, FailDone, Boot, Scan,
     Discard, Record, UnlinkDispatched, UnlinkResult, CollectDone, Poll, Acknowledge, CheckStop, CheckActive, WaitEngine,
     SendReap, SkipReap, CheckDispatch, NextJob, Feed, SendRelease, SkipRelease, ReadPaused, WriteStatus, End, Close,
     Unlink
<1>3. UNCHANGED engine \/ Boot \/ CheckActive \/ SendReap \/ Feed \/ SendRelease \/ End
  BY Zenon DEF DaemonStep, FailRecord, FailUnlink, FailDone, Scan,
     Discard, Record, UnlinkDispatched, UnlinkResult, CollectDone, Poll, Acknowledge, CheckStop, WaitEngine, SkipReap,
     CheckDispatch, NextJob, SkipRelease, ReadPaused, WriteStatus, Close, Unlink, processes
<1>4. CASE Boot
  <2>1. Alters(daemon, "loading", e.input, e.eof, e.slots, e.job, e.before, e.code)
    BY <1>4, DaemonEffects
  <2> QED  BY <1>1, <1>2, <1>4, <2>1 DEF Alters, Changed, Inputs, Engines0, ProcessType
<1>5. CASE ~Boot /\ UNCHANGED engine
  BY <1>1, <1>2, <1>5 DEF Inputs
<1>6. CASE ~Boot /\ (CheckActive \/ End) /\ ~UNCHANGED engine
  <2>1. \E step \in {e.step, "exited"}, eof \in BOOLEAN :
          Alters(daemon, step, e.input, eof, e.slots, e.job, e.before, e.code)
    <3>1. e.eof \in BOOLEAN
      BY EngineFields
    <3> QED  BY <1>6, <3>1, DaemonEffects
  <2> QED  BY <1>1, <1>2, <1>6, <2>1 DEF Alters, Changed, Inputs, Engines0, ProcessType
<1>7. CASE ~Boot /\ (SendReap \/ Feed \/ SendRelease) /\ ~UNCHANGED engine
  <2>1. \E command \in Inputs0 : Sent(command)
    <3>1. <<"reap">> \in Inputs0 /\ <<"release">> \in Inputs0 /\ \A j \in Jobs : <<"enqueue", j>> \in Inputs0
      BY DEF Inputs0
    <3>2. Feed => loop.job \in Jobs
      BY DEF Feed, JobFed
    <3>3. (\E command \in {<<"reap">>, <<"release">>} : Sent(command)) \/ (Feed /\ Sent(<<"enqueue", loop.job>>))
      BY <1>7, DaemonEffects
    <3> QED  BY <3>1, <3>2, <3>3
  <2>2. PICK command \in Inputs0 : Sent(command)
    BY <2>1
  <2>3. In(e.input) \subseteq In(Append(e.input, command))
    <3>1. e.input \in Seq(Inputs0)
      BY EngineFields
    <3> QED  BY <3>1, Elements
  <2> QED  BY <1>1, <1>2, <1>7, <2>2, <2>3 DEF Alters, Changed, Inputs, Engines0, ProcessType
<1> QED  BY <1>3, <1>4, <1>5, <1>6, <1>7

(* A step of the daemon keeps what is known of the daemons, and it waits for *)
(* the job it has sent.                                                      *)
LEMMA DaemonKnows ==
  ASSUME Types, DaemonsKnown, JobFed, \A n \in Daemons : JobKnown(n), FeedingIsAnswered, DaemonStep
  PROVE  DaemonsKnown' /\ JobFed' /\ (\A n \in Daemons : JobKnown(n)') /\ FeedingIsAnswered'
<1> DEFINE e == engine[daemon]
<1>1. phase # "down"
  BY DEF DaemonStep, FailRecord, FailUnlink, FailDone, Boot, Scan,
     Discard, Record, UnlinkDispatched, UnlinkResult, CollectDone, Poll, Acknowledge, CheckStop, CheckActive, WaitEngine,
     SendReap, SkipReap, CheckDispatch, NextJob, Feed, SendRelease, SkipRelease, ReadPaused, WriteStatus, End, Close,
     Unlink, Step
<1>2. ProcessType /\ daemon \in 1..starts /\ daemon \notin spawned /\ daemon \in Daemons /\ starts \in Nat
  <2>1. MaxStarts \in Nat /\ starts \in 0..MaxStarts
    BY BoundsAssumption DEF Types, ServiceType
  <2> QED  BY <1>1, <2>1 DEF DaemonsKnown, Types, Daemons
<1>3. /\ phase' = "boot" => Booting /\ UNCHANGED <<engine, loop>>
      /\ UNCHANGED <<spawned, starts, daemon>>
      /\ \A n \in Daemons \ {daemon} : engine'[n] = engine[n]
      /\ engine'[daemon].job = engine[daemon].job
      /\ \/ Boot /\ engine'[daemon].step = "loading"
         \/ phase # "boot" /\ engine'[daemon].step \in {engine[daemon].step, "exited"}
      /\ Inputs(daemon) \subseteq Inputs(daemon)'
  BY <1>2, DaemonTouches
<1>4. DaemonsKnown'
  <2>1. \A n \in Daemons : Unborn(n)' => Unborn(n) /\ n # daemon
    BY <1>2, <1>3 DEF Unborn
  <2>2. CASE Booting
    <3>1. phase \in {"failing", "written", "boot"} /\ engine[daemon] = NoEngine /\ loop = [NewLoop EXCEPT !.job = loop.job]
      BY <1>1, <2>2 DEF DaemonsKnown
    <3>2. ~loop.ending
      BY <3>1 DEF NewLoop
    <3>3. \/ Boot
          \/ (\E j \in Jobs : FailRecord(j)) \/ FailUnlink \/ FailDone
      BY <3>1 DEF DaemonStep, Scan, Discard, Record, UnlinkDispatched, UnlinkResult, CollectDone, Poll,
         Acknowledge, CheckStop, CheckActive, WaitEngine, SendReap, SkipReap, CheckDispatch, NextJob, Feed,
         SendRelease, SkipRelease, ReadPaused, WriteStatus, End, Close, Unlink, Step
    <3>4. CASE Boot
      <4>1. ~Booting' /\ phase' = "collect"
        BY <1>3, <3>1, <3>4 DEF Booting, Boot, Step
      <4> QED  BY <1>2, <1>3, <2>1, <4>1 DEF DaemonsKnown
    <3>5. CASE (\E j \in Jobs : FailRecord(j)) \/ FailUnlink \/ FailDone
      <4>1. /\ phase' \in {"failing", "written", "boot"} /\ UNCHANGED engine
            /\ UNCHANGED loop \/ \E j \in Jobs : loop' = [loop EXCEPT !.job = j]
        BY <2>2, <3>2, <3>5 DEF FailRecord, FailUnlink, FailDone, Step, processes
      <4>2. loop' = [NewLoop EXCEPT !.job = loop'.job]
        BY <3>1, <4>1 DEF NewLoop
      <4>3. Booting'
        BY <1>3, <2>2, <4>1 DEF Booting
      <4> QED  BY <1>2, <1>3, <2>1, <3>1, <4>1, <4>2, <4>3 DEF DaemonsKnown
    <3> QED  BY <3>3, <3>4, <3>5
  <2>3. CASE ~Booting
    <3>1. ~Booting' /\ phase' # "boot"
      BY <1>3, <2>3 DEF Booting
    <3> QED  BY <1>2, <1>3, <2>1, <3>1 DEF DaemonsKnown
  <2> QED  BY <2>2, <2>3
<1>5. JobFed'
  <2>1. CASE NextJob
    <3>1. pending \subseteq Jobs /\ loop \in Loops
      BY DEF Types, FilesType, ServiceType
    <3>2. phase' = "feed" => \E j \in pending : loop' = [loop EXCEPT !.job = j]
      BY <2>1 DEF NextJob, Step
    <3> QED  BY <3>1, <3>2 DEF JobFed, Loops
  <2>2. CASE ~NextJob
    <3>1. phase' # "feed"
      BY <2>2 DEF DaemonStep, FailRecord, FailUnlink, FailDone, Boot, Scan,
     Discard, Record, UnlinkDispatched, UnlinkResult, CollectDone, Poll, Acknowledge, CheckStop, CheckActive, WaitEngine,
         SendReap, SkipReap, CheckDispatch, Feed, SendRelease, SkipRelease, ReadPaused, WriteStatus, End, Close,
         Unlink, Step
    <3> QED  BY <3>1 DEF JobFed
  <2> QED  BY <2>1, <2>2
<1>6. \A n \in Daemons : JobKnown(n)'
  <2>1. JobKnown(daemon)'
    <3>1. CASE Boot
      <4>1. e = NoEngine
        BY <1>2, <3>1 DEF Boot, Step, DaemonsKnown
      <4>2. e.job = 0
        BY <4>1 DEF NoEngine
      <4> QED  BY <1>3, <3>1, <4>2 DEF JobKnown, Boot, Step
    <3>2. CASE ~Boot
      BY <1>2, <1>3, <3>2 DEF JobKnown
    <3> QED  BY <3>1, <3>2
  <2> QED  BY <1>3, <2>1 DEF JobKnown
<1>7. FeedingIsAnswered'
  <2>1. SUFFICES ASSUME phase' # "down", loop'.feeding # 0, ~Exited(daemon)'
                 PROVE  \/ <<"enqueue", loop'.feeding>> \in Inputs(daemon)'
                        \/ engine'[daemon].job = loop'.feeding
                        \/ loop'.feeding \in acks'
    BY <1>3 DEF FeedingIsAnswered, Inputs
  <2>2. loop \in Loops
    BY DEF Types, ServiceType
  <2>3. CASE Boot
    BY <1>1, <2>1, <2>3 DEF Boot, Step, DaemonsKnown, NewLoop
  <2>4. CASE Feed /\ ~UNCHANGED loop
    <3>1. loop'.feeding = loop.job /\ loop.job \in Jobs
      BY <2>2, <2>4 DEF Feed, Loops, JobFed
    <3>2. Alters(daemon, e.step, Append(e.input, <<"enqueue", loop.job>>), e.eof, e.slots, e.job, e.before, e.code)
      BY <1>2, <2>4, DaemonEffects
    <3> DEFINE command == <<"enqueue", loop.job>>
               input == Append(e.input, command)
    <3>3. command \in {input[i] : i \in 1..Len(input)}
      <4>1. e.input \in Seq(Inputs0) /\ command \in Inputs0
        BY <1>2, <3>1, EngineFields DEF Inputs0
      <4> HIDE DEF command
      <4>2. Len(input) \in Nat /\ Len(input) = Len(e.input) + 1 /\ Len(e.input) \in Nat /\ input[Len(e.input) + 1] = command
        BY <4>1
      <4> QED  BY <4>2
    <3>4. Inputs(daemon)' = {input[i] : i \in 1..Len(input)}
      BY <1>3, <3>2 DEF Alters, Changed, Inputs
    <3>5. <<"enqueue", loop'.feeding>> = command
      BY <3>1
    <3> HIDE DEF command, input
    <3> QED  BY <3>3, <3>4, <3>5
  <2>5. CASE Acknowledge
    <3>1. loop.feeding \notin acks /\ loop' = loop /\ acks' = acks
      BY <2>1, <2>2, <2>5 DEF Acknowledge, Loops
    <3>2. ~Boot
      BY <2>5 DEF Acknowledge, Boot, Step
    <3> QED  BY <1>1, <1>3, <2>1, <3>1, <3>2 DEF FeedingIsAnswered, Inputs, Exited
  <2>6. CASE ~Boot /\ ~(Feed /\ ~UNCHANGED loop) /\ ~Acknowledge
    <3>1. acks \subseteq acks'
      <4>1. \/ UNCHANGED files \/ (\E j \in Jobs : Records(j)) \/ Unlinks
            \/ (\E j \in Jobs \cup {loop.job} : Consumes(j)) \/ (\E j \in pending : Takes(j))
        BY <2>6, DaemonMoves
      <4> QED  BY <4>1 DEF files, Records, Unlinks, Consumes, Takes
    <3>2. loop'.feeding = loop.feeding
      <4>1. \/ UNCHANGED loop \/ (\E j \in Jobs : FailRecord(j) \/ Discard(j) \/ Record(j)) \/ UnlinkResult \/ Scan \/ CheckStop \/ NextJob \/ SendRelease
            \/ ReadPaused \/ End
        BY <2>6, Zenon DEF DaemonStep, FailUnlink, FailDone, UnlinkDispatched, CollectDone, Poll, CheckActive,
                           WaitEngine, SendReap, SkipReap, CheckDispatch, SkipRelease, WriteStatus, Close, Unlink
      <4> QED  BY <2>2, <4>1 DEF FailRecord, Discard, Record, UnlinkResult, Scan, CheckStop, NextJob, SendRelease,
                                 ReadPaused, End, Loops
    <3> QED  BY <1>1, <1>3, <2>1, <2>6, <3>1, <3>2 DEF FeedingIsAnswered, Inputs, Exited
  <2> QED  BY <2>3, <2>4, <2>5, <2>6
<1> QED  BY <1>4, <1>5, <1>6, <1>7

(* An engine keeps the types. *)
LEMMA EngineTypes ==
  ASSUME Types, NEW n \in Daemons, JobKnown(n), EngineStep(n)
  PROVE  Types'
<1> DEFINE e == engine[n]
<1>1. ProcessType /\ FilesType
  BY DEF Types
<1>2. EngineOps(n)
  BY DEF EngineStep
<1>3. e.step \in {"select", "ack"} => e.job \in Jobs
  BY DEF JobKnown
<1>4. FilesType'
  <2>1. pending' = pending /\ dispatched' = dispatched /\ completed' = completed /\ failed' = failed
    BY DEF EngineStep
  <2>2. acks' \in SUBSET Jobs
    <3>1. UNCHANGED acks \/ (e.step = "ack" /\ acks' = acks \cup {e.job})
      BY <1>2, Zenon DEF EngineOps, Load, ReadEnqueue, Reap, Spawn, Full, Ack, ReadReap, ReapDone, ReadRelease,
                         ReadEnd, DrainRelease, DrainDone, EStep
    <3> QED  BY <1>1, <1>3, <3>1 DEF FilesType
  <2>3. result' \in [Jobs -> {"none", "ok", "error"}]
    <3>1. \/ UNCHANGED result
          \/ \E j \in Jobs : result' = [result EXCEPT ![j] = run[j]] /\ RunExited(j)
          \/ result' = [result EXCEPT ![e.job] = "error"]
      <4>1. Ack(n) => UNCHANGED result \/ result' = [result EXCEPT ![e.job] = "error"]
        BY DEF Ack
      <4>2. \A j \in Jobs : Reap(n, j) => result' = [result EXCEPT ![j] = run[j]] /\ RunExited(j)
        BY DEF Reap
      <4> QED  BY <1>2, <4>1, <4>2, Zenon
           DEF EngineOps, Load, ReadEnqueue, Spawn, Full, ReadReap, ReapDone, ReadRelease, ReadEnd, DrainRelease,
               DrainDone
    <3> QED  BY <1>1, <3>1 DEF FilesType, RunExited
  <2> QED  BY <1>1, <2>1, <2>2, <2>3 DEF FilesType
<1>5. FlagsType'
  <2>1. paused' = paused /\ stop' = stop /\ (ready' = ready \/ ready' = TRUE)
    BY <1>2, Zenon DEF EngineStep, EngineOps, Load, ReadEnqueue, Reap, Spawn, Full, Ack, ReadReap, ReapDone,
                       ReadRelease, ReadEnd, DrainRelease, DrainDone
  <2> QED  BY <2>1 DEF Types, FlagsType
<1>6. ProcessType'
  <2>1. engine' \in [Daemons -> Engines]
    <3>1. UNCHANGED engine \/ engine' \in Engines0
      BY <1>1, <1>2, EngineEffects DEF Alters, EngineOps, DrainRelease
    <3> QED  BY <1>1, <3>1, EngineKinds DEF ProcessType
  <2>2. released' \in [Daemons -> BOOLEAN]
    <3>1. UNCHANGED released \/ released' = [released EXCEPT ![n] = TRUE]
      <4>1. Full(n) => UNCHANGED released \/ released' = [released EXCEPT ![n] = TRUE]
        BY DEF Full
      <4> QED  BY <1>2, <4>1, Zenon DEF EngineOps, Load, ReadEnqueue, Reap, Spawn, Ack, ReadReap, ReapDone,
               ReadRelease, ReadEnd, DrainRelease, DrainDone
    <3> QED  BY <1>1, <3>1 DEF ProcessType
  <2>3. run' \in [Jobs -> {"none", "ok", "error"} \cup Alive] /\ owner' \in [Jobs -> Nat]
    <3>1. \/ UNCHANGED <<run, owner>>
          \/ run' = [run EXCEPT ![e.job] = "preparing"] /\ owner' = [owner EXCEPT ![e.job] = n]
      <4>1. Spawn(n) => run' = [run EXCEPT ![e.job] = "preparing"] /\ owner' = [owner EXCEPT ![e.job] = n]
        BY DEF Spawn
      <4> QED  BY <1>2, <4>1, Zenon DEF EngineOps, Load, ReadEnqueue, Reap, Full, Ack, ReadReap, ReapDone,
               ReadRelease, ReadEnd, DrainRelease, DrainDone
    <3>2. n \in Nat
      BY BoundsAssumption DEF Daemons
    <3> QED  BY <1>1, <3>1, <3>2 DEF ProcessType, Alive
  <2> QED  BY <2>1, <2>2, <2>3 DEF ProcessType
<1>7. StatusType' /\ ServiceType' /\ UsersType'
  BY DEF EngineStep, service, users, crashes, Types, StatusType, ServiceType, UsersType
<1> QED  BY <1>4, <1>5, <1>6, <1>7 DEF Types

(* An engine answers the command it reads. *)
LEMMA EngineKnows ==
  ASSUME Types, DaemonsKnown, JobFed, \A n \in Daemons : JobKnown(n), FeedingIsAnswered,
         NEW n \in Daemons, EngineStep(n)
  PROVE  DaemonsKnown' /\ JobFed' /\ (\A m \in Daemons : JobKnown(m)') /\ FeedingIsAnswered'
<1> DEFINE e == engine[n]
           In(t) == {t[i] : i \in 1..Len(t)}
<1>1. ProcessType /\ EngineOps(n) /\ UNCHANGED <<daemon, phase, loop, spawned, starts>> /\ engine \in Engines0
  BY EngineKinds DEF Types, ProcessType, EngineStep, service
<1>2. e.step # "none"
  BY <1>1, Zenon DEF EngineOps, Load, ReadEnqueue, Reap, Spawn, Full, Ack, ReadReap, ReapDone, ReadRelease,
     ReadEnd, DrainRelease, DrainDone, EStep
<1>3. \A m \in Daemons \ {n} : engine'[m] = engine[m]
  <2>1. UNCHANGED engine \/ \A m \in DOMAIN engine \ {n} : engine'[m] = engine[m]
    BY <1>1, EngineEffects DEF Alters, Changed, EngineOps, DrainRelease
  <2> QED  BY <1>1, <2>1 DEF Engines0
<1>4. DaemonsKnown'
  <2>1. ~Unborn(n)
    BY <1>2 DEF DaemonsKnown, NoEngine
  <2>2. \A m \in Daemons : Unborn(m)' => Unborn(m)
    BY <1>1 DEF Unborn
  <2>3. phase # "down" => (Booting' <=> Booting) /\ (Booting => n # daemon) /\ daemon \in Daemons
    <3>1. phase # "down" => daemon \in Daemons
      BY BoundsAssumption DEF DaemonsKnown, Daemons, Types, ServiceType
    <3>2. engine'[n].step # "none"
      BY <1>1, <1>2, EngineEffects DEF EngineOps, Alters, Changed, DrainRelease
    <3> QED  BY <1>1, <1>2, <1>3, <3>1, <3>2 DEF Booting
  <2> QED  BY <1>1, <1>3, <2>1, <2>2, <2>3 DEF DaemonsKnown
<1>5. JobFed'
  BY <1>1 DEF JobFed
<1>6. acks \subseteq acks'
  BY <1>1, Zenon DEF EngineOps, Load, ReadEnqueue, Reap, Spawn, Full, Ack, ReadReap, ReapDone, ReadRelease,
     ReadEnd, DrainRelease, DrainDone
<1>7. ASSUME n # daemon  PROVE FeedingIsAnswered'
  <2>1. phase # "down" => daemon \in Daemons \ {n}
    <3>1. MaxStarts \in Nat /\ starts \in 0..MaxStarts
      BY BoundsAssumption DEF Types, ServiceType
    <3> QED  BY <1>7, <3>1 DEF DaemonsKnown, Daemons
  <2> QED  BY <1>1, <1>3, <1>6, <2>1 DEF FeedingIsAnswered, Exited
<1>8. ASSUME engine'[n].job = e.job,
             <<"enqueue", loop.feeding>> \in In(e.input) => <<"enqueue", loop.feeding>> \in In(engine'[n].input),
             engine'[n].step # "exited" => e.step # "exited"
      PROVE  FeedingIsAnswered'
  <2>1. CASE n # daemon
    BY <1>7, <2>1
  <2>2. CASE n = daemon
    BY <1>1, <1>6, <1>8, <2>2 DEF FeedingIsAnswered, Exited
  <2> QED  BY <2>1, <2>2
<1>9. e.step \in EngineSteps /\ e.input \in Seq(Inputs0)
  BY <1>1, EngineFields
<1>10. CASE ReadEnqueue(n)
  <2>1. e.input # <<>> /\ e.step = "read" /\ Head(e.input) = <<"enqueue", Head(e.input)[2]>> /\ Head(e.input)[2] \in Jobs
    BY <1>1, <1>10, Commanded DEF ReadEnqueue, Command, EStep
  <2>2. /\ engine'[n].step \in {"ack", "select"} /\ engine'[n].job = Head(e.input)[2]
        /\ engine'[n].input = Tail(e.input)
    BY <1>1, <1>10, EngineEffects DEF Alters, Changed
  <2>3. In(e.input) \subseteq In(Tail(e.input)) \cup {Head(e.input)}
    BY <1>9, <2>1, Elements
  <2>4. JobKnown(n)'
    BY <2>1, <2>2 DEF JobKnown
  <2>5. FeedingIsAnswered'
    <3>1. SUFFICES ASSUME phase # "down", loop.feeding # 0, n = daemon
                   PROVE  <<"enqueue", loop.feeding>> \in In(Tail(e.input)) \/ Head(e.input)[2] = loop.feeding
                          \/ loop.feeding \in acks
      BY <1>1, <1>6, <1>7, <2>2 DEF FeedingIsAnswered
    <3>2. <<"enqueue", loop.feeding>> \in In(e.input) \/ loop.feeding \in acks
      BY <2>1, <3>1 DEF FeedingIsAnswered, Exited, JobKnown
    <3>3. <<"enqueue", loop.feeding>> = Head(e.input) => Head(e.input)[2] = loop.feeding
      BY <2>1
    <3> HIDE DEF In
    <3> QED  BY <2>3, <3>2, <3>3
  <2> QED  BY <1>3, <1>4, <1>5, <2>4, <2>5 DEF JobKnown
<1>11. CASE Ack(n)
  <2>1. /\ engine'[n].step = "read" /\ engine'[n].job = 0 /\ engine'[n].input = e.input
        /\ e.step = "ack" /\ acks' = acks \cup {e.job}
    BY <1>1, <1>11, EngineEffects DEF Alters, Changed, Ack, EStep
  <2>2. JobKnown(n)'
    BY <2>1 DEF JobKnown
  <2>3. FeedingIsAnswered'
    <3>1. CASE n # daemon
      BY <1>7, <3>1
    <3>2. CASE n = daemon
      BY <1>1, <2>1, <3>2 DEF FeedingIsAnswered, Exited
    <3> QED  BY <3>1, <3>2
  <2> QED  BY <1>3, <1>4, <1>5, <2>2, <2>3 DEF JobKnown
<1>12. CASE ReadReap(n) \/ ReadRelease(n)
  <2>1. /\ engine'[n].step \in {"read", "reap"} /\ engine'[n].job = e.job /\ engine'[n].input = Tail(e.input)
        /\ e.step = "read" /\ e.input # <<>> /\ Head(e.input)[1] \in {"reap", "release"}
    BY <1>1, <1>12, EngineEffects DEF Alters, Changed, ReadReap, ReadRelease, EStep, Command
  <2>2. JobKnown(n)'
    BY <2>1 DEF JobKnown
  <2>3. <<"enqueue", loop.feeding>> \in In(e.input) => <<"enqueue", loop.feeding>> \in In(Tail(e.input))
    <3>1. In(e.input) \subseteq In(Tail(e.input)) \cup {Head(e.input)}
      BY <1>9, <2>1, Elements
    <3>2. Head(e.input) # <<"enqueue", loop.feeding>>
      BY <2>1
    <3> HIDE DEF In
    <3> QED  BY <3>1, <3>2
  <2>4. FeedingIsAnswered'
    BY <1>8, <2>1, <2>3
  <2> QED  BY <1>3, <1>4, <1>5, <2>2, <2>4 DEF JobKnown
<1>13. CASE Load(n) \/ ReapDone(n) \/ ReadEnd(n) \/ DrainDone(n)
  <2>1. /\ engine'[n].step \in {"read", "drain", "exited"} /\ engine'[n].job = e.job /\ engine'[n].input = e.input
        /\ e.step \in {"loading", "reap", "read", "drain"}
    BY <1>1, <1>13, EngineEffects DEF Alters, Changed, Load, ReapDone, ReadEnd, DrainDone, EStep
  <2>2. JobKnown(n)'
    BY <2>1 DEF JobKnown
  <2>3. FeedingIsAnswered'
    BY <1>8, <2>1
  <2> QED  BY <1>3, <1>4, <1>5, <2>2, <2>3 DEF JobKnown
<1>14. CASE (\E j \in Jobs : Reap(n, j)) \/ Spawn(n) \/ Full(n) \/ DrainRelease(n)
  <2>1. /\ engine'[n].job = e.job /\ engine'[n].input = e.input /\ e.step # "exited"
        /\ engine'[n].step \in {e.step, "full", "ack"}
        /\ engine'[n].step # e.step => e.step \in {"select", "full"}
    <3>1. ASSUME NEW j \in Jobs, Reap(n, j)
          PROVE  engine'[n].step = e.step /\ engine'[n].job = e.job /\ engine'[n].input = e.input /\ e.step # "exited"
      BY <1>1, <3>1, EngineEffects DEF Alters, Changed, Reap, EStep
    <3>2. Spawn(n) => engine'[n].step = "full" /\ engine'[n].job = e.job /\ engine'[n].input = e.input /\ e.step = "select"
      BY <1>1, EngineEffects DEF Alters, Changed, Spawn, EStep
    <3>3. Full(n) => engine'[n].step = "ack" /\ engine'[n].job = e.job /\ engine'[n].input = e.input /\ e.step = "full"
      BY <1>1, EngineEffects DEF Alters, Changed, Full, EStep
    <3>4. DrainRelease(n) => engine' = engine /\ e.step = "drain"
      BY DEF DrainRelease, EStep
    <3> QED  BY <1>14, <3>1, <3>2, <3>3, <3>4
  <2>2. JobKnown(n)'
    BY <2>1 DEF JobKnown
  <2>3. FeedingIsAnswered'
    BY <1>8, <2>1
  <2> QED  BY <1>3, <1>4, <1>5, <2>2, <2>3 DEF JobKnown
<1> QED  BY <1>1, <1>10, <1>11, <1>12, <1>13, <1>14 DEF EngineOps

-----------------------------------------------------------------------------
(* The other actors. *)

(* A daemon that takes the lock, and one that does not. *)
LEMMA LockStep ==
  ASSUME IInv, NEW n \in Daemons, Lock(n), UNCHANGED <<users, crashes>>
  PROVE  IInv'
<1>1. Types /\ Filed /\ DaemonsKnown
  BY TypesOK DEF IInv, Filed
<1>2. UNCHANGED <<files, flags, status, starts, processes, users, crashes>> /\ n \in spawned /\ spawned' = spawned \ {n}
  BY DEF Lock
<1>3. \/ phase = "down" /\ phase' = "failing" /\ daemon' = n /\ loop' = NewLoop
      \/ UNCHANGED <<phase, daemon, loop>>
  BY DEF Lock
<1>4. Types' /\ Filed'
  <2>1. FilesType' /\ FlagsType' /\ StatusType' /\ ProcessType' /\ UsersType' /\ Filed'
    BY <1>1, <1>2, <1>3 DEF Types, files, flags, processes, users, crashes, FilesType, FlagsType, StatusType,
                            ProcessType, UsersType, Filed, PendingAlone, Recorded, Finished
  <2>2. ServiceType'
    <3>1. n \in 0..MaxStarts
      BY BoundsAssumption DEF Daemons
    <3>2. "failing" \in Phases /\ NewLoop \in Loops
      BY <1>1, LoopFields DEF Phases, Types, ServiceType
    <3> QED  BY <1>1, <1>2, <1>3, <3>1, <3>2 DEF Types, ServiceType
  <2> QED  BY <2>1, <2>2 DEF Types
<1>5. DaemonsKnown'
  <2>1. MaxStarts \in Nat /\ starts \in 0..MaxStarts
    BY <1>1, BoundsAssumption DEF Types, ServiceType
  <2>2. n \in 1..starts
    BY <1>1, <1>2, <2>1 DEF DaemonsKnown, Daemons
  <2>3. \A m \in Daemons : Unborn(m)' => Unborn(m)
    BY <1>2, <1>3 DEF Unborn
  <2>4. engine[n] = NoEngine /\ NewLoop = [NewLoop EXCEPT !.job = NewLoop.job]
    BY <1>1, <1>2 DEF DaemonsKnown, Unborn, NewLoop
  <2> QED  BY <1>1, <1>2, <1>3, <2>2, <2>3, <2>4 DEF DaemonsKnown, Booting, processes
<1>6. JobFed' /\ (\A m \in Daemons : JobKnown(m)') /\ WaitsKnown'
  BY <1>2, <1>3 DEF IInv, JobFed, JobKnown, WaitsKnown, processes, users, files, At
<1>7. FeedingIsAnswered'
  BY <1>2, <1>3 DEF IInv, FeedingIsAnswered, NewLoop, processes, files, Exited
<1> QED  BY <1>4, <1>5, <1>6, <1>7, TypesOKNext DEF IInv

(* kill -9 of the daemon. *)
LEMMA DaemonCrashStep ==
  ASSUME IInv, DaemonCrash
  PROVE  IInv'
<1>1. Types /\ Filed /\ DaemonsKnown
  BY TypesOK DEF IInv, Filed
<1>2. daemon \in Daemons /\ daemon \in 1..starts
  <2>1. MaxStarts \in Nat /\ starts \in 0..MaxStarts
    BY <1>1, BoundsAssumption DEF Types, ServiceType
  <2> QED  BY <1>1, <2>1 DEF DaemonCrash, DaemonsKnown, Daemons
<1>3. /\ engine' \in Engines0 /\ engine'[daemon].step = engine[daemon].step /\ engine'[daemon].job = engine[daemon].job
      /\ \A m \in Daemons \ {daemon} : engine'[m] = engine[m]
  BY <1>1, <1>2, DaemonEffects, EngineKinds DEF Types, ProcessType, Alters, Changed, Engines0
<1>4. /\ UNCHANGED <<files, flags, status, daemon, loop, spawned, starts, released, run, owner, users, engineCrashes>>
      /\ phase # "down" /\ phase' = "down" /\ daemonCrashes' = daemonCrashes + 1
  BY DEF DaemonCrash
<1>5. Types' /\ Filed'
  <2>1. FilesType' /\ FlagsType' /\ StatusType' /\ Filed'
    BY <1>1, <1>4 DEF Types, files, flags, FilesType, FlagsType, StatusType, Filed, PendingAlone, Recorded, Finished
  <2>2. ProcessType'
    BY <1>1, <1>3, <1>4, EngineKinds DEF Types, ProcessType
  <2>3. UsersType' /\ ServiceType'
    BY <1>1, <1>4 DEF Types, users, UsersType, ServiceType, Phases
  <2> QED  BY <2>1, <2>2, <2>3 DEF Types
<1>6. DaemonsKnown'
  <2>1. starts \in Nat /\ daemon \notin spawned
    BY <1>1, <1>4, BoundsAssumption DEF Types, ServiceType, DaemonsKnown
  <2>2. \A m \in Daemons : Unborn(m)' => Unborn(m) /\ m # daemon
    BY <1>2, <1>4, <2>1 DEF Unborn
  <2> QED  BY <1>1, <1>3, <1>4, <2>2 DEF DaemonsKnown, Booting
<1>7. JobFed' /\ (\A m \in Daemons : JobKnown(m)') /\ WaitsKnown' /\ FeedingIsAnswered'
  BY <1>3, <1>4 DEF IInv, JobFed, JobKnown, WaitsKnown, users, files, At, FeedingIsAnswered
<1> QED  BY <1>5, <1>6, <1>7, TypesOKNext DEF IInv

(* kill -9 of an engine. *)
LEMMA EngineCrashStep ==
  ASSUME IInv, NEW n \in Daemons, EngineCrash(n)
  PROVE  IInv'
<1>1. Types /\ Filed /\ DaemonsKnown
  BY TypesOK DEF IInv, Filed
<1>2. /\ engine' \in Engines0 /\ engine'[n].step = "exited" /\ \A m \in Daemons \ {n} : engine'[m] = engine[m]
      /\ engine[n].step # "none"
  BY <1>1, EngineEffects, EngineKinds DEF Types, ProcessType, Alters, Changed, Engines0, EngineCrash
<1>3. /\ UNCHANGED <<files, flags, status, service, released, run, owner, users, daemonCrashes>>
      /\ engineCrashes' = engineCrashes + 1
  BY DEF EngineCrash
<1>4. Types' /\ Filed'
  <2>1. FilesType' /\ FlagsType' /\ StatusType' /\ Filed' /\ ServiceType'
    BY <1>1, <1>3 DEF Types, files, flags, service, FilesType, FlagsType, StatusType, Filed, PendingAlone, Recorded,
                      Finished, ServiceType
  <2>2. ProcessType'
    BY <1>1, <1>2, <1>3, EngineKinds DEF Types, ProcessType
  <2>3. UsersType'
    BY <1>1, <1>3 DEF Types, users, UsersType
  <2> QED  BY <2>1, <2>2, <2>3 DEF Types
<1>5. DaemonsKnown'
  <2>1. ~Unborn(n)
    BY <1>1, <1>2 DEF DaemonsKnown, NoEngine
  <2>2. phase # "down" => (Booting' => Booting /\ n # daemon) /\ (Booting => Booting') /\ daemon \in Daemons
    <3>1. phase # "down" => daemon \in Daemons
      BY <1>1, BoundsAssumption DEF DaemonsKnown, Daemons, Types, ServiceType
    <3> QED  BY <1>2, <1>3, <3>1 DEF Booting, service
  <2> QED  BY <1>1, <1>2, <1>3, <2>1, <2>2 DEF DaemonsKnown, Unborn, service
<1>6. JobFed' /\ (\A m \in Daemons : JobKnown(m)') /\ WaitsKnown'
  BY <1>2, <1>3 DEF IInv, JobFed, JobKnown, WaitsKnown, users, files, At, service
<1>7. FeedingIsAnswered'
  <2>1. phase # "down" => daemon \in Daemons
    <3>1. MaxStarts \in Nat /\ starts \in 0..MaxStarts
      BY <1>1, BoundsAssumption DEF Types, ServiceType
    <3> QED  BY <1>1, <3>1 DEF DaemonsKnown, Daemons
  <2>2. CASE n = daemon
    BY <1>2, <1>3, <2>2 DEF FeedingIsAnswered, Exited, service
  <2>3. CASE n # daemon
    BY <1>2, <1>3, <2>1, <2>3 DEF IInv, FeedingIsAnswered, Exited, service, files
  <2> QED  BY <2>2, <2>3
<1> QED  BY <1>4, <1>5, <1>6, <1>7, TypesOKNext DEF IInv

(* A run. *)
LEMMA RunKeeps ==
  ASSUME IInv, NEW j \in Jobs, RunStep(j)
  PROVE  IInv'
<1>1. Types /\ Filed
  BY TypesOK DEF IInv, Filed
<1>2. UNCHANGED <<files, flags, status, service, engine, released, owner, users, crashes>>
  BY DEF RunStep
<1>3. \E next \in {"prepared", "training", "ok", "error"} : run' = [run EXCEPT ![j] = next]
  BY DEF RunStep, Prepare, Train, Exit
<1>4. Types' /\ Filed'
  <2>1. FilesType' /\ FlagsType' /\ StatusType' /\ Filed' /\ ServiceType' /\ UsersType'
    BY <1>1, <1>2 DEF Types, files, flags, service, users, crashes, FilesType, FlagsType, StatusType, Filed,
                      PendingAlone, Recorded, Finished, ServiceType, UsersType
  <2>2. ProcessType'
    <3>1. run' \in [Jobs -> {"none", "ok", "error"} \cup Alive]
      BY <1>1, <1>3 DEF Types, ProcessType, Alive
    <3> QED  BY <1>1, <1>2, <3>1 DEF Types, ProcessType
  <2> QED  BY <2>1, <2>2 DEF Types
<1>5. DaemonsKnown' /\ JobFed' /\ (\A m \in Daemons : JobKnown(m)') /\ WaitsKnown' /\ FeedingIsAnswered'
  BY <1>2 DEF IInv, DaemonsKnown, Booting, Unborn, JobFed, JobKnown, WaitsKnown, FeedingIsAnswered, users, files, At,
              service, Exited
<1> QED  BY <1>4, <1>5, TypesOKNext DEF IInv

(* A command of a user touches the flags and spawns daemons.                 *)
LEMMA UserKeeps ==
  ASSUME IInv, NEW u \in Users, UserStep(u)
  PROVE  IInv'
<1>1. Types /\ Filed /\ DaemonsKnown
  BY TypesOK DEF IInv, Filed
<1>2. UserOps(u) /\ UNCHANGED <<files, status, daemon, phase, loop, processes, commands, crashes>>
  BY DEF UserStep
<1>3. \/ UNCHANGED <<spawned, starts>>
      \/ starts < MaxStarts /\ starts' = starts + 1 /\ spawned' = spawned \cup {starts + 1}
  BY <1>2, Zenon DEF UserOps, StartUnlinkStop, StartSpawn, Pause, DrainRead, Resume, StopTouch, StopReturn,
                     WaitFailed, WaitFinished, WaitService
<1>4. FlagsType'
  <2>1. (paused' = paused \/ paused' \in BOOLEAN) /\ (stop' = stop \/ stop' \in BOOLEAN) /\ ready' = ready
    BY <1>2 DEF UserOps, StartUnlinkStop, StartSpawn, Pause, DrainRead, Resume, StopTouch, StopReturn, WaitFailed,
       WaitFinished, WaitService, flags
  <2> QED  BY <1>1, <2>1 DEF Types, FlagsType
<1>5. pc \in [Users -> Commands \cup Waiting] /\ seen \in [Users -> Nat] /\ WaitsKnown
  BY <1>1 DEF Types, UsersType, IInv
<1>6. \/ UNCHANGED <<pc, seen>>
      \/ \E label \in Waiting \ {"wait_finished"} :
           /\ Goto(u, label) /\ UNCHANGED seen
           /\ label = "wait_service" => At(u, "wait_finished")
      \/ Goto(u, "wait") /\ At(u, "wait_service") /\ UNCHANGED seen
      \/ Return(u)
      \/ At(u, "wait") /\ Goto(u, "wait_finished") /\ seen' = [seen EXCEPT ![u] = Cardinality(failed)]
  BY <1>2 DEF UserOps, StartUnlinkStop, StartSpawn, Pause, DrainRead, Resume, StopTouch, StopReturn, WaitFailed,
     WaitFinished, WaitService, Waiting, At, Goto
<1>7. UNCHANGED <<commands, crashes>>
  BY <1>2
<1>8. UsersType' /\ WaitsKnown'
  <2>1. Cardinality(failed) \in Nat
    BY <1>1, JobSets DEF Types, FilesType
  <2>2. pc' \in [Users -> Commands \cup Waiting] /\ seen' \in [Users -> Nat]
    BY <1>5, <1>6, <2>1 DEF WaitsKnown, Goto, Return, At, Waiting
  <2>3. WaitsKnown'
    BY <1>5, <1>6 DEF WaitsKnown, Goto, Return, At, Waiting
  <2> QED  BY <1>1, <1>7, <2>2, <2>3 DEF Types, UsersType, crashes
<1>9. starts \in Nat /\ MaxStarts \in Nat /\ starts <= MaxStarts /\ spawned \in SUBSET Daemons
  BY <1>1, BoundsAssumption DEF Types, ServiceType
<1>10. Types' /\ Filed'
  <2>1. FilesType' /\ StatusType' /\ Filed' /\ ProcessType'
    BY <1>1, <1>2 DEF Types, files, processes, FilesType, StatusType, Filed, PendingAlone, Recorded, Finished,
                      ProcessType
  <2>2. starts' \in 0..MaxStarts /\ spawned' \in SUBSET Daemons
    <3>1. starts < MaxStarts => starts + 1 \in Daemons
      BY <1>9 DEF Daemons
    <3> QED  BY <1>3, <1>9, <3>1
  <2>3. ServiceType'
    BY <1>1, <1>2, <2>2 DEF Types, ServiceType
  <2> QED  BY <1>4, <1>8, <2>1, <2>3 DEF Types
<1>11. DaemonsKnown'
  <2>1. \A n \in Daemons : Unborn(n)' => Unborn(n)
    BY <1>2, <1>3, <1>9 DEF Unborn, Daemons
  <2>2. \A n \in spawned' : n <= starts'
    <3>1. \A n \in spawned : n \in Nat /\ n <= starts
      BY <1>1, <1>9 DEF DaemonsKnown, Daemons
    <3> QED  BY <1>3, <1>9, <3>1
  <2>3. phase # "down" => daemon \in 1..starts' /\ daemon \notin spawned'
    BY <1>1, <1>3, <1>9 DEF DaemonsKnown
  <2> QED  BY <1>1, <1>2, <2>1, <2>2, <2>3 DEF DaemonsKnown, Booting, processes
<1>12. JobFed' /\ (\A m \in Daemons : JobKnown(m)') /\ FeedingIsAnswered'
  BY <1>2 DEF IInv, JobFed, JobKnown, FeedingIsAnswered, files, processes, Exited
<1> QED  BY <1>8, <1>10, <1>11, <1>12, TypesOKNext DEF IInv

(* A command begins. *)
LEMMA BeginKeeps ==
  ASSUME IInv, NEW u \in Users, Begin(u), UNCHANGED crashes
  PROVE  IInv'
<1>1. Types /\ Filed
  BY TypesOK DEF IInv, Filed
<1>2. UNCHANGED <<files, flags, status, service, processes, crashes>> /\ commands' = commands + 1
  BY DEF Begin
<1>3. PICK command \in Commands :
        Goto(u, command) /\ seen' = [seen EXCEPT ![u] = IF command = "wait" THEN 0 ELSE Serving]
  BY DEF Begin
<1>4. command \notin {"wait_finished", "wait_service"} /\ Serving \in Nat
  BY <1>1, CommandsAssumption, BoundsAssumption DEF Serving, Types, ServiceType
<1>5. pc \in [Users -> Commands \cup Waiting] /\ seen \in [Users -> Nat] /\ WaitsKnown
  BY <1>1 DEF Types, UsersType, IInv
<1>6. UsersType' /\ WaitsKnown'
  <2>1. pc' \in [Users -> Commands \cup Waiting] /\ seen' \in [Users -> Nat]
    BY <1>3, <1>4, <1>5 DEF Goto
  <2>2. WaitsKnown'
    BY <1>3, <1>4, <1>5 DEF WaitsKnown, Goto
  <2> QED  BY <1>1, <1>2, <2>1, <2>2 DEF Types, UsersType, crashes
<1>7. Types' /\ Filed'
  BY <1>1, <1>2, <1>6 DEF Types, files, flags, service, processes, FilesType, FlagsType, StatusType, Filed,
                          PendingAlone, Recorded, Finished, ProcessType, ServiceType
<1>8. DaemonsKnown' /\ JobFed' /\ (\A m \in Daemons : JobKnown(m)') /\ FeedingIsAnswered'
  BY <1>2 DEF IInv, DaemonsKnown, Booting, Unborn, JobFed, JobKnown, FeedingIsAnswered, files, processes, service,
              Exited
<1> QED  BY <1>6, <1>7, <1>8, TypesOKNext DEF IInv

(* SIGTERM. *)
LEMMA InterruptKeeps ==
  ASSUME IInv, NEW u \in Users, Interrupt(u)
  PROVE  IInv'
<1>1. Types /\ Filed
  BY TypesOK DEF IInv, Filed
<1>2. /\ UNCHANGED <<files, stop, ready, status, daemon, phase, spawned, starts, processes, commands, crashes>>
      /\ Return(u)
      /\ \/ UNCHANGED <<loop, paused>>
         \/ ~Booting /\ loop' = [loop EXCEPT !.stopping = TRUE] /\ paused' = TRUE
  BY DEF Interrupt
<1>3. loop \in Loops /\ loop' \in Loops /\ loop'.feeding = loop.feeding /\ loop'.job = loop.job
  BY <1>1, <1>2 DEF Types, ServiceType, Loops
<1>4. pc \in [Users -> Commands \cup Waiting] /\ seen \in [Users -> Nat] /\ WaitsKnown
  BY <1>1 DEF Types, UsersType, IInv
<1>5. UsersType' /\ WaitsKnown'
  BY <1>1, <1>2, <1>4 DEF Types, UsersType, WaitsKnown, Return, Goto, At, Waiting, files, crashes
<1>6. Types' /\ Filed'
  BY <1>1, <1>2, <1>3, <1>5 DEF Types, files, processes, FilesType, FlagsType, StatusType, Filed, PendingAlone,
                                Recorded, Finished, ProcessType, ServiceType
<1>7. DaemonsKnown' /\ JobFed' /\ (\A m \in Daemons : JobKnown(m)') /\ FeedingIsAnswered'
  BY <1>2, <1>3 DEF IInv, DaemonsKnown, Booting, Unborn, JobFed, JobKnown, FeedingIsAnswered, files, processes, Exited
<1> QED  BY <1>5, <1>6, <1>7, TypesOKNext DEF IInv

(* A job is submitted. *)
LEMMA SubmitKeeps ==
  ASSUME IInv, Submit
  PROVE  IInv'
<1>1. Types /\ Filed
  BY TypesOK DEF IInv, Filed
<1>2. UNCHANGED <<dispatched, completed, failed, result, acks, flags, status, service, processes, users, crashes>>
  BY DEF Submit
<1>3. \E j \in Jobs \ Known : pending' = pending \cup {j}
  BY DEF Submit
<1>4. Types' /\ Filed'
  <2>1. FilesType' /\ Filed'
    BY <1>1, <1>2, <1>3 DEF Types, FilesType, Filed, PendingAlone, Recorded, Known, Finished, service
  <2>2. FlagsType' /\ StatusType' /\ ProcessType' /\ UsersType' /\ ServiceType'
    BY <1>1, <1>2 DEF Types, flags, processes, users, crashes, service, FlagsType, StatusType, ProcessType, UsersType,
       ServiceType
  <2> QED  BY <2>1, <2>2 DEF Types
<1>5. DaemonsKnown' /\ JobFed' /\ (\A m \in Daemons : JobKnown(m)') /\ FeedingIsAnswered'
  BY <1>2 DEF IInv, DaemonsKnown, Booting, Unborn, JobFed, JobKnown, FeedingIsAnswered, processes, service, Exited
<1>6. WaitsKnown'
  BY <1>2 DEF IInv, WaitsKnown, users, At
<1> QED  BY <1>4, <1>5, <1>6, TypesOKNext DEF IInv

-----------------------------------------------------------------------------
(* Every step. *)

(* The invariant is inductive. *)
LEMMA StepKeeps ==
  ASSUME IInv, [Next]_vars
  PROVE  IInv'
<1>1. Types /\ Filed
  BY TypesOK DEF IInv, Filed
<1>2. ASSUME DaemonStep, UNCHANGED <<users, crashes>>  PROVE IInv'
  <2>1. DaemonsKnown' /\ JobFed' /\ (\A n \in Daemons : JobKnown(n)') /\ FeedingIsAnswered'
    BY <1>1, <1>2, DaemonKnows DEF IInv
  <2>2. FilesType' /\ Filed' /\ FlagsType' /\ StatusType' /\ ServiceType'
    <3>1. loop \in Loops
      BY <1>1 DEF Types, ServiceType
    <3> QED  BY <1>1, <1>2, <3>1, DaemonFiles, DaemonService DEF Types
  <2>3. ProcessType'
    <3>1. phase # "down"
      BY <1>2 DEF DaemonStep, FailRecord, FailUnlink, FailDone, Boot, Scan,
     Discard, Record, UnlinkDispatched, UnlinkResult, CollectDone, Poll, Acknowledge, CheckStop, CheckActive, WaitEngine,
         SendReap, SkipReap, CheckDispatch, NextJob, Feed, SendRelease, SkipRelease, ReadPaused, WriteStatus, End, Close,
         Unlink, Step
    <3>2. daemon \in Daemons
      <4>1. MaxStarts \in Nat /\ starts \in 0..MaxStarts
        BY <1>1, BoundsAssumption DEF Types, ServiceType
      <4> QED  BY <3>1, <4>1 DEF IInv, DaemonsKnown, Daemons
    <3> QED  BY <1>1, <1>2, <3>2, DaemonProcesses DEF IInv, Types
  <2>4. UsersType' /\ WaitsKnown'
    BY <1>1, <1>2 DEF IInv, Types, UsersType, WaitsKnown, users, crashes, At
  <2>5. Types' /\ Filed'
    BY <2>2, <2>3, <2>4 DEF Types
  <2> QED  BY <2>1, <2>4, <2>5, TypesOKNext DEF IInv
<1>3. ASSUME NEW n \in Daemons, EngineStep(n)  PROVE IInv'
  <2>1. Types'
    BY <1>1, <1>3, EngineTypes DEF IInv
  <2>2. DaemonsKnown' /\ JobFed' /\ (\A m \in Daemons : JobKnown(m)') /\ FeedingIsAnswered'
    BY <1>1, <1>3, EngineKnows DEF IInv
  <2>3. Filed' /\ WaitsKnown'
    BY <1>1, <1>3 DEF IInv, EngineStep, service, Filed, PendingAlone, Recorded, Finished, WaitsKnown, users, At
  <2> QED  BY <2>1, <2>2, <2>3, TypesOKNext DEF IInv
<1>4. CASE UNCHANGED vars
  <2>1. Types' /\ Filed'
    BY <1>1, <1>4 DEF vars, files, flags, service, processes, users, crashes, Types, FilesType, FlagsType, StatusType,
       ServiceType, ProcessType, UsersType, Filed, PendingAlone, Recorded, Finished
  <2>2. DaemonsKnown' /\ JobFed' /\ (\A m \in Daemons : JobKnown(m)') /\ FeedingIsAnswered' /\ WaitsKnown'
    BY <1>4 DEF IInv, vars, files, service, processes, users, DaemonsKnown, Booting, Unborn, JobFed, JobKnown,
                FeedingIsAnswered, WaitsKnown, At, Exited
  <2> QED  BY <2>1, <2>2, TypesOKNext DEF IInv
<1> QED  BY <1>2, <1>3, <1>4, LockStep, DaemonCrashStep, EngineCrashStep, RunKeeps, UserKeeps, BeginKeeps, InterruptKeeps,
         SubmitKeeps DEF Next

(* At the start no daemon has been spawned. *)
LEMMA InitKnown == Init => IInv
<1> SUFFICES ASSUME Init  PROVE IInv
  OBVIOUS
<1>1. FilesType /\ FlagsType /\ StatusType /\ UsersType /\ Filed
  BY DEF Init, FilesType, FlagsType, StatusType, NoStatus, UsersType, Waiting, Filed, PendingAlone, Recorded, Finished
<1>2. ServiceType
  BY BoundsAssumption DEF Init, ServiceType, Phases, NewLoop, Loops
<1>3. ProcessType
  <2>1. NoEngine \in Engines
    <3>1. <<>> \in Seq({<<"reap">>, <<"release">>} \cup {<<"enqueue", j>> : j \in Jobs})
      OBVIOUS
    <3> QED  BY <3>1 DEF NoEngine, Engines
  <2> HIDE DEF Engines, NoEngine
  <2> QED  BY <2>1 DEF Init, ProcessType
<1>4. DaemonsKnown /\ JobFed /\ (\A n \in Daemons : JobKnown(n)) /\ FeedingIsAnswered /\ WaitsKnown
  <2>1. NoEngine.job = 0 /\ NoEngine.step = "none"
    BY DEF NoEngine
  <2> QED  BY <2>1 DEF Init, DaemonsKnown, JobFed, JobKnown, FeedingIsAnswered, WaitsKnown, At
<1> QED  BY <1>1, <1>2, <1>3, <1>4, TypesOK DEF IInv, Types, Filed

(* Whatever is killed: the files, the processes and what they know of each   *)
(* other.                                                                    *)
THEOREM DaemonInvariantCorrect == Spec => []IInv
BY InitKnown, StepKeeps, PTL DEF Spec

(* Every file and every process is of its kind, a pending job has no other   *)
(* file, and a dispatched file is unlinked when its record is written.       *)
THEOREM DaemonTypesCorrect == Spec => [](TypeOK /\ Recorded)
<1>1. IInv => TypeOK /\ Recorded
  BY DEF IInv
<1> QED  BY <1>1, DaemonInvariantCorrect, PTL

(* The daemon never waits for an acknowledgement that cannot come.           *)
THEOREM FeedingCorrect == Spec => []FeedingIsAnswered
<1>1. IInv => FeedingIsAnswered
  BY DEF IInv
<1> QED  BY <1>1, DaemonInvariantCorrect, PTL

(* A user moves by a step of its own. *)
LEMMA OnlyOwn ==
  ASSUME TypeOK, [Next]_vars, NEW u \in Users, pc'[u] # pc[u]
  PROVE  Begin(u) \/ UserStep(u) \/ Interrupt(u)
<1>1. pc \in [Users -> Commands \cup Waiting] /\ ~UNCHANGED pc
  BY DEF TypeOK
<1>2. PICK v \in Users : Begin(v) \/ UserStep(v) \/ Interrupt(v)
  <2>1. \A n \in Daemons : ~(EngineStep(n) \/ EngineCrash(n))
    BY <1>1 DEF EngineStep, EngineCrash, users
  <2>2. ~DaemonCrash /\ ~Submit /\ (\A j \in Jobs : ~RunStep(j)) /\ ~UNCHANGED <<users, crashes>> /\ ~UNCHANGED vars
    BY <1>1 DEF DaemonCrash, Submit, RunStep, users, vars
  <2> QED  BY <2>1, <2>2 DEF Next
<1>3. pc' = [pc EXCEPT ![v] = pc'[v]]
  <2>1. \A label : Goto(v, label) => pc' = [pc EXCEPT ![v] = pc'[v]]
    BY <1>1 DEF Goto
  <2>2. UNCHANGED pc \/ \E label : Goto(v, label)
    BY <1>2 DEF Begin, Interrupt, UserStep, UserOps, StartUnlinkStop, StartSpawn, Pause, DrainRead, Resume, StopTouch,
       StopReturn, WaitFailed, WaitFinished, WaitService, Return
  <2> QED  BY <1>1, <2>1, <2>2
<1>4. u = v
  BY <1>1, <1>3
<1> QED  BY <1>2, <1>4

-----------------------------------------------------------------------------
(* The loop implements RunQueue. *)

(* The runs that are named after their jobs. *)
LEMMA NamedSets ==
  /\ \A S, T : Named(S \cup T) = Named(S) \cup Named(T) /\ Named(S \ T) = Named(S) \ Named(T)
  /\ \A S, j : <<j, j>> \in Named(S) <=> j \in S
  /\ \A S : \A x \in Named(S) : x[1] \in S /\ x = <<x[1], x[1]>>
  /\ \A j : Named({j}) = {<<j, j>>}
  /\ Named({}) = {}
BY DEF Named

(* A step accepts a job, takes the oldest, records one, unlinks the file of  *)
(* one that has its record, or does nothing to the queue.                    *)
LEMMA QueueMoves ==
  ASSUME IInv, [Next]_vars
  PROVE  \/ UNCHANGED <<pending, dispatched, completed, failed>>
         \/ Submit
         \/ \E j \in pending : Takes(j)
         \/ \E j \in Jobs : Records(j)
         \/ Unlinks /\ loop.job \in Finished
<1>1. CASE DaemonStep
  BY <1>1, DaemonMoves DEF files, Acknowledge, Consumes, IInv, Recorded
<1>2. CASE ~DaemonStep
  BY <1>2, Zenon DEF Next, Lock, DaemonCrash, EngineStep, EngineCrash, RunStep, Begin, UserStep, Interrupt, vars,
                     files
<1> QED  BY <1>1, <1>2

(* The queue of the loop is the queue it promises: a job is accepted once,   *)
(* activated once, oldest first, and finished by its record; to unlink its   *)
(* file, or to record it again after a kill, is no step of the queue.        *)
THEOREM DaemonRefinement == Spec => ImplementsRunQueue
<1> DEFINE Q == Named(pending)
           A == Named(dispatched \ Finished)
           F == Named(Finished)
<1>1. Init => Queue!Init
  BY NamedSets DEF Init, Queue!Init, Finished
<1>2. ASSUME IInv, [Next]_vars  PROVE [Queue!Next]_(Queue!vars)
  <2>1. FilesType /\ Filed
    BY <1>2, TypesOK DEF IInv, Types, Filed
  <2>2. CASE UNCHANGED <<pending, dispatched, completed, failed>>
    BY <2>2 DEF Queue!vars, Named, Finished
  <2>3. CASE Submit
    <3>1. PICK j \in Jobs \ Known : pending' = pending \cup {j}
      BY <2>3 DEF Submit
    <3>2. UNCHANGED <<dispatched, completed, failed>>
      BY <2>3 DEF Submit
    <3>3. Q' = Q \cup {<<j, j>>} /\ A' = A /\ F' = F
      BY <3>1, <3>2, NamedSets DEF Finished
    <3>4. <<j, j>> \notin Q /\ <<j, j>> \notin F /\ j \in Jobs
      BY <3>1, NamedSets DEF Known
    <3>5. \A x \in Q \cup A : x[2] # j
      BY <3>1 DEF Known, Named
    <3>6. /\ Q' \ Q = {<<j, j>>} /\ Q \subseteq Q' /\ A' = A /\ F' = F /\ <<j, j>> \in Jobs \X Jobs
          /\ <<j, j>> \notin F /\ j \notin {x[2] : x \in Q \cup A}
      <4> HIDE DEF Q, A, F
      <4> QED  BY <3>3, <3>4, <3>5
    <3>7. Queue!Accept
      <4> DEFINE new == Q' \ Q
      <4>1. new # {} /\ new \subseteq Jobs \X Jobs /\ \A x, y \in new : x = y
        <5> HIDE DEF Q
        <5> QED  BY <3>6
      <4>2. \A x \in new : x \notin F /\ x[2] \notin {y[2] : y \in Q \cup A}
        <5> HIDE DEF Q, A, F
        <5> QED  BY <3>6
      <4> HIDE DEF Named
      <4> QED  BY <3>6, <4>1, <4>2, Zenon DEF Queue!Accept, Queue!Busy
    <3> QED  BY <3>7 DEF Queue!Next
  <2>4. CASE \E j \in pending : Takes(j)
    <3>1. PICK j \in pending : Takes(j)
      BY <2>4
    <3>2. pending' = pending \ {j} /\ dispatched' \ Finished' = (dispatched \ Finished) \cup {j} /\ Finished' = Finished
      BY <2>1, <3>1 DEF Takes, Finished, Filed, PendingAlone
    <3>3. Q' = Q \ {<<j, j>>} /\ A' = A \cup {<<j, j>>} /\ F' = F
      BY <3>2, NamedSets
    <3>4. <<j, j>> \in Q /\ \A y \in Q : j <= y[1]
      BY <3>1, NamedSets DEF Takes
    <3>5. Queue!Activate
      BY <3>3, <3>4 DEF Queue!Activate
    <3> QED  BY <3>5 DEF Queue!Next
  <2>5. CASE Unlinks /\ loop.job \in Finished
    <3>1. pending' = pending /\ dispatched' \ Finished' = dispatched \ Finished /\ Finished' = Finished
      BY <2>5 DEF Unlinks, Finished
    <3> QED  BY <3>1 DEF Queue!vars
  <2>6. CASE \E j \in Jobs : Records(j)
    <3>1. PICK j \in Jobs : Records(j)
      BY <2>6
    <3>2. /\ pending' = pending /\ Finished' = Finished \cup {j}
          /\ dispatched' \ Finished' = (dispatched \ Finished) \ {j}
      BY <3>1 DEF Records, Finished
    <3>3. CASE j \in Finished
      <4>1. Finished' = Finished /\ dispatched' \ Finished' = dispatched \ Finished
        BY <3>2, <3>3
      <4> QED  BY <3>2, <4>1 DEF Queue!vars
    <3>4. CASE j \notin Finished
      <4>1. Q' = Q /\ A' = A \ {<<j, j>>} /\ F' = F \cup {<<j, j>>}
        BY <3>2, NamedSets
      <4>2. <<j, j>> \in A
        BY <3>1, <3>4, NamedSets DEF Records
      <4>3. Queue!Finish
        BY <4>1, <4>2 DEF Queue!Finish
      <4> QED  BY <4>3 DEF Queue!Next
    <3> QED  BY <3>3, <3>4
  <2> QED  BY <1>2, <2>2, <2>3, <2>4, <2>5, <2>6, QueueMoves
<1> QED  BY <1>1, <1>2, DaemonInvariantCorrect, PTL DEF Spec, ImplementsRunQueue, Queue!Spec

-----------------------------------------------------------------------------
(* What is known of every job while nothing is killed. *)

(* A shorter input holds no more. *)
LEMMA Shorter ==
  ASSUME NEW S, NEW s \in Seq(S), s # <<>>
  PROVE  LET In(t) == {t[i] : i \in 1..Len(t)}
             Once(t, x) == \A i, k \in 1..Len(t) : t[i] = x /\ t[k] = x => i = k
         IN  /\ In(Tail(s)) \subseteq In(s) /\ Head(s) \in In(s)
             /\ \A x \in S : Once(s, x) => Once(Tail(s), x)
             /\ \A x \in S : Once(s, x) /\ Head(s) = x => x \notin In(Tail(s))
<1> DEFINE In(t) == {t[i] : i \in 1..Len(t)}
           Once(t, x) == \A i, k \in 1..Len(t) : t[i] = x /\ t[k] = x => i = k
<1>1. /\ Len(s) \in Nat \ {0} /\ Len(Tail(s)) = Len(s) - 1 /\ Head(s) = s[1]
      /\ \A i \in 1..Len(s) - 1 : Tail(s)[i] = s[i + 1]
  OBVIOUS
<1>2. In(Tail(s)) \subseteq In(s)
  BY Elements
<1>3. Head(s) \in In(s)
  BY <1>1
<1>4. ASSUME NEW x \in S, Once(s, x)  PROVE Once(Tail(s), x)
  <2>1. ASSUME NEW i \in 1..Len(Tail(s)), NEW k \in 1..Len(Tail(s)), Tail(s)[i] = x, Tail(s)[k] = x  PROVE i = k
    <3>1. i + 1 \in 1..Len(s) /\ k + 1 \in 1..Len(s) /\ s[i + 1] = x /\ s[k + 1] = x
      BY <1>1, <2>1
    <3>2. i + 1 = k + 1
      BY <1>4, <3>1
    <3> QED  BY <1>1, <3>2
  <2> QED  BY <2>1
<1>5. ASSUME NEW x \in S, Once(s, x), Head(s) = x, x \in In(Tail(s))  PROVE FALSE
  <2>1. PICK i \in 1..Len(Tail(s)) : Tail(s)[i] = x
    BY <1>5
  <2>2. i + 1 \in 1..Len(s) /\ s[i + 1] = x /\ s[1] = x /\ 1 \in 1..Len(s)
    BY <1>1, <1>5, <2>1
  <2>3. i + 1 = 1
    BY <1>5, <2>2
  <2> QED  BY <1>1, <2>1, <2>3
<1> QED  BY <1>2, <1>3, <1>4, <1>5

(* A longer input holds what is appended once, if it did not hold it. *)
LEMMA Longer ==
  ASSUME NEW S, NEW s \in Seq(S), NEW y \in S
  PROVE  LET In(t) == {t[i] : i \in 1..Len(t)}
             Once(t, x) == \A i, k \in 1..Len(t) : t[i] = x /\ t[k] = x => i = k
         IN  /\ In(Append(s, y)) = In(s) \cup {y}
             /\ \A x \in S : Once(s, x) /\ (x # y \/ y \notin In(s)) => Once(Append(s, y), x)
<1> DEFINE In(t) == {t[i] : i \in 1..Len(t)}
           Once(t, x) == \A i, k \in 1..Len(t) : t[i] = x /\ t[k] = x => i = k
           a == Append(s, y)
<1>1. /\ Len(s) \in Nat /\ Len(a) = Len(s) + 1 /\ a[Len(s) + 1] = y
      /\ \A i \in 1..Len(s) : a[i] = s[i]
  OBVIOUS
<1> HIDE DEF a
<1>2. ASSUME NEW x \in S, Once(s, x), x # y \/ y \notin In(s)  PROVE Once(a, x)
  <2>1. ASSUME NEW i \in 1..Len(a), NEW k \in 1..Len(a), a[i] = x, a[k] = x  PROVE i = k
    <3>1. CASE x # y
      <4>1. i \in 1..Len(s) /\ k \in 1..Len(s) /\ s[i] = x /\ s[k] = x
        BY <1>1, <2>1, <3>1
      <4> QED  BY <1>2, <4>1
    <3>2. CASE x = y
      <4>1. \A m \in 1..Len(s) : s[m] # x
        BY <1>2, <3>2
      <4> QED  BY <1>1, <2>1, <4>1
    <3> QED  BY <3>1, <3>2
  <2> QED  BY <2>1
<1>3. In(Append(s, y)) = In(s) \cup {y}
  BY Elements
<1> QED  BY <1>2, <1>3 DEF a

(* The queue depth is that of every job. *)
OneDepth == \A j, k \in Jobs : Depth[j] = Depth[k]

(* The pipe of an engine is that of its input. *)
LEMMA Pipes ==
  ASSUME ProcessType, NEW n \in Daemons, NEW j \in Jobs
  PROVE  /\ engine[n].input # <<>> /\ engine'[n].input = Tail(engine[n].input) =>
              /\ InPipe(j, n)' => InPipe(j, n)
              /\ PipedOnce(j, n) => PipedOnce(j, n)'
              /\ PipedOnce(j, n) /\ Head(engine[n].input) = <<"enqueue", j>> => ~InPipe(j, n)'
              /\ Head(engine[n].input) = <<"enqueue", j>> => InPipe(j, n)
         /\ \A x \in Inputs0 : engine'[n].input = Append(engine[n].input, x) =>
              /\ InPipe(j, n)' <=> InPipe(j, n) \/ x = <<"enqueue", j>>
              /\ PipedOnce(j, n) /\ (x # <<"enqueue", j>> \/ ~InPipe(j, n)) => PipedOnce(j, n)'
<1> DEFINE In(t) == {t[i] : i \in 1..Len(t)}
           Once(t, x) == \A i, k \in 1..Len(t) : t[i] = x /\ t[k] = x => i = k
           s == engine[n].input
           c == <<"enqueue", j>>
<1>1. s \in Seq(Inputs0) /\ c \in Inputs0
  BY EngineFields DEF Inputs0
<1>2. /\ InPipe(j, n) <=> c \in In(s)
      /\ PipedOnce(j, n) <=> Once(s, c)
      /\ InPipe(j, n)' <=> c \in In(engine'[n].input)
      /\ PipedOnce(j, n)' <=> Once(engine'[n].input, c)
  BY DEF InPipe, Inputs, PipedOnce
<1> HIDE DEF c
<1>3. s # <<>> => /\ In(Tail(s)) \subseteq In(s) /\ Head(s) \in In(s)
                  /\ Once(s, c) => Once(Tail(s), c)
                  /\ Once(s, c) /\ Head(s) = c => c \notin In(Tail(s))
  BY <1>1, Shorter
<1>4. \A x \in Inputs0 : /\ In(Append(s, x)) = In(s) \cup {x}
                         /\ Once(s, c) /\ (c # x \/ x \notin In(s)) => Once(Append(s, x), c)
  <2> TAKE x \in Inputs0
  <2> HIDE DEF s
  <2>1. /\ In(Append(s, x)) = In(s) \cup {x}
        /\ \A y \in Inputs0 : Once(s, y) /\ (y # x \/ x \notin In(s)) => Once(Append(s, x), y)
    BY <1>1, Longer
  <2> QED  BY <1>1, <2>1
<1>5. \A x \in Inputs0 : x # c \/ c \notin In(s) => c # x \/ x \notin In(s)
  OBVIOUS
<1> HIDE DEF In, Once, s
<1>6. ASSUME s # <<>>, engine'[n].input = Tail(s)
      PROVE  /\ InPipe(j, n)' => InPipe(j, n)
             /\ PipedOnce(j, n) => PipedOnce(j, n)'
             /\ PipedOnce(j, n) /\ Head(s) = c => ~InPipe(j, n)'
             /\ Head(s) = c => InPipe(j, n)
  BY <1>2, <1>3, <1>6
<1>7. ASSUME NEW x \in Inputs0, engine'[n].input = Append(s, x)
      PROVE  /\ InPipe(j, n)' <=> InPipe(j, n) \/ x = c
             /\ PipedOnce(j, n) /\ (x # c \/ ~InPipe(j, n)) => PipedOnce(j, n)'
  BY <1>2, <1>4, <1>7
<1> QED  BY <1>6, <1>7 DEF s, c

(* The slots of an engine that is not at work, or of one whose own part does *)
(* not change.                                                               *)
LEMMA SlotsFrame ==
  ASSUME NEW m \in Daemons, SlotsKnown(m), JobKnown(m), engine[m].slots \in SUBSET Jobs,
         engine'[m].step = engine[m].step, engine'[m].slots = engine[m].slots, engine'[m].job = engine[m].job,
         engine'[m].before = engine[m].before, engine'[m].code = engine[m].code,
         released[m] => released'[m],
         \A j \in Jobs : run[j] # "none" => run'[j] # "none",
         engine[m].step \in {"none", "exited"} \/ \A j \in Jobs : run'[j] # "none" => run[j] # "none"
  PROVE  SlotsKnown(m)'
BY DEF SlotsKnown, JobKnown

(* The engine that works is that of the daemon that serves, and what it does *)
(* leaves the service as it is: it drains only an input that is closed.      *)
LEMMA EngineServes ==
  ASSUME IInv, Tracked, NEW n \in Daemons, EngineStep(n)
  PROVE  /\ n = daemon /\ engine[n].step \notin {"none", "exited"} /\ phase \notin {"down", "boot"}
         /\ UNCHANGED <<daemon, phase, loop, spawned, starts, pending, dispatched, completed, failed>>
         /\ \A m \in Daemons \ {n} : engine'[m] = engine[m] /\ engine[m].step \in {"none", "exited"}
         /\ ServiceKnown'
         /\ \A j \in Jobs : \A m \in Daemons \ {n} : ~Fed(j, m) /\ ~Fed(j, m)' /\ PipedOnce(j, m)'
<1> DEFINE e == engine[n]
<1>1. Types /\ ServiceKnown /\ EngineOps(n)
  BY TypesOK DEF IInv, Tracked, EngineStep
<1>2. ProcessType /\ engine \in Engines0
  BY <1>1, EngineKinds DEF Types, ProcessType
<1>3. e.step \notin {"none", "exited"}
  BY <1>1, Zenon DEF EngineOps, Load, ReadEnqueue, Reap, Spawn, Full, Ack, ReadReap, ReapDone, ReadRelease,
     ReadEnd, DrainRelease, DrainDone, EStep
<1>4. n = daemon /\ phase \notin {"down", "failing", "written", "boot", "close", "unlink"} /\ ~loop.ending
  BY <1>1, <1>3 DEF ServiceKnown
<1>5. UNCHANGED <<daemon, phase, loop, spawned, starts, pending, dispatched, completed, failed>>
  BY DEF EngineStep, service
<1>6. \A m \in Daemons \ {n} : engine'[m] = engine[m] /\ engine[m].step \in {"none", "exited"}
  <2>1. JobKnown(n)
    BY DEF IInv
  <2>2. UNCHANGED engine \/ \A m \in DOMAIN engine \ {n} : engine'[m] = engine[m]
    BY <1>1, <1>2, <2>1, EngineEffects DEF Alters, Changed, EngineOps, DrainRelease
  <2> QED  BY <1>1, <1>2, <1>4, <2>2 DEF Engines0, ServiceKnown
<1>7. engine'[n].eof = e.eof /\ engine'[n].step # "none"
      /\ (engine'[n].step \in {"drain", "exited"} => e.eof \/ e.step = "drain")
  <2>1. CASE Load(n) \/ ReapDone(n) \/ ReadReap(n) \/ Ack(n) \/ Spawn(n)
    <3>1. engine'[n].eof = e.eof /\ engine'[n].step \in {"read", "reap", "full"}
      BY <1>2, <2>1, EngineEffects DEF Alters, Changed, IInv
    <3> QED  BY <3>1
  <2>2. CASE ReadEnqueue(n) \/ Full(n)
    <3>1. engine'[n].eof = e.eof /\ engine'[n].step \in {"ack", "select"}
      BY <1>2, <2>2, EngineEffects DEF Alters, Changed
    <3> QED  BY <3>1
  <2>3. CASE ReadRelease(n) \/ (\E j \in Jobs : Reap(n, j)) \/ DrainRelease(n)
    <3>1. engine'[n].eof = e.eof /\ engine'[n].step = e.step
      BY <1>2, <2>3, EngineEffects DEF Alters, Changed, DrainRelease
    <3>2. e.step = "exited" \/ e.step # "none"
      BY <1>3
    <3> QED  BY <1>3, <3>1
  <2>4. CASE ReadEnd(n) \/ DrainDone(n)
    <3>1. engine'[n].eof = e.eof /\ engine'[n].step \in {"drain", "exited"} /\ (e.eof \/ e.step = "drain")
      BY <1>2, <2>4, EngineEffects DEF Alters, Changed, ReadEnd, DrainDone, EStep
    <3> QED  BY <3>1
  <2> QED  BY <1>1, <2>1, <2>2, <2>3, <2>4 DEF EngineOps
<1>8. ServiceKnown'
  <2>1. (loop'.ending <=> loop.ending) /\ (Closing' <=> Closing) /\ phase' = phase
    BY <1>5 DEF Closing
  <2>2. ~Closing => engine'[daemon].step \notin {"none", "drain", "exited"} /\ ~engine'[daemon].eof
    BY <1>1, <1>4, <1>7 DEF ServiceKnown
  <2> QED  BY <1>1, <1>4, <1>5, <1>6, <2>1, <2>2 DEF ServiceKnown
<1>9. ASSUME NEW j \in Jobs, NEW m \in Daemons \ {n}
      PROVE  ~Fed(j, m) /\ ~Fed(j, m)' /\ PipedOnce(j, m)'
  <2>1. ~Fed(j, m) /\ PipedOnce(j, m)
    BY <1>4, <1>9 DEF Tracked, FedKnown
  <2> QED  BY <1>6, <2>1 DEF Fed, InPipe, Inputs, PipedOnce
<1> QED  BY <1>3, <1>4, <1>5, <1>6, <1>8, <1>9

(* What an action of an engine has to show: it feeds nothing, spawns only    *)
(* what was fed, and writes true results.                                    *)
LEMMA EngineTracksIf ==
  ASSUME IInv, Tracked, NEW n \in Daemons, EngineStep(n),
         \A j \in Jobs : Fed(j, n)' => Fed(j, n) /\ result'[j] = "none",
         \A j \in Jobs : InPipe(j, n)' => InPipe(j, n) /\ run'[j] = "none" /\ engine'[n].job # j,
         \A j \in Jobs : PipedOnce(j, n)',
         \A j \in Jobs : \/ run'[j] = run[j]
                         \/ Fed(j, n) /\ result'[j] = result[j] /\ run[j] = "none" /\ run'[j] # "none",
         \A j \in Jobs : \/ result'[j] = result[j]
                         \/ /\ Fed(j, n) \/ run[j] # "none"
                            /\ run'[j] = run[j]
                            /\ \/ result'[j] = "ok" /\ run[j] = "ok"
                               \/ result'[j] = "error" /\ run[j] \in {"none", "error"},
         \A m \in Daemons : released'[m] = released[m] \/ m = n,
         SlotsKnown(n)'
  PROVE  Tracked'
<1>1. /\ n = daemon /\ UNCHANGED <<daemon, phase, loop, spawned, starts, pending, dispatched, completed, failed>>
      /\ \A m \in Daemons \ {n} : engine'[m] = engine[m] /\ engine[m].step \in {"none", "exited"}
      /\ ServiceKnown'
      /\ \A j \in Jobs : \A m \in Daemons \ {n} : ~Fed(j, m) /\ ~Fed(j, m)' /\ PipedOnce(j, m)'
  BY EngineServes
<1>2. FedKnown'
  <2>1. ASSUME NEW j \in Jobs, NEW m \in Daemons
        PROVE  /\ Fed(j, m)' => m = daemon' /\ j \in dispatched' /\ result'[j] = "none"
               /\ InPipe(j, m)' => run'[j] = "none" /\ engine'[m].job # j
               /\ PipedOnce(j, m)'
    <3>1. CASE m = n
      BY <1>1, <3>1 DEF Tracked, FedKnown
    <3>2. CASE m # n
      BY <1>1, <3>2 DEF Fed
    <3> QED  BY <3>1, <3>2
  <2> QED  BY <2>1 DEF FedKnown
<1>3. UnfedKnown'
  <2>1. \A j \in Jobs : run[j] = "none" /\ ~Fed(j, n) => run'[j] = "none" /\ result'[j] = result[j]
    OBVIOUS
  <2>2. ASSUME phase' = "feed"
        PROVE  /\ loop'.job \in dispatched' /\ run'[loop'.job] = "none" /\ result'[loop'.job] = "none"
               /\ \A m \in Daemons : ~Fed(loop.job, m)'
    <3>1. PICK k \in Jobs : k = loop.job /\ loop' = loop
      BY <1>1, <2>2 DEF IInv, JobFed
    <3>2. k \in dispatched /\ run[k] = "none" /\ result[k] = "none" /\ ~Fed(k, n)
      BY <1>1, <2>2, <3>1 DEF Tracked, UnfedKnown
    <3>3. \A m \in Daemons : ~Fed(k, m)'
      BY <1>1, <3>2
    <3>4. \A m \in Daemons : ~Fed(loop.job, m)'
      BY <3>1, <3>3 DEF Fed, InPipe, Inputs
    <3> QED  BY <1>1, <2>1, <3>1, <3>2, <3>4
  <2>3. \A j \in Jobs \ (dispatched \cup Finished) : run'[j] = "none" /\ result'[j] = "none"
    BY <1>1, <2>1 DEF Tracked, UnfedKnown, FedKnown
  <2>4. dispatched' = dispatched /\ Finished' = Finished
    BY <1>1 DEF Finished
  <2> QED  BY <2>2, <2>3, <2>4 DEF UnfedKnown
<1>4. \A m \in Daemons : SlotsKnown(m)'
  <2>1. ASSUME NEW m \in Daemons \ {n}  PROVE SlotsKnown(m)'
    <3>1. SlotsKnown(m) /\ JobKnown(m)
      BY DEF IInv, Tracked
    <3>2. engine[m].slots \in SUBSET Jobs
      BY EngineFields, TypesOK DEF IInv, Types
    <3> QED  BY <1>1, <3>1, <3>2, SlotsFrame
  <2> QED  BY <2>1
<1>5. ResultsKnown'
  BY <1>1, TypesOK DEF Tracked, ResultsKnown, IInv, Types, ServiceType, Loops, FedKnown
<1>6. RecordsKnown'
  <2>1. completed \subseteq Jobs /\ failed \subseteq Jobs
    BY TypesOK DEF IInv, Types, FilesType
  <2>2. \A j \in Jobs : Fed(j, n) => j \notin Finished
    BY DEF Tracked, FedKnown, RecordsKnown, ResultsKnown
  <2> QED  BY <1>1, <2>1, <2>2 DEF Tracked, RecordsKnown, Finished
<1> QED  BY <1>1, <1>2, <1>3, <1>4, <1>5, <1>6 DEF Tracked

(* An action that spawns nothing and writes no result reads no more than     *)
(* what was fed.                                                             *)
LEMMA EngineReads ==
  ASSUME IInv, Tracked, NEW n \in Daemons, EngineStep(n),
         UNCHANGED <<run, result>>,
         engine'[n].job = engine[n].job,
         \/ engine'[n].input = engine[n].input
         \/ engine[n].input # <<>> /\ engine'[n].input = Tail(engine[n].input),
         engine'[n].slots = engine[n].slots, engine'[n].before = engine[n].before, engine'[n].code = engine[n].code,
         engine[n].step \in {"loading", "read", "reap", "drain"},
         engine'[n].step \in {"read", "reap", "drain", "exited"},
         \A m \in Daemons : released'[m] = released[m] \/ m = n,
         released[n] => released'[n]
  PROVE  Tracked'
<1>1. ProcessType /\ FedKnown
  BY TypesOK DEF IInv, Types, Tracked
<1>2. ASSUME NEW j \in Jobs
      PROVE  /\ Fed(j, n)' => Fed(j, n) /\ result'[j] = "none"
             /\ InPipe(j, n)' => InPipe(j, n) /\ run'[j] = "none" /\ engine'[n].job # j
             /\ PipedOnce(j, n)'
  <2>1. (InPipe(j, n)' => InPipe(j, n)) /\ (PipedOnce(j, n) => PipedOnce(j, n)')
    <3>1. CASE engine'[n].input = engine[n].input
      BY <3>1 DEF InPipe, Inputs, PipedOnce
    <3>2. CASE engine[n].input # <<>> /\ engine'[n].input = Tail(engine[n].input)
      BY <1>1, <3>2, Pipes
    <3> QED  BY <3>1, <3>2
  <2> QED  BY <1>1, <2>1 DEF Fed, FedKnown
<1>3. SlotsKnown(n)'
  BY DEF Tracked, SlotsKnown
<1> QED  BY <1>2, <1>3, EngineTracksIf

(* The actions of an engine. *)
LEMMA EngineTracks ==
  ASSUME OneDepth, IInv, Tracked, NEW n \in Daemons, EngineStep(n)
  PROVE  Tracked'
<1> DEFINE e == engine[n]
<1>1. /\ Types /\ ProcessType /\ FilesType /\ EngineOps(n) /\ JobKnown(n) /\ FedKnown /\ SlotsKnown(n)
      /\ run \in [Jobs -> {"none", "ok", "error"} \cup Alive] /\ result \in [Jobs -> {"none", "ok", "error"}]
      /\ e.slots \in SUBSET Jobs /\ IsFiniteSet(e.slots) /\ Cardinality(e.slots) \in Nat
  BY TypesOK, EngineFields, JobSets DEF IInv, Types, Tracked, EngineStep, ProcessType, FilesType
<1>2. /\ \A m \in Daemons : released'[m] = released[m] \/ m = n
      /\ released[n] => released'[n]
  <2>1. UNCHANGED released \/ released' = [released EXCEPT ![n] = TRUE]
    <3>1. Full(n) => UNCHANGED released \/ released' = [released EXCEPT ![n] = TRUE]
      BY DEF Full
    <3> QED  BY <1>1, <3>1, Zenon DEF EngineOps, Load, ReadEnqueue, Reap, Spawn, Ack, ReadReap, ReapDone,
             ReadRelease, ReadEnd, DrainRelease, DrainDone
  <2>2. released \in [Daemons -> BOOLEAN]
    BY <1>1 DEF ProcessType
  <2> QED  BY <2>1, <2>2
<1>3. CASE Load(n) \/ ReapDone(n) \/ ReadEnd(n) \/ DrainDone(n) \/ DrainRelease(n) \/ ReadReap(n) \/ ReadRelease(n)
  <2>1. UNCHANGED <<run, result>>
    BY <1>3 DEF Load, ReapDone, ReadEnd, DrainDone, DrainRelease, ReadReap, ReadRelease
  <2>2. /\ engine'[n].slots = e.slots /\ engine'[n].before = e.before /\ engine'[n].code = e.code
        /\ engine'[n].job = e.job /\ e.step \in {"loading", "read", "reap", "drain"}
        /\ engine'[n].step \in {"read", "reap", "drain", "exited"}
        /\ engine'[n].input = e.input \/ (e.input # <<>> /\ engine'[n].input = Tail(e.input))
    <3>1. CASE DrainRelease(n)
      BY <3>1 DEF DrainRelease, EStep
    <3>2. CASE ReadReap(n) \/ ReadRelease(n)
      BY <1>1, <3>2, EngineEffects DEF Alters, Changed, ReadReap, ReadRelease, EStep, Command
    <3>3. CASE Load(n) \/ ReapDone(n) \/ ReadEnd(n) \/ DrainDone(n)
      BY <1>1, <3>3, EngineEffects DEF Alters, Changed, Load, ReapDone, ReadEnd, DrainDone, EStep
    <3> QED  BY <1>3, <3>1, <3>2, <3>3
  <2> QED  BY <1>2, <2>1, <2>2, EngineReads
<1>4. CASE ReadEnqueue(n)
  <2>1. /\ e.input # <<>> /\ e.step = "read" /\ Head(e.input) = <<"enqueue", Head(e.input)[2]>>
        /\ Head(e.input)[2] \in Jobs /\ UNCHANGED <<run, result, released>>
    BY <1>1, <1>4, Commanded DEF ReadEnqueue, Command, EStep
  <2>2. PICK k \in Jobs : k = Head(e.input)[2] /\ Head(e.input) = <<"enqueue", k>>
    BY <2>1
  <2>3. /\ engine'[n].input = Tail(e.input) /\ engine'[n].slots = e.slots /\ engine'[n].job = k
        /\ engine'[n].before = Cardinality(e.slots)
        /\ \/ engine'[n].step = "ack" /\ engine'[n].code = 1
           \/ engine'[n].step = "select" /\ engine'[n].code = 0
    BY <1>1, <1>4, <2>2, EngineEffects DEF Alters, Changed
  <2>4. InPipe(k, n) /\ run[k] = "none" /\ result[k] = "none" /\ ~InPipe(k, n)'
    <3>1. InPipe(k, n) /\ (PipedOnce(k, n) => ~InPipe(k, n)')
      BY <1>1, <2>1, <2>2, <2>3, Pipes
    <3> QED  BY <1>1, <3>1 DEF FedKnown, Fed
  <2>5. ASSUME NEW j \in Jobs
        PROVE  /\ Fed(j, n)' => Fed(j, n) /\ result'[j] = "none"
               /\ InPipe(j, n)' => InPipe(j, n) /\ run'[j] = "none" /\ engine'[n].job # j
               /\ PipedOnce(j, n)'
    <3>1. (InPipe(j, n)' => InPipe(j, n)) /\ (PipedOnce(j, n) => PipedOnce(j, n)')
      BY <1>1, <2>1, <2>3, Pipes
    <3> QED  BY <1>1, <2>1, <2>3, <2>4, <3>1 DEF Fed, FedKnown
  <2>6. SlotsKnown(n)'
    BY <1>1, <2>1, <2>3, <2>4 DEF SlotsKnown
  <2> QED  BY <1>2, <2>1, <2>5, <2>6, EngineTracksIf
<1>5. CASE \E j \in Jobs : Reap(n, j)
  <2>1. PICK k \in Jobs : Reap(n, k)
    BY <1>5
  <2>2. /\ k \in e.slots /\ RunExited(k) /\ e.step \in {"select", "reap", "drain"}
        /\ result' = [result EXCEPT ![k] = run[k]] /\ UNCHANGED <<released, run>>
    BY <2>1 DEF Reap, EStep
  <2>3. /\ engine'[n].step = e.step /\ engine'[n].input = e.input /\ engine'[n].slots = e.slots \ {k}
        /\ engine'[n].job = e.job /\ engine'[n].before = e.before /\ engine'[n].code = e.code
    BY <1>1, <2>1, EngineEffects DEF Alters, Changed
  <2>4. Cardinality(e.slots \ {k}) \in Nat /\ Cardinality(e.slots \ {k}) <= Cardinality(e.slots)
    BY <1>1, FS_Subset, FS_CardinalityType
  <2>5. run[k] # "none" /\ ~Fed(k, n)
    <3>1. k # 0 /\ run[k] # "none"
      BY <1>1, <2>2, JobsAssumption DEF SlotsKnown
    <3> QED  BY <1>1, <2>2, <3>1 DEF SlotsKnown, Fed, FedKnown, JobKnown
  <2>6. ASSUME NEW j \in Jobs
        PROVE  /\ Fed(j, n)' => Fed(j, n) /\ result'[j] = "none"
               /\ InPipe(j, n)' => InPipe(j, n) /\ run'[j] = "none" /\ engine'[n].job # j
               /\ PipedOnce(j, n)'
    <3>1. (InPipe(j, n)' <=> InPipe(j, n)) /\ (PipedOnce(j, n) => PipedOnce(j, n)') /\ (Fed(j, n)' <=> Fed(j, n))
      BY <2>3 DEF InPipe, Inputs, PipedOnce, Fed
    <3> QED  BY <1>1, <2>2, <2>3, <2>5, <3>1 DEF Fed, FedKnown
  <2>7. SlotsKnown(n)'
    <3>1. \A j \in Jobs : Cardinality(e.slots) < Depth[j] => Cardinality(e.slots \ {k}) < Depth[j]
      BY <1>1, <2>4, DepthAssumption
    <3>2. e.before \in Nat
      BY <1>1, EngineFields
    <3>3. e.step = "select" => Cardinality(e.slots \ {k}) <= e.before
      BY <1>1, <2>4, <3>2 DEF SlotsKnown
    <3> QED  BY <1>1, <2>2, <2>3, <3>1, <3>3 DEF SlotsKnown
  <2>8. ASSUME NEW j \in Jobs
        PROVE  \/ result'[j] = result[j]
               \/ /\ Fed(j, n) \/ run[j] # "none"
                  /\ run'[j] = run[j]
                  /\ \/ result'[j] = "ok" /\ run[j] = "ok"
                     \/ result'[j] = "error" /\ run[j] \in {"none", "error"}
    <3>1. j # k => result'[j] = result[j]
      BY <1>1, <2>2
    <3>2. result'[k] = run[k] /\ run'[k] = run[k] /\ run[k] \in {"ok", "error"}
      BY <1>1, <2>2 DEF RunExited
    <3>3. CASE j = k
      BY <2>5, <3>2, <3>3
    <3> QED  BY <3>1, <3>3
  <2> QED  BY <1>2, <2>2, <2>6, <2>7, <2>8, EngineTracksIf
<1>6. CASE Spawn(n)
  <2>1. /\ e.step = "select" /\ e.job \in Jobs /\ run' = [run EXCEPT ![e.job] = "preparing"] /\ UNCHANGED <<result, released>>
    BY <1>1, <1>6 DEF Spawn, EStep, JobKnown
  <2>2. /\ engine'[n].step = "full" /\ engine'[n].input = e.input /\ engine'[n].slots = e.slots \cup {e.job}
        /\ engine'[n].job = e.job /\ engine'[n].before = e.before /\ engine'[n].code = e.code
    BY <1>1, <1>6, EngineEffects DEF Alters, Changed
  <2>3. Fed(e.job, n) /\ ~InPipe(e.job, n) /\ run[e.job] = "none"
    BY <1>1, <2>1 DEF Fed, FedKnown, SlotsKnown
  <2>4. ASSUME NEW j \in Jobs
        PROVE  /\ Fed(j, n)' => Fed(j, n) /\ result'[j] = "none"
               /\ InPipe(j, n)' => InPipe(j, n) /\ run'[j] = "none" /\ engine'[n].job # j
               /\ PipedOnce(j, n)'
    <3>1. (InPipe(j, n)' <=> InPipe(j, n)) /\ (PipedOnce(j, n) => PipedOnce(j, n)') /\ (Fed(j, n)' <=> Fed(j, n))
      BY <2>2 DEF InPipe, Inputs, PipedOnce, Fed
    <3> QED  BY <1>1, <2>1, <2>2, <2>3, <3>1 DEF FedKnown
  <2>5. SlotsKnown(n)'
    BY <1>1, <2>1, <2>2 DEF SlotsKnown
  <2> QED  BY <1>1, <1>2, <2>1, <2>3, <2>4, <2>5, EngineTracksIf
<1>7. CASE Full(n)
  <2>1. e.step = "full" /\ e.job \in Jobs /\ UNCHANGED <<run, result>>
    BY <1>1, <1>7 DEF Full, EStep, JobKnown
  <2>2. PICK code \in {0, 1} :
        /\ engine'[n].step = "ack" /\ engine'[n].input = e.input /\ engine'[n].slots = e.slots
        /\ engine'[n].job = e.job /\ engine'[n].before = e.before /\ engine'[n].code = code
        /\ \/ (released[n] \/ Cardinality(e.slots) < Depth[e.job]) /\ code = e.code /\ UNCHANGED released
           \/ ~(released[n] \/ Cardinality(e.slots) < Depth[e.job]) /\ released' = [released EXCEPT ![n] = TRUE]
    <3>1. e.code \in {0, 1}
      BY <1>1, EngineFields
    <3> QED  BY <1>1, <1>7, <3>1, EngineEffects DEF Alters, Changed
  <2>3. ASSUME NEW j \in Jobs
        PROVE  /\ Fed(j, n)' => Fed(j, n) /\ result'[j] = "none"
               /\ InPipe(j, n)' => InPipe(j, n) /\ run'[j] = "none" /\ engine'[n].job # j
               /\ PipedOnce(j, n)'
    <3>1. (InPipe(j, n)' <=> InPipe(j, n)) /\ (PipedOnce(j, n) => PipedOnce(j, n)') /\ (Fed(j, n)' <=> Fed(j, n))
      BY <2>2 DEF InPipe, Inputs, PipedOnce, Fed
    <3> QED  BY <1>1, <2>1, <2>2, <3>1 DEF FedKnown
  <2>4. SlotsKnown(n)'
    <3>1. \A j \in Jobs : Cardinality(e.slots) < Depth[e.job] => Cardinality(e.slots) < Depth[j]
      BY <2>1 DEF OneDepth
    <3>2. CASE (released[n] \/ Cardinality(e.slots) < Depth[e.job]) /\ code = e.code /\ UNCHANGED released
      <4>1. code = 0
        BY <1>1, <2>1, <3>2 DEF SlotsKnown
      <4> QED  BY <1>1, <2>1, <2>2, <3>1, <3>2, <4>1 DEF SlotsKnown
    <3>3. CASE ~(released[n] \/ Cardinality(e.slots) < Depth[e.job]) /\ released' = [released EXCEPT ![n] = TRUE]
      <4>1. released'[n]
        BY <1>1, <3>3 DEF ProcessType
      <4>2. e.before < Depth[e.job]
        BY <1>1, <2>1, <3>3 DEF SlotsKnown
      <4>3. Cardinality(e.slots) # e.before
        BY <3>3, <4>2
      <4> QED  BY <1>1, <2>1, <2>2, <4>1, <4>3 DEF SlotsKnown
    <3> QED  BY <2>2, <3>2, <3>3
  <2> QED  BY <1>2, <2>1, <2>3, <2>4, EngineTracksIf
<1>8. CASE Ack(n)
  <2>1. /\ e.step = "ack" /\ e.job \in Jobs /\ UNCHANGED <<run, released>>
        /\ result' = IF e.code # 0 /\ Cardinality(e.slots) = e.before THEN [result EXCEPT ![e.job] = "error"] ELSE result
    BY <1>1, <1>8 DEF Ack, EStep, JobKnown
  <2>2. /\ engine'[n].step = "read" /\ engine'[n].input = e.input /\ engine'[n].slots = e.slots
        /\ engine'[n].job = 0 /\ engine'[n].before = 0 /\ engine'[n].code = 0
    BY <1>1, <1>8, EngineEffects DEF Alters, Changed
  <2>3. Fed(e.job, n) /\ ~InPipe(e.job, n)
    BY <1>1, <2>1 DEF Fed, FedKnown
  <2>4. \A j \in Jobs : j # e.job => result'[j] = result[j]
    BY <1>1, <2>1
  <2>5. result'[e.job] = result[e.job] \/ (result'[e.job] = "error" /\ run[e.job] = "none")
    BY <1>1, <2>1 DEF SlotsKnown
  <2>6. ASSUME NEW j \in Jobs
        PROVE  /\ Fed(j, n)' => Fed(j, n) /\ result'[j] = "none"
               /\ InPipe(j, n)' => InPipe(j, n) /\ run'[j] = "none" /\ engine'[n].job # j
               /\ PipedOnce(j, n)'
    <3>1. (InPipe(j, n)' <=> InPipe(j, n)) /\ (PipedOnce(j, n) => PipedOnce(j, n)')
      BY <2>2 DEF InPipe, Inputs, PipedOnce
    <3>2. j # 0
      BY JobsAssumption
    <3>3. Fed(j, n)' <=> InPipe(j, n)
      BY <2>2, <3>1, <3>2 DEF Fed
    <3> QED  BY <1>1, <2>1, <2>2, <2>3, <2>4, <3>1, <3>2, <3>3 DEF Fed, FedKnown
  <2>7. SlotsKnown(n)'
    BY <1>1, <2>1, <2>2 DEF SlotsKnown
  <2>8. ASSUME NEW j \in Jobs
        PROVE  \/ result'[j] = result[j]
               \/ (Fed(j, n) \/ run[j] # "none") /\ run'[j] = run[j] /\ result'[j] = "error" /\ run[j] \in {"none", "error"}
    BY <2>1, <2>3, <2>4, <2>5
  <2> QED  BY <1>2, <2>1, <2>6, <2>7, <2>8, EngineTracksIf
<1> QED  BY <1>1, <1>3, <1>4, <1>5, <1>6, <1>7, <1>8 DEF EngineOps

(* A daemon that is not killed fails nothing: when it ends, nothing is       *)
(* dispatched.                                                               *)
LEMMA DaemonFailsNothing ==
  ASSUME IInv, Tracked, DaemonStep
  PROVE  \/ UNCHANGED <<pending, dispatched, completed, failed, result>> /\ phase' \notin {"feed", "recorded", "unlinked"}
         \/ \E j \in Jobs : Record(j) /\ Records(j)
         \/ UnlinkDispatched /\ Unlinks
         \/ \E j \in Jobs : Consumes(j) /\ (Discard(j) \/ (UnlinkResult /\ j = loop.job))
         \/ \E j \in pending : /\ NextJob /\ Takes(j)
                               /\ phase' = "feed" /\ loop' = [loop EXCEPT !.job = j]
<1>1. ServiceKnown /\ Recorded /\ ResultsKnown /\ loop \in Loops
  BY TypesOK DEF Tracked, IInv, Types, ServiceType
<1>2. CASE (\E j \in Jobs : FailRecord(j)) \/ FailUnlink
  <2>1. phase \in {"failing", "written"} => dispatched = {}
    BY <1>1 DEF ServiceKnown, Closing
  <2> QED  BY <1>1, <1>2, <2>1 DEF FailRecord, FailUnlink, Step, Recorded
<1>3. CASE \E j \in Jobs : Discard(j) \/ Record(j)
  <2>1. CASE \E j \in Jobs : Discard(j)
    BY <2>1 DEF Discard, Consumes
  <2>2. CASE \E j \in Jobs : Record(j)
    BY <2>2 DEF Record, Records
  <2> QED  BY <1>3, <2>1, <2>2
<1>4. CASE UnlinkDispatched
  BY <1>4 DEF UnlinkDispatched, Unlinks
<1>5. CASE UnlinkResult
  <2>1. loop.job \in Jobs
    BY <1>1, <1>5 DEF UnlinkResult, Step, ResultsKnown, Loops
  <2> QED  BY <1>5, <2>1 DEF UnlinkResult, Consumes
<1>6. CASE NextJob
  BY <1>6 DEF NextJob, Takes, Step
<1>7. CASE \/ FailDone \/ Boot \/ Scan \/ CollectDone \/ Poll \/ Acknowledge \/ CheckStop \/ CheckActive \/ WaitEngine
           \/ SendReap \/ SkipReap \/ CheckDispatch \/ Feed \/ SendRelease \/ SkipRelease \/ ReadPaused \/ WriteStatus
           \/ End \/ Close \/ Unlink
  BY <1>7 DEF FailDone, Boot, Scan, CollectDone, Poll, Acknowledge, CheckStop, CheckActive, WaitEngine, SendReap,
     SkipReap, CheckDispatch, Feed, SendRelease, SkipRelease, ReadPaused, WriteStatus, End, Close, Unlink, Step, files
<1> QED  BY <1>2, <1>3, <1>4, <1>5, <1>6, <1>7, Zenon DEF DaemonStep

(* What the daemon writes to its engine, and when it closes its input.       *)
LEMMA DaemonWrites ==
  ASSUME IInv, Tracked, DaemonStep
  PROVE  LET e == engine[daemon]
             f == engine'[daemon]
         IN  /\ daemon \in Daemons /\ ProcessType
             /\ UNCHANGED <<run, daemon, spawned, starts>>
             /\ \A m \in Daemons \ {daemon} : engine'[m] = engine[m]
             /\ f.slots = e.slots /\ f.job = e.job /\ f.before = e.before /\ f.code = e.code
             /\ \/ f.step = e.step /\ UNCHANGED released
                \/ Boot /\ f.step = "loading" /\ UNCHANGED released
                \/ End /\ f.step = "exited" /\ (e.step = "exited" \/ released'[daemon])
                       /\ \A m \in Daemons : released[m] => released'[m]
             /\ f.eof = e.eof \/ (CheckActive /\ dispatched = {} /\ phase' = "wait")
             /\ \/ f.input = e.input
                \/ f.input = Append(e.input, <<"reap">>)
                \/ f.input = Append(e.input, <<"release">>)
                \/ Feed /\ f.input = Append(e.input, <<"enqueue", loop.job>>)
<1> DEFINE e == engine[daemon]
           f == engine'[daemon]
<1>1. Types /\ ProcessType /\ ServiceType /\ DaemonsKnown /\ JobFed
  BY TypesOK DEF IInv, Types
<1>2. phase # "down"
  BY DEF DaemonStep, FailRecord, FailUnlink, FailDone, Boot, Scan,
     Discard, Record, UnlinkDispatched, UnlinkResult, CollectDone, Poll, Acknowledge, CheckStop, CheckActive, WaitEngine,
     SendReap, SkipReap, CheckDispatch, NextJob, Feed, SendRelease, SkipRelease, ReadPaused, WriteStatus, End, Close,
     Unlink, Step
<1>3. daemon \in Daemons
  <2>1. MaxStarts \in Nat /\ starts \in 0..MaxStarts
    BY <1>1, BoundsAssumption DEF ServiceType
  <2> QED  BY <1>1, <1>2, <2>1 DEF DaemonsKnown, Daemons
<1>4. UNCHANGED <<spawned, starts, daemon>> /\ \A m \in Daemons \ {daemon} : engine'[m] = engine[m]
  BY <1>1, <1>3, DaemonTouches
<1>5. UNCHANGED run
  BY Zenon DEF DaemonStep, FailRecord, FailUnlink, FailDone, Boot, Scan,
     Discard, Record, UnlinkDispatched, UnlinkResult, CollectDone, Poll, Acknowledge, CheckStop, CheckActive, WaitEngine,
     SendReap, SkipReap, CheckDispatch, NextJob, Feed, SendRelease, SkipRelease, ReadPaused, WriteStatus, End, Close,
     Unlink, processes
<1>6. CASE ~(Boot \/ CheckActive \/ SendReap \/ Feed \/ SendRelease \/ End)
  <2>1. UNCHANGED <<engine, released>>
    BY <1>6, Zenon DEF DaemonStep, FailRecord, FailUnlink, FailDone, Scan,
     Discard, Record, UnlinkDispatched, UnlinkResult, CollectDone, Poll, Acknowledge, CheckStop, WaitEngine, SkipReap,
       CheckDispatch, NextJob, SkipRelease, ReadPaused, WriteStatus, Close, Unlink, processes
  <2> QED  BY <1>1, <1>3, <1>4, <1>5, <2>1
<1>7. CASE Boot
  <2>1. /\ f.step = "loading" /\ f.slots = e.slots /\ f.job = e.job /\ f.before = e.before /\ f.code = e.code
        /\ f.eof = e.eof /\ f.input = e.input /\ UNCHANGED released
    BY <1>1, <1>3, <1>7, DaemonEffects DEF Alters, Changed, Boot
  <2> QED  BY <1>1, <1>3, <1>4, <1>5, <1>7, <2>1
<1>8. CASE CheckActive
  <2>1. UNCHANGED released /\ (UNCHANGED engine \/ (dispatched = {} /\ phase' = "wait"))
    BY <1>8 DEF CheckActive, Step
  <2>2. UNCHANGED engine \/
        /\ f.step = e.step /\ f.slots = e.slots /\ f.job = e.job /\ f.before = e.before /\ f.code = e.code
        /\ f.input = e.input
    BY <1>1, <1>3, <1>8, DaemonEffects DEF Alters, Changed
  <2> QED  BY <1>1, <1>3, <1>4, <1>5, <1>8, <2>1, <2>2
<1>9. CASE SendReap \/ SendRelease \/ Feed
  <2>1. UNCHANGED released
    BY <1>9 DEF SendReap, SendRelease, Feed
  <2>2. UNCHANGED engine \/
        /\ f.step = e.step /\ f.slots = e.slots /\ f.job = e.job /\ f.before = e.before /\ f.code = e.code
        /\ f.eof = e.eof
        /\ \/ f.input = Append(e.input, <<"reap">>)
           \/ f.input = Append(e.input, <<"release">>)
           \/ Feed /\ f.input = Append(e.input, <<"enqueue", loop.job>>)
    BY <1>1, <1>3, <1>9, DaemonEffects DEF Alters, Changed
  <2> QED  BY <1>1, <1>3, <1>4, <1>5, <2>1, <2>2
<1>10. CASE End
  <2>1. /\ f.step = "exited" /\ f.slots = e.slots /\ f.job = e.job /\ f.before = e.before /\ f.code = e.code
        /\ f.eof = e.eof /\ f.input = e.input
    BY <1>1, <1>3, <1>10, DaemonEffects DEF Alters, Changed
  <2>2. (e.step = "exited" \/ released'[daemon]) /\ \A m \in Daemons : released[m] => released'[m]
    <3>1. released \in [Daemons -> BOOLEAN]
      BY <1>1 DEF ProcessType
    <3> QED  BY <1>3, <1>10, <3>1 DEF End, Exited
  <2> QED  BY <1>1, <1>3, <1>4, <1>5, <1>10, <2>1, <2>2
<1> QED  BY <1>6, <1>7, <1>8, <1>9, <1>10

(* The steps of the loop while the daemon serves. *)
Working ==
  {"collect", "collecting", "recorded", "unlinked", "poll", "ack", "stopfile", "active", "reap", "check", "next", "feed", "release", "status",
   "write"}

(* The paths of the loop: without kills only a closed input ends it.         *)
LEMMA DaemonPaths ==
  ASSUME IInv, Tracked, DaemonStep, ~Boot, ~End
  PROVE  \/ /\ {phase, phase'} \subseteq Working
            /\ phase = "collect" => phase' = "collecting"
            /\ phase = "collecting" => phase' = "collecting" \/ ~loop.ending
         \/ phase = "collecting" /\ phase' = "failing" /\ loop.ending
         \/ phase = "failing" /\ phase' \in {"close", "boot", "end"} /\ (loop.ending => phase' = "close")
         \/ phase = "active" /\ phase' = "wait" /\ dispatched = {}
         \/ phase = "wait" /\ phase' = "end"
         \/ phase = "close" /\ phase' = "unlink"
         \/ phase = "unlink" /\ phase' = "down"
<1>1. ServiceKnown
  BY DEF Tracked
<1>2. CASE Poll \/ SendReap \/ Feed \/ SendRelease
  <2>1. phase \in {"poll", "reap", "feed", "release"}
    BY <1>2 DEF Poll, SendReap, Feed, SendRelease, Step
  <2>2. ~Exited(daemon)
    BY <1>1, <2>1 DEF ServiceKnown, Closing, Exited
  <2>3. phase' \in {"ack", "check", "release", "status"}
    BY <1>2, <2>2 DEF Poll, SendReap, Feed, SendRelease, Step
  <2> QED  BY <2>1, <2>3 DEF Working
<1>3. CASE (\E j \in Jobs : FailRecord(j)) \/ FailUnlink \/ FailDone
  <2>1. phase \in {"failing", "written"} => dispatched = {}
    BY <1>1 DEF ServiceKnown, Closing
  <2>2. FailDone
    BY <1>3, <2>1 DEF FailRecord, FailUnlink, Step, IInv, Recorded
  <2> QED  BY <2>2 DEF FailDone, Step
<1>4. CASE \E j \in Jobs : Record(j)
  <2>1. ~loop.ending
    BY <1>1, <1>4 DEF Record, ServiceKnown, Closing
  <2> QED  BY <1>4, <2>1 DEF Record, Step, Working
<1>5. CASE Scan \/ (\E j \in Jobs : Discard(j)) \/ UnlinkDispatched \/ UnlinkResult \/ CollectDone
  BY <1>5 DEF Scan, Discard, UnlinkDispatched, UnlinkResult, CollectDone, Step, Working
<1>6. CASE \/ Acknowledge \/ CheckStop \/ CheckActive \/ WaitEngine \/ SkipReap \/ CheckDispatch \/ NextJob
           \/ SkipRelease \/ ReadPaused \/ WriteStatus \/ Close \/ Unlink
  BY <1>6 DEF Acknowledge, CheckStop, CheckActive, WaitEngine, SkipReap, CheckDispatch, NextJob,
     SkipRelease, ReadPaused, WriteStatus, Close, Unlink, Step, Working
<1> QED  BY <1>2, <1>3, <1>4, <1>5, <1>6, Zenon DEF DaemonStep

(* It ends when its engine has, and not before.                              *)
LEMMA DaemonServes ==
  ASSUME IInv, Tracked, DaemonStep
  PROVE  ServiceKnown'
<1> DEFINE e == engine[daemon]
           f == engine'[daemon]
<1>1. /\ ServiceKnown /\ daemon \in Daemons /\ UNCHANGED daemon
      /\ \A m \in Daemons \ {daemon} : engine'[m] = engine[m]
      /\ f.step \in {e.step, "exited"} \/ (Boot /\ f.step = "loading")
      /\ f.eof = e.eof \/ (CheckActive /\ dispatched = {} /\ phase' = "wait")
      /\ f.step = e.step \/ Boot \/ End
  BY DaemonWrites DEF Tracked
<1>2. loop \in Loops
  BY TypesOK DEF IInv, Types, ServiceType
<1>3. loop'.ending = loop.ending \/ End
  <2>1. CASE \/ NextJob \/ Feed \/ Acknowledge \/ CheckStop \/ ReadPaused \/ SendRelease \/ Scan \/ UnlinkResult
             \/ \E j \in Jobs : FailRecord(j) \/ Discard(j) \/ Record(j)
    BY <1>2, <2>1 DEF NextJob, Feed, Acknowledge, CheckStop, ReadPaused, SendRelease, Scan, UnlinkResult, FailRecord,
       Discard, Record, Loops
  <2>2. CASE \/ FailUnlink \/ FailDone \/ Boot \/ UnlinkDispatched \/ CollectDone \/ Poll \/ CheckActive \/ WaitEngine
             \/ SendReap \/ SkipReap \/ CheckDispatch \/ SkipRelease \/ WriteStatus \/ Close \/ Unlink
    BY <2>2, Zenon DEF FailUnlink, FailDone, Boot, UnlinkDispatched, CollectDone, Poll, CheckActive, WaitEngine,
                       SendReap, SkipReap, CheckDispatch, SkipRelease, WriteStatus, Close, Unlink
  <2> QED  BY <2>1, <2>2, Zenon DEF DaemonStep
<1>4. CASE Boot
  <2>1. e = NoEngine /\ loop = [NewLoop EXCEPT !.job = loop.job] /\ dispatched = {}
    BY <1>1, <1>4 DEF Boot, Step, IInv, DaemonsKnown, ServiceKnown, Closing
  <2>2. ~e.eof /\ ~loop.ending /\ e.step = "none"
    BY <2>1 DEF NoEngine, NewLoop
  <2>3. dispatched' = {} /\ phase = "boot" /\ phase' = "collect" /\ loop' = loop
    BY <1>4, <2>1 DEF Boot, Step, files
  <2>4. f.step = "loading" /\ f.eof = e.eof
    <3>1. ~CheckActive
      BY <1>4 DEF Boot, CheckActive, Step
    <3>2. ~(phase = "end")
      BY <2>3
    <3> QED  BY <1>1, <1>4, <3>1, DaemonEffects, TypesOK DEF IInv, Types, Alters, Changed
  <2>5. \A n \in Daemons : engine[n].step \in {"none", "exited"}
    BY <1>1, <2>3 DEF ServiceKnown
  <2> QED  BY <1>1, <2>2, <2>3, <2>4, <2>5 DEF ServiceKnown, Closing
<1>5. CASE End
  <2>1. phase = "end" /\ phase' = "collect" /\ loop'.ending /\ dispatched' = dispatched /\ dispatched = {} /\ f.step = "exited"
    <3>1. f.step = "exited"
      BY <1>1, <1>5, DaemonEffects, TypesOK DEF IInv, Types, Alters, Changed
    <3> QED  BY <1>1, <1>2, <1>5, <3>1 DEF End, Step, ServiceKnown, Closing, files, Loops
  <2>2. \A n \in Daemons : engine'[n].step \in {"none", "exited"}
    BY <1>1, <2>1 DEF ServiceKnown
  <2> QED  BY <2>1, <2>2 DEF ServiceKnown, Closing
<1>6. CASE ~Boot /\ ~End
  <2>1. f.step = e.step /\ loop'.ending = loop.ending
    BY <1>1, <1>3, <1>6
  <2>2. \/ UNCHANGED dispatched
        \/ dispatched' \subseteq dispatched /\ phase = "recorded" /\ phase' = "unlinked"
        \/ phase = "next" /\ phase' = "feed"
    BY DaemonFailsNothing DEF Records, Consumes, UnlinkDispatched, Unlinks, NextJob, Step
  <2>3. \/ /\ {phase, phase'} \subseteq Working
           /\ phase = "collect" => phase' = "collecting"
           /\ phase = "collecting" => phase' = "collecting" \/ ~loop.ending
        \/ phase = "collecting" /\ phase' = "failing" /\ loop.ending
        \/ phase = "failing" /\ phase' \in {"close", "boot", "end"} /\ (loop.ending => phase' = "close")
        \/ phase = "active" /\ phase' = "wait" /\ dispatched = {}
        \/ phase = "wait" /\ phase' = "end"
        \/ phase = "close" /\ phase' = "unlink"
        \/ phase = "unlink" /\ phase' = "down"
    BY <1>6, DaemonPaths
  <2>4. CASE /\ {phase, phase'} \subseteq Working
             /\ phase = "collect" => phase' = "collecting"
             /\ phase = "collecting" => phase' = "collecting" \/ ~loop.ending
    <3>1. f.eof = e.eof
      BY <1>1, <2>4 DEF Working
    <3>2. loop'.ending => phase' \in {"collect", "collecting", "failing", "close", "unlink", "down"}
      BY <1>1, <2>1, <2>4 DEF ServiceKnown, Working
    <3>3. Closing' => dispatched' = {}
      BY <1>1, <2>1, <2>2, <2>4 DEF ServiceKnown, Closing, Working
    <3>4. ~Closing' => f.step \notin {"none", "drain", "exited"} /\ ~f.eof
      BY <1>1, <2>1, <2>4, <3>1 DEF ServiceKnown, Closing, Working
    <3>5. \A n \in Daemons :
            \/ engine'[n].step \in {"none", "exited"}
            \/ n = daemon /\ ~loop'.ending
               /\ phase' \notin {"down", "failing", "written", "boot", "close", "unlink"}
      BY <1>1, <2>1, <2>4 DEF ServiceKnown, Working
    <3> QED  BY <1>1, <3>2, <3>3, <3>4, <3>5 DEF ServiceKnown
  <2>5. CASE phase = "collecting" /\ phase' = "failing" /\ loop.ending
    BY <1>1, <2>1, <2>2, <2>5 DEF ServiceKnown, Closing
  <2>10. CASE phase = "failing" /\ phase' \in {"close", "boot", "end"} /\ (loop.ending => phase' = "close")
    BY <1>1, <2>1, <2>2, <2>10 DEF ServiceKnown, Closing
  <2>6. CASE phase = "active" /\ phase' = "wait" /\ dispatched = {}
    BY <1>1, <2>1, <2>2, <2>6 DEF ServiceKnown, Closing
  <2>7. CASE phase = "wait" /\ phase' = "end"
    BY <1>1, <2>1, <2>2, <2>7 DEF ServiceKnown, Closing
  <2>8. CASE phase = "close" /\ phase' = "unlink"
    BY <1>1, <2>1, <2>2, <2>8 DEF ServiceKnown, Closing
  <2>9. CASE phase = "unlink" /\ phase' = "down"
    BY <1>1, <2>1, <2>2, <2>9 DEF ServiceKnown, Closing
  <2> QED  BY <2>3, <2>4, <2>5, <2>6, <2>7, <2>8, <2>9, <2>10
<1> QED  BY <1>4, <1>5, <1>6

(* What the daemon writes to a pipe: nothing, or the job it feeds.            *)
LEMMA DaemonFeeds ==
  ASSUME IInv, Tracked, DaemonStep, NEW j \in Jobs, NEW m \in Daemons
  PROVE  /\ engine'[m].job = engine[m].job
         /\ InPipe(j, m)' => InPipe(j, m) \/ (Feed /\ m = daemon /\ j = loop.job)
         /\ PipedOnce(j, m)'
<1>1. /\ daemon \in Daemons /\ ProcessType
      /\ \A k \in Daemons \ {daemon} : engine'[k] = engine[k]
      /\ engine'[daemon].job = engine[daemon].job
      /\ \/ engine'[daemon].input = engine[daemon].input
         \/ engine'[daemon].input = Append(engine[daemon].input, <<"reap">>)
         \/ engine'[daemon].input = Append(engine[daemon].input, <<"release">>)
         \/ Feed /\ engine'[daemon].input = Append(engine[daemon].input, <<"enqueue", loop.job>>)
  BY DaemonWrites
<1>2. PipedOnce(j, m)
  BY DEF Tracked, FedKnown
<1>3. CASE engine'[m].input = engine[m].input
  BY <1>1, <1>2, <1>3 DEF InPipe, Inputs, PipedOnce
<1>4. ASSUME NEW x \in Inputs0, engine'[m].input = Append(engine[m].input, x),
             x = <<"enqueue", j>> => Feed /\ m = daemon /\ j = loop.job
      PROVE  (InPipe(j, m)' => InPipe(j, m) \/ (Feed /\ m = daemon /\ j = loop.job)) /\ PipedOnce(j, m)'
  <2>1. /\ InPipe(j, m)' <=> InPipe(j, m) \/ x = <<"enqueue", j>>
        /\ PipedOnce(j, m) /\ (x # <<"enqueue", j>> \/ ~InPipe(j, m)) => PipedOnce(j, m)'
    BY <1>1, <1>4, Pipes
  <2>2. x = <<"enqueue", j>> => ~InPipe(j, m)
    BY <1>4 DEF Tracked, UnfedKnown, Feed, Step, Fed
  <2> QED  BY <1>2, <1>4, <2>1, <2>2
<1>5. CASE m = daemon /\ (engine'[m].input = Append(engine[m].input, <<"reap">>)
                          \/ engine'[m].input = Append(engine[m].input, <<"release">>))
  <2>1. <<"reap">> \in Inputs0 /\ <<"release">> \in Inputs0
    BY DEF Inputs0
  <2>2. <<"reap">> # <<"enqueue", j>> /\ <<"release">> # <<"enqueue", j>>
    OBVIOUS
  <2> QED  BY <1>1, <1>4, <1>5, <2>1, <2>2
<1>6. CASE m = daemon /\ Feed /\ engine'[m].input = Append(engine[m].input, <<"enqueue", loop.job>>)
  <2>1. loop.job \in Jobs
    BY <1>6 DEF Feed, IInv, JobFed
  <2>2. <<"enqueue", loop.job>> \in Inputs0
    BY <2>1 DEF Inputs0
  <2>3. <<"enqueue", loop.job>> = <<"enqueue", j>> => j = loop.job
    OBVIOUS
  <2> QED  BY <1>1, <1>4, <1>6, <2>2, <2>3
<1> QED  BY <1>1, <1>3, <1>5, <1>6

(* What the daemon scans has results, and it forgets what it collects.        *)
LEMMA DaemonScans ==
  ASSUME IInv, Tracked, DaemonStep
  PROVE  ResultsKnown'
<1>1. /\ result \in [Jobs -> {"none", "ok", "error"}] /\ loop \in Loops
      /\ ResultsKnown /\ UNCHANGED run
  BY TypesOK, DaemonWrites DEF IInv, Types, FilesType, ServiceType, Tracked
<1>2. CASE Scan
  <2>1. loop'.scanned = {j \in Jobs : result[j] # "none"} /\ result' = result
    BY <1>1, <1>2 DEF Scan, files, Loops
  <2>2. phase' = "collecting"
    BY <1>2 DEF Scan, Step
  <2> QED  BY <1>1, <2>1, <2>2 DEF ResultsKnown
<1>3. ASSUME NEW j \in Jobs, Discard(j) \/ (UnlinkResult /\ j = loop.job)  PROVE ResultsKnown'
  <2>1. loop'.scanned = loop.scanned \ {j} /\ result' = [result EXCEPT ![j] = "none"] /\ phase' = "collecting"
    BY <1>1, <1>3 DEF Discard, UnlinkResult, Step, Loops
  <2>2. loop.scanned \subseteq Jobs
    BY <1>1 DEF Loops
  <2> QED  BY <1>1, <2>1, <2>2 DEF ResultsKnown
<1>4. CASE \E j \in Jobs : Record(j)
  <2>1. loop'.scanned = loop.scanned /\ UNCHANGED result /\ loop'.job \in loop.scanned
    BY <1>1, <1>4 DEF Record, Loops
  <2> QED  BY <1>1, <2>1 DEF ResultsKnown
<1>5. CASE UnlinkDispatched
  BY <1>1, <1>5 DEF UnlinkDispatched, Step, ResultsKnown
<1>6. CASE ~Scan /\ ~UnlinkDispatched /\ ~UnlinkResult /\ ~\E j \in Jobs : Discard(j) \/ Record(j)
  <2>1. UNCHANGED result /\ phase' \notin {"recorded", "unlinked"}
    BY <1>6, DaemonFailsNothing DEF NextJob, Takes
  <2>2. loop'.scanned = loop.scanned
    <3>1. CASE Acknowledge \/ CheckStop \/ NextJob \/ Feed \/ SendRelease \/ ReadPaused \/ End \/ \E j \in Jobs : FailRecord(j)
      BY <1>1, <3>1 DEF Acknowledge, CheckStop, NextJob, Feed, SendRelease, ReadPaused, End, FailRecord, Loops
    <3>2. CASE \/ FailUnlink \/ FailDone \/ Boot \/ CollectDone \/ Poll \/ CheckActive \/ WaitEngine \/ SendReap
               \/ SkipReap \/ CheckDispatch \/ SkipRelease \/ WriteStatus \/ Close \/ Unlink
      BY <3>2, Zenon DEF FailUnlink, FailDone, Boot, CollectDone, Poll, CheckActive, WaitEngine, SendReap, SkipReap,
         CheckDispatch, SkipRelease, WriteStatus, Close, Unlink
    <3> QED  BY <1>6, <3>1, <3>2, Zenon DEF DaemonStep
  <2> QED  BY <1>1, <2>1, <2>2 DEF ResultsKnown
<1>7. UnlinkResult => loop.job \in Jobs
  BY <1>1 DEF UnlinkResult, Step, ResultsKnown, Loops
<1> QED  BY <1>2, <1>3, <1>4, <1>5, <1>6, <1>7

(* Slots do not change with the daemon. *)
LEMMA DaemonSlots ==
  ASSUME IInv, Tracked, DaemonStep, NEW m \in Daemons
  PROVE  SlotsKnown(m)'
<1>1. /\ daemon \in Daemons /\ ProcessType /\ UNCHANGED run
      /\ \A k \in Daemons \ {daemon} : engine'[k] = engine[k]
      /\ engine'[daemon].slots = engine[daemon].slots /\ engine'[daemon].job = engine[daemon].job
      /\ engine'[daemon].before = engine[daemon].before /\ engine'[daemon].code = engine[daemon].code
      /\ \/ engine'[daemon].step = engine[daemon].step /\ UNCHANGED released
         \/ Boot /\ engine'[daemon].step = "loading" /\ UNCHANGED released
         \/ End /\ engine'[daemon].step = "exited" /\ (engine[daemon].step = "exited" \/ released'[daemon])
                /\ \A k \in Daemons : released[k] => released'[k]
  BY DaemonWrites
<1>2. SlotsKnown(m) /\ JobKnown(m) /\ engine[m].slots \in SUBSET Jobs
  BY <1>1, EngineFields DEF IInv, Tracked
<1>3. CASE engine'[m].step = engine[m].step
  <2>1. released[m] => released'[m]
    BY <1>1
  <2>2. /\ engine'[m].slots = engine[m].slots /\ engine'[m].job = engine[m].job
        /\ engine'[m].before = engine[m].before /\ engine'[m].code = engine[m].code
    BY <1>1
  <2> QED  BY <1>1, <1>2, <1>3, <2>1, <2>2, SlotsFrame
<1>4. CASE m = daemon /\ Boot /\ engine'[m].step = "loading" /\ UNCHANGED released
  <2>1. engine[m].step = "none"
    BY <1>4 DEF Boot, Step, IInv, DaemonsKnown, Booting
  <2> QED  BY <1>1, <1>2, <1>4, <2>1 DEF SlotsKnown
<1>5. CASE m = daemon /\ engine'[m].step = "exited" /\ (engine[m].step = "exited" \/ released'[m])
           /\ \A k \in Daemons : released[k] => released'[k]
  BY <1>1, <1>2, <1>5 DEF SlotsKnown
<1> QED  BY <1>1, <1>3, <1>4, <1>5

(* A step of the daemon keeps what is known of every job. *)
LEMMA DaemonTracks ==
  ASSUME IInv, Tracked, DaemonStep
  PROVE  Tracked'
<1>1. /\ pending \subseteq Jobs /\ dispatched \subseteq Jobs /\ completed \subseteq Jobs /\ failed \subseteq Jobs
      /\ result \in [Jobs -> {"none", "ok", "error"}] /\ PendingAlone /\ Recorded
      /\ UNCHANGED <<run, daemon>> /\ daemon \in Daemons
      /\ FedKnown /\ UnfedKnown /\ ResultsKnown /\ RecordsKnown
  BY TypesOK, DaemonWrites DEF IInv, Types, FilesType, Tracked
<1>2. \/ UNCHANGED <<pending, dispatched, completed, failed, result>> /\ phase' \notin {"feed", "recorded", "unlinked"}
      \/ \E j \in Jobs : Record(j) /\ Records(j)
      \/ UnlinkDispatched /\ Unlinks
      \/ \E j \in Jobs : Consumes(j) /\ (Discard(j) \/ (UnlinkResult /\ j = loop.job))
      \/ \E j \in pending : /\ NextJob /\ Takes(j)
                            /\ phase' = "feed" /\ loop' = [loop EXCEPT !.job = j]
  BY DaemonFailsNothing
<1>3. \A j \in Jobs : \A m \in Daemons :
         /\ engine'[m].job = engine[m].job
         /\ InPipe(j, m)' => InPipe(j, m) \/ (Feed /\ m = daemon /\ j = loop.job)
         /\ PipedOnce(j, m)'
  BY DaemonFeeds
<1>4. \A j \in Jobs : \A m \in Daemons : Fed(j, m)' => Fed(j, m) \/ (Feed /\ m = daemon /\ j = loop.job)
  BY <1>3 DEF Fed
<1>5. ASSUME NEW j \in Jobs, result[j] = "none"
      PROVE  result'[j] = "none" /\ (j \in dispatched => j \in dispatched')
  <2>1. CASE UNCHANGED <<pending, dispatched, completed, failed, result>>
    BY <1>5, <2>1
  <2>2. CASE UnlinkDispatched /\ Unlinks
    <3>1. loop.job # j
      BY <1>1, <1>5, <2>2 DEF UnlinkDispatched, Step, ResultsKnown
    <3> QED  BY <1>5, <2>2, <3>1 DEF Unlinks
  <2>4. CASE \E k \in Jobs : Records(k) \/ Consumes(k)
    BY <1>1, <1>5, <2>4 DEF Records, Consumes
  <2>3. ASSUME NEW k \in pending, Takes(k)
        PROVE  result'[j] = "none" /\ (j \in dispatched => j \in dispatched')
    BY <1>5, <2>3 DEF Takes
  <2> QED  BY <1>2, <2>1, <2>2, <2>3, <2>4
<1>6. FedKnown'
  <2>1. ASSUME NEW j \in Jobs, NEW m \in Daemons
        PROVE  /\ Fed(j, m)' => m = daemon' /\ j \in dispatched' /\ result'[j] = "none"
               /\ InPipe(j, m)' => run'[j] = "none" /\ engine'[m].job # j
               /\ PipedOnce(j, m)'
    <3>1. Fed(j, m)' => m = daemon /\ j \in dispatched /\ result[j] = "none"
      BY <1>1, <1>4 DEF FedKnown, UnfedKnown, Feed
    <3>2. InPipe(j, m)' => run[j] = "none" /\ engine[m].job # j
      BY <1>1, <1>3 DEF FedKnown, UnfedKnown, Feed, Fed
    <3> QED  BY <1>1, <1>3, <1>5, <3>1, <3>2
  <2> QED  BY <2>1 DEF FedKnown
<1>7. UnfedKnown'
  <2>1. ASSUME phase' = "feed"
        PROVE  /\ loop'.job \in dispatched' /\ run'[loop'.job] = "none" /\ result'[loop'.job] = "none"
               /\ \A m \in Daemons : ~Fed(loop.job, m)'
    <3>1. PICK j \in pending : /\ NextJob /\ Takes(j)
                               /\ phase' = "feed" /\ loop' = [loop EXCEPT !.job = j]
      BY <1>2, <2>1 DEF Record, UnlinkDispatched, Discard, UnlinkResult, Step
    <3>2. loop'.job = j /\ j \in Jobs
      BY <1>1, <3>1, TypesOK DEF IInv, Types, ServiceType, Loops
    <3>3. j \notin dispatched \cup Finished
      BY <1>1, <3>1 DEF PendingAlone
    <3>4. run[j] = "none" /\ result[j] = "none" /\ j \in dispatched' /\ result' = result
      BY <1>1, <3>1, <3>2, <3>3 DEF UnfedKnown, Takes
    <3>5. ~Feed
      BY <3>1 DEF NextJob, Feed, Step
    <3>6. \A m \in Daemons : ~Fed(j, m)'
      BY <1>1, <1>4, <3>2, <3>3, <3>5 DEF FedKnown
    <3>7. \A m \in Daemons : ~Fed(loop.job, m)'
      BY <3>2, <3>6 DEF Fed, InPipe, Inputs
    <3> QED  BY <1>1, <3>2, <3>4, <3>7
  <2>2. ASSUME NEW j \in Jobs \ (dispatched' \cup Finished')
        PROVE  run'[j] = "none" /\ result'[j] = "none"
    <3>1. j \notin dispatched \cup Finished
      BY <1>1, <1>2, <2>2 DEF Records, UnlinkDispatched, Unlinks, Step, Recorded, Consumes, Takes, Finished
    <3> QED  BY <1>1, <1>5, <3>1 DEF UnfedKnown
  <2> QED  BY <2>1, <2>2 DEF UnfedKnown
<1>8. RecordsKnown'
  <2>1. ASSUME NEW j \in Jobs, Record(j), Records(j)  PROVE RecordsKnown'
    <3>1. result[j] # "none" /\ phase = "collecting" /\ phase' = "recorded" /\ loop' = [loop EXCEPT !.job = j]
      BY <1>1, <2>1 DEF Record, Step, ResultsKnown
    <3>2. /\ result[j] = "ok" => run[j] = "ok"
          /\ result[j] # "ok" => run[j] \in {"none", "error"}
      BY <1>1, <3>1 DEF ResultsKnown
    <3>3. loop'.job = j
      BY <3>1, TypesOK DEF IInv, Types, ServiceType, Loops
    <3>4. /\ completed' = IF result[j] = "ok" THEN completed \cup {j} ELSE completed
          /\ failed' = IF result[j] # "ok" THEN failed \cup {j} ELSE failed
          /\ dispatched' = dispatched
      BY <2>1 DEF Record
    <3>5. dispatched' \cap Finished' \subseteq {j}
      BY <1>1, <3>1, <3>4 DEF RecordsKnown, Finished
    <3> QED  BY <1>1, <3>1, <3>2, <3>3, <3>4, <3>5 DEF RecordsKnown
  <2>2. CASE UnlinkDispatched /\ Unlinks
    BY <1>1, <2>2 DEF Unlinks, RecordsKnown, Finished
  <2>3. CASE \/ UNCHANGED <<pending, dispatched, completed, failed, result>>
             \/ \E j \in Jobs : Consumes(j)
             \/ \E j \in pending : Takes(j)
    <3>1. dispatched' \cap Finished' \subseteq dispatched \cap Finished /\ UNCHANGED <<completed, failed>>
      BY <1>1, <2>3 DEF Consumes, Takes, PendingAlone, Finished
    <3>2. phase # "recorded" \/ UnlinkDispatched
      BY DEF DaemonStep, FailRecord, FailUnlink, FailDone, Boot, Scan,
     Discard, Record, UnlinkResult, CollectDone, Poll, Acknowledge, CheckStop, CheckActive, WaitEngine,
         SendReap, SkipReap, CheckDispatch, NextJob, Feed, SendRelease, SkipRelease, ReadPaused, WriteStatus, End, Close,
         Unlink, Step
    <3>3. CASE phase # "recorded"
      BY <1>1, <3>1, <3>3 DEF RecordsKnown
    <3>4. CASE UnlinkDispatched
      <4>1. Unlinks
        BY <3>4 DEF UnlinkDispatched, Unlinks
      <4> QED  BY <2>2, <3>4, <4>1
    <3> QED  BY <3>2, <3>3, <3>4
  <2> QED  BY <1>2, <2>1, <2>2, <2>3
<1> QED  BY <1>6, <1>7, <1>8, DaemonServes, DaemonScans, DaemonSlots DEF Tracked

(* What is fed depends on the engines alone. *)
LEMMA PipesFrame ==
  ASSUME UNCHANGED engine
  PROVE  \A j \in Jobs : \A n \in Daemons :
           /\ Fed(j, n)' <=> Fed(j, n)
           /\ InPipe(j, n)' <=> InPipe(j, n)
           /\ PipedOnce(j, n)' <=> PipedOnce(j, n)
BY DEF Fed, InPipe, Inputs, PipedOnce

(* A step that leaves the jobs, the engines and the phase alone. *)
LEMMA TrackedFrame ==
  ASSUME IInv, Tracked, UNCHANGED <<files, daemon, phase, engine, run>>,
         loop' = loop \/ loop' = [loop EXCEPT !.stopping = TRUE],
         UNCHANGED released
  PROVE  Tracked'
<1>1. loop'.job = loop.job /\ loop'.scanned = loop.scanned /\ loop'.ending = loop.ending
  BY TypesOK DEF IInv, Types, ServiceType, Loops
<1>2. UNCHANGED <<pending, dispatched, completed, failed, result, Finished>>
  BY DEF files, Finished
<1>3. \A n \in Daemons : Inputs(n)' = Inputs(n)
  BY DEF Inputs
<1>4. ServiceKnown'
  BY <1>1, <1>2 DEF Tracked, ServiceKnown, Closing
<1>5. FedKnown'
  BY <1>2, PipesFrame DEF Tracked, FedKnown
<1>6. UnfedKnown'
  BY <1>1, <1>2, <1>3 DEF Tracked, UnfedKnown, Fed, InPipe
<1>7. \A n \in Daemons : SlotsKnown(n)'
  BY DEF Tracked, SlotsKnown
<1>8. ResultsKnown' /\ RecordsKnown'
  BY <1>1, <1>2 DEF Tracked, ResultsKnown, RecordsKnown
<1> QED  BY <1>4, <1>5, <1>6, <1>7, <1>8 DEF Tracked

(* A daemon that takes the lock finds nothing fed. *)
LEMMA LockTracks ==
  ASSUME IInv, Tracked, NEW n \in Daemons, Lock(n)
  PROVE  Tracked'
<1>1. CASE UNCHANGED <<phase, daemon, loop>>
  BY <1>1, TrackedFrame DEF Lock, processes
<1>2. CASE phase = "down" /\ phase' = "failing" /\ daemon' = n /\ loop' = NewLoop
  <2>1. UNCHANGED <<pending, dispatched, completed, failed, result, Finished, engine, released, run>>
    BY DEF Lock, files, processes, Finished
  <2>2. dispatched = {} /\ \A m \in Daemons : engine[m].step \in {"none", "exited"}
    BY <1>2 DEF Tracked, ServiceKnown, Closing
  <2>3. \A j \in Jobs : \A m \in Daemons : ~Fed(j, m) /\ ~InPipe(j, m) /\ PipedOnce(j, m)
    BY <2>2 DEF Tracked, FedKnown, Fed
  <2>4. ServiceKnown'
    BY <1>2, <2>1, <2>2 DEF ServiceKnown, Closing, NewLoop
  <2>5. FedKnown'
    BY <2>1, <2>3, PipesFrame DEF FedKnown
  <2>6. UnfedKnown'
    BY <1>2, <2>1 DEF Tracked, UnfedKnown
  <2>7. \A m \in Daemons : SlotsKnown(m)'
    BY <2>1 DEF Tracked, SlotsKnown
  <2>8. ResultsKnown' /\ RecordsKnown'
    BY <1>2, <2>1 DEF Tracked, ResultsKnown, RecordsKnown, NewLoop
  <2> QED  BY <2>4, <2>5, <2>6, <2>7, <2>8 DEF Tracked
<1> QED  BY <1>1, <1>2 DEF Lock

(* A run that has not been spawned does nothing, one that has ended stays so. *)
LEMMA RunTracks ==
  ASSUME IInv, Tracked, NEW j \in Jobs, RunStep(j)
  PROVE  Tracked'
<1>1. run \in [Jobs -> {"none", "ok", "error"} \cup Alive]
  BY TypesOK DEF IInv, Types, ProcessType
<1>2. UNCHANGED <<pending, dispatched, completed, failed, result, Finished, engine, released, daemon, phase, loop>>
  BY DEF RunStep, files, service, Finished
<1>3. \A k \in Jobs : \/ run'[k] = run[k]
                      \/ run[k] \in Alive /\ run'[k] # "none"
  BY <1>1 DEF RunStep, Prepare, Train, Exit, Alive
<1>4. \A k \in Jobs : /\ run[k] = "none" <=> run'[k] = "none"
                      /\ run[k] \in {"ok", "error"} => run'[k] = run[k]
  BY <1>3 DEF Alive
<1>5. \A m \in Daemons : Inputs(m)' = Inputs(m)
  BY <1>2 DEF Inputs
<1>6. ServiceKnown'
  BY <1>2 DEF Tracked, ServiceKnown, Closing
<1>7. FedKnown'
  BY <1>2, <1>4, PipesFrame DEF Tracked, FedKnown
<1>8. UnfedKnown'
  BY <1>2, <1>4, <1>5 DEF Tracked, UnfedKnown, Fed, InPipe, IInv, JobFed
<1>9. \A m \in Daemons : SlotsKnown(m)'
  <2>1. ASSUME NEW m \in Daemons  PROVE SlotsKnown(m)'
    <3>1. SlotsKnown(m) /\ JobKnown(m) /\ engine[m].slots \in SUBSET Jobs
      BY EngineFields, TypesOK DEF IInv, Types, Tracked
    <3> QED  BY <1>2, <1>4, <3>1, SlotsFrame
  <2> QED  BY <2>1
<1>10. ResultsKnown'
  BY <1>2, <1>4 DEF Tracked, ResultsKnown
<1>11. RecordsKnown'
  <2>1. completed \subseteq Jobs /\ failed \subseteq Jobs
    BY TypesOK DEF IInv, Types, FilesType
  <2> QED  BY <1>2, <1>4, <2>1 DEF Tracked, RecordsKnown
<1> QED  BY <1>6, <1>7, <1>8, <1>9, <1>10, <1>11 DEF Tracked

(* A job that is submitted has no run yet, nor has it before. *)
LEMMA SubmitTracks ==
  ASSUME IInv, Tracked, Submit
  PROVE  Tracked'
<1>1. UNCHANGED <<dispatched, completed, failed, result, Finished, engine, released, run, daemon, phase, loop>>
  BY DEF Submit, service, processes, Finished
<1>2. \A m \in Daemons : Inputs(m)' = Inputs(m)
  BY <1>1 DEF Inputs
<1>3. ServiceKnown'
  BY <1>1 DEF Tracked, ServiceKnown, Closing
<1>4. FedKnown'
  BY <1>1, PipesFrame DEF Tracked, FedKnown
<1>5. UnfedKnown'
  BY <1>1, <1>2 DEF Tracked, UnfedKnown, Fed, InPipe
<1>6. \A m \in Daemons : SlotsKnown(m)'
  BY <1>1 DEF Tracked, SlotsKnown
<1>7. ResultsKnown' /\ RecordsKnown'
  BY <1>1 DEF Tracked, ResultsKnown, RecordsKnown
<1> QED  BY <1>3, <1>4, <1>5, <1>6, <1>7 DEF Tracked

(* With one queue depth, what is known of the jobs is inductive until        *)
(* something is killed.                                                      *)
LEMMA StepTracks ==
  ASSUME OneDepth, IInv, NoKills => Tracked, [Next]_vars, NoKills'
  PROVE  NoKills /\ Tracked /\ Tracked'
<1>1. /\ UNCHANGED <<daemonCrashes, engineCrashes>> /\ ~DaemonCrash /\ \A n \in Daemons : ~EngineCrash(n)
  <2>1. daemonCrashes \in Nat /\ engineCrashes \in Nat
    BY TypesOK DEF IInv, Types, UsersType
  <2>2. ~DaemonCrash /\ \A n \in Daemons : ~EngineCrash(n)
    BY <2>1 DEF DaemonCrash, EngineCrash, NoKills
  <2> QED  BY <2>2, Zenon DEF Next, EngineStep, RunStep, UserStep, Interrupt, Submit, crashes, vars
<1>2. NoKills /\ Tracked
  BY <1>1 DEF NoKills
<1>3. Tracked'
  <2>1. CASE UNCHANGED vars
    BY <1>2, <2>1, TrackedFrame DEF vars, service, processes
  <2>2. CASE DaemonStep
    BY <1>2, <2>2, DaemonTracks
  <2>3. CASE \E n \in Daemons : Lock(n)
    BY <1>2, <2>3, LockTracks
  <2>4. CASE \E n \in Daemons : EngineStep(n)
    BY <1>2, <2>4, EngineTracks
  <2>5. CASE \E j \in Jobs : RunStep(j)
    BY <1>2, <2>5, RunTracks
  <2>6. ASSUME NEW u \in Users, Begin(u) \/ UserStep(u)  PROVE Tracked'
    BY <1>2, <2>6, TrackedFrame DEF Begin, UserStep, service, processes
  <2>7. ASSUME NEW u \in Users, Interrupt(u)  PROVE Tracked'
    BY <1>2, <2>7, TrackedFrame DEF Interrupt, processes
  <2>8. CASE Submit
    BY <1>2, <2>8, SubmitTracks
  <2> QED  BY <1>1, <2>1, <2>2, <2>3, <2>4, <2>5, <2>6, <2>7, <2>8, Zenon DEF Next
<1> QED  BY <1>2, <1>3

(* In the first state no job has been fed.                                  *)
LEMMA InitTracks == Init => Tracked
<1> SUFFICES ASSUME Init PROVE Tracked
  OBVIOUS
<1>1. /\ dispatched = {} /\ completed = {} /\ failed = {} /\ phase = "down" /\ loop = NewLoop
      /\ run = [j \in Jobs |-> "none"] /\ result = [j \in Jobs |-> "none"]
      /\ engine = [n \in Daemons |-> NoEngine]
  BY DEF Init
<1>2. \A n \in Daemons : engine[n].input = <<>> /\ engine[n].job = 0 /\ engine[n].slots = {} /\ engine[n].step = "none"
  BY <1>1 DEF NoEngine
<1>3. \A j \in Jobs : \A n \in Daemons : ~Fed(j, n) /\ ~InPipe(j, n) /\ PipedOnce(j, n)
  BY <1>2, JobsAssumption DEF Fed, InPipe, Inputs, PipedOnce
<1>4. ServiceKnown
  BY <1>1, <1>2 DEF ServiceKnown, Closing, NewLoop
<1>5. FedKnown /\ UnfedKnown
  BY <1>1, <1>3 DEF FedKnown, UnfedKnown
<1>6. \A n \in Daemons : SlotsKnown(n)
  <2>1. \A j \in Jobs : Cardinality({}) < Depth[j]
    BY FS_EmptySet, DepthAssumption
  <2> QED  BY <1>2, <2>1 DEF SlotsKnown
<1>7. ResultsKnown /\ RecordsKnown
  BY <1>1 DEF ResultsKnown, RecordsKnown, NewLoop
<1> QED  BY <1>4, <1>5, <1>6, <1>7 DEF Tracked

(* With one queue depth, and until something is killed, a job is recorded as *)
(* completed only when its run has succeeded, and as failed only when it has *)
(* failed or was never started.                                              *)
THEOREM RecordsCorrect ==
  ASSUME \A j, k \in Jobs : Depth[j] = Depth[k]
  PROVE  Spec => []RecordsAreTrue
<1>1. OneDepth
  BY DEF OneDepth
<1>2. IInv /\ (NoKills => Tracked) /\ [Next]_vars => (NoKills => Tracked)'
  BY <1>1, StepTracks
<1>3. (NoKills => Tracked) => RecordsAreTrue
  BY DEF Tracked, RecordsKnown, RecordsAreTrue
<1> QED  BY <1>2, <1>3, InitTracks, DaemonInvariantCorrect, PTL DEF Spec

-----------------------------------------------------------------------------
(* A drain that reads an old status. *)

(* An old status shows a drained service only from the dispatch of one job   *)
(* to the next status.                                                       *)
LEMMA DrainSteps ==
  ASSUME IInv, Tracked, DrainKnown, [Next]_vars, ~DaemonCrash
  PROVE  DrainKnown'
<1>1. /\ loop \in Loops /\ dispatched \in SUBSET Jobs
      /\ status \in [running : BOOLEAN, paused : BOOLEAN, active : Nat, by : Nat]
  BY TypesOK DEF IInv, Types, ServiceType, StatusType, FilesType
<1>2. CASE UNCHANGED <<status, dispatched>> /\ (UNCHANGED phase \/ phase = "down") /\ (phase = "down" \/ loop'.job = loop.job)
  BY <1>2 DEF DrainKnown, Drained
<1>3. CASE DaemonStep
  <2>1. CASE WriteStatus \/ Close
    <3>1. dispatched' = dispatched /\ status'.active = Cardinality(dispatched)
      BY <2>1 DEF WriteStatus, Close, files
    <3>2. dispatched = {} \/ Cardinality(dispatched) # 0
      BY <1>1, JobSets, FS_EmptySet
    <3> QED  BY <3>1, <3>2 DEF DrainKnown, Drained
  <2>2. CASE NextJob
    <3>1. UNCHANGED status /\ phase = "next"
      BY <2>2 DEF NextJob, Step
    <3>2. \/ UNCHANGED dispatched /\ phase' = "release"
          \/ \E j \in pending : dispatched' = dispatched \cup {j} /\ phase' = "feed" /\ loop' = [loop EXCEPT !.job = j]
      BY <2>2 DEF NextJob, Step
    <3>3. Drained => dispatched = {}
      BY <3>1 DEF DrainKnown
    <3> QED  BY <1>1, <3>1, <3>2, <3>3 DEF DrainKnown, Drained, Loops
  <2>3. CASE ~WriteStatus /\ ~Close /\ ~NextJob
    <3>1. UNCHANGED status
      BY <1>3, <2>3, Zenon DEF DaemonStep, FailRecord, FailUnlink, FailDone, Boot, Scan,
     Discard, Record, UnlinkDispatched, UnlinkResult, CollectDone, Poll, Acknowledge, CheckStop, CheckActive,
         WaitEngine, SendReap, SkipReap, CheckDispatch, Feed, SendRelease, SkipRelease, ReadPaused, End, Unlink
    <3>2. dispatched' \subseteq dispatched
      BY <1>3, <2>3, DaemonFailsNothing DEF Records, Unlinks, Consumes
    <3>3. phase \in {"feed", "release", "status", "write"} => phase' \in {"release", "status", "write"}
      <4>1. ASSUME phase \in {"feed", "release", "status", "write"}
            PROVE  Feed \/ SendRelease \/ SkipRelease \/ ReadPaused
        BY <1>3, <2>3, <4>1 DEF DaemonStep, FailRecord, FailUnlink, FailDone, Boot, Scan,
     Discard, Record, UnlinkDispatched, UnlinkResult, CollectDone, Poll, Acknowledge, CheckStop, CheckActive,
           WaitEngine, SendReap, SkipReap, CheckDispatch, End, Unlink, Step
      <4>2. phase \in {"feed", "release"} => ~Exited(daemon)
        BY DEF Tracked, ServiceKnown, Closing, Exited
      <4> QED  BY <4>1, <4>2 DEF Feed, SendRelease, SkipRelease, ReadPaused, Step
    <3> QED  BY <3>1, <3>2, <3>3 DEF DrainKnown, Drained
  <2> QED  BY <2>1, <2>2, <2>3
<1>4. CASE \E n \in Daemons : Lock(n)
  <2>1. UNCHANGED <<status, dispatched>> /\ (UNCHANGED <<phase, loop>> \/ phase = "down")
    BY <1>4 DEF Lock, files
  <2> QED  BY <1>2, <2>1
<1>5. CASE \E u \in Users : Interrupt(u)
  <2>1. UNCHANGED <<status, phase, dispatched>> /\ loop'.job = loop.job
    BY <1>1, <1>5 DEF Interrupt, files, Loops
  <2> QED  BY <1>2, <2>1
<1>6. CASE UNCHANGED vars \/ Submit \/ \E n \in Daemons : EngineStep(n) \/ EngineCrash(n)
  <2>1. UNCHANGED <<status, phase, dispatched, loop>>
    BY <1>6 DEF vars, Submit, EngineStep, EngineCrash, files, service
  <2> QED  BY <1>2, <2>1
<1>7. CASE (\E j \in Jobs : RunStep(j)) \/ \E u \in Users : Begin(u) \/ UserStep(u)
  <2>1. UNCHANGED <<status, phase, dispatched, loop>>
    BY <1>7 DEF RunStep, Begin, UserStep, files, service
  <2> QED  BY <1>2, <2>1
<1> QED  BY <1>3, <1>4, <1>5, <1>6, <1>7, Zenon DEF Next

(* With one queue depth, and until something is killed, a drain that returns *)
(* with success although a run is on the GPU has read the status between the *)
(* dispatch of that run and the next status: whoever resumes and starts, the *)
(* old status is wrong for no longer than that (service.py, drain).          *)
THEOREM DrainCorrect ==
  ASSUME \A j, k \in Jobs : Depth[j] = Depth[k]
  PROVE  Spec => DrainStaleOnlyAtDispatch
<1>1. OneDepth
  BY DEF OneDepth
<1>2. Init => DrainKnown
  BY DEF Init, DrainKnown
<1>3. IInv /\ (NoKills => Tracked /\ DrainKnown) /\ [Next]_vars => (NoKills => Tracked /\ DrainKnown)'
  <2> SUFFICES ASSUME IInv, NoKills => Tracked /\ DrainKnown, [Next]_vars, NoKills'  PROVE Tracked' /\ DrainKnown'
    OBVIOUS
  <2>1. NoKills /\ Tracked /\ Tracked'
    BY <1>1, StepTracks
  <2>2. ~DaemonCrash
    BY <2>1 DEF DaemonCrash, NoKills
  <2> QED  BY <2>1, <2>2, DrainSteps
<1>4. ASSUME NoKills, NoKills => Tracked /\ DrainKnown, Drained, phase \notin {"release", "status", "write"}
      PROVE  \A j \in Jobs : run[j] \notin Alive
  <2>1. \A j \in Jobs : run[j] \in Alive => j \in dispatched
    BY <1>4 DEF Tracked, RecordsKnown, UnfedKnown, Finished, Alive
  <2>2. \A j \in dispatched : phase = "feed" /\ j = loop.job
    BY <1>4 DEF DrainKnown
  <2>3. phase = "feed" => run[loop.job] = "none"
    BY <1>4 DEF Tracked, UnfedKnown
  <2> QED  BY <2>1, <2>2, <2>3 DEF Alive
<1>5. (NoKills => Tracked /\ DrainKnown) =>
        (\A u \in Users : At(u, "drain_read") /\ At(u, "idle")' /\ Drained /\ NoKills =>
           (\A j \in Jobs : run[j] \notin Alive) \/ phase \in {"release", "status", "write"})
  BY <1>4
<1>6. (NoKills => Tracked /\ DrainKnown) =>
        [\A u \in Users : At(u, "drain_read") /\ At(u, "idle")' /\ Drained /\ NoKills =>
           (\A j \in Jobs : run[j] \notin Alive) \/ phase \in {"release", "status", "write"}]_vars
  BY <1>5
<1> QED  BY <1>2, <1>3, <1>6, InitTracks, DaemonInvariantCorrect, PTL DEF Spec, DrainStaleOnlyAtDispatch
================================================================================
