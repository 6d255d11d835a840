----------------------------- MODULE CachesProofs -----------------------------
(***************************************************************************)
(* The inductive invariant of Caches, one store at a time: the kinds of    *)
(* the files, the sequence cache, the authenticated semantic ids, and what *)
(* a run that rebuilds has repaired at each of its steps.                  *)
(***************************************************************************)
EXTENDS CachesInvariant, TLAPS

(* A file is in one of its three conditions, and reads as what was written. *)
LEMMA FileFacts ==
  /\ Absent # Torn /\ ~Readable(Absent) /\ ~Readable(Torn)
  /\ \A v : Whole(v) # Absent /\ Whole(v) # Torn /\ Readable(Whole(v)) /\ Read(Whole(v)) = v
  /\ \A v, w : Whole(v) = Whole(w) => v = w
<1>1. \A v : Whole(v).is = "whole" /\ Whole(v).of = v
  BY DEF Whole
<1>2. Absent.is = "absent" /\ Torn.is = "torn"
  BY DEF Absent, Torn
<1> QED  BY <1>1, <1>2 DEF Readable, Read

(* The files of a kind. *)
LEMMA FileType ==
  ASSUME NEW S
  PROVE  /\ Absent \in File(S) /\ Torn \in File(S) /\ \A v \in S : Whole(v) \in File(S)
         /\ \A x \in File(S) : x = Absent \/ x = Torn \/ (x = Whole(Read(x)) /\ Read(x) \in S)
<1>1. \A v \in S : Whole(v) \in File(S)
  BY DEF Whole, File
<1>2. \A x \in [is : {"whole"}, of : S] : x = Whole(Read(x)) /\ Read(x) \in S
  BY DEF Whole, Read
<1> QED  BY <1>1, <1>2 DEF File

(* What can be read is whole. *)
LEMMA ReadableIsWhole ==
  ASSUME NEW S, NEW x \in File(S), Readable(x)
  PROVE  x = Whole(Read(x)) /\ Read(x) \in S
BY FileFacts, FileType

-----------------------------------------------------------------------------
(* Kinds. *)

SourceSteps == Events \/ Remap \/ Embeddings \/ Main
ManagerSteps == Manager \/ Split \/ CachedDay \/ Result \/ State \/ Enrich \/ Metadata
SemanticSteps ==
  SemanticHit \/ LoadCodebooks \/ Quantize \/ SaveCodebooks \/ SaveBase \/ MarkFit \/ SaveCodes \/ MarkCodes
SequenceSteps == LoadSequences \/ Migrate \/ Unmark \/ Forget \/ Clear \/ Group \/ Describe \/ Mark
Raises == MainRaises \/ ManagerRaises \/ CounterRaises \/ SemanticRefuses \/ SemanticRaises \/ GroupRaises \/ LoadRaises

(* The steps, by the store they write. *)
LEMMA NextSteps ==
  Next <=> Start \/ Kill \/ SourceSteps \/ ManagerSteps \/ SemanticSteps \/ SequenceSteps \/ Load \/ Raises
BY DEF Next, SourceSteps, ManagerSteps, SemanticSteps, SequenceSteps, Raises

(* Only the codebooks of an RQ-VAE have a directory for each policy. *)
LEMMA HomeType == TypeOK => Home \in Policies /\ (Authenticated => Home = Shared)
BY PolicyAssumption DEF TypeOK, ControlType, Home, Authenticated

(* A write of one source file keeps the kinds of the files. *)
LEMMA SourceWrite ==
  ASSUME SourceType, NEW f \in {"events", "remap", "embeddings", "main"}, NEW x \in {Whole(TRUE), Torn},
         source' = [source EXCEPT ![f] = x]
  PROVE  SourceType'
<1>1. x \in File({TRUE})
  BY FileType
<1> QED  BY <1>1 DEF SourceType

(* A write of one file of the dataset manager keeps the kinds of its files. *)
LEMMA ManagerWrite ==
  ASSUME ManagerType, NEW d \in Days, NEW x \in File({TRUE}), NEW y \in File(SUBSET Days),
         \/ manager' = [manager EXCEPT !.day[d] = x]
         \/ manager' = [manager EXCEPT !.metadata = x]
         \/ manager' = [manager EXCEPT !.result[d] = y]
         \/ manager' = [manager EXCEPT !.state[d + 1] = y]
         \/ manager' = [manager EXCEPT !.enriched[d] = y]
  PROVE  ManagerType'
<1>1. d \in Days /\ d + 1 \in 1..DayCount + 1
  BY DayAssumption DEF Days
<1>2. CASE manager' = [manager EXCEPT !.day[d] = x]
  BY <1>1, <1>2 DEF ManagerType
<1>3. CASE manager' = [manager EXCEPT !.metadata = x]
  BY <1>1, <1>3 DEF ManagerType
<1>4. CASE manager' = [manager EXCEPT !.result[d] = y]
  BY <1>1, <1>4 DEF ManagerType
<1>5. CASE manager' = [manager EXCEPT !.state[d + 1] = y]
  BY <1>1, <1>5 DEF ManagerType
<1>6. CASE manager' = [manager EXCEPT !.enriched[d] = y]
  BY <1>1, <1>6 DEF ManagerType
<1> QED  BY <1>2, <1>3, <1>4, <1>5, <1>6

(* A write of one file of the semantic ids keeps the kinds of its files. *)
LEMMA SemanticWrite ==
  ASSUME SemanticType, NEW p \in Policies, NEW x \in File(Nat), NEW y \in File(FitHash),
         NEW z \in File(File(FitHash) \X File(Nat)),
         \/ semantic' = [semantic EXCEPT !.diagnostics = x]
         \/ semantic' = [semantic EXCEPT !.base = x]
         \/ semantic' = [semantic EXCEPT !.codebooks[p] = x]
         \/ semantic' = [semantic EXCEPT !.codes[p] = x]
         \/ semantic' = [semantic EXCEPT !.fitted = y]
         \/ semantic' = [semantic EXCEPT !.marker[p] = z]
  PROVE  SemanticType'
<1>1. CASE semantic' = [semantic EXCEPT !.diagnostics = x]
  BY <1>1 DEF SemanticType
<1>2. CASE semantic' = [semantic EXCEPT !.base = x]
  BY <1>2 DEF SemanticType
<1>3. CASE semantic' = [semantic EXCEPT !.codebooks[p] = x]
  BY <1>3 DEF SemanticType
<1>4. CASE semantic' = [semantic EXCEPT !.codes[p] = x]
  BY <1>4 DEF SemanticType
<1>5. CASE semantic' = [semantic EXCEPT !.fitted = y]
  BY <1>5 DEF SemanticType
<1>6. CASE semantic' = [semantic EXCEPT !.marker[p] = z]
  BY <1>6 DEF SemanticType
<1> QED  BY <1>1, <1>2, <1>3, <1>4, <1>5, <1>6

(* A write of one file of the sequence cache keeps the kinds of its files. *)
LEMMA SequencesWrite ==
  ASSUME SequencesType, NEW x \in File(Windows), NEW b \in BOOLEAN,
         \/ sequences' = [sequences EXCEPT !.metadata = x]
         \/ sequences' = [sequences EXCEPT !.buckets = x]
         \/ sequences' = [sequences EXCEPT !.complete = b]
  PROVE  SequencesType'
BY DEF SequencesType

(* A codebook or a fit that a run loads is whole. *)
LEMMA LoadedFit ==
  ASSUME TypeOK, Authenticated => FitKnown, LoadCodebooks
  PROVE  /\ fit' \in Nat /\ (~Authenticated => Codebooks = Whole(fit'))
         /\ Authenticated => Fitted /\ semantic.codebooks[Shared] = Whole(fit')
<1>1. Home \in Policies /\ SemanticType /\ (Authenticated => Home = Shared)
  BY HomeType DEF TypeOK
<1>2. Codebooks \in File(Nat) /\ Readable(Codebooks) /\ There(Codebooks) /\ Reusable
  BY <1>1 DEF LoadCodebooks, Loads, SemanticType, Codebooks
<1>3. Codebooks = Whole(Read(Codebooks)) /\ Read(Codebooks) \in Nat
  BY <1>2, ReadableIsWhole
<1>4. CASE ~Authenticated
  BY <1>3, <1>4 DEF LoadCodebooks
<1>5. CASE Authenticated
  <2>1. Fitted
    BY <1>2, <1>5 DEF Reusable, FitKnown
  <2> QED  BY <1>1, <1>3, <1>5, <2>1 DEF LoadCodebooks, Codebooks, Fitted
<1> QED  BY <1>4, <1>5

(* The day after the last one is the first again. *)
LEMMA NextDayType ==
  ASSUME day \in Days, NEW step, NEW last, NextDay(step, last)
  PROVE  day' \in Days /\ (day < DayCount => day' = day + 1 /\ pc' = step)
         /\ (~(day < DayCount) => day = DayCount /\ day' = 1 /\ pc' = last)
<1>1. CASE day < DayCount
  BY <1>1, DayAssumption DEF NextDay, Goto, Days
<1>2. CASE ~(day < DayCount)
  BY <1>2, DayAssumption DEF NextDay, Goto, Days
<1> QED  BY <1>1, <1>2

(* The steps of a store keep the kinds of its files. *)
LEMMA SourceTypeStep ==
  ASSUME TypeOK, SourceSteps
  PROVE  TypeOK'
<1>1. SourceType /\ ManagerType /\ SemanticType /\ SequencesType /\ ControlType
  BY DEF TypeOK
<1>2. SourceType'
  <2>1. source' = source => SourceType'
    BY <1>1 DEF SourceType
  <2>2. \A f \in {"events", "remap", "embeddings", "main"} : source' = [source EXCEPT ![f] = Whole(TRUE)] => SourceType'
    BY <1>1, SourceWrite
  <2> QED  BY <2>1, <2>2 DEF SourceSteps, Events, Remap, Embeddings, Main
<1>3. ControlType'
  BY <1>1 DEF SourceSteps, Events, Remap, Embeddings, Main, SourceUnchanged, RunUnchanged, counts, Goto, ControlType,
              Steps, OnlyAuthenticated, Authenticated, FromRemap, FromEmbeddings, FromMain, FromSemantic,
              FromManager, FromCounter, FromSequences
<1>4. ManagerType' /\ SemanticType' /\ SequencesType'
  BY <1>1 DEF SourceSteps, Events, Remap, Embeddings, Main, SourceUnchanged, ManagerType, SemanticType, SequencesType
<1> QED  BY <1>2, <1>3, <1>4 DEF TypeOK

(* The steps of the dataset manager; a result that was just written is whole. *)
LEMMA ManagerTypeStep ==
  ASSUME TypeOK, pc = "state" => Readable(manager.result[day]), ManagerSteps
  PROVE  TypeOK' /\ (pc' = "state" => Readable(manager.result[day])')
<1>1. SourceType /\ ManagerType /\ SemanticType /\ SequencesType /\ ControlType /\ day \in Days
  BY DEF TypeOK, ControlType
<1>2. StateOf(day) \in File(SUBSET Days) /\ manager.result[day] \in File(SUBSET Days)
  <2>1. Whole({}) \in File(SUBSET Days) /\ manager.state[day] \in File(SUBSET Days)
    BY <1>1, FileType, DayAssumption DEF ManagerType, Days
  <2> QED  BY <1>1, <2>1 DEF StateOf, ManagerType
<1>3. ManagerType' /\ (pc' = "state" => Readable(manager.result[day])')
  <2>1. CASE Manager \/ CachedDay
    BY <1>1, <2>1 DEF Manager, CachedDay, Goto, ManagerType
  <2>2. CASE Split
    <3>1. Whole(TRUE) \in File({TRUE})
      BY FileType
    <3>2. manager' = manager => ManagerType'
      BY <1>1 DEF ManagerType
    <3> QED  BY <1>1, <2>2, <3>1, <3>2, ManagerWrite, FileType DEF Split, NextDay, Goto
  <2>3. CASE Result
    BY <1>1, <1>2, <2>3, ManagerWrite, FileType DEF Result, ManagerType
  <2>4. CASE State
    <3>1. Read(manager.result[day]) \cup {day} \in SUBSET Days
      BY <1>1, <1>2, <2>4, ReadableIsWhole DEF State, At
    <3>2. Whole(Read(manager.result[day]) \cup {day}) \in File(SUBSET Days)
      BY <3>1, FileType
    <3> QED  BY <1>1, <2>4, <3>2, ManagerWrite, FileType DEF State, Goto
  <2>5. CASE Enrich
    <3>1. manager' = manager => ManagerType'
      BY <1>1 DEF ManagerType
    <3> QED  BY <1>1, <1>2, <2>5, <3>1, ManagerWrite, FileType DEF Enrich, NextDay, Goto
  <2>6. CASE Metadata
    <3>1. Whole(TRUE) \in File({TRUE})
      BY FileType
    <3> QED  BY <1>1, <2>6, <3>1, ManagerWrite, FileType DEF Metadata, Goto
  <2> QED  BY <2>1, <2>2, <2>3, <2>4, <2>5, <2>6 DEF ManagerSteps
<1>4. ControlType'
  <2>1. day' \in Days
    BY <1>1, NextDayType DEF ManagerSteps, Manager, Split, CachedDay, Result, State, Enrich, Metadata
  <2>2. pc' \in FromManager /\ pc' \notin OnlyAuthenticated
    BY <1>1
       DEF ManagerSteps, Manager, Split, CachedDay, Result, State, Enrich, Metadata, NextDay, Goto,
           OnlyAuthenticated, FromSemantic, FromManager, FromCounter, FromSequences
  <2>3. UNCHANGED <<kind, run, fit, fits, runs, kills>>
    BY DEF ManagerSteps, Manager, Split, CachedDay, Result, State, Enrich, Metadata, ManagerUnchanged, RunUnchanged,
           counts
  <2> QED
    BY <1>1, <2>1, <2>2, <2>3 DEF ControlType, Steps, FromRemap, FromEmbeddings, FromMain, FromSemantic, FromManager,
                                  FromCounter, FromSequences
<1>5. SourceType' /\ SemanticType' /\ SequencesType'
  BY <1>1 DEF ManagerSteps, Manager, Split, CachedDay, Result, State, Enrich, Metadata, ManagerUnchanged,
     SourceType, SemanticType, SequencesType
<1> QED  BY <1>3, <1>4, <1>5 DEF TypeOK

(* The steps of the semantic ids; the fit they load is a number. *)
LEMMA SemanticTypeStep ==
  ASSUME TypeOK, Authenticated => FitKnown, SemanticSteps
  PROVE  TypeOK'
<1>1. /\ SourceType /\ ManagerType /\ SemanticType /\ SequencesType /\ ControlType
      /\ Home \in Policies /\ run.policy \in Policies /\ fit \in Nat /\ fits \in Nat
  BY HomeType DEF TypeOK, ControlType
<1>2. /\ Whole(fit) \in File(Nat) /\ Whole(fits + 1) \in File(Nat) /\ Codebooks \in File(Nat) /\ Codes \in File(Nat)
      /\ semantic.base \in File(Nat) /\ semantic.diagnostics \in File(Nat) /\ semantic.fitted \in File(FitHash)
  BY <1>1, FileType DEF SemanticType, Codebooks, Codes
<1>3. /\ Whole(<<Codebooks, semantic.base, semantic.diagnostics>>) \in File(FitHash)
      /\ Whole(<<semantic.fitted, Codes>>) \in File(File(FitHash) \X File(Nat))
  <2>1. <<Codebooks, semantic.base, semantic.diagnostics>> \in FitHash
    BY <1>2 DEF FitHash
  <2>2. <<semantic.fitted, Codes>> \in File(FitHash) \X File(Nat)
    BY <1>2
  <2> QED  BY <2>1, <2>2, FileType
<1>4. SemanticType'
  <2>1. CASE SemanticHit \/ LoadCodebooks
    BY <1>1, <2>1 DEF SemanticHit, LoadCodebooks, SemanticType
  <2>2. CASE Quantize
    <3>1. semantic' = semantic => SemanticType'
      BY <1>1 DEF SemanticType
    <3> QED  BY <1>1, <1>2, <1>3, <2>2, <3>1, SemanticWrite DEF Quantize
  <2>3. CASE SaveCodebooks
    BY <1>1, <1>2, <1>3, <2>3, SemanticWrite DEF SaveCodebooks
  <2>4. CASE SaveBase
    BY <1>1, <1>2, <1>3, <2>4, SemanticWrite DEF SaveBase
  <2>5. CASE MarkFit
    BY <1>1, <1>2, <1>3, <2>5, SemanticWrite DEF MarkFit
  <2>6. CASE SaveCodes
    BY <1>1, <1>2, <1>3, <2>6, SemanticWrite DEF SaveCodes
  <2>7. CASE MarkCodes
    BY <1>1, <1>2, <1>3, <2>7, SemanticWrite DEF MarkCodes
  <2> QED  BY <2>1, <2>2, <2>3, <2>4, <2>5, <2>6, <2>7 DEF SemanticSteps
<1>5. fit' \in Nat /\ fits' \in Nat
  BY <1>1, LoadedFit
     DEF SemanticSteps, SemanticHit, LoadCodebooks, Quantize, SaveCodebooks, SaveBase, MarkFit, SaveCodes, MarkCodes
<1>6. ControlType'
  BY <1>1, <1>5
     DEF SemanticSteps, SemanticHit, LoadCodebooks, Quantize, SaveCodebooks, SaveBase, MarkFit, SaveCodes, MarkCodes,
         SemanticUnchanged, Goto, At, ControlType, Steps, OnlyAuthenticated, Authenticated, FromRemap,
         FromEmbeddings, FromMain, FromSemantic, FromManager, FromCounter, FromSequences
<1>7. SourceType' /\ ManagerType' /\ SequencesType'
  BY <1>1
     DEF SemanticSteps, SemanticHit, LoadCodebooks, Quantize, SaveCodebooks, SaveBase, MarkFit, SaveCodes, MarkCodes,
         SemanticUnchanged, SourceType, ManagerType, SequencesType
<1> QED  BY <1>4, <1>6, <1>7 DEF TypeOK

(* The steps of the sequence cache. *)
LEMMA SequencesTypeStep ==
  ASSUME TypeOK, SequenceSteps
  PROVE  TypeOK'
<1>1. SourceType /\ ManagerType /\ SemanticType /\ SequencesType /\ ControlType /\ run.window \in Windows
  BY DEF TypeOK, ControlType
<1>2. Whole(run.window) \in File(Windows) /\ Absent \in File(Windows)
  BY <1>1, FileType
<1>3. SequencesType'
  <2>1. CASE LoadSequences
    BY <1>1, <2>1 DEF LoadSequences, SequencesType
  <2>2. CASE Migrate \/ Unmark \/ Mark
    BY <1>1, <1>2, <2>2, SequencesWrite DEF Migrate, Unmark, Mark
  <2>3. CASE Forget \/ Clear \/ Group \/ Describe
    BY <1>1, <1>2, <2>3, SequencesWrite DEF Forget, Clear, Group, Describe
  <2> QED  BY <2>1, <2>2, <2>3 DEF SequenceSteps
<1>4. ControlType'
  BY <1>1
     DEF SequenceSteps, LoadSequences, Migrate, Unmark, Forget, Clear, Group, Describe, Mark, SequencesUnchanged,
         RunUnchanged, counts, Goto, ControlType, Authenticated, Steps, OnlyAuthenticated, FromRemap, FromEmbeddings,
         FromMain, FromSemantic, FromManager, FromCounter, FromSequences
<1>5. SourceType' /\ ManagerType' /\ SemanticType'
  BY <1>1
     DEF SequenceSteps, LoadSequences, Migrate, Unmark, Forget, Clear, Group, Describe, Mark, SequencesUnchanged,
         SourceType, ManagerType, SemanticType
<1> QED  BY <1>3, <1>4, <1>5 DEF TypeOK

(* A kill leaves a torn file at most. *)
LEMMA KillTypeStep ==
  ASSUME TypeOK, Kill
  PROVE  TypeOK'
<1>1. /\ SourceType /\ ManagerType /\ SemanticType /\ SequencesType /\ ControlType
      /\ Home \in Policies /\ run.policy \in Policies /\ day \in Days
  BY HomeType DEF TypeOK, ControlType
<1>2. /\ Torn \in File({TRUE}) /\ Torn \in File(SUBSET Days) /\ Torn \in File(Nat) /\ Torn \in File(Windows)
      /\ Torn \in File(FitHash) /\ Torn \in File(File(FitHash) \X File(Nat))
  BY FileType
<1>3. SourceType'
  BY <1>1, <1>2, SourceWrite DEF Kill, TornWrite, files, SourceType
<1>4. ManagerType'
  BY <1>1, <1>2, ManagerWrite DEF Kill, TornWrite, files, ManagerType
<1>5. SemanticType'
  BY <1>1, <1>2, SemanticWrite DEF Kill, TornWrite, files, SemanticType
<1>6. SequencesType'
  BY <1>1, <1>2, SequencesWrite DEF Kill, TornWrite, files, SequencesType
<1>7. ControlType'
  BY <1>1 DEF Kill, Goto, ControlType, Steps, OnlyAuthenticated
<1> QED  BY <1>3, <1>4, <1>5, <1>6, <1>7 DEF TypeOK

(* The other steps write no file. *)
LEMMA QuietTypeStep ==
  ASSUME TypeOK, Start \/ Load \/ Raises
  PROVE  TypeOK' /\ UNCHANGED files /\ pc' \in {"events", "done", "raised"} /\ kind' = kind
<1>1. SourceType /\ ManagerType /\ SemanticType /\ SequencesType /\ ControlType
  BY DEF TypeOK
<1>2. UNCHANGED files /\ pc' \in {"events", "done", "raised"} /\ kind' = kind
  BY DEF Start, Load, Raises, MainRaises, ManagerRaises, CounterRaises, SemanticRefuses, SemanticRaises, GroupRaises,
         LoadRaises, Raise, RunUnchanged, Goto
<1>3. SourceType' /\ ManagerType' /\ SemanticType' /\ SequencesType'
  BY <1>1, <1>2 DEF files, SourceType, ManagerType, SemanticType, SequencesType
<1>4. ControlType'
  <2>1. CASE Start
    <3>1. pc' = "events" /\ day' = 1 /\ fit' = 0 /\ runs' = runs + 1 /\ UNCHANGED <<kind, fits, kills>>
      BY <2>1 DEF Start, Goto
    <3>2. run' \in [invalidate : BOOLEAN, policy : Policies, window : Windows]
      BY <2>1 DEF Start
    <3>3. 1 \in Days
      BY DayAssumption DEF Days
    <3> QED  BY <1>1, <3>1, <3>2, <3>3 DEF ControlType, Steps, OnlyAuthenticated
  <2>2. CASE Load \/ Raises
    BY <1>1, <1>2, <2>2
       DEF Load, Raises, MainRaises, ManagerRaises, CounterRaises, SemanticRefuses, SemanticRaises, GroupRaises,
           LoadRaises, Raise, RunUnchanged, counts, ControlType, Steps, OnlyAuthenticated, FromRemap, FromEmbeddings,
           FromMain, FromSemantic, FromManager, FromCounter, FromSequences
  <2> QED  BY <2>1, <2>2
<1> QED  BY <1>2, <1>3, <1>4 DEF TypeOK

-----------------------------------------------------------------------------
(* The sequence cache. *)
LEMMA SequencesStep ==
  ASSUME TypeOK, SequencesKnown, Next
  PROVE  SequencesKnown'
<1>1. SequencesType
  BY DEF TypeOK
<1>2. ASSUME sequences' = sequences, pc' \notin {"forget", "clear", "group", "describe", "mark", "load", "done"}
      PROVE  SequencesKnown'
  BY <1>2 DEF SequencesKnown
<1>3. CASE SourceSteps \/ ManagerSteps \/ SemanticSteps \/ Start \/ Raises
  <2>1. CASE SourceSteps
    BY <1>2, <2>1 DEF SourceSteps, Events, Remap, Embeddings, Main, SourceUnchanged, Goto
  <2>2. CASE ManagerSteps
    BY <1>2, <2>2
       DEF ManagerSteps, Manager, Split, CachedDay, Result, State, Enrich, Metadata, NextDay, ManagerUnchanged, Goto
  <2>3. CASE SemanticSteps
    BY <1>2, <2>3
       DEF SemanticSteps, SemanticHit, LoadCodebooks, Quantize, SaveCodebooks, SaveBase, MarkFit, SaveCodes,
           MarkCodes, SemanticUnchanged, Goto
  <2>4. CASE Start \/ Raises
    BY <1>2, <2>4, QuietTypeStep DEF files, Start, Raises, MainRaises, ManagerRaises, CounterRaises, SemanticRefuses,
       SemanticRaises, GroupRaises, LoadRaises, Raise, Goto
  <2> QED  BY <1>3, <2>1, <2>2, <2>3, <2>4
<1>4. CASE Load
  BY <1>4 DEF Load, RunUnchanged, files, At, Goto, SequencesKnown
<1>5. CASE LoadSequences \/ Migrate
  BY <1>1, <1>5, FileFacts
     DEF LoadSequences, Migrate, Fresh, There, SequencesType, SequencesUnchanged, RunUnchanged, Goto, SequencesKnown
<1>6. CASE Unmark
  BY <1>1, <1>6 DEF Unmark, SequencesType, SequencesUnchanged, RunUnchanged, Goto, SequencesKnown
<1>7. CASE Forget
  BY <1>1, <1>7 DEF Forget, There, SequencesType, SequencesUnchanged, RunUnchanged, At, Goto, SequencesKnown
<1>8. CASE Clear \/ Group
  <2>1. \E x : sequences' = [sequences EXCEPT !.buckets = x] /\ (pc' = "describe" => x = Whole(run.window))
    BY <1>8 DEF Clear, Group, Goto
  <2>2. pc \in {"clear", "group"} /\ pc' \in {"group", "describe"} /\ run' = run
    BY <1>8 DEF Clear, Group, SequencesUnchanged, RunUnchanged, At, Goto
  <2>3. ~There(sequences.metadata) /\ ~sequences.complete
    BY <2>2, FileFacts DEF SequencesKnown, There
  <2> QED  BY <1>1, <2>1, <2>2, <2>3 DEF SequencesKnown, SequencesType, There
<1>9. CASE Describe \/ Mark
  BY <1>1, <1>9, FileFacts
     DEF Describe, Mark, SequencesType, SequencesUnchanged, RunUnchanged, At, Goto, SequencesKnown, There
<1>10. CASE Kill
  <2>1. CASE sequences' = sequences
    BY <1>2, <1>10, <2>1 DEF Kill, Goto
  <2>2. CASE At("clear") \/ At("group")
    <3>1. ~There(sequences.metadata) /\ ~sequences.complete
      BY <2>2, FileFacts DEF SequencesKnown, At, There
    <3>2. sequences' \in {sequences, [sequences EXCEPT !.buckets = Torn]} /\ pc' = "killed"
      BY <1>10 DEF Kill, TornWrite, files, Goto
    <3> QED  BY <1>1, <3>1, <3>2 DEF SequencesKnown, SequencesType
  <2> QED  BY <1>10, <2>1, <2>2 DEF Kill, TornWrite, files, At
<1> QED  BY <1>3, <1>4, <1>5, <1>6, <1>7, <1>8, <1>9, <1>10, NextSteps DEF SequenceSteps

-----------------------------------------------------------------------------
(* Authenticated semantic ids. *)

(* Nothing is there when a fit begins: what is there was refused or loaded. *)
LEMMA FreshFit ==
  ASSUME TypeOK, Authenticated, FitKnown, Quantize
  PROVE  /\ ~There(semantic.fitted) /\ ~There(semantic.base) /\ ~There(semantic.codebooks[Shared])
         /\ \A p \in Policies : ~There(semantic.codes[p])
<1>1. Home = Shared /\ ~Refused /\ ~Loads /\ kind # "rqvae"
  BY HomeType DEF Quantize, Authenticated
<1>2. ~FitThere
  <2>1. CASE run.invalidate
    BY <1>1, <2>1 DEF Refused
  <2>2. CASE ~Reusable
    BY <1>1, <2>2 DEF Refused
  <2>3. CASE ~run.invalidate /\ Reusable
    <3>1. There(semantic.fitted)
      BY <2>3 DEF Reusable
    <3>2. There(semantic.codebooks[Shared])
      BY <3>1, FileFacts DEF FitKnown, Fitted, There
    <3> QED  BY <1>1, <2>3, <3>2 DEF Loads, Codebooks
  <2> QED  BY <2>1, <2>2, <2>3
<1> QED  BY <1>1, <1>2, FileFacts DEF FitThere, Codebooks, FitKnown, Fitted, There

(* A step that writes none of these files. *)
LEMMA FitQuiet ==
  ASSUME FitKnown, UNCHANGED <<semantic, run>>,
         pc' \in FromManager => pc \in {"marker"} \cup FromManager,
         pc' \notin {"codebooks", "base", "fitted", "codes", "marker"}
  PROVE  FitKnown'
BY DEF FitKnown, Fitted, FromManager, FromCounter, FromSequences

(* Every step keeps the authenticated files those of one quantization. *)
LEMMA FitStep ==
  ASSUME TypeOK, Authenticated, FitKnown, Next
  PROVE  FitKnown'
<1>1. SemanticType /\ Home = Shared /\ Shared \in Policies /\ run.policy \in Policies
  BY HomeType DEF TypeOK, ControlType
<1>2. CASE SourceSteps
  BY <1>2, FitQuiet
     DEF SourceSteps, Events, Remap, Embeddings, Main, SourceUnchanged, RunUnchanged, Goto, FromManager, FromCounter,
         FromSequences
<1>3. CASE ManagerSteps
  <2>1. pc' \in FromManager \ {"manager"} /\ pc \in FromManager
    BY <1>3 DEF ManagerSteps, Manager, Split, CachedDay, Result, State, Enrich, Metadata, NextDay, At, Goto,
        FromManager, FromCounter, FromSequences
  <2>2. UNCHANGED <<semantic, run>>
    BY <1>3 DEF ManagerSteps, Manager, Split, CachedDay, Result, State, Enrich, Metadata, ManagerUnchanged,
                RunUnchanged
  <2> QED  BY <2>1, <2>2, FitQuiet DEF FromManager, FromCounter, FromSequences
<1>4. CASE SequenceSteps \/ Load
  BY <1>4, FitQuiet
     DEF SequenceSteps, LoadSequences, Migrate, Unmark, Forget, Clear, Group, Describe, Mark, SequencesUnchanged,
         Load, files, RunUnchanged, At, Goto, FromManager, FromCounter, FromSequences
<1>5. CASE Start \/ Raises
  <2>1. pc' \in {"events", "raised"} /\ semantic' = semantic
    BY <1>5 DEF Start, files, Raises, MainRaises, ManagerRaises, CounterRaises, SemanticRefuses, SemanticRaises,
                GroupRaises, LoadRaises, Raise, Goto
  <2> QED  BY <2>1 DEF FitKnown, Fitted, FromManager, FromCounter, FromSequences
<1>6. CASE Kill
  <2>1. pc' = "killed" /\ semantic' = semantic
    BY <1>6 DEF Kill, TornWrite, files, Goto
  <2> QED  BY <2>1 DEF FitKnown, Fitted, FromManager, FromCounter, FromSequences
<1>7. CASE SemanticHit
  <2>1. There(Codes) /\ pc' = "manager" /\ UNCHANGED <<semantic, run>>
    BY <1>7 DEF SemanticHit, Hit, Complete, Goto, SemanticUnchanged
  <2> QED  BY <2>1 DEF FitKnown, Fitted, Codes, FromManager, FromCounter, FromSequences
<1>8. CASE LoadCodebooks
  <2>1. Fitted /\ semantic.codebooks[Shared] = Whole(fit')
    BY <1>8, LoadedFit
  <2>2. pc' = "codes" /\ UNCHANGED <<semantic, run>>
    BY <1>8 DEF LoadCodebooks, Goto, SemanticUnchanged
  <2> QED  BY <2>1, <2>2 DEF FitKnown, Fitted, FromManager, FromCounter, FromSequences
<1>9. CASE Quantize
  <2>1. /\ ~There(semantic.fitted) /\ ~There(semantic.base) /\ ~There(semantic.codebooks[Shared])
        /\ \A p \in Policies : ~There(semantic.codes[p])
    BY <1>9, FreshFit
  <2>2. pc' = "codebooks" /\ semantic' = [semantic EXCEPT !.diagnostics = Whole(fit')]
    BY <1>9 DEF Quantize, Goto
  <2> QED  BY <1>1, <2>1, <2>2 DEF FitKnown, SemanticType, There, FromManager, FromCounter, FromSequences
<1>10. ASSUME pc \in {"codebooks", "base", "fitted"}
       PROVE  \A p \in Policies : ~There(semantic.codes[p])
  BY <1>10, FileFacts DEF FitKnown, Fitted, There
<1>11. CASE SaveCodebooks
  <2>1. pc = "codebooks" /\ pc' = "base" /\ fit' = fit /\ semantic' = [semantic EXCEPT !.codebooks[Shared] = Whole(fit)]
    BY <1>1, <1>11 DEF SaveCodebooks, At, Goto
  <2> QED  BY <1>1, <1>10, <2>1 DEF FitKnown, SemanticType, There, FromManager, FromCounter, FromSequences
<1>12. CASE SaveBase
  <2>1. pc = "base" /\ pc' = "fitted" /\ fit' = fit /\ semantic' = [semantic EXCEPT !.base = Whole(fit)]
    BY <1>12 DEF SaveBase, At, Goto
  <2> QED  BY <1>1, <1>10, <2>1 DEF FitKnown, SemanticType, There, FromManager, FromCounter, FromSequences
<1>13. CASE MarkFit
  <2> DEFINE h == Whole(<<semantic.codebooks[Shared], semantic.base, semantic.diagnostics>>)
  <2>1. pc = "fitted" /\ pc' = "codes" /\ fit' = fit /\ semantic' = [semantic EXCEPT !.fitted = h]
    BY <1>1, <1>13 DEF MarkFit, At, Goto, Codebooks
  <2>2. /\ semantic'.codebooks = semantic.codebooks /\ semantic'.base = semantic.base
        /\ semantic'.diagnostics = semantic.diagnostics /\ semantic'.fitted = h /\ semantic'.codes = semantic.codes
    BY <1>1, <2>1 DEF SemanticType
  <2>3. Fitted'
    BY <1>1, <2>1, <2>2, FileFacts DEF FitKnown, Fitted
  <2> QED  BY <1>10, <2>1, <2>2, <2>3 DEF FitKnown, FromManager, FromCounter, FromSequences
<1>14. CASE SaveCodes
  <2>1. /\ pc = "codes" /\ pc' = "marker" /\ fit' = fit /\ run' = run
        /\ semantic' = [semantic EXCEPT !.codes[run.policy] = Whole(fit)]
    BY <1>14 DEF SaveCodes, At, Goto, SemanticUnchanged
  <2>2. /\ semantic'.codebooks = semantic.codebooks /\ semantic'.base = semantic.base
        /\ semantic'.diagnostics = semantic.diagnostics /\ semantic'.fitted = semantic.fitted
        /\ \A p \in Policies : semantic'.codes[p] = IF p = run.policy THEN Whole(fit) ELSE semantic.codes[p]
    BY <1>1, <2>1 DEF SemanticType
  <2>3. Fitted' /\ Fitted /\ semantic.codebooks[Shared] = Whole(fit)
    BY <2>1, <2>2 DEF FitKnown, Fitted
  <2>4. There(semantic.codes[run.policy])'
    BY <1>1, <2>1, <2>2, FileFacts DEF There
  <2> QED  BY <1>1, <2>1, <2>2, <2>3, <2>4 DEF FitKnown, FromManager, FromCounter, FromSequences
<1>15. CASE MarkCodes
  <2>1. pc = "marker" /\ pc' = "manager" /\ run' = run
    BY <1>15 DEF MarkCodes, At, Goto, SemanticUnchanged
  <2>2. /\ semantic'.codebooks = semantic.codebooks /\ semantic'.base = semantic.base
        /\ semantic'.diagnostics = semantic.diagnostics /\ semantic'.fitted = semantic.fitted
        /\ semantic'.codes = semantic.codes
    BY <1>1, <1>15 DEF MarkCodes, SemanticType
  <2> QED  BY <2>1, <2>2 DEF FitKnown, Fitted, FromManager, FromCounter, FromSequences
<1> QED
  BY <1>2, <1>3, <1>4, <1>5, <1>6, <1>7, <1>8, <1>9, <1>11, <1>12, <1>13, <1>14, <1>15, NextSteps DEF SemanticSteps

-----------------------------------------------------------------------------
(* A run that rebuilds. *)

(* No counter writes the state the first day starts from. *)
LEMMA StateOne ==
  ASSUME TypeOK, manager.state[1] = Absent, Next
  PROVE  manager'.state[1] = Absent
<1>1. ManagerType /\ day \in Nat /\ day + 1 # 1
  BY DEF TypeOK, ControlType, Days
<1>a. ASSUME NEW x, manager' = [manager EXCEPT !.state[day + 1] = x]  PROVE manager'.state[1] = Absent
  BY <1>1, <1>a DEF ManagerType
<1>b. ASSUME NEW x, NEW d,
             \/ manager' = [manager EXCEPT !.day[d] = x] \/ manager' = [manager EXCEPT !.result[d] = x]
             \/ manager' = [manager EXCEPT !.enriched[d] = x] \/ manager' = [manager EXCEPT !.metadata = x]
      PROVE  manager'.state[1] = Absent
  BY <1>1, <1>b DEF ManagerType
<1>2. CASE ManagerSteps
  BY <1>a, <1>b, <1>2 DEF ManagerSteps, Manager, Split, CachedDay, Result, State, Enrich, Metadata
<1>3. CASE Kill
  BY <1>a, <1>b, <1>3 DEF Kill, TornWrite, files
<1>4. CASE Start \/ SourceSteps \/ SemanticSteps \/ SequenceSteps \/ Load \/ Raises
  <2>1. manager' = manager
    BY <1>4
       DEF Start, SourceSteps, Events, Remap, Embeddings, Main, SourceUnchanged,
           SemanticSteps, SemanticHit, LoadCodebooks, Quantize, SaveCodebooks, SaveBase, MarkFit, SaveCodes, MarkCodes,
           SemanticUnchanged, SequenceSteps, LoadSequences, Migrate, Unmark, Forget, Clear, Group, Describe, Mark,
           SequencesUnchanged, Load, Raises, MainRaises, ManagerRaises, CounterRaises, SemanticRefuses, SemanticRaises,
           GroupRaises, LoadRaises, Raise, files
  <2> QED  BY <2>1
<1> QED  BY <1>2, <1>3, <1>4, NextSteps

(* It finds every file it reads whole. *)
LEMMA NothingRaises ==
  ASSUME TypeOK, SequencesKnown, Rebuilding, RepairKnown
  PROVE  ~Raises
<1>1. run.invalidate /\ ~Authenticated /\ \A file : Rebuilds(file)
  BY DEF Rebuilding, Rebuilds
<1>2. ASSUME MainRaises  PROVE FALSE
  BY <1>2 DEF MainRaises, At, RepairKnown, FromEmbeddings, FromMain, FromSemantic, FromManager, FromCounter,
              FromSequences
<1>3. ASSUME ManagerRaises  PROVE FALSE
  BY <1>1, <1>3 DEF ManagerRaises, At, RepairKnown, FromSemantic, FromManager, FromCounter, FromSequences
<1>4. ASSUME CounterRaises  PROVE FALSE
  <2>1. Readable(manager.day[day]) /\ Readable(StateOf(day))
    BY <1>4, FileFacts DEF CounterRaises, At, RepairKnown, CountersKnown, Before, TypeOK, ControlType, FromCounter,
                           FromManager, FromSequences
  <2> QED  BY <1>1, <1>4, <2>1 DEF CounterRaises
<1>5. ASSUME SemanticRefuses \/ SemanticRaises  PROVE FALSE
  BY <1>1, <1>5
     DEF SemanticRefuses, SemanticRaises, Refused, Loads, At, RepairKnown, FromMain, FromSemantic, FromManager,
         FromCounter, FromSequences
<1>6. ASSUME GroupRaises  PROVE FALSE
  BY <1>6, FileFacts
     DEF GroupRaises, At, RepairKnown, CountersKnown, CountersComplete, FromSemantic, FromManager, FromCounter,
         FromSequences
<1>7. ASSUME LoadRaises  PROVE FALSE
  BY <1>7, FileFacts DEF LoadRaises, Loadable, At, RepairKnown, SequencesKnown, FromManager, FromCounter,
                         FromSequences
<1> QED  BY <1>2, <1>3, <1>4, <1>5, <1>6, <1>7 DEF Raises

(* The source files. *)
LEMMA SourceRepair ==
  ASSUME TypeOK, Rebuilding, RepairKnown, SourceSteps
  PROVE  RepairKnown'
<1>1. SourceType /\ (\A file : Rebuilds(file)) /\ day' = 1
  BY DEF TypeOK, Rebuilding, Rebuilds, SourceSteps, Events, Remap, Embeddings, Main, At, SourceUnchanged,
         RepairKnown, CountersKnown
<1>2. CASE Events
  <2>1. pc' = "remap" /\ source' = [source EXCEPT !.events = Whole(TRUE)]
    BY <1>1, <1>2 DEF Events, Goto
  <2>2. Readable(source.events)'
    BY <1>1, <2>1, FileFacts DEF SourceType
  <2> QED
    BY <1>1, <2>1, <2>2 DEF RepairKnown, CountersKnown, FromEmbeddings, FromMain, FromSemantic, FromManager,
                            FromCounter, FromSequences
<1>3. CASE Remap
  <2>1. pc = "remap" /\ pc' = "embeddings" /\ source' = [source EXCEPT !.remap = Whole(TRUE)]
    BY <1>1, <1>3 DEF Remap, At, Goto
  <2>2. Readable(source.events)' /\ Readable(source.remap)'
    BY <1>1, <2>1, FileFacts DEF SourceType, RepairKnown, FromRemap, FromEmbeddings, FromMain, FromSemantic,
                                 FromManager, FromCounter, FromSequences
  <2> QED
    BY <1>1, <2>1, <2>2 DEF RepairKnown, CountersKnown, FromMain, FromSemantic, FromManager, FromCounter,
                            FromSequences
<1>4. CASE Embeddings
  <2>1. pc = "embeddings" /\ pc' = "main" /\ source' = [source EXCEPT !.embeddings = Whole(TRUE)]
    BY <1>1, <1>4 DEF Embeddings, At, Goto
  <2>2. Readable(source.events)' /\ Readable(source.remap)' /\ Readable(source.embeddings)'
    BY <1>1, <2>1, FileFacts DEF SourceType, RepairKnown, FromRemap, FromEmbeddings, FromMain, FromSemantic,
                                 FromManager, FromCounter, FromSequences
  <2> QED
    BY <1>1, <2>1, <2>2 DEF RepairKnown, CountersKnown, FromSemantic, FromManager, FromCounter, FromSequences
<1>5. CASE Main
  <2>1. pc = "main" /\ pc' = "semantic" /\ source' = [source EXCEPT !.main = Whole(TRUE)]
    BY <1>1, <1>5 DEF Main, At, Goto
  <2>2. Readable(source.events)' /\ Readable(source.remap)' /\ Readable(source.embeddings)' /\ Readable(source.main)'
    BY <1>1, <2>1, FileFacts DEF SourceType, RepairKnown, FromRemap, FromEmbeddings, FromMain, FromSemantic,
                                 FromManager, FromCounter, FromSequences
  <2> QED
    BY <1>1, <2>1, <2>2 DEF RepairKnown, CountersKnown, FromSemantic, FromManager, FromCounter, FromSequences
<1> QED  BY <1>2, <1>3, <1>4, <1>5 DEF SourceSteps

(* The days, their counters and the enriched days. *)
LEMMA ManagerRepair ==
  ASSUME TypeOK, manager.state[1] = Absent, Rebuilding, RepairKnown, ManagerSteps
  PROVE  RepairKnown'
<1>1. /\ ManagerType /\ \A file : Rebuilds(file)
      /\ day \in Days /\ DayCount \in Nat /\ day \in 1..DayCount /\ DayCount >= 1 /\ Days = 1..DayCount
  BY DayAssumption DEF TypeOK, ControlType, Rebuilding, Rebuilds, Days
<1>2. source' = source /\ CountersKnown
  BY DEF ManagerSteps, Manager, Split, CachedDay, Result, State, Enrich, Metadata, ManagerUnchanged, RepairKnown
<1>3. /\ pc \in {"manager", "split", "counter", "state", "enrich", "metadata"}
      /\ pc' \in {"split", "sequences", "counter", "state", "enrich", "metadata"}
      /\ Codes' = Codes /\ Codebooks' = Codebooks
  BY <1>1
     DEF ManagerSteps, Manager, Split, CachedDay, Result, State, Enrich, Metadata, NextDay, At, Goto,
         ManagerUnchanged, RunUnchanged, Codes, Codebooks, Home
<1>4. ASSUME CountersKnown'  PROVE RepairKnown'
  BY <1>2, <1>3, <1>4 DEF RepairKnown, FromRemap, FromEmbeddings, FromMain, FromSemantic, FromManager, FromCounter,
                          FromSequences
<1> SUFFICES CountersKnown'
  BY <1>4
<1>5. CASE Manager
  <2>1. pc' = "split" /\ day' = 1
    BY <1>1, <1>2, <1>5 DEF Manager, At, Goto, CountersKnown
  <2> QED  BY <2>1 DEF CountersKnown, FromSemantic, FromManager, FromCounter, FromSequences
<1>6. CASE Split
  <2>1. /\ pc = "split" /\ NextDay("split", "counter") /\ manager' = [manager EXCEPT !.day[day] = Whole(TRUE)]
    BY <1>1, <1>6 DEF Split, At
  <2>2. /\ \A d \in 1..day : Readable(manager'.day[d])
        /\ manager'.state = manager.state
    <3>1. /\ manager'.state = manager.state
          /\ \A d \in Days : manager'.day[d] = IF d = day THEN Whole(TRUE) ELSE manager.day[d]
      BY <1>1, <2>1 DEF ManagerType
    <3>2. \A d \in 1..day - 1 : Readable(manager.day[d])
      BY <1>2, <2>1 DEF CountersKnown
    <3>3. Readable(Whole(TRUE))
      BY FileFacts
    <3>4. ASSUME NEW d \in 1..day  PROVE Readable(manager'.day[d])
      <4>1. d \in Days /\ (d # day => d \in 1..day - 1)
        BY <1>1
      <4>2. CASE d = day
        BY <3>1, <3>3, <4>1, <4>2
      <4>3. CASE d # day
        BY <3>1, <3>2, <4>1, <4>3
      <4> QED  BY <4>2, <4>3
    <3> QED  BY <3>1, <3>4
  <2>3. CASE day < DayCount
    <3>1. pc' = "split" /\ day' = day + 1
      BY <1>1, <2>1, <2>3, NextDayType
    <3> QED  BY <1>1, <2>2, <3>1 DEF CountersKnown, FromSemantic, FromManager, FromCounter, FromSequences
  <2>4. CASE ~(day < DayCount)
    <3>1. pc' = "counter" /\ day' = 1 /\ day = DayCount
      BY <1>1, <2>1, <2>4, NextDayType
    <3>2. StateOf(day)' = Before(1)
      BY <2>2, <3>1 DEF StateOf, There, Before
    <3> QED  BY <1>1, <2>2, <3>1, <3>2 DEF CountersKnown, Before, FromSemantic, FromManager, FromCounter,
                                           FromSequences
  <2> QED  BY <2>3, <2>4
<1>7. CASE CachedDay
  BY <1>1, <1>7 DEF CachedDay
<1>8. CASE Result
  <2>1. pc = "counter" /\ pc' = "state" /\ day' = day /\ manager' = [manager EXCEPT !.result[day] = StateOf(day)]
    BY <1>8 DEF Result, At, Goto
  <2>2. /\ manager'.day = manager.day /\ manager'.state = manager.state /\ manager'.enriched = manager.enriched
        /\ manager'.result[day] = StateOf(day)
    BY <1>1, <2>1 DEF ManagerType
  <2>3. /\ \A d \in Days : Readable(manager.day[d])
        /\ StateOf(day) = Before(day)
        /\ \A d \in 1..day - 1 : manager.enriched[d] = Before(d)
    BY <1>2, <2>1 DEF CountersKnown, FromCounter, FromManager, FromSequences
  <2>4. StateOf(day)' = StateOf(day) /\ Before(day)' = Before(day)
    BY <2>1, <2>2 DEF StateOf, Before
  <2> QED  BY <2>1, <2>2, <2>3, <2>4 DEF CountersKnown, Before, FromSemantic, FromManager, FromCounter, FromSequences
<1>9. CASE State
  <2> DEFINE x == Whole(Read(manager.result[day]) \cup {day})
  <2>1. pc = "state" /\ pc' = "enrich" /\ day' = day /\ manager' = [manager EXCEPT !.state[day + 1] = x]
    BY <1>9 DEF State, At, Goto
  <2>2. /\ \A d \in Days : Readable(manager.day[d])
        /\ manager.result[day] = Before(day)
        /\ \A d \in 1..day - 1 : manager.enriched[d] = Before(d)
    BY <1>2, <2>1 DEF CountersKnown, FromCounter, FromManager, FromSequences
  <2>3. x = Before(day + 1)
    <3>1. Read(manager.result[day]) = 1..day - 1
      BY <2>2, FileFacts DEF Before
    <3>2. (1..day - 1) \cup {day} = 1..(day + 1) - 1
      BY <1>1
    <3> QED  BY <3>1, <3>2 DEF Before
  <2> HIDE DEF x
  <2>4. /\ manager'.day = manager.day /\ manager'.result = manager.result /\ manager'.enriched = manager.enriched
        /\ manager'.state[day + 1] = x
    BY <1>1, <2>1 DEF ManagerType
  <2> QED  BY <2>1, <2>2, <2>3, <2>4 DEF CountersKnown, Before, FromSemantic, FromManager, FromCounter, FromSequences
<1>10. CASE Enrich
  <2>1. /\ pc = "enrich" /\ NextDay("counter", "metadata")
        /\ manager' = [manager EXCEPT !.enriched[day] = manager.result[day]]
    BY <1>1, <1>10 DEF Enrich, At
  <2>2. /\ \A d \in Days : Readable(manager.day[d])
        /\ manager.result[day] = Before(day) /\ manager.state[day + 1] = Before(day + 1)
        /\ \A d \in 1..day - 1 : manager.enriched[d] = Before(d)
    BY <1>2, <2>1 DEF CountersKnown, FromCounter, FromManager, FromSequences
  <2>3. /\ manager'.day = manager.day /\ manager'.state = manager.state
        /\ \A d \in Days : manager'.enriched[d] = IF d = day THEN manager.result[day] ELSE manager.enriched[d]
    BY <1>1, <2>1 DEF ManagerType
  <2>4. \A d \in 1..day : manager'.enriched[d] = Before(d)
    BY <1>1, <2>2, <2>3
  <2>5. CASE day < DayCount
    <3>1. pc' = "counter" /\ day' = day + 1
      BY <1>1, <2>1, <2>5, NextDayType
    <3>2. manager'.state[day + 1] = Before(day + 1) /\ There(Before(day + 1))
      BY <2>2, <2>3, FileFacts DEF Before, There
    <3>3. StateOf(day)' = Before(day + 1)
      BY <3>1, <3>2 DEF StateOf, There
    <3> QED  BY <1>1, <2>2, <2>3, <2>4, <3>1, <3>3
         DEF CountersKnown, Before, FromSemantic, FromManager, FromCounter, FromSequences
  <2>6. CASE ~(day < DayCount)
    <3>1. pc' = "metadata" /\ day = DayCount
      BY <1>1, <2>1, <2>6, NextDayType
    <3>2. CountersComplete'
      BY <1>1, <2>4, <3>1 DEF CountersComplete, Before
    <3> QED  BY <2>2, <2>3, <3>1, <3>2 DEF CountersKnown, FromSemantic, FromManager, FromCounter, FromSequences
  <2> QED  BY <2>5, <2>6
<1>11. CASE Metadata
  <2>1. pc = "metadata" /\ pc' = "sequences" /\ manager' = [manager EXCEPT !.metadata = Whole(TRUE)]
    BY <1>11 DEF Metadata, At, Goto
  <2>2. manager'.day = manager.day /\ manager'.enriched = manager.enriched
    BY <1>1, <2>1 DEF ManagerType
  <2> QED
    BY <1>2, <2>1, <2>2 DEF CountersKnown, CountersComplete, FromSemantic, FromManager, FromCounter, FromSequences
<1> QED  BY <1>5, <1>6, <1>7, <1>8, <1>9, <1>10, <1>11 DEF ManagerSteps

(* The semantic ids: every file of the fit is written again. *)
LEMMA SemanticRepair ==
  ASSUME TypeOK, Rebuilding, RepairKnown, SemanticSteps
  PROVE  RepairKnown'
<1>1. /\ SemanticType /\ Home \in Policies /\ run.policy \in Policies
      /\ run.invalidate /\ ~Authenticated /\ pc \notin OnlyAuthenticated
  BY HomeType DEF TypeOK, ControlType, Rebuilding
<1>2. UNCHANGED <<source, manager, kind, run, day>> /\ Home' = Home
  BY DEF SemanticSteps, SemanticHit, LoadCodebooks, Quantize, SaveCodebooks, SaveBase, MarkFit, SaveCodes, MarkCodes,
         SemanticUnchanged, Home
<1>3. CASE Quantize
  <2>1. pc = "semantic" /\ pc' = "codebooks"
    BY <1>3 DEF Quantize, At, Goto
  <2> QED
    BY <1>2, <2>1 DEF RepairKnown, CountersKnown, CountersComplete, FromRemap, FromEmbeddings, FromMain,
                      FromSemantic, FromManager, FromCounter, FromSequences
<1>4. CASE SaveCodebooks
  <2>1. /\ pc = "codebooks" /\ pc' = "codes" /\ fit' = fit
        /\ semantic' = [semantic EXCEPT !.codebooks[Home] = Whole(fit)]
    BY <1>1, <1>4 DEF SaveCodebooks, At, Goto
  <2>2. Codebooks' = Whole(fit)
    BY <1>1, <1>2, <2>1 DEF Codebooks, SemanticType
  <2> QED
    BY <1>2, <2>1, <2>2 DEF RepairKnown, CountersKnown, CountersComplete, FromRemap, FromEmbeddings, FromMain,
                            FromSemantic, FromManager, FromCounter, FromSequences
<1>5. CASE SaveCodes
  <2>1. /\ pc = "codes" /\ pc' = "manager" /\ semantic' = [semantic EXCEPT !.codes[run.policy] = Whole(fit)]
    BY <1>1, <1>5 DEF SaveCodes, At, Goto
  <2>2. Codebooks = Whole(fit)
    BY <2>1 DEF RepairKnown
  <2>3. Codebooks' = Whole(fit) /\ Codes' = Whole(fit) /\ Readable(Codes')
    BY <1>1, <1>2, <2>1, <2>2, FileFacts DEF Codebooks, Codes, SemanticType
  <2> QED
    BY <1>2, <2>1, <2>3 DEF RepairKnown, CountersKnown, CountersComplete, FromRemap, FromEmbeddings, FromMain,
                            FromSemantic, FromManager, FromCounter, FromSequences
<1>6. CASE SemanticHit \/ LoadCodebooks \/ SaveBase \/ MarkFit \/ MarkCodes
  BY <1>1, <1>6 DEF SemanticHit, Hit, LoadCodebooks, Loads, SaveBase, MarkFit, MarkCodes, At, OnlyAuthenticated
<1> QED  BY <1>3, <1>4, <1>5, <1>6 DEF SemanticSteps

(* A run that rebuilds has repaired, at each step, all it has gone through. *)
LEMMA RepairStep ==
  ASSUME TypeOK, SequencesKnown, manager.state[1] = Absent, Rebuilding => RepairKnown, Next, Rebuilding'
  PROVE  RepairKnown'
<1>1. CASE Start \/ Kill
  <2>1. pc' \in {"events", "killed"} /\ (pc' = "events" => day' = 1)
    BY <1>1 DEF Start, Kill, Goto
  <2> QED
    BY <2>1 DEF RepairKnown, CountersKnown, FromRemap, FromEmbeddings, FromMain, FromSemantic, FromManager,
                FromCounter, FromSequences
<1>2. ASSUME ~(Start \/ Kill)  PROVE Rebuilding
  <2>1. kind' = kind /\ run' = run
    BY <1>2, NextSteps
       DEF SourceSteps, Events, Remap, Embeddings, Main, SourceUnchanged,
           ManagerSteps, Manager, Split, CachedDay, Result, State, Enrich, Metadata, ManagerUnchanged,
           SemanticSteps, SemanticHit, LoadCodebooks, Quantize, SaveCodebooks, SaveBase, MarkFit, SaveCodes, MarkCodes,
           SemanticUnchanged, SequenceSteps, LoadSequences, Migrate, Unmark, Forget, Clear, Group, Describe, Mark,
           SequencesUnchanged, Load, Raises, MainRaises, ManagerRaises, CounterRaises, SemanticRefuses, SemanticRaises,
           GroupRaises, LoadRaises, Raise, RunUnchanged
  <2> QED  BY <2>1 DEF Rebuilding, Authenticated
<1>3. CASE ~(Start \/ Kill) /\ (SequenceSteps \/ Load)
  <2>1. pc \in FromSequences /\ pc' \in FromSequences /\ UNCHANGED <<source, manager, semantic, kind, run>>
    BY <1>3 DEF SequenceSteps, LoadSequences, Migrate, Unmark, Forget, Clear, Group, Describe, Mark,
                SequencesUnchanged, Load, files, RunUnchanged, At, Goto, FromManager, FromCounter, FromSequences
  <2>2. pc \notin {"raised", "events", "remap", "embeddings", "main", "manager", "split", "counter", "state", "enrich", "codes"}
        /\ pc' \notin {"raised", "events", "remap", "embeddings", "main", "manager", "split", "counter", "state", "enrich", "codes"}
    BY <2>1 DEF FromManager, FromCounter, FromSequences
  <2>3. RepairKnown
    BY <1>2, <1>3
  <2>4. Codes' = Codes /\ Codebooks' = Codebooks
    BY <2>1 DEF Codes, Codebooks, Home
  <2> QED
    BY <2>1, <2>2, <2>3, <2>4 DEF RepairKnown, CountersKnown, CountersComplete, FromRemap, FromEmbeddings, FromMain,
                                  FromSemantic, FromManager, FromCounter, FromSequences
<1> QED
  BY <1>1, <1>2, <1>3, NothingRaises, SourceRepair, ManagerRepair, SemanticRepair, NextSteps

-----------------------------------------------------------------------------
(* The dataset of the first run: no file, or a cache without its marker. *)
LEMMA InvInit == Init => IInv
<1> SUFFICES ASSUME Init PROVE IInv
  OBVIOUS
<1>1. /\ Absent \in File({TRUE}) /\ Absent \in File(SUBSET Days) /\ Absent \in File(Nat) /\ Absent \in File(Windows)
      /\ Absent \in File(FitHash) /\ Absent \in File(File(FitHash) \X File(Nat))
      /\ \A w \in Windows : Whole(w) \in File(Windows)
  BY FileType
<1>2. SourceType
  BY <1>1 DEF Init, SourceType
<1>3. ManagerType /\ manager.state[1] = Absent
  <2>1. manager = [day |-> [d \in Days |-> Absent], result |-> [d \in Days |-> Absent],
                   state |-> [d \in 1..DayCount + 1 |-> Absent],
                   enriched |-> [d \in Days |-> Absent], metadata |-> Absent]
    BY DEF Init
  <2>2. 1 \in 1..DayCount + 1
    BY DayAssumption
  <2>3. /\ [d \in Days |-> Absent] \in [Days -> File({TRUE})]
        /\ [d \in Days |-> Absent] \in [Days -> File(SUBSET Days)]
        /\ [d \in 1..DayCount + 1 |-> Absent] \in [1..DayCount + 1 -> File(SUBSET Days)]
    BY <1>1
  <2>4. ManagerType
    BY <1>1, <2>1, <2>3 DEF ManagerType
  <2> QED  BY <2>1, <2>2, <2>4
<1>4. SemanticType
  BY <1>1 DEF Init, SemanticType
<1>5. SequencesType /\ SequencesKnown
  <2>1. PICK w \in Windows : sequences \in {[metadata |-> Absent, complete |-> FALSE, buckets |-> Absent],
                                          [metadata |-> Whole(w), complete |-> FALSE, buckets |-> Whole(w)]}
    BY DEF Init
  <2>2. pc = "idle"
    BY DEF Init
  <2>3. CASE sequences = [metadata |-> Absent, complete |-> FALSE, buckets |-> Absent]
    BY <1>1, <2>2, <2>3 DEF SequencesType, SequencesKnown, There
  <2>4. CASE sequences = [metadata |-> Whole(w), complete |-> FALSE, buckets |-> Whole(w)]
    <3>1. Readable(Whole(w))
      BY FileFacts
    <3>2. Whole(w) \in File(Windows)
      BY <1>1
    <3> QED  BY <1>1, <2>2, <2>4, <3>1, <3>2 DEF SequencesType, SequencesKnown
  <2> QED  BY <2>1, <2>3, <2>4
<1>6. ControlType
  <2>1. (CHOOSE w \in Windows : TRUE) \in Windows
    BY WindowAssumption
  <2>2. 1 \in Days
    BY DayAssumption DEF Days
  <2> QED  BY <2>1, <2>2, PolicyAssumption DEF Init, ControlType, Steps, OnlyAuthenticated
<1>7. FitKnown
  BY DEF Init, FitKnown, There, FromManager, FromCounter, FromSequences
<1> QED  BY <1>2, <1>3, <1>4, <1>5, <1>6, <1>7 DEF IInv, TypeOK, Init, Rebuilding

(* Each store by its own lemma. *)
LEMMA InvStep == IInv /\ [Next]_vars => IInv'
<1> SUFFICES ASSUME IInv, [Next]_vars PROVE IInv'
  OBVIOUS
<1>1. CASE UNCHANGED vars
  <2>1. UNCHANGED <<source, manager, semantic, sequences, kind, run, pc, day, fit, fits, runs, kills>>
    BY <1>1 DEF vars, files, counts
  <2>2. TypeOK'
    BY <2>1 DEF IInv, TypeOK, SourceType, ManagerType, SemanticType, SequencesType, ControlType, Authenticated
  <2>3. SequencesKnown' /\ (Authenticated' => FitKnown')
    BY <2>1 DEF IInv, SequencesKnown, FitKnown, Fitted, Authenticated
  <2>4. Rebuilding' => RepairKnown'
    BY <2>1 DEF IInv, Rebuilding, Authenticated, RepairKnown, CountersKnown, CountersComplete, StateOf, Before,
                Codebooks, Codes, Home
  <2> QED  BY <2>1, <2>2, <2>3, <2>4 DEF IInv
<1>2. CASE Next
  <2>1. TypeOK' /\ (pc' = "state" => Readable(manager.result[day])')
    <3>1. ASSUME pc' # "state", TypeOK'  PROVE TypeOK' /\ (pc' = "state" => Readable(manager.result[day])')
      BY <3>1
    <3>2. CASE SourceSteps
      BY <3>1, <3>2, SourceTypeStep DEF IInv, SourceSteps, Events, Remap, Embeddings, Main, Goto
    <3>3. CASE ManagerSteps
      BY <3>3, ManagerTypeStep DEF IInv
    <3>4. CASE SemanticSteps
      BY <3>1, <3>4, SemanticTypeStep
         DEF IInv, SemanticSteps, SemanticHit, LoadCodebooks, Quantize, SaveCodebooks, SaveBase, MarkFit, SaveCodes,
             MarkCodes, Goto
    <3>5. CASE SequenceSteps
      BY <3>1, <3>5, SequencesTypeStep
         DEF IInv, SequenceSteps, LoadSequences, Migrate, Unmark, Forget, Clear, Group, Describe, Mark, Goto
    <3>6. CASE Kill
      BY <3>1, <3>6, KillTypeStep DEF IInv, Kill, Goto
    <3>7. CASE Start \/ Load \/ Raises
      BY <3>1, <3>7, QuietTypeStep DEF IInv
    <3> QED  BY <1>2, <3>2, <3>3, <3>4, <3>5, <3>6, <3>7, NextSteps
  <2>2. SequencesKnown'
    BY <1>2, SequencesStep DEF IInv
  <2>3. Authenticated' => FitKnown'
    <3>1. kind' = kind
      BY <1>2, NextSteps
         DEF SourceSteps, Events, Remap, Embeddings, Main, SourceUnchanged,
             ManagerSteps, Manager, Split, CachedDay, Result, State, Enrich, Metadata, ManagerUnchanged,
             SemanticSteps, SemanticHit, LoadCodebooks, Quantize, SaveCodebooks, SaveBase, MarkFit, SaveCodes, MarkCodes,
             SemanticUnchanged, SequenceSteps, LoadSequences, Migrate, Unmark, Forget, Clear, Group, Describe, Mark,
             SequencesUnchanged, Load, Raises, MainRaises, ManagerRaises, CounterRaises, SemanticRefuses, SemanticRaises,
             GroupRaises, LoadRaises, Raise, RunUnchanged, Start, Kill
    <3> QED  BY <1>2, <3>1, FitStep DEF IInv, Authenticated
  <2>4. manager'.state[1] = Absent
    BY <1>2, StateOne DEF IInv
  <2>5. Rebuilding' => RepairKnown'
    BY <1>2, RepairStep DEF IInv
  <2> QED  BY <2>1, <2>2, <2>3, <2>4, <2>5 DEF IInv
<1> QED  BY <1>1, <1>2

(* The inductive invariant holds, for any number of days, windows, policies *)
(* and kills.                                                               *)
THEOREM CachesInvariantCorrect == Spec => []IInv
<1> QED  BY InvInit, InvStep, PTL DEF Spec

(* Whatever was killed before, in place or between two files, a run trains  *)
(* on whole sequences of its own windows.                                   *)
THEOREM SequencesCorrect == Spec => []SequencesMatch
<1>1. IInv => SequencesMatch
  BY DEF IInv, SequencesKnown, SequencesMatch, Done
<1> QED  BY <1>1, CachesInvariantCorrect, PTL

(* With authenticated ids a run never trains with codes of one fit and      *)
(* codebooks of another.                                                    *)
THEOREM AuthenticatedCorrect == Spec => []AuthenticatedIdsMatch
<1>1. IInv => AuthenticatedIdsMatch
  <2> SUFFICES ASSUME IInv, Done, kind = "authenticated"  PROVE Codes = Codebooks
    BY DEF AuthenticatedIdsMatch
  <2>1. FitKnown /\ Home = Shared /\ run.policy \in Policies
    BY HomeType DEF IInv, TypeOK, ControlType, Authenticated
  <2> QED  BY <2>1 DEF FitKnown, Done, Codes, Codebooks, FromManager, FromCounter, FromSequences
<1> QED  BY <1>1, CachesInvariantCorrect, PTL

(* A run that rebuilds never meets a file it cannot read, and trains on     *)
(* counters of every earlier day and on codes of their codebooks.           *)
THEOREM RepairCorrect == Spec => []InvalidateRepairs
<1>1. IInv => InvalidateRepairs
  <2> SUFFICES ASSUME IInv, run.invalidate, kind # "authenticated"
               PROVE  /\ pc # "raised"
                      /\ Done => CountersComplete /\ Codes = Codebooks /\ \A f \in DOMAIN source : Readable(source[f])
    BY DEF InvalidateRepairs
  <2>1. RepairKnown /\ DOMAIN source = {"events", "remap", "embeddings", "main"}
    BY DEF IInv, TypeOK, SourceType, Rebuilding, Authenticated
  <2> QED
    BY <2>1 DEF RepairKnown, CountersKnown, Done, FromRemap, FromEmbeddings, FromMain, FromSemantic, FromManager,
                FromCounter, FromSequences
<1> QED  BY <1>1, CachesInvariantCorrect, PTL
================================================================================
