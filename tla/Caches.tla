------------------------------- MODULE Caches -------------------------------
(***************************************************************************)
(* The files a run prepares before it trains, and what a kill leaves of    *)
(* them: the source dataset (src/dcn/datasets/yambda.py), the day files,   *)
(* counters and metadata of the dataset manager (src/dcn/data,             *)
(* src/data/counters), the semantic ids (src/dcn/config/semantic.py) and   *)
(* the sequence cache (src/dcn/data/sequence_dataset.py).                  *)
(*                                                                         *)
(* Runs prepare one after another: each store is locked while it is looked *)
(* at and built, and a run that rebuilds has the preparation to itself     *)
(* (module Training).  What is left are the kills, between two file        *)
(* operations or within a write that is made in place.                     *)
(***************************************************************************)
EXTENDS Naturals, FiniteSets

CONSTANTS
  DayCount,   \* the days of the dataset are 1..DayCount
  Kinds,      \* the ways to make semantic ids
  Policies,   \* the collision policies
  Shared,     \* the policy whose directory holds the shared codebooks
  Windows,    \* the parameters a sequence cache may be built for
  MaxRuns,    \* bound: runs
  MaxKills    \* bound: runs that are killed

ASSUME DayAssumption == DayCount \in Nat \ {0}
ASSUME KindAssumption == Kinds # {} /\ Kinds \subseteq {"kmeans", "rqvae", "authenticated"}
ASSUME PolicyAssumption == Shared \in Policies
ASSUME WindowAssumption == Windows # {}
ASSUME BoundAssumption == {MaxRuns, MaxKills} \subseteq Nat

Days == 1..DayCount

(* What is in a file: nothing, the beginning of it, or a whole value. *)
Absent == [is |-> "absent"]
Torn == [is |-> "torn"]
Whole(v) == [is |-> "whole", of |-> v]
There(file) == file # Absent
Read(file) == file.of
Readable(file) == file.is = "whole"

VARIABLES
  source,    \* events, remap, embeddings, main
  manager,   \* day, result, state, enriched and metadata
  semantic,  \* diagnostics, codebooks, base, fitted, codes, marker
  sequences, \* metadata, complete, buckets
  kind,      \* how this dataset's semantic ids are made
  run,       \* the settings of the run
  pc, day,   \* its step, and the day at hand
  fit,       \* the codebooks it works with
  fits, runs, kills

files == <<source, manager, semantic, sequences>>
counts == <<fits, runs, kills>>
vars == <<files, kind, run, pc, day, fit, counts>>

(* The sequence cache may be from before there was a completion marker. *)
Init ==
  /\ source = [f \in {"events", "remap", "embeddings", "main"} |-> Absent]
  /\ manager = [day |-> [d \in Days |-> Absent], result |-> [d \in Days |-> Absent],
                state |-> [d \in 1..DayCount + 1 |-> Absent],
                enriched |-> [d \in Days |-> Absent], metadata |-> Absent]
  /\ semantic = [diagnostics |-> Absent, base |-> Absent, fitted |-> Absent,
                 codebooks |-> [p \in Policies |-> Absent],
                 codes |-> [p \in Policies |-> Absent], marker |-> [p \in Policies |-> Absent]]
  /\ \E w \in Windows :
       sequences \in {[metadata |-> Absent, complete |-> FALSE, buckets |-> Absent],
                      [metadata |-> Whole(w), complete |-> FALSE, buckets |-> Whole(w)]}
  /\ kind \in Kinds
  /\ run = [invalidate |-> FALSE, policy |-> Shared, window |-> CHOOSE w \in Windows : TRUE]
  /\ pc = "idle" /\ day = 1 /\ fit = 0
  /\ fits = 0 /\ runs = 0 /\ kills = 0

At(step) == pc = step
Goto(step) == pc' = step
RunUnchanged == UNCHANGED <<kind, run, counts>>

(* A file that cannot be read ends the run. *)
Raise == Goto("raised") /\ UNCHANGED <<files, kind, run, day, fit, counts>>
Rebuilds(file) == run.invalidate \/ ~There(file)

Ended == pc \in {"idle", "done", "raised", "killed"}

Start ==
  /\ Ended /\ runs < MaxRuns /\ runs' = runs + 1
  /\ \E i \in BOOLEAN, p \in Policies, w \in Windows :
       run' = [invalidate |-> i, policy |-> p, window |-> w]
  /\ Goto("events") /\ day' = 1 /\ fit' = 0
  /\ UNCHANGED <<files, kind, fits, kills>>

-----------------------------------------------------------------------------
(* The source dataset: only the events get their name when they are whole. *)

SourceUnchanged == UNCHANGED <<manager, semantic, sequences, day, fit>> /\ RunUnchanged

Events ==
  /\ At("events") /\ Goto("remap")
  /\ source' = IF Rebuilds(source.events) THEN [source EXCEPT !.events = Whole(TRUE)] ELSE source
  /\ SourceUnchanged

Remap ==
  /\ At("remap")
  /\ IF Rebuilds(source.remap) \/ Rebuilds(source.embeddings)
       THEN source' = [source EXCEPT !.remap = Whole(TRUE)] /\ Goto("embeddings")
       ELSE Goto("main") /\ UNCHANGED source
  /\ SourceUnchanged

Embeddings ==
  /\ At("embeddings") /\ Goto("main")
  /\ source' = [source EXCEPT !.embeddings = Whole(TRUE)]
  /\ SourceUnchanged

Main ==
  /\ At("main") /\ (Rebuilds(source.main) => Readable(source.remap)) /\ Goto("semantic")
  /\ source' = IF Rebuilds(source.main) THEN [source EXCEPT !.main = Whole(TRUE)] ELSE source
  /\ SourceUnchanged

MainRaises == At("main") /\ Rebuilds(source.main) /\ ~Readable(source.remap) /\ Raise

-----------------------------------------------------------------------------
(* The semantic ids, the first stage of the run.  A fit is known by its     *)
(* number; a marker holds the hashes of files, which are their numbers.     *)

SemanticUnchanged == UNCHANGED <<source, manager, sequences, day, kind, run, runs, kills>>

(* Mutant: both settings are needed. *)
AuthenticatedNever == FALSE
Authenticated == kind = "authenticated"
Home == IF kind = "rqvae" THEN run.policy ELSE Shared
Codebooks == semantic.codebooks[Home]
Codes == semantic.codes[run.policy]

FitThere == There(Codebooks) \/ There(semantic.base) \/ There(semantic.diagnostics) \/ There(semantic.fitted)
PolicyThere == There(Codes) \/ There(semantic.marker[run.policy])

(* can_reuse_codebooks *)
Reusable ==
  \/ ~Authenticated
  \/ /\ There(semantic.diagnostics) /\ There(semantic.fitted)
     /\ Read(semantic.fitted) = <<Codebooks, semantic.base, semantic.diagnostics>>

(* cache_complete *)
Complete ==
  IF ~Authenticated THEN There(Codes)
  ELSE /\ There(Codes) /\ There(semantic.marker[run.policy]) /\ Reusable
       /\ Read(semantic.marker[run.policy]) = <<semantic.fitted, Codes>>

(* KMeansIdStage._run_locked refuses what it cannot vouch for. *)
Refused ==
  /\ Authenticated
  /\ \/ run.invalidate /\ (FitThere \/ PolicyThere)
     \/ FitThere /\ ~Reusable
     \/ PolicyThere /\ ~Complete

SemanticRefuses == At("semantic") /\ Refused /\ Raise

(* SemanticIdStage._run_locked: a hit, the codebooks of an earlier fit, or  *)
(* a new fit.                                                               *)
Hit == ~run.invalidate /\ Complete
Loads == kind # "rqvae" /\ ~run.invalidate /\ There(Codebooks) /\ Reusable

SemanticHit ==
  /\ At("semantic") /\ ~Refused /\ Hit /\ Goto("manager")
  /\ UNCHANGED <<semantic, fit, fits>> /\ SemanticUnchanged

LoadCodebooks ==
  /\ At("semantic") /\ ~Refused /\ ~Hit /\ Readable(source.embeddings)
  /\ Loads /\ Readable(Codebooks) /\ Goto("codes")
  /\ fit' = Read(IF Authenticated THEN semantic.base ELSE Codebooks)
  /\ UNCHANGED <<semantic, fits>> /\ SemanticUnchanged

SemanticRaises ==
  /\ At("semantic") /\ ~Refused /\ ~Hit
  /\ (~Readable(source.embeddings) \/ (Loads /\ ~Readable(Codebooks))) /\ Raise

Quantize ==
  /\ At("semantic") /\ ~Refused /\ ~Hit /\ Readable(source.embeddings) /\ ~Loads
  /\ fits' = fits + 1 /\ fit' = fits + 1 /\ Goto("codebooks")
  /\ semantic' = IF Authenticated THEN [semantic EXCEPT !.diagnostics = Whole(fits + 1)] ELSE semantic
  /\ SemanticUnchanged

(* materialize *)
SaveCodebooks ==
  /\ At("codebooks") /\ Goto(IF Authenticated THEN "base" ELSE "codes")
  /\ semantic' = [semantic EXCEPT !.codebooks[Home] = Whole(fit)]
  /\ UNCHANGED <<fit, fits>> /\ SemanticUnchanged

SaveBase ==
  /\ At("base") /\ Goto("fitted") /\ semantic' = [semantic EXCEPT !.base = Whole(fit)]
  /\ UNCHANGED <<fit, fits>> /\ SemanticUnchanged

MarkFit ==
  /\ At("fitted") /\ Goto("codes")
  /\ semantic' = [semantic EXCEPT !.fitted = Whole(<<Codebooks, semantic.base, semantic.diagnostics>>)]
  /\ UNCHANGED <<fit, fits>> /\ SemanticUnchanged

SaveCodes ==
  /\ At("codes") /\ Goto(IF Authenticated THEN "marker" ELSE "manager")
  /\ semantic' = [semantic EXCEPT !.codes[run.policy] = Whole(fit)]
  /\ UNCHANGED <<fit, fits>> /\ SemanticUnchanged

MarkCodes ==
  /\ At("marker") /\ Goto("manager")
  /\ semantic' = [semantic EXCEPT !.marker[run.policy] = Whole(<<semantic.fitted, Codes>>)]
  /\ UNCHANGED <<fit, fits>> /\ SemanticUnchanged

-----------------------------------------------------------------------------
(* The second stage: the dataset manager.  A counter's state of a day, its  *)
(* result of that day and the enriched day stand for the days whose events  *)
(* they account for.                                                        *)

ManagerUnchanged == UNCHANGED <<source, semantic, sequences, fit>> /\ RunUnchanged

(* DatasetManager.__init__ and _load_metadata *)
Manager ==
  /\ At("manager")
  /\ IF Rebuilds(manager.metadata) THEN Goto("split") ELSE Readable(manager.metadata) /\ Goto("sequences")
  /\ UNCHANGED <<manager, day>> /\ ManagerUnchanged

ManagerRaises ==
  \/ At("manager") /\ ~Rebuilds(manager.metadata) /\ ~Readable(manager.metadata) /\ Raise
  \/ At("split") /\ ~Readable(source.main) /\ Raise

NextDay(step, last) ==
  IF day < DayCount THEN Goto(step) /\ day' = day + 1 ELSE Goto(last) /\ day' = 1

(* split_main_parquet_by_day *)
Split ==
  /\ At("split") /\ Readable(source.main) /\ NextDay("split", "counter")
  /\ manager' = IF Rebuilds(manager.day[day]) THEN [manager EXCEPT !.day[day] = Whole(TRUE)] ELSE manager
  /\ ManagerUnchanged

(* EmaCounter.process_day: the cached result, *)
CachedDay ==
  /\ At("counter") /\ Readable(manager.day[day])
  /\ ~Rebuilds(manager.result[day]) /\ Readable(manager.result[day]) /\ Goto("enrich")
  /\ UNCHANGED <<manager, day>> /\ ManagerUnchanged

(* or a new one from the state of the day, *)
StateOf(d) == IF There(manager.state[d]) THEN manager.state[d] ELSE Whole({})

(* Mutant: what is there is taken for a hit when it should be rebuilt. *)
ResultKept ==
  /\ At("counter") /\ Readable(manager.day[day])
  /\ Rebuilds(manager.result[day]) /\ Readable(StateOf(day)) /\ Goto("state")
  /\ manager' = IF Readable(manager.result[day]) THEN manager
                ELSE [manager EXCEPT !.result[day] = StateOf(day)]
  /\ UNCHANGED day /\ ManagerUnchanged
Result ==
  /\ At("counter") /\ Readable(manager.day[day])
  /\ Rebuilds(manager.result[day]) /\ Readable(StateOf(day)) /\ Goto("state")
  /\ manager' = [manager EXCEPT !.result[day] = StateOf(day)]
  /\ UNCHANGED day /\ ManagerUnchanged

(* and then the state the next day starts from. *)
State ==
  /\ At("state") /\ Goto("enrich")
  /\ manager' = [manager EXCEPT !.state[day + 1] = Whole(Read(manager.result[day]) \cup {day})]
  /\ UNCHANGED day /\ ManagerUnchanged

CounterRaises ==
  /\ At("counter")
  /\ \/ ~Readable(manager.day[day])
     \/ IF Rebuilds(manager.result[day]) THEN ~Readable(StateOf(day)) ELSE ~Readable(manager.result[day])
  /\ Raise

(* preprocess_counters *)
Enrich ==
  /\ At("enrich") /\ NextDay("counter", "metadata")
  /\ manager' = IF Rebuilds(manager.enriched[day])
                  THEN [manager EXCEPT !.enriched[day] = manager.result[day]] ELSE manager
  /\ ManagerUnchanged

(* _save_metadata *)
Metadata ==
  /\ At("metadata") /\ Goto("sequences") /\ manager' = [manager EXCEPT !.metadata = Whole(TRUE)]
  /\ UNCHANGED day /\ ManagerUnchanged

-----------------------------------------------------------------------------
(* The sequence cache. *)

SequencesUnchanged == UNCHANGED <<source, manager, semantic, day, fit>> /\ RunUnchanged

Fresh == ~run.invalidate /\ sequences.metadata = Whole(run.window)

(* _load_cached_metadata; a cache from before the completion marker gets one *)
(* if its buckets are all there.                                             *)
LoadSequences ==
  /\ At("sequences") /\ Fresh /\ sequences.complete /\ Goto("load")
  /\ UNCHANGED sequences /\ SequencesUnchanged
Migrate ==
  /\ At("sequences") /\ Fresh /\ ~sequences.complete /\ There(sequences.buckets)
  /\ sequences' = [sequences EXCEPT !.complete = TRUE] /\ Goto("load")
  /\ SequencesUnchanged

(* _build_cache, for a cache that is stale or not all there. *)
(* Mutant: the metadata goes last. *)
UnmarkLast ==
  /\ At("sequences") /\ (~Fresh \/ (~sequences.complete /\ ~Readable(sequences.buckets)))
  /\ sequences' = [sequences EXCEPT !.complete = FALSE] /\ Goto("clear")
  /\ SequencesUnchanged
Unmark ==
  /\ At("sequences") /\ (~Fresh \/ (~sequences.complete /\ ~Readable(sequences.buckets)))
  /\ sequences' = [sequences EXCEPT !.complete = FALSE] /\ Goto("forget")
  /\ SequencesUnchanged

Forget ==
  /\ At("forget") /\ Goto("clear") /\ sequences' = [sequences EXCEPT !.metadata = Absent]
  /\ SequencesUnchanged

Clear ==
  /\ At("clear") /\ Goto("group") /\ sequences' = [sequences EXCEPT !.buckets = Absent]
  /\ SequencesUnchanged

Group ==
  /\ At("group") /\ \A d \in Days : Readable(manager.enriched[d])
  /\ sequences' = [sequences EXCEPT !.buckets = Whole(run.window)] /\ Goto("describe")
  /\ SequencesUnchanged
GroupRaises == At("group") /\ (\E d \in Days : ~Readable(manager.enriched[d])) /\ Raise

Describe ==
  /\ At("describe") /\ Goto("mark") /\ sequences' = [sequences EXCEPT !.metadata = Whole(run.window)]
  /\ SequencesUnchanged

Mark ==
  /\ At("mark") /\ Goto("load") /\ sequences' = [sequences EXCEPT !.complete = TRUE]
  /\ SequencesUnchanged

-----------------------------------------------------------------------------
(* The run reads what it trains on: the buckets, the codes, the codebooks.  *)
Loadable == Readable(sequences.buckets) /\ Readable(Codes) /\ Readable(Codebooks)
Load == /\ At("load") /\ Loadable /\ Goto("done")
        /\ UNCHANGED <<files, day, fit>> /\ RunUnchanged
LoadRaises == At("load") /\ ~Loadable /\ Raise

(* A kill, between two steps or within a write in place. *)
TornWrite ==
  \/ At("remap") /\ (Rebuilds(source.remap) \/ Rebuilds(source.embeddings))
     /\ source' = [source EXCEPT !.remap = Torn] /\ UNCHANGED <<manager, semantic, sequences>>
  \/ At("embeddings") /\ source' = [source EXCEPT !.embeddings = Torn]
     /\ UNCHANGED <<manager, semantic, sequences>>
  \/ At("main") /\ Rebuilds(source.main) /\ source' = [source EXCEPT !.main = Torn]
     /\ UNCHANGED <<manager, semantic, sequences>>
  \/ At("split") /\ Rebuilds(manager.day[day]) /\ manager' = [manager EXCEPT !.day[day] = Torn]
     /\ UNCHANGED <<source, semantic, sequences>>
  \/ At("counter") /\ Rebuilds(manager.result[day]) /\ manager' = [manager EXCEPT !.result[day] = Torn]
     /\ UNCHANGED <<source, semantic, sequences>>
  \/ At("state") /\ manager' = [manager EXCEPT !.state[day + 1] = Torn]
     /\ UNCHANGED <<source, semantic, sequences>>
  \/ At("enrich") /\ Rebuilds(manager.enriched[day]) /\ manager' = [manager EXCEPT !.enriched[day] = Torn]
     /\ UNCHANGED <<source, semantic, sequences>>
  \/ At("metadata") /\ manager' = [manager EXCEPT !.metadata = Torn]
     /\ UNCHANGED <<source, semantic, sequences>>
  \/ At("codebooks") /\ ~Authenticated /\ semantic' = [semantic EXCEPT !.codebooks[Home] = Torn]
     /\ UNCHANGED <<source, manager, sequences>>
  \/ At("codes") /\ ~Authenticated /\ semantic' = [semantic EXCEPT !.codes[run.policy] = Torn]
     /\ UNCHANGED <<source, manager, sequences>>
  \/ pc \in {"clear", "group"} /\ sequences' = [sequences EXCEPT !.buckets = Torn]
     /\ UNCHANGED <<source, manager, semantic>>

Kill ==
  /\ ~Ended /\ kills < MaxKills /\ kills' = kills + 1 /\ Goto("killed")
  /\ TornWrite \/ UNCHANGED files
  /\ UNCHANGED <<kind, run, day, fit, fits, runs>>

Next ==
  \/ Start \/ Kill
  \/ Events \/ Remap \/ Embeddings \/ Main \/ MainRaises
  \/ Manager \/ ManagerRaises \/ Split \/ CachedDay \/ Result \/ State \/ CounterRaises
  \/ Enrich \/ Metadata
  \/ SemanticRefuses \/ SemanticHit \/ LoadCodebooks \/ SemanticRaises \/ Quantize
  \/ SaveCodebooks \/ SaveBase \/ MarkFit \/ SaveCodes \/ MarkCodes
  \/ LoadSequences \/ Migrate \/ Unmark \/ Forget \/ Clear \/ Group \/ GroupRaises \/ Describe \/ Mark
  \/ Load \/ LoadRaises

Spec == Init /\ [][Next]_vars

-----------------------------------------------------------------------------
(* Properties. *)

Done == pc = "done"

(* Whatever was killed before, and although the buckets are removed and     *)
(* written in place, a run trains on whole sequences of its own windows:    *)
(* the marker and the metadata go before the buckets and come after them.   *)
SequencesMatch == Done => sequences.buckets = Whole(run.window)

(* With authenticated ids no kill and no other collision policy makes a run *)
(* train with codes of one fit and codebooks of another.                    *)
AuthenticatedIdsMatch == Done /\ kind = "authenticated" => Codes = Codebooks

(* What the counters of each day account for: the days before it. *)
CountersComplete == \A d \in Days : manager.enriched[d] = Whole(1..d - 1)

(* invalidate_cache repairs: whatever was killed before, a run that         *)
(* rebuilds trains, and on whole files: counters of every earlier day,      *)
(* codes of their codebooks. Authenticated ids are immutable and refuse it. *)
InvalidateRepairs ==
  run.invalidate /\ kind # "authenticated" =>
    /\ pc # "raised"
    /\ Done => CountersComplete /\ Codes = Codebooks /\ \A f \in DOMAIN source : Readable(source[f])

(* A key's counters of a day account for every earlier day: "each day of    *)
(* age costs one more decay".                                               *)
CountersFollowDays == Done => CountersComplete
=============================================================================
