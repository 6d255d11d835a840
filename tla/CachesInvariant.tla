---------------------------- MODULE CachesInvariant ----------------------------
(***************************************************************************)
(* The inductive invariant of Caches: the kinds of the files, and what a   *)
(* run can rely on at each of its steps whatever the kills before it left. *)
(***************************************************************************)
EXTENDS Caches

File(S) == {Absent, Torn} \cup [is : {"whole"}, of : S]
FitHash == File(Nat) \X File(Nat) \X File(Nat)

(* The steps from each one on, in the order of a run that rebuilds without  *)
(* authenticated ids.                                                       *)
FromSequences == {"sequences", "forget", "clear", "group", "describe", "mark", "load", "done"}
FromCounter == {"counter", "state", "enrich", "metadata"} \cup FromSequences
FromManager == {"manager", "split"} \cup FromCounter
FromSemantic == {"semantic", "codebooks", "codes"} \cup FromManager
FromMain == {"main"} \cup FromSemantic
FromEmbeddings == {"embeddings"} \cup FromMain
FromRemap == {"remap"} \cup FromEmbeddings
OnlyAuthenticated == {"base", "fitted", "marker"}
Steps == {"idle", "events", "raised", "killed"} \cup FromRemap \cup OnlyAuthenticated

(* Every file is absent, torn or holds what it is for, and the steps of     *)
(* authenticated ids are theirs alone.                                      *)
SourceType == source \in [{"events", "remap", "embeddings", "main"} -> File({TRUE})]
ManagerType ==
  manager \in [day : [Days -> File({TRUE})], result : [Days -> File(SUBSET Days)],
               state : [1..DayCount + 1 -> File(SUBSET Days)],
               enriched : [Days -> File(SUBSET Days)], metadata : File({TRUE})]
SemanticType ==
  semantic \in [diagnostics : File(Nat), base : File(Nat), fitted : File(FitHash),
                codebooks : [Policies -> File(Nat)], codes : [Policies -> File(Nat)],
                marker : [Policies -> File(File(FitHash) \X File(Nat))]]
SequencesType == sequences \in [metadata : File(Windows), complete : BOOLEAN, buckets : File(Windows)]
ControlType ==
  /\ kind \in Kinds
  /\ run \in [invalidate : BOOLEAN, policy : Policies, window : Windows]
  /\ pc \in Steps /\ (pc \in OnlyAuthenticated => Authenticated)
  /\ day \in Days /\ fit \in Nat /\ fits \in Nat /\ runs \in Nat /\ kills \in Nat
TypeOK == SourceType /\ ManagerType /\ SemanticType /\ SequencesType /\ ControlType

(* The buckets are written while no metadata describe them, and a marker is *)
(* only there with metadata.                                                *)
SequencesKnown ==
  /\ There(sequences.metadata) \/ sequences.complete =>
       Readable(sequences.metadata) /\ sequences.buckets = sequences.metadata
  /\ pc = "forget" => ~sequences.complete
  /\ pc \in {"clear", "group", "describe"} => ~There(sequences.metadata)
  /\ pc = "describe" => sequences.buckets = Whole(run.window)
  /\ pc = "mark" => sequences.metadata = Whole(run.window)
  /\ pc \in {"load", "done"} => sequences.buckets = Whole(run.window)

(* An authenticated fit that has its hash is of one quantization, and every *)
(* policy's codes are of that fit: nothing is there when another begins.    *)
Fitted ==
  /\ Readable(semantic.codebooks[Shared])
  /\ semantic.base = semantic.codebooks[Shared] /\ semantic.diagnostics = semantic.base
  /\ semantic.fitted = Whole(<<semantic.codebooks[Shared], semantic.base, semantic.diagnostics>>)

FitKnown ==
  /\ There(semantic.fitted) => Fitted
  /\ \A p \in Policies : There(semantic.codes[p]) => Fitted /\ semantic.codes[p] = semantic.codebooks[Shared]
  /\ pc \in {"codebooks", "base", "fitted"} => semantic.diagnostics = Whole(fit) /\ ~There(semantic.fitted)
  /\ pc = "codebooks" => ~There(semantic.codebooks[Shared])
  /\ pc \in {"base", "fitted"} => semantic.codebooks[Shared] = Whole(fit)
  /\ pc \in {"codebooks", "base"} => ~There(semantic.base)
  /\ pc = "fitted" => semantic.base = Whole(fit)
  /\ pc \in {"codes", "marker"} => Fitted /\ semantic.codebooks[Shared] = Whole(fit)
  /\ pc \in {"marker"} \cup FromManager => There(semantic.codes[run.policy])

(* A run that rebuilds has made every file it reads anew.                   *)
Rebuilding == run.invalidate /\ ~Authenticated
Before(d) == Whole(1..d - 1)

CountersKnown ==
  /\ pc \in {"events", "remap", "embeddings", "main", "semantic", "codebooks", "codes", "manager"} => day = 1
  /\ pc = "split" => \A d \in 1..day - 1 : Readable(manager.day[d])
  /\ pc \in FromCounter => \A d \in Days : Readable(manager.day[d])
  /\ pc \in {"counter", "state"} => StateOf(day) = Before(day)
  /\ pc \in {"state", "enrich"} => manager.result[day] = Before(day)
  /\ pc = "enrich" => manager.state[day + 1] = Before(day + 1)
  /\ pc \in {"counter", "state", "enrich"} => \A d \in 1..day - 1 : manager.enriched[d] = Before(d)
  /\ pc \in {"metadata"} \cup FromSequences => CountersComplete

RepairKnown ==
  /\ pc # "raised"
  /\ pc \in FromRemap => Readable(source.events)
  /\ pc \in FromEmbeddings => Readable(source.remap)
  /\ pc \in FromMain => Readable(source.embeddings)
  /\ pc \in FromSemantic => Readable(source.main)
  /\ CountersKnown
  /\ pc = "codes" => Codebooks = Whole(fit)
  /\ pc \in FromManager => Codes = Codebooks /\ Readable(Codes)

IInv ==
  /\ TypeOK
  /\ SequencesKnown
  /\ Authenticated => FitKnown
  /\ manager.state[1] = Absent
  /\ pc = "state" => Readable(manager.result[day])
  /\ Rebuilding => RepairKnown
=============================================================================
