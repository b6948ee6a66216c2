--------------------------------- MODULE Corpora ---------------------------------
(***************************************************************************)
(* The corpora of research and hosted validation: the materializer of the  *)
(* pinned development archives, the builders that read them, that fetch    *)
(* pinned clips or that generate their signals, and the compaction that    *)
(* replaces a corpus by what it can be rebuilt from.                       *)
(* A lock's revision and the content it pins are one version, a file's     *)
(* digest is what the file is.  One command runs at a time on a data root  *)
(* and an output directory; it may die at every step, and between commands *)
(* the lock and the generator's source are edited.                         *)
(***************************************************************************)
EXTENDS Integers, FiniteSets

CONSTANTS None, Versions, Seeds,
          Roles,                   \* archives of the lock; one noise archive stands for its seven
          Domains,                 \* number of noise domains
          Mixes, Noises,           \* --mix-limit, --noise-limit
          Cases,                   \* names of a builder's cases, written in this order: 1..n
          MaxChanges, MaxDeaths    \* bounds: edits between commands, commands that die

\* What a corpus can be made of, what corpus.json says of it, and what a compaction seals.
Kinds == {"development v2", "development v3", "real clips", "aec clips", "rooms", "speech", "motion", "validation",
          "robustness", "transition"}
Modes == {"external-source", "deterministic-generator"}
AnyOf == [Roles -> Versions \cup {None}] \cup [input : Versions] \cup [{"clean"} -> Versions \cup {None}] \cup {None}
AnyCorpus == [kind : Kinds, seed : Seeds \cup {None}, builder : Versions, of : AnyOf, lock : Versions \cup {None}]
AnyPolicy == [mode : Modes, corpus : AnyCorpus, builder : Versions, lock : Versions, seed : Seeds \cup {None}]
\* The catalog has a first version, and what is missing is not mistaken for what is there.
CorporaAssumption ==
    /\ Versions # {} /\ Seeds \subseteq Nat /\ "clean" \in Roles /\ Cases # {}
    /\ Domains \in Nat \ {0} /\ Mixes \in Nat /\ Noises \in Nat
    /\ None \notin AnyCorpus \cup AnyPolicy

VARIABLES lock, builder,           \* the dataset lock and the generator's source, as they are now
          tree,                    \* extracted/<role>: the content unpacked there
          doc,                     \* the materialization document
          files,                   \* what is in the files of each case
          corpus, manifest,        \* corpus.json, source-manifest.json
          policy,                  \* artifact-policy.json
          pc, job, at,             \* the command that runs
          changes, deaths,
          torn                     \* history: a materialization ended half done, and none was whole since
data == <<tree, doc, torn>>
output == <<files, corpus, manifest>>
command == <<pc, job, at>>
vars == <<lock, builder, data, output, policy, command, changes, deaths>>

Development == {"development v2", "development v3"}
Pinned == {"real clips", "aec clips", "rooms"}    \* every input is held against its lock as it is read
NoFiles == [c \in Cases |-> None]
HasFiles == files # NoFiles
Init ==
    /\ lock = (CHOOSE v \in Versions : TRUE) /\ builder = lock   \* versions are interchangeable
    /\ tree = [r \in Roles |-> None] /\ doc = None /\ torn = FALSE
    /\ files = NoFiles /\ corpus = None /\ manifest = None /\ policy = None
    /\ pc = "idle" /\ job = None /\ at = {} /\ changes = 0 /\ deaths = 0

World == UNCHANGED <<lock, builder, changes, deaths>>
End == pc' = "idle" /\ job' = None /\ at' = {}

(***************************************************************************)
(* prepare.py: every archive is fetched anew, held against the lock and    *)
(* unpacked into an emptied directory; the document is written last.       *)
(***************************************************************************)
Materialize ==
    /\ pc = "idle" /\ pc' = "materialize" /\ job' = lock /\ at' = {}
    /\ World /\ UNCHANGED <<data, output, policy>>
Unpack(r) ==
    /\ pc = "materialize" /\ r \in Roles \ at
    /\ \E v \in Versions :                             \* what the server delivers
          IF v = job THEN /\ tree' = [tree EXCEPT ![r] = v] /\ at' = at \cup {r}
                          /\ torn' = TRUE /\ UNCHANGED <<pc, job>>
          ELSE End /\ UNCHANGED <<tree, torn>>
    /\ World /\ UNCHANGED <<doc, output, policy>>
WriteDocument ==
    /\ pc = "materialize" /\ at = Roles /\ doc' = [lock |-> lock] /\ torn' = FALSE /\ End
    /\ World /\ UNCHANGED <<tree, output, policy>>

(***************************************************************************)
(* build_corpus.py: what the cases are made of.                            *)
(***************************************************************************)
\* Mutant of DomainFor: the stride the noise files of version 2 were taken with.
DomainForStride(index, seed) == (index * 7 + seed) % Domains
DomainFor(index, seed) == (index + seed) % Domains
\* The domains of the mixes and of the noise-only cases.
MixDomains(seed) == [i \in 0..(Mixes - 1) |-> DomainFor(i, seed)]
NoiseDomains(seed) == [i \in 0..(Noises - 1) |-> DomainFor(i, seed + 17)]
\* Mutant of MaterializedFor: any document of this catalog will do.
MaterializedForAny == doc # None
MaterializedFor == doc # None /\ doc.lock = lock
\* The selection wants recordings in every directory; nothing is hashed again.
DevelopmentReady == MaterializedFor /\ \A r \in Roles : tree[r] # None
\* Mutant of FreshOutput: the directory is made when it is missing.
FreshOutputAny == TRUE
FreshOutput == ~HasFiles /\ corpus = None /\ manifest = None

\* What each builder makes with one seed of what is there now: of unpacked archives, of inputs held
\* against a lock as they are read, or of nothing but the seed.
Made(kind, seed, of, of_lock) == [kind |-> kind, seed |-> seed, builder |-> builder, of |-> of, lock |-> of_lock]
DevelopmentV2(seed) == Made("development v2", seed, tree, lock)
DevelopmentV3(seed) == Made("development v3", seed, tree, lock)
Checked == [input |-> lock]
RealClips == Made("real clips", None, Checked, lock)
AecClips == Made("aec clips", None, Checked, lock)
\* The objects of the qualification manifest, by size and digest.
MeasuredRooms(seed) == Made("rooms", seed, Checked, lock)
\* One utterance of each speaker that is unpacked; the archive's digest is the caller's word.
CleanSpeech(seed) == Made("speech", seed, [r \in {"clean"} |-> tree["clean"]], None)
Motion(seed) == Made("motion", seed, None, None)
Smoke(seed) == Made("validation", seed, None, None)
Robustness(seed) == Made("robustness", seed, None, None)
Transitions(seed) == Made("transition", seed, None, None)
Corpora(seed) == {DevelopmentV2(seed), DevelopmentV3(seed), RealClips, AecClips, MeasuredRooms(seed),
                  CleanSpeech(seed), Motion(seed), Smoke(seed), Robustness(seed), Transitions(seed)}
\* Every workflow gives a builder a directory of its own.
Own(kind) ==
    /\ corpus # None => corpus.kind = kind
    /\ \A c \in Cases : files[c] # None => files[c].kind = kind
Build(made) ==
    /\ pc = "idle" /\ pc' = "build" /\ job' = made /\ at' = {}
    /\ Own(made.kind)
    /\ made.kind \in Development => DevelopmentReady
    /\ made.kind = "speech" => tree["clean"] # None
    /\ made.kind = "motion" => FreshOutput
    /\ World /\ UNCHANGED <<data, output, policy>>
\* A clip that is not what its lock says ends the build; cases are written over those that are there,
\* under the corpus.json that is there.
WriteCase(c) ==
    /\ pc = "build" /\ at = 1..(c - 1)
    /\ \/ files' = [files EXCEPT ![c] = job] /\ at' = at \cup {c} /\ UNCHANGED <<pc, job>>
       \/ job.kind \in Pinned /\ End /\ UNCHANGED files
    /\ World /\ UNCHANGED <<data, corpus, manifest, policy>>
\* A manifest of sources is written before corpus.json, which names it; the generator's after, naming it.
Sourced == Pinned \cup {"speech"}
WriteManifest ==
    /\ pc = "build" /\ at = Cases /\ job.kind \in Sourced
    /\ manifest' = [kind |-> job.kind, lock |-> job.lock] /\ pc' = "corpus" /\ UNCHANGED <<job, at>>
    /\ World /\ UNCHANGED <<data, files, corpus, policy>>
WriteCorpus ==
    /\ pc \in {"build", "corpus"} /\ (pc = "corpus" <=> job.kind \in Sourced)
    /\ at = Cases /\ corpus' = job
    /\ (IF job.kind = "motion" THEN pc' = "manifest" /\ UNCHANGED <<job, at>> ELSE End)
    /\ World /\ UNCHANGED <<data, files, manifest, policy>>
WriteGenerated ==
    /\ pc = "manifest"
    /\ manifest' = [kind |-> "motion", builder |-> builder, seed |-> job.seed, corpus |-> corpus]
    /\ End /\ World /\ UNCHANGED <<data, files, corpus, policy>>

(***************************************************************************)
(* hosted_validation_compact_evidence.py                                   *)
(***************************************************************************)
\* Mutant of Generated: which generator wrote the manifest is not asked.
GeneratedByAny ==
    /\ manifest.kind = "motion" /\ manifest.corpus = corpus
    /\ corpus.kind = "motion" /\ corpus.seed = manifest.seed
Generated ==
    /\ manifest.kind = "motion" /\ manifest.builder = builder /\ manifest.corpus = corpus
    /\ corpus.kind = "motion" /\ corpus.seed = manifest.seed
Compactable(mode) ==
    /\ corpus # None /\ manifest # None /\ HasFiles
    /\ IF mode = "external-source" THEN manifest.kind \in {"real clips", "aec clips"} ELSE Generated
Compact(mode) ==
    /\ pc = "idle" /\ Compactable(mode) /\ pc' = "remove" /\ job' = mode /\ at' = {}
    /\ policy' = [mode |-> mode, corpus |-> corpus, builder |-> builder, lock |-> lock,
                  seed |-> IF mode = "external-source" THEN None ELSE manifest.seed]
    /\ World /\ UNCHANGED <<data, output>>
\* rmtree takes one file after the other.
Remove ==
    /\ pc = "remove" /\ World /\ UNCHANGED <<data, corpus, manifest, policy>>
    /\ \E k \in DOMAIN files : files[k] # None /\ files' = [files EXCEPT ![k] = None]
    /\ IF files' = NoFiles THEN End ELSE UNCHANGED command

(***************************************************************************)
(* Between commands; and a command that dies.                              *)
(***************************************************************************)
Change ==
    /\ pc = "idle" /\ changes < MaxChanges /\ changes' = changes + 1
    /\ \/ lock' \in Versions \ {lock} /\ UNCHANGED <<builder, output, policy>>
       \/ builder' \in Versions \ {builder} /\ UNCHANGED <<lock, output, policy>>
       \/ files' = NoFiles /\ corpus' = None /\ manifest' = None /\ policy' = None   \* another directory
          /\ UNCHANGED <<lock, builder>>
    /\ UNCHANGED <<data, command, deaths>>
Die ==
    /\ pc # "idle" /\ deaths < MaxDeaths /\ deaths' = deaths + 1 /\ End
    /\ UNCHANGED <<lock, builder, data, output, policy, changes>>

Next ==
    \/ Materialize \/ (\E r \in Roles : Unpack(r)) \/ WriteDocument
    \/ \E seed \in Seeds : \E made \in Corpora(seed) : Build(made)
    \/ (\E c \in Cases : WriteCase(c)) \/ WriteManifest \/ WriteCorpus \/ WriteGenerated
    \/ (\E mode \in Modes : Compact(mode)) \/ Remove
    \/ Change \/ Die
Spec == Init /\ [][Next]_vars

(***************************************************************************)
(* Properties                                                              *)
(***************************************************************************)
\* Every recording a development corpus was made of came out of the archives pinned by the very lock
\* the corpus names, also when the lock is edited back and forth, unless it was built on a tree that
\* a materialization left half done.
\* The builder hashes nothing again: it trusts the document of the last materialization.
CorpusOfLock ==
    pc = "build" /\ job.kind \in Development /\ ~torn => \A r \in Roles : job.of[r] = job.lock
\* "balanced-domain": no two noise domains differ by more than one in the mixes, nor in the noise-only
\* cases, whatever the seed and however many cases are asked for.
Times(s, d) == Cardinality({i \in DOMAIN s : s[i] = d})
DomainsBalanced ==
    pc = "build" /\ job.kind = "development v3" =>
        \A s \in {MixDomains(job.seed), NoiseDomains(job.seed)}, d, e \in 0..(Domains - 1) :
            Times(s, d) - Times(s, e) <= 1
\* A generated corpus describes the files beside it, through deaths and further builds over the
\* directory: none of them is of another seed or another generator.
GeneratedWhole ==
    corpus # None /\ corpus.kind = "motion" => \A c \in Cases : files[c] \in {None, corpus}
\* Payload is gone only where the policy beside it binds the corpus it was of; and what was sealed as
\* generated is what the sealed generator makes of the sealed seed ("exactly reproducible").
SealRebuilds ==
    /\ corpus # None /\ ~HasFiles => policy # None /\ policy.corpus = corpus
    /\ policy # None /\ policy.mode = "deterministic-generator" =>
         policy.corpus.builder = policy.builder /\ policy.corpus.seed = policy.seed
CorpusSound == CorpusOfLock /\ DomainsBalanced /\ GeneratedWhole /\ SealRebuilds
=============================================================================
