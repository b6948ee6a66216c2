----------------------------- MODULE MC_Evidence -----------------------------
(***************************************************************************)
(* What evidence is made on and what a stage is improved with, in one run: *)
(* the laboratory's datasets, the public corpora, the corpora of research  *)
(* and hosted validation, the soak on a board, the delivery of an SDK, the *)
(* studies of how fast the echo canceller recovers, the lanes that rank,   *)
(* tune and confirm a single stage, and the hold rules of the voice        *)
(* activity detector with the judges of their candidates.  The components  *)
(* share nothing: a behaviour is one of a single component, chosen at the  *)
(* start.                                                                  *)
(***************************************************************************)
EXTENDS VadConfirmation, RecoveryStudy, Integers, FiniteSets, TLC

CONSTANTS Never, Tolerance, MinScore, MinTuning, MinFaster, Alternatives, DevReports, HoldoutReports,
          BuildReports, Partial, Versions, Members, MinCases, MaxChanges, MaxDeaths, MaxRegression, Metric, Seeds,
          Roles, Domains, Mixes, Noises, Cases, BuiltMaxChanges, Boards, Valid, RouteOf, Counts,
          MaxFaults, MaxJobs, MaxEdits, Sources, Configs, Replays, MaxAgain

VARIABLES which,   \* the component this behaviour is of
          lane, stage, report, algorithm, tuning, decision, laneBuild, pin, revision, catalog, upstream,
          archive, snapshot, seal, tree, marker, todo, forced, pc, manifest, building, labCorpus, changes,
          deaths, cut, disturbed, lock, aec, audio, dns, data, slr, index, publicSeal, publicPc, profile,
          ready, baseline, publicCorpus, publicChanges, publicDeaths, builtLock, builder, builtTree, doc,
          files, builtCorpus, builtManifest, policy, builtPc, job, at, builtChanges, builtDeaths, torn,
          hilPc, hilJob, failed, board, tmp, out, dir, sums, uploaded, edits, kept, class, configured,
          deliveryTree, measured, deliveryOut, deliveryManifest, deliveryAt, arg, again

Lane == INSTANCE StageLane WITH build <- laneBuild
Lab == INSTANCE LabData WITH corpus <- labCorpus
Public == INSTANCE PublicData WITH seal <- publicSeal, pc <- publicPc, corpus <- publicCorpus, changes <- publicChanges, deaths <-
        publicDeaths
Built == INSTANCE Corpora WITH lock <- builtLock, tree <- builtTree, corpus <- builtCorpus, manifest <- builtManifest, pc <-
        builtPc, changes <- builtChanges, deaths <- builtDeaths, MaxChanges <- BuiltMaxChanges
Hil == INSTANCE HilEvidence WITH pc <- hilPc, job <- hilJob
Delivery == INSTANCE Delivery WITH tree <- deliveryTree, out <- deliveryOut, manifest <- deliveryManifest, at <- deliveryAt

SomeMembers == (1 :> {"a", "b"}) @@ (2 :> {"b"})
R(d, p) == [device |-> d, playback |-> p]
SomeRoutes == [b \in Boards |-> IF b = "b1" THEN R("hw0", TRUE) ELSE R("hw1", FALSE)]
\* What the reports of a lane may say of a stage, and those of a build.
L(p, l, s) == [pass |-> p, level |-> l, settle |-> s]
SomeDev == {L(TRUE, 3, 6), L(TRUE, 2, 3), L(TRUE, 2, 1), L(TRUE, 1, 0)}
SomeHoldouts == {L(TRUE, 1, 3), L(TRUE, 3, 2), L(FALSE, 2, 1)}
B(bs, s, bw, w) == [basePass |-> TRUE, baseSettle |-> bs, pass |-> TRUE, settle |-> s, worse |-> FALSE,
                    conforms |-> TRUE, wholePass |-> TRUE, baseWhole |-> bw, whole |-> w]
SomeBuilds == {B(2, 0, 2, 1), B(1, 2, None, None), B(9, 0, 1, 2), B(2, 0, 2, None),
               [B(2, 1, 2, 0) EXCEPT !.worse = TRUE, !.conforms = FALSE, !.wholePass = FALSE],
               [B(None, 1, 1, 1) EXCEPT !.basePass = FALSE]}
\* The halves a recovery is measured on, and the stages in their order.
SomeEnergies == {<<0, 1>>, <<2, 1>>, <<3, 1>>, <<0, 0>>}
SomeStages == <<"AEC", "NS", "full">>

vadVars == <<hold, origin, budget, spare, tail, heard, judge, build, corpus, frame, count, event, events,
             total, seen, gained, verdict>>
laneVars == <<lane, stage, report, algorithm, tuning, decision, laneBuild>>
laboratoryVars == <<pin, revision, catalog, upstream, archive, snapshot, seal, tree, marker, todo, forced, pc,
                    manifest, building, labCorpus, changes, deaths, cut, disturbed>>
publicVars == <<lock, aec, audio, dns, data, slr, index, publicSeal, publicPc, profile, ready, baseline,
                publicCorpus, publicChanges, publicDeaths>>
corporaVars == <<builtLock, builder, builtTree, doc, files, builtCorpus, builtManifest, policy, builtPc, job, at,
                 builtChanges, builtDeaths, torn>>
soakVars == <<hilPc, hilJob, failed, board, tmp, out, dir, sums, uploaded, edits, kept>>
deliveryVars == <<class, configured, deliveryTree, measured, deliveryOut, deliveryManifest, deliveryAt, arg, again>>

sumVars == <<which, vadVars, laneVars, laboratoryVars, publicVars, corporaVars, soakVars, deliveryVars, studyVars>>

\* A component that is not the chosen one stays as it is.
SumInit ==
    /\ which \in {"vad", "lane", "lab", "public", "corpora", "soak", "delivery", "recovery"}
    /\ ConfirmationInit /\ (which # "vad" => judge = "bounded" /\ build = "shipping")
    /\ \/ which = "lane" /\ Lane!Init
       \/ /\ which # "lane"
          /\ lane = 0 /\ stage = "idle" /\ report = 0 /\ algorithm = 0 /\ tuning = 0 /\ decision = 0
          /\ laneBuild = 0
    /\ \/ which = "lab" /\ Lab!Init
       \/ /\ which # "lab"
          /\ pin = 0 /\ revision = 0 /\ catalog = 0 /\ upstream = 0 /\ archive = 0 /\ snapshot = 0
          /\ seal = 0 /\ tree = 0 /\ marker = 0 /\ todo = 0 /\ forced = 0 /\ pc = 0 /\ manifest = 0
          /\ building = 0 /\ labCorpus = 0 /\ changes = 0 /\ deaths = 0 /\ cut = 0 /\ disturbed = 0
    /\ \/ which = "public" /\ Public!Init
       \/ /\ which # "public"
          /\ lock = 0 /\ aec = 0 /\ audio = 0 /\ dns = 0 /\ data = 0 /\ slr = 0 /\ index = 0
          /\ publicSeal = 0 /\ publicPc = 0 /\ profile = 0 /\ ready = 0 /\ baseline = 0
          /\ publicCorpus = 0 /\ publicChanges = 0 /\ publicDeaths = 0
    /\ \/ which = "corpora" /\ Built!Init
       \/ /\ which # "corpora"
          /\ builtLock = 0 /\ builder = 0 /\ builtTree = 0 /\ doc = 0 /\ files = 0 /\ builtCorpus = 0
          /\ builtManifest = 0 /\ policy = 0 /\ builtPc = 0 /\ job = 0 /\ at = 0 /\ builtChanges = 0
          /\ builtDeaths = 0 /\ torn = 0
    /\ \/ which = "soak" /\ Hil!Init
       \/ /\ which # "soak"
          /\ hilPc = 0 /\ hilJob = 0 /\ failed = 0 /\ board = 0 /\ tmp = 0 /\ out = 0 /\ dir = 0
          /\ sums = 0 /\ uploaded = 0 /\ edits = 0 /\ kept = 0
    /\ \/ which = "delivery" /\ Delivery!Init
       \/ /\ which # "delivery"
          /\ class = 0 /\ configured = 0 /\ deliveryTree = 0 /\ measured = 0 /\ deliveryOut = 0 /\ deliveryManifest = 0
          /\ deliveryAt = 0 /\ arg = 0 /\ again = 0
    /\ StudyInit /\ (which # "recovery" => study = "latency")

SumNext ==
    \/ which = "vad" /\ ConfirmationNext /\ UNCHANGED <<which, laneVars, laboratoryVars, publicVars, corporaVars, soakVars, deliveryVars, studyVars>>
    \/ which = "lane" /\ Lane!Next /\ UNCHANGED <<which, vadVars, laboratoryVars, publicVars, corporaVars, soakVars, deliveryVars, studyVars>>
    \/ which = "lab" /\ Lab!Next /\ UNCHANGED <<which, vadVars, laneVars, publicVars, corporaVars, soakVars, deliveryVars, studyVars>>
    \/ which = "public" /\ Public!Next /\ UNCHANGED <<which, vadVars, laneVars, laboratoryVars, corporaVars, soakVars, deliveryVars, studyVars>>
    \/ which = "corpora" /\ Built!Next /\ UNCHANGED <<which, vadVars, laneVars, laboratoryVars, publicVars, soakVars, deliveryVars, studyVars>>
    \/ which = "soak" /\ Hil!Next /\ UNCHANGED <<which, vadVars, laneVars, laboratoryVars, publicVars, corporaVars, deliveryVars, studyVars>>
    \/ which = "delivery" /\ Delivery!Next /\ UNCHANGED <<which, vadVars, laneVars, laboratoryVars, publicVars, corporaVars, soakVars, studyVars>>
    \/ which = "recovery" /\ StudyNext /\ UNCHANGED <<which, vadVars, laneVars, laboratoryVars, publicVars, corporaVars, soakVars, deliveryVars>>

SumSpec == SumInit /\ [][SumNext]_sumVars

ASSUME Bounds == Lane!LaneAssumption /\ Hil!HilAssumption /\ Lab!LabAssumption
              /\ Public!PublicAssumption /\ Built!CorporaAssumption

\* What a lane freezes is better than the shipping stage where it was selected, by the sum of two
\* selections that are not compared with each other, and has lost no more than each allows and one
\* tolerance on a holdout; a build that is confirmed settles faster on most corpora of either judge
\* (agc/ns/bf/vad_stage_lane run, evaluate_agc, confirm_agc).
StageEarned == which = "lane" => Lane!FrozenImproves /\ Lane!LossBounded /\ Lane!ConfirmedFaster
\* Under a marker every member of the archive it names is there, nothing the lock does not pin is ever
\* unpacked, and a corpus is made of what its manifest names, while downloads, removals and builds are
\* cut short and caches, locks and seals change (labctl.py, build_extended_real_corpus.py main).
LabDataKept == which = "lab" => Lab!LabDataKept
\* What the sealed lock and the seal name is what a public corpus is made of and what a hosted cache
\* calls READY, and a candidate is qualified only against the same recordings (verify, bootstrap,
\* compare_report_identity).
PublicDataBound == which = "public" => Public!PublicDataBound
\* A development corpus is of the lock it names and balanced over its noise domains, generated files
\* are all of the generator that is sealed, and payload goes only where it can be rebuilt (build, compact).
CorpusSound == which = "corpora" => Built!CorpusSound
\* The evidence of a soak that did not fail is its own on the route it names, and a laboratory that
\* fails is not put down to the program; a delivery that verifies is of one build of one commit from
\* its resources to its last replay (hil-soak.yml, route_soak; ssc305_delivery.py verify).
BundlesSound == (which = "soak" => Hil!HilSound) /\ (which = "delivery" => Delivery!DeliveryTraced)
\* TESTING.md: "Real HIL evidence remains exact-source SHA-bound".
ExactSource == which = "soak" => Hil!ExactSource
=============================================================================
