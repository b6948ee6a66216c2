------------------------------- MODULE StageLane -------------------------------
(***************************************************************************)
(* The lanes which look for a better AGC, noise suppressor, beamformer or  *)
(* VAD: alternatives are ranked against the shipping stage on two          *)
(* development corpora, the best one that hurts nothing is selected, AGC   *)
(* and NS then tune it, and a validation and a shadow corpus may only      *)
(* reject it.  A selected AGC is built, and its build evaluated and        *)
(* confirmed.  A report is [pass, level, settle]: the verdict of its       *)
(* cases, one metric to be raised, and one to be lowered, which an AGC may *)
(* not have.  Scores and means are summed over the two corpora.            *)
(***************************************************************************)
EXTENDS Integers, FiniteSets, FiniteSetsExt

CONSTANTS None, Never,           \* no value; what the AGC lane takes it for, 1e6
          Tolerance,             \* what may be lost by a corpus
          MinScore, MinTuning,   \* what must be gained by a corpus: by an algorithm, by its tuning
          MinFaster,             \* min_median_hot_to_low_improvement_frames
          Alternatives,          \* bound: the algorithms that are tried
          DevReports, HoldoutReports, BuildReports  \* bounds: what a corpus may show
\* A stage that never settles is reported as one that settles at once: the AGC lane takes both for
\* the same, and no other lane has such a stage.
AnyReport == [pass : BOOLEAN, level : Int, settle : Nat]
Settling == Nat \cup {None}
AnyBuild == [basePass : BOOLEAN, baseSettle : Settling, pass : BOOLEAN, settle : Settling, worse : BOOLEAN,
             conforms : BOOLEAN, wholePass : BOOLEAN, baseWhole : Settling, whole : Settling]
LaneAssumption ==
    /\ None \notin Nat /\ Never \in Nat /\ Tolerance \in Nat /\ MinScore \in Nat /\ MinTuning \in Nat
    /\ MinFaster \in Nat
    /\ IsFiniteSet(Alternatives)
    /\ DevReports \subseteq AnyReport /\ HoldoutReports \subseteq AnyReport /\ BuildReports \subseteq AnyBuild

VARIABLES lane, stage,
          report,     \* what was measured: [algorithm, tuning, corpus] -> report
          algorithm, tuning,  \* the selection
          decision,
          build       \* the AGC's build: corpus -> what its judges see there
vars == <<lane, stage, report, algorithm, tuning, decision, build>>

Lanes == {"agc", "ns", "bf", "vad", "vad2"}
TwoStage == lane \in {"agc", "ns"}
Algorithms == {"shipping"} \cup Alternatives
Tunings == {"baseline", "tuned"}
Dev == {"d1", "d2"}
Holdouts == {"validation", "shadow"}
Key(a, t, c) == [algorithm |-> a, tuning |-> t, corpus |-> c]
Report(a, t, c) == report[Key(a, t, c)]
Measured(a, t, c) == Key(a, t, c) \in DOMAIN report

\* evaluate_corpus: "settle or 1e6", and a stage that settles at once has settled after 0 frames.
Settle(r) == IF lane = "agc" /\ r.settle \in {None, 0} THEN Never ELSE r.settle
Level(r) == r.level
Score(b, c) == Level(c) - Level(b) + Settle(b) - Settle(c)
\* The beamformer's lane scores its hard-fault metrics and does not gate them.
Lost(lv, st, n) == lv > n * Tolerance \/ (lane # "bf" /\ st > n * Tolerance)
Regressed(b, c) == \/ lane # "bf" /\ ~c.pass
                   \/ Lost(Level(b) - Level(c), Settle(c) - Settle(b), 1)
OverDev(F(_)) == F("d1") + F("d2")
TotalScore(b, c) == OverDev(LAMBDA d : Score(b[d], c[d]))
LevelLoss(b, c) == OverDev(LAMBDA d : Level(b[d]) - Level(c[d]))
SettleLoss(b, c) == OverDev(LAMBDA d : Settle(c[d]) - Settle(b[d]))
\* AGC and BF combine the corpora before they compare, the others compare on each.
TotalRegressed(b, c) ==
    IF lane \in {"agc", "bf"}
    THEN \/ lane = "agc" /\ \E d \in Dev : ~c[d].pass
         \/ Lost(LevelLoss(b, c), SettleLoss(b, c), 2)
    ELSE \E d \in Dev : Regressed(b[d], c[d])
OnDev(a, t) == [d \in Dev |-> Report(a, t, d)]

Init == /\ lane \in Lanes /\ stage = "screen" /\ report = <<>>
        /\ algorithm = "shipping" /\ tuning = "baseline" /\ decision = "none" /\ build = <<>>

\* One alternative on the two development corpora, or the shipping or the selected stage on a holdout.
Evaluate(a, t, cs, rs) ==
    /\ \A c \in cs : ~Measured(a, t, c)
    /\ \E new \in [cs -> rs] :
          report' = [k \in DOMAIN report \cup {Key(a, t, c) : c \in cs} |->
                        IF k \in DOMAIN report THEN report[k] ELSE new[k.corpus]]
    /\ UNCHANGED <<lane, stage, algorithm, tuning, decision, build>>

Screen(a) ==
    /\ stage = "screen" /\ (a # "shipping" => \A c \in Dev : Measured("shipping", "baseline", c))
    /\ Evaluate(a, "baseline", Dev, DevReports)
\* Mutant of Eligible: whatever hurts nothing is eligible.
EligibleUnscored(b, c, min) == ~TotalRegressed(b, c)
Eligible(b, c, min) == ~TotalRegressed(b, c) /\ TotalScore(b, c) >= 2 * min
\* The best of the eligible alternatives; ties are broken by name.
SelectAlgorithm ==
    /\ stage = "screen" /\ \A a \in Algorithms, d \in Dev : Measured(a, "baseline", d)
    /\ LET base == OnDev("shipping", "baseline")
           fit == {a \in Algorithms \ {"shipping"} : Eligible(base, OnDev(a, "baseline"), MinScore)}
       IN  algorithm' = IF fit = {} THEN "shipping"
                        ELSE CHOOSE a \in fit : \A x \in fit : TotalScore(base, OnDev(a, "baseline"))
                                                          >= TotalScore(base, OnDev(x, "baseline"))
    /\ stage' = IF TwoStage THEN "tune" ELSE "holdout"
    /\ UNCHANGED <<lane, report, tuning, decision, build>>

Tune == stage = "tune" /\ Evaluate(algorithm, "tuned", Dev, DevReports)
\* The tuning is compared with the selected algorithm, no longer with the shipping one.
SelectTuning ==
    /\ stage = "tune" /\ \A d \in Dev : Measured(algorithm, "tuned", d)
    /\ tuning' = IF Eligible(OnDev(algorithm, "baseline"), OnDev(algorithm, "tuned"), MinTuning)
                 THEN "tuned" ELSE "baseline"
    /\ stage' = "holdout"
    /\ UNCHANGED <<lane, report, algorithm, decision, build>>

Selected == <<algorithm, tuning>>
Shipping == <<"shipping", "baseline">>
Hold(x) ==
    /\ stage = "holdout" /\ (x # Shipping => \A c \in Holdouts : Measured("shipping", "baseline", c))
    /\ Evaluate(x[1], x[2], Holdouts, HoldoutReports)
OnHoldouts(a, t) == [c \in Holdouts |-> Report(a, t, c)]
\* Mutant of Harmed: a loss on one holdout is made up for on the other.
HarmedOnMean(b, c) == \/ \E d \in Holdouts : lane # "bf" /\ ~c[d].pass
                      \/ Lost(MapThenSumSet(LAMBDA d : Level(b[d]) - Level(c[d]), Holdouts),
                              MapThenSumSet(LAMBDA d : Settle(c[d]) - Settle(b[d]), Holdouts), 2)
Harmed(b, c) == \E d \in Holdouts : Regressed(b[d], c[d])
Decide ==
    /\ stage = "holdout"
    /\ \A c \in Holdouts : Measured("shipping", "baseline", c) /\ Measured(algorithm, tuning, c)
    /\ decision' = IF Selected = Shipping THEN "KEEP_BASELINE"
                   ELSE IF Harmed(OnHoldouts("shipping", "baseline"), OnHoldouts(algorithm, tuning))
                   THEN "REJECT_CANDIDATE" ELSE "FROZEN"
    /\ stage' = "decided"
    /\ UNCHANGED <<lane, report, algorithm, tuning, build>>
\* There is no result: a validation process fails, a corpus of the second VAD lane or of the
\* confirmation has not the seed it should have, the beamformer's emulation has left the shipping build.
ProcessFails == lane = "ns" /\ stage \in {"screen", "tune", "holdout"}
SeedDrift == lane = "vad2" /\ report = <<>>
FidelityDrift == lane = "bf" /\ stage = "holdout" /\ \A c \in Holdouts : Measured(algorithm, tuning, c)
ConfirmationDrift == stage = "confirm"
Abort ==
    /\ ProcessFails \/ SeedDrift \/ FidelityDrift \/ ConfirmationDrift
    /\ stage' = "error" /\ UNCHANGED <<lane, report, algorithm, tuning, decision, build>>

(***************************************************************************)
(* The AGC that was selected, built: evaluated on three fresh corpora and  *)
(* confirmed on others, at the tuning it ships with whatever the lane      *)
(* tuned.  The confirmation also compares whole pipelines.                 *)
(***************************************************************************)
Fresh == {"e1", "e2", "e3"}
Independent == {"c1", "c2", "c3"}
StartBuild ==
    /\ stage = "decided" /\ lane = "agc" /\ decision = "FROZEN" /\ algorithm # "shipping"
    /\ stage' = "evaluate" /\ report' = <<>> /\ tuning' = "baseline"
    /\ UNCHANGED <<lane, algorithm, decision, build>>
\* A baseline that fails, or a stage that never settles, is an error.
Broken(b) == ~b.basePass \/ b.baseSettle = None \/ b.settle = None
Probe(cs) ==
    \E c \in cs \ DOMAIN build, b \in BuildReports :
        /\ build' = [d \in DOMAIN build \cup {c} |-> IF d = c THEN b ELSE build[d]]
        /\ stage' = IF Broken(b) THEN "error" ELSE stage
        /\ UNCHANGED <<lane, report, algorithm, tuning, decision>>
Gain(c) == build[c].baseSettle - build[c].settle
\* Mutant of MedianGain: the mean of the three.
MeanGain(cs) == MapThenSumSet(Gain, cs) \div 3
MedianGain(cs) ==
    LET middle == CHOOSE c \in cs : /\ 2 * Cardinality({d \in cs : Gain(d) <= Gain(c)}) > 3
                                    /\ 2 * Cardinality({d \in cs : Gain(d) >= Gain(c)}) > 3
    IN  Gain(middle)
\* compare_full_pipeline: what neither report has is not compared, what one lacks is a violation.
Missing(b) == (b.baseWhole = None) # (b.whole = None)
WholeLost(b) == ~b.wholePass \/ Missing(b)
                \/ (b.baseWhole # None /\ b.whole # None /\ b.baseWhole - b.whole > Tolerance)
Local(b) == b.pass /\ ~b.worse
JudgeBuild ==
    /\ stage = "evaluate" /\ Fresh \subseteq DOMAIN build
    /\ stage' = IF /\ \A c \in Fresh : Local(build[c]) /\ build[c].conforms
                   /\ MedianGain(Fresh) >= MinFaster
                THEN "confirm" ELSE "rejected"
    /\ UNCHANGED <<lane, report, algorithm, tuning, decision, build>>
ConfirmBuild ==
    /\ stage = "confirm" /\ Independent \subseteq DOMAIN build
    /\ stage' = IF /\ \A c \in Independent : Local(build[c]) /\ ~WholeLost(build[c])
                   /\ MedianGain(Independent) >= MinFaster
                THEN "confirmed" ELSE "rejected"
    /\ UNCHANGED <<lane, report, algorithm, tuning, decision, build>>

Next ==
    \/ \E a \in Algorithms : Screen(a)
    \/ SelectAlgorithm \/ Tune \/ SelectTuning
    \/ Hold(Shipping) \/ Hold(Selected) \/ Decide \/ Abort
    \/ StartBuild \/ (stage = "evaluate" /\ Probe(Fresh)) \/ (stage = "confirm" /\ Probe(Independent))
    \/ JudgeBuild \/ ConfirmBuild
Spec == Init /\ [][Next]_vars

(***************************************************************************)
(* Properties                                                              *)
(***************************************************************************)
Frozen == stage = "decided" /\ decision = "FROZEN"
Final == OnDev(algorithm, tuning)
Base == OnDev("shipping", "baseline")
Family == OnDev(algorithm, "baseline")

\* What is frozen is better than the shipping stage where it was selected, by the threshold of each
\* selection that changed it, although its tuning was only compared with its own algorithm: the two
\* scores add up.  Where a stage to beat settled at
\* once the AGC lane knows nothing, for it takes 0 frames for never.
Gained(b, c) == OverDev(LAMBDA d : Level(c[d]) - Level(b[d]) + b[d].settle - c[d].settle)
AtOnce(r) == \E d \in Dev : r[d].settle \in {0, None}
Asked == (IF algorithm = "shipping" THEN 0 ELSE MinScore) + (IF tuning = "baseline" THEN 0 ELSE MinTuning)
FrozenImproves == Frozen => \/ lane = "agc" /\ (AtOnce(Base) \/ AtOnce(Family) \/ AtOnce(Final))
                            \/ Gained(Base, Final) >= 2 * Asked

\* What is frozen has lost no more than the tolerance by each of its selections: of the mean where the
\* lane compares means, on every corpus where it compares each; and on a holdout, whose base is the
\* shipping stage, no more than one tolerance in all.
Steps == IF TwoStage THEN 2 ELSE 1
LossBounded ==
    Frozen =>
      /\ IF lane \in {"agc", "bf"} THEN LevelLoss(Base, Final) <= 2 * Steps * Tolerance
         ELSE \A d \in Dev : Level(Base[d]) - Level(Final[d]) <= Steps * Tolerance
      /\ \A c \in Holdouts : LET b == Report("shipping", "baseline", c) r == Report(algorithm, tuning, c)
                             IN  (lane # "bf" => r.pass) /\ Level(b) - Level(r) <= Tolerance

\* A confirmed build was faster, by what was asked, on most of the corpora of either judge, and no
\* metric of the whole pipeline was lost in one of the two reports.
ConfirmedFaster ==
    stage = "confirmed" =>
      /\ \A cs \in {Fresh, Independent} :
            Cardinality({c \in cs : build[c].baseSettle - build[c].settle >= MinFaster}) >= 2
      /\ \A c \in Independent : (build[c].baseWhole = None) = (build[c].whole = None)
=============================================================================
