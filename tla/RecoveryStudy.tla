---------------------------- MODULE RecoveryStudy ----------------------------
(***************************************************************************)
(* The studies of how fast the echo canceller recovers from a change       *)
(* (validation/tools/aec_*recovery*.py): what is measured on the outputs   *)
(* of a seed's cases, stage prefix by stage prefix, the file a seed        *)
(* leaves, and the aggregate that classifies or confirms over all seeds.   *)
(* A signal is a row of 50 ms halves, each with the energy of the          *)
(* residual, in units of what the recovery limit (the median before the    *)
(* change plus 3.01 dB) allows for one unit of echo, and of the echo.      *)
(* Times are in halves.  One base case stands for those of a corpus; the   *)
(* telemetry and the margins that are only recorded are left out.          *)
(***************************************************************************)
EXTENDS Integers, Sequences, FiniteSets

CONSTANTS None,
          Halves,      \* of the search interval; 50 in the contracts
          HoldLength,  \* halves a recovery must last: an even number; 6 in the contracts
          Energies,    \* <<residual, echo>> of a half
          Stages,      \* stage prefixes in their order: a sequence
          Compared,    \* the stages the confirmation is run on
          FreshSeeds,  \* of every contract: numbers
          MinNonWorse, \* minimum_non_worse_case_profiles
          MinDelta     \* minimum_nonzero_delta_ms, in halves; 1 in the contract

\* What the contracts pin, as far as it matters: a hold is of whole windows, and stages have a boundary.
ASSUME RecoveryAssumption ==
    /\ None \notin Int \cup {"within", "over"}
    /\ Halves \in Nat /\ HoldLength \in Nat \ {0} /\ HoldLength % 2 = 0
    /\ Energies \subseteq Nat \X Nat
    /\ Stages \in Seq(STRING) /\ Len(Stages) >= 2
    /\ IsFiniteSet(Compared) /\ MinDelta \in Nat \ {0}

VARIABLES study,       \* the script whose outputs these are
          items,       \* the file of each seed, or None
          finding      \* what the aggregate wrote, or None
studyVars == <<study, items, finding>>

Failure == -1         \* no time: a window of the case has no echo
Signals == [0 .. Halves - 1 -> Energies]
First(S) == IF S = {} THEN None ELSE CHOOSE i \in S : \A j \in S : i <= j
Last(S) == IF S = {} THEN None ELSE CHOOSE i \in S : \A j \in S : i >= j

(***************************************************************************)
(* One output.                                                             *)
(***************************************************************************)
\* power_ratio_db of a window against the limit; a window without echo has no ratio.
Window(s, i, n) ==
    LET energy(k) == IF n = 1 THEN s[i][k] ELSE s[i][k] + s[i + 1][k] IN
    IF energy(2) = 0 THEN None ELSE IF energy(1) <= energy(2) THEN "within" ELSE "over"
\* window_series of the three generations: windows of 100 ms, of n halves end to end, of n every d.
LatencySeries(s) == [i \in {j \in 0 .. Halves - 2 : j % 2 = 0} |-> Window(s, i, 2)]
GridSeries(s, n) == [i \in {j \in 0 .. Halves - n : j % n = 0} |-> Window(s, i, n)]
GeometrySeries(s, n, d) == [i \in {j \in 0 .. Halves - n : j % d = 0} |-> Window(s, i, n)]
Broken(series) == \E i \in DOMAIN series : series[i] = None
\* The first window from which as many as required hold, or the ValueError.
Holds(series, d, required, i) ==
    \A k \in 0 .. required - 1 : i + k * d \in DOMAIN series /\ series[i + k * d] = "within"
MeasureGeometry(series, d, required) ==
    IF Broken(series) THEN Failure ELSE First({i \in DOMAIN series : Holds(series, d, required, i)})
MeasureGrid(s, n, required) == MeasureGeometry(GridSeries(s, n), n, required)

\* What require_contract pins: <<window, stride, required windows>>, all of 300 ms of coverage.
GeometryContract == [g \in {"100w-100s", "100w-50s", "50w-50s"} |->
    CASE g = "100w-100s" -> <<2, 2, HoldLength \div 2>> [] g = "100w-50s" -> <<2, 1, HoldLength - 1>>
      [] g = "50w-50s" -> <<1, 1, HoldLength>>]
ConfirmationContract == [g \in {"100w-100s", "100w-50s"} |->
    IF g = "100w-100s" THEN <<2, 2, HoldLength \div 2>> ELSE <<2, 1, HoldLength - 1>>]
RebaselineContract == [g \in {"100w-50s"} |-> <<2, 1, HoldLength - 1>>]
ResolutionContract == [g \in {"100ms", "50ms"} |-> IF g = "100ms" THEN <<2, HoldLength \div 2>> ELSE <<1, HoldLength>>]
HoldWindows == HoldLength \div 2

\* analyze_case of each study: the time of a case per geometry.
Measured(s, contract) ==
    [g \in DOMAIN contract |-> LET c == contract[g] IN MeasureGeometry(GeometrySeries(s, c[1], c[2]), c[2], c[3])]
LatencyRow(s) == [g \in {"100w-100s"} |-> MeasureGeometry(LatencySeries(s), 2, HoldWindows)]
StageRow(s) == [g \in {"100w-100s"} |-> MeasureGeometry(LatencySeries(s), 2, HoldWindows)]
VariabilityRow(s) == [g \in {"100w-100s"} |-> MeasureGeometry(LatencySeries(s), 2, HoldWindows)]
ResolutionRow(s) ==
    [g \in {"100ms", "50ms"} |-> MeasureGrid(s, ResolutionContract[g][1], ResolutionContract[g][2])]
GeometryRow(s) == Measured(s, GeometryContract)
ConfirmationRow(s) == Measured(s, ConfirmationContract)
RebaselineRow(s) == Measured(s, RebaselineContract)

Studies == {"latency", "resolution", "geometry", "confirmation", "stages", "rebaseline", "variability",
            "echo", "gain", "sign", "side"}
\* What a study may measure on a case it can measure at all: a case that is broken ends its seed.
Unbroken(rows) == {r \in rows : \A g \in DOMAIN r : r[g] # Failure}
RowsOf == [st \in Studies |-> Unbroken(
    CASE st = "latency" -> {LatencyRow(s) : s \in Signals}
      [] st = "resolution" -> {ResolutionRow(s) : s \in Signals}
      [] st = "geometry" -> {GeometryRow(s) : s \in Signals}
      [] st = "confirmation" -> {ConfirmationRow(s) : s \in Signals}
      [] st \in {"stages", "gain"} -> {StageRow(s) : s \in Signals}
      [] st = "variability" -> {VariabilityRow(s) : s \in Signals}
      [] OTHER -> {RebaselineRow(s) : s \in Signals})]
\* The cases of a seed.  A stage stands for all where the study never relates two of them.
Profiles == CASE study \in {"stages", "rebaseline"} -> {Stages[i] : i \in 1 .. Len(Stages)}
              [] study = "confirmation" -> Compared
              [] study \in {"echo", "gain", "sign"} -> {"RES", "NS"}
              [] study = "side" -> {"AEC", "RES", "NS"}
              [] OTHER -> {"full"}

(***************************************************************************)
(* One seed.                                                               *)
(***************************************************************************)
Minus(b, a) == IF a = None \/ b = None THEN None ELSE b - a
Between(rows, g, from, to) == Minus(rows[to][g], rows[from][g])
Censored(rows, g) == {p \in DOMAIN rows : rows[p][g] = None}
ResolutionSeed(rows) ==
    [rows |-> rows, changed |-> {p \in DOMAIN rows : Minus(rows[p]["50ms"], rows[p]["100ms"]) \notin {None, 0}}]
GeometrySeed(rows) ==
    [rows |-> rows,
     stride |-> [p \in DOMAIN rows |-> Minus(rows[p]["100w-50s"], rows[p]["100w-100s"])],
     integration |-> [p \in DOMAIN rows |-> Minus(rows[p]["50w-50s"], rows[p]["100w-50s"])]]
ConfirmationSeed(rows) ==
    [rows |-> rows, censored |-> [g \in DOMAIN ConfirmationContract |-> Cardinality(Censored(rows, g))]]
StagesSeed(rows) ==
    [rows |-> rows, versusAec |-> [p \in DOMAIN rows |-> Between(rows, "100w-100s", Stages[1], p)]]
RebaselineSeed(rows) ==
    [rows |-> rows, deltas |-> [i \in 1 .. Len(Stages) - 1 |-> Between(rows, "100w-50s", Stages[i], Stages[i + 1])]]
VariabilitySeed(rows) == [rows |-> rows]
\* The single hypotheses: the noise suppressor recovers later than the residual suppressor.
EchoSeed(rows) ==
    LET delta == Between(rows, "100w-50s", "RES", "NS") IN
    [rows |-> rows, delta |-> delta, confirmed |-> delta # None /\ delta >= 1]
\* The gain's is measured as the stages are, on the grid of 100 ms.
GainSeed(rows) ==
    LET delta == Between(rows, "100w-100s", "RES", "NS") IN
    [rows |-> rows, delta |-> delta, confirmed |-> delta # None /\ delta >= 2]
ClassifySign(delta) ==
    IF delta = None THEN "censored" ELSE
    CASE delta >= 1 -> "extension" [] delta <= -1 -> "contraction" [] OTHER -> "neutral"
SignSeed(rows) ==
    LET delta == Between(rows, "100w-50s", "RES", "NS") IN
    [rows |-> rows, delta |-> delta, class |-> ClassifySign(delta)]
SideSeed(rows) ==
    [rows |-> rows, aecToRes |-> Between(rows, "100w-50s", "AEC", "RES"),
     resToNs |-> Between(rows, "100w-50s", "RES", "NS")]
ItemOf(rows) ==
    CASE study = "resolution" -> ResolutionSeed(rows) [] study = "geometry" -> GeometrySeed(rows)
      [] study = "confirmation" -> ConfirmationSeed(rows) [] study = "stages" -> StagesSeed(rows)
      [] study = "rebaseline" -> RebaselineSeed(rows) [] study = "echo" -> EchoSeed(rows)
      [] study = "gain" -> GainSeed(rows) [] study = "sign" -> SignSeed(rows)
      [] study = "side" -> SideSeed(rows) [] OTHER -> VariabilitySeed(rows)

\* The corpus and the canonical report are of the study's cases, and every one passed; the first study
\* only looks whether its cases are in them.
CaseSets == {Profiles, Profiles \cup {"other"}} \cup {Profiles \ {p} : p \in Profiles}
Accepted(cases, reported, passed) ==
    IF study = "latency" THEN Profiles \subseteq cases /\ Profiles \subseteq reported
    ELSE cases = Profiles /\ reported = Profiles /\ passed
RunSeed(seed, cases, reported, passed) ==
    /\ items[seed] = None /\ Accepted(cases, reported, passed)
    /\ \E rows \in [Profiles -> RowsOf[study]] : items' = [items EXCEPT ![seed] = ItemOf(rows)]
    /\ UNCHANGED <<study, finding>>

(***************************************************************************)
(* All seeds.                                                              *)
(***************************************************************************)
Times(p, g) == {items[s].rows[p][g] : s \in FreshSeeds} \ {None}
RangeOrNone(p, g) == Minus(Last(Times(p, g)), First(Times(p, g)))
SumOf(f) == LET add[S \in SUBSET DOMAIN f] ==
                IF S = {} THEN 0 ELSE LET x == CHOOSE x \in S : TRUE IN f[x] + add[S \ {x}]
            IN  add[DOMAIN f]
LatencyAll ==
    [observed |-> {p \in Profiles : \A s \in FreshSeeds : items[s].rows[p]["100w-100s"] # None}]
ResolutionAll ==
    [p \in Profiles |->
        [delta |-> Minus(RangeOrNone(p, "50ms"), RangeOrNone(p, "100ms")),
         changed |-> \E s \in FreshSeeds : p \in items[s].changed]]
GeometryAll ==
    [p \in Profiles |->
        [stride |-> Minus(RangeOrNone(p, "100w-50s"), RangeOrNone(p, "100w-100s")),
         integration |-> Minus(RangeOrNone(p, "50w-50s"), RangeOrNone(p, "100w-50s"))]]
\* Mutant of ConfirmationAll: a recovery that was not seen is left out of the ranges, and that is all.
ConfirmationAllCensored ==
    LET range(g) == [p \in Profiles |-> RangeOrNone(p, g)]
        known == {p \in Profiles : \A g \in DOMAIN ConfirmationContract : range(g)[p] # None}
        nonWorse == {p \in known : range("100w-50s")[p] <= range("100w-100s")[p]}
        total(g) == SumOf([p \in known |-> range(g)[p]])
    IN  [nonWorse |-> Cardinality(nonWorse),
         confirmed |-> Cardinality(nonWorse) >= MinNonWorse /\ total("100w-50s") < total("100w-100s")]
ConfirmationAll ==
    LET range(g) == [p \in Profiles |-> RangeOrNone(p, g)]
        known == {p \in Profiles : \A g \in DOMAIN ConfirmationContract : range(g)[p] # None}
        nonWorse == {p \in known : range("100w-50s")[p] <= range("100w-100s")[p]}
        total(g) == SumOf([p \in known |-> range(g)[p]])
    IN  [nonWorse |-> Cardinality(nonWorse),
         confirmed |-> /\ \A s \in FreshSeeds, g \in DOMAIN ConfirmationContract : items[s].censored[g] = 0
                       /\ Cardinality(nonWorse) >= MinNonWorse /\ total("100w-50s") < total("100w-100s")]
StagesAll ==
    [p \in Profiles |-> [observed |-> \A s \in FreshSeeds : items[s].rows[p]["100w-100s"] # None,
                         versusAec |-> [s \in FreshSeeds |-> items[s].versusAec[p]]]]
ClassifyBoundary(deltas) ==
    IF None \in deltas THEN "variable" ELSE
    CASE \A d \in deltas : d >= MinDelta -> "repeatable_extension"
      [] \A d \in deltas : d <= -MinDelta -> "repeatable_contraction"
      [] deltas = {0} -> "stable_zero"
      [] OTHER -> "variable"
RebaselineAll ==
    [boundaries |-> [i \in 1 .. Len(Stages) - 1 |-> ClassifyBoundary({items[s].deltas[i] : s \in FreshSeeds})],
     fullRange |-> RangeOrNone(Stages[Len(Stages)], "100w-50s")]
VariabilityAll ==
    [p \in Profiles |->
        LET at(t) == First({s \in FreshSeeds : t # None /\ items[s].rows[p]["100w-100s"] = t}) IN
        [range |-> RangeOrNone(p, "100w-100s"),
         fastest |-> at(First(Times(p, "100w-100s"))), slowest |-> at(Last(Times(p, "100w-100s")))]]
EchoAll == [confirmed |-> \A s \in FreshSeeds : items[s].confirmed]
GainAll == [confirmed |-> \A s \in FreshSeeds : items[s].confirmed]
SignAll == [c \in {"extension", "neutral", "contraction", "censored"} |-> {s \in FreshSeeds : items[s].class = c}]
SideAll == [s \in FreshSeeds |-> <<items[s].aecToRes, items[s].resToNs>>]
\* by_seed: the files must be of exactly the fresh seeds.
FreshOnly == \A s \in FreshSeeds : items[s] # None
Aggregate ==
    /\ finding = None /\ FreshOnly
    /\ finding' = CASE study = "latency" -> LatencyAll [] study = "resolution" -> ResolutionAll
                    [] study = "geometry" -> GeometryAll [] study = "confirmation" -> ConfirmationAll
                    [] study = "stages" -> StagesAll [] study = "rebaseline" -> RebaselineAll
                    [] study = "variability" -> VariabilityAll [] study = "echo" -> EchoAll
                    [] study = "gain" -> GainAll [] study = "sign" -> SignAll [] OTHER -> SideAll
    /\ UNCHANGED <<study, items>>

StudyInit == study \in Studies /\ items = [s \in FreshSeeds |-> None] /\ finding = None
StudyNext ==
    \/ \E seed \in FreshSeeds, cases, reported \in CaseSets, passed \in BOOLEAN :
          RunSeed(seed, cases, reported, passed)
    \/ Aggregate
StudySpec == StudyInit /\ [][StudyNext]_studyVars

(***************************************************************************)
(* Properties                                                              *)
(***************************************************************************)
Done == {s \in FreshSeeds : items[s] # None}
NoLater(a, b) == b # None => a # None /\ a <= b   \* a is seen, and no later than b
\* Longer windows at the same stride see every recovery the shorter see, and no later; a finer stride
\* adds none on the coarse grid.  The studies take differences of these times for effects of the window
\* or of the stride; this is what may be of the measurement alone.
GeometriesNested ==
    \A s \in Done :
        /\ study = "geometry" => \A p \in Profiles :
              LET t == items[s].rows[p] IN
              /\ NoLater(t["100w-50s"], t["50w-50s"])
              /\ t["100w-50s"] # None /\ t["100w-50s"] % 2 = 0 => NoLater(t["100w-100s"], t["100w-50s"])
        /\ study = "resolution" => \A p \in Profiles :
              LET t == items[s].rows[p] IN
              t["50ms"] # None /\ t["50ms"] % 2 = 0 => NoLater(t["100ms"], t["50ms"])
\* A confirmed geometry was compared on every seed, and spreads less on some stage.
ConfirmedOnAll ==
    study = "confirmation" /\ finding # None /\ finding.confirmed =>
        /\ \A s \in FreshSeeds, p \in Profiles : \A g \in DOMAIN ConfirmationContract : items[s].rows[p][g] # None
        /\ \E p \in Profiles : RangeOrNone(p, "100w-50s") < RangeOrNone(p, "100w-100s")
\* Boundaries that all extend delay the full pipeline by their sum in every seed, also by more than any
\* seed scatters; boundaries that are stable leave it where it was.
BoundariesTelescope ==
    study = "rebaseline" /\ finding # None =>
        LET whole(s) == Between(items[s].rows, "100w-50s", Stages[1], Stages[Len(Stages)])
            all(c) == \A i \in DOMAIN finding.boundaries : finding.boundaries[i] = c IN
        /\ all("repeatable_extension") => \A s \in FreshSeeds : whole(s) # None /\ whole(s) >= MinDelta * (Len(Stages) - 1)
        /\ all("stable_zero") => \A s \in FreshSeeds : whole(s) = 0
\* Every seed has one sign, a recovery that was not seen none of the three; a seed is an extension where
\* the echo path's confirmation, which measures as the signs are measured, would confirm it.
SignsAgree ==
    study = "sign" /\ finding # None =>
        /\ UNION {finding[c] : c \in DOMAIN finding} = FreshSeeds
        /\ \A c, d \in DOMAIN finding : c # d => finding[c] \cap finding[d] = {}
        /\ \A s \in FreshSeeds :
              /\ s \in finding["extension"] <=> EchoSeed(items[s].rows).confirmed
              /\ s \in finding["censored"] <=> None \in {items[s].rows[p]["100w-50s"] : p \in Profiles}
\* The gain's confirmation asks for 100 ms on a grid of 100 ms: it finds its hypothesis confirmed exactly
\* where every seed saw both recoveries and the noise suppressor's later, by however little.
GainAsksOneStep ==
    study = "gain" /\ finding # None =>
        (finding.confirmed <=> \A s \in FreshSeeds : LET t(p) == items[s].rows[p]["100w-100s"] IN
                                  t("RES") # None /\ t("NS") # None /\ t("RES") < t("NS"))
RecoverySound == GeometriesNested /\ ConfirmedOnAll /\ BoundariesTelescope /\ SignsAgree /\ GainAsksOneStep
=============================================================================
