------------------------ MODULE AcousticValidation ------------------------
(***************************************************************************)
(* One acoustic validation run: run_validation.py, which owns what a tier  *)
(* may contain, over run_validation_engine.py, which invokes the processor *)
(* case by case, measures, and judges cases and corpus.  Samples, frames   *)
(* and values are small integers, a fraction is <<numerator, denominator>> *)
(* and a decibel value is an integer.                                      *)
(***************************************************************************)
EXTENDS Integers, Sequences, FiniteSets

CONSTANTS None,      \* no value
          MaxCases,  \* bound: cases of a corpus
          Signals,   \* bound: what clean and microphone audio may be
          Traces,    \* bound: what voice labels and decisions may be
          Values,    \* bound: improvements a processor may reach
          MinSpan,   \* 16 samples: a shorter span is not measured
          Radius     \* the 3 ms an alignment may move

ASSUME BoundAssumption ==
    /\ MaxCases \in Nat \ {0} /\ MinSpan \in Nat \ {0} /\ Radius \in Nat
    /\ Signals \subseteq Seq(Int) /\ Traces \subseteq Seq({0, 1})
    /\ Values \subseteq Int /\ None \notin Values

VARIABLES corpus, policy, spec, \* what the run is given; spec: the authority on its tier
          done,                 \* results of the cases evaluated so far
          pc, report

vars == <<corpus, policy, spec, done, pc, report>>

Least(S) == CHOOSE x \in S : \A y \in S : x <= y
\* sorted() of Python.
Sorted(s) ==
    LET order == CHOOSE p \in [1 .. Len(s) -> 1 .. Len(s)] :
                    /\ \A i, j \in 1 .. Len(s) : i # j => p[i] # p[j]
                    /\ \A i, j \in 1 .. Len(s) : i <= j => s[p[i]] <= s[p[j]]
    IN  [i \in 1 .. Len(s) |-> s[order[i]]]
\* The members of a sequence at the places that are kept, in their order.
Pick(s, kept) ==
    LET upTo[i \in 0 .. Len(s)] ==
            IF i = 0 THEN <<>> ELSE IF i \in kept THEN Append(upTo[i - 1], s[i]) ELSE upTo[i - 1]
    IN  upTo[Len(s)]

(***************************************************************************)
(* Measuring one case                                                      *)
(***************************************************************************)
\* The span two signals share at a lag: where it starts in each, and its length.
SpanAt(ref, est, lag) ==
    LET r == IF lag >= 0 THEN lag ELSE 0
        e == IF lag >= 0 THEN 0 ELSE -lag
    IN  [r |-> r, e |-> e, n |-> Least({Len(ref) - r, Len(est) - e})]
SumOver(n, F(_)) ==
    LET sum[i \in 0 .. n] == IF i = 0 THEN 0 ELSE sum[i - 1] + F(i)
    IN  IF n <= 0 THEN 0 ELSE sum[n]
\* normalized_corr, squared: 0 for a span that is too short or silent.
CorrSquared(ref, est, lag) ==
    LET s == SpanAt(ref, est, lag)
        xy == SumOver(s.n, LAMBDA i : ref[s.r + i] * est[s.e + i])
        xx == SumOver(s.n, LAMBDA i : ref[s.r + i] * ref[s.r + i])
        yy == SumOver(s.n, LAMBDA i : est[s.e + i] * est[s.e + i])
    IN  IF s.n < MinSpan \/ xx = 0 \/ yy = 0 THEN <<0, 1>> ELSE <<xy * xy, xx * yy>>
Below(a, b) == a[1] * b[2] < b[1] * a[2]
\* The best lag around the delay the processor declares, the first of equals.
AlignedSpan(ref, est, delay) ==
    LET lags == -delay - Radius .. -delay + Radius
        best == {l \in lags : \A m \in lags : ~Below(CorrSquared(ref, est, l), CorrSquared(ref, est, m))}
    IN  SpanAt(ref, est, Least(best))
SpanIdentical(ref, est, s) ==
    s.n >= MinSpan /\ \A i \in 1 .. s.n : ref[s.r + i] = est[s.e + i]

\* Precision and recall are 1 when nothing was, or was to be, found.
VadF1(labels, trace) ==
    LET n  == Least({Len(labels), Len(trace)})
        Count(l, t) == Cardinality({i \in 1 .. n : labels[i] = l /\ trace[i] = t})
        tp == Count(1, 1)
        p  == IF tp + Count(0, 1) = 0 THEN <<1, 1>> ELSE <<tp, tp + Count(0, 1)>>
        r  == IF tp + Count(1, 0) = 0 THEN <<1, 1>> ELSE <<tp, tp + Count(1, 0)>>
    IN  IF n = 0 THEN None
        ELSE IF p[1] = 0 /\ r[1] = 0 THEN <<0, 1>>
        ELSE <<2 * p[1] * r[1], p[1] * r[2] + r[1] * p[2]>>

\* Frames whose neighbours are labelled alike and whose output, delayed, is there.
QuietFrames(labels, level, frames, delay) ==
    {i \in 2 .. Len(labels) - 1 :
        /\ \A j \in i - 1 .. i + 1 : labels[j] = level
        /\ i + delay >= 1 /\ i <= frames /\ i + delay <= frames}

\* evaluate_case_runtime, over every input the bounds give.
Measure(clean, mic, labels, trace, value, delay) ==
    LET span == AlignedSpan(clean, mic, 0)
    IN  [improvement |-> IF span.n < MinSpan THEN None ELSE value,
         identical |-> SpanIdentical(clean, mic, span),
         vad_f1 |-> VadF1(labels, trace),
         noise_frames |-> Cardinality(QuietFrames(labels, 0, Len(mic), delay))]
Measurements ==
    {Measure(clean, mic, labels, trace, value, delay) :
        clean \in Signals, mic \in Signals, labels \in Traces, trace \in Traces,
        value \in Values, delay \in {0, 1}}

\* threshold_violations: a value that is missing breaks its threshold.
Breaks(m, gate, limit) ==
    CASE gate = "min_vad_f1" -> m.vad_f1 = None \/ Below(m.vad_f1, <<limit, 2>>)
      [] gate = "min_near_si_sdr_improvement_db" -> m.improvement = None \/ m.improvement < limit
      [] gate = "min_noise_only_attenuation_db" -> m.noise_frames = 0

(***************************************************************************)
(* Judging the corpus                                                      *)
(***************************************************************************)
\* metric_values: the improvement of an input that is the clean signal says nothing.
Improvements(results) ==
    LET applicable == Pick(results, {i \in DOMAIN results : results[i].improvement # None /\ ~results[i].identical})
    IN  [i \in DOMAIN applicable |-> applicable[i].improvement]
\* percentile_of, in tenths of the value; quantile in tenths too.
\* Mutant of Percentile: the lower neighbour, not interpolated.
LowerNeighbour(values, quantile) ==
    IF values = <<>> THEN None
    ELSE 10 * Sorted(values)[((quantile * (Len(values) - 1)) \div 10) + 1]
Percentile(values, quantile) ==
    LET ordered == Sorted(values)
        at   == quantile * (Len(values) - 1)
        lo   == at \div 10
        frac == at % 10
    IN  IF values = <<>> THEN None
        ELSE IF frac = 0 THEN 10 * ordered[lo + 1]
        ELSE ordered[lo + 1] * (10 - frac) + ordered[lo + 2] * frac
\* metric_distribution has the same percentile written a second time.
Distribution(values) ==
    LET ordered == Sorted(values)
        n == Len(values)
        at == n - 1
        lower == at \div 10
        upper == IF at % 10 = 0 THEN lower ELSE lower + 1
    IN  [min |-> ordered[1], max |-> ordered[n],
         p10 |-> IF n = 1 THEN 10 * ordered[1]
                 ELSE 10 * ordered[lower + 1]
                        + (ordered[upper + 1] - ordered[lower + 1]) * (at - 10 * lower)]

InScenario(results, s) == Pick(results, {i \in DOMAIN results : results[i].scenario = s})
Passed(results) == Pick(results, {i \in DOMAIN results : results[i].passed})

\* What the engine holds against a corpus; the tier rules among it are its own.
EngineViolations(results) ==
    LET p10 == Percentile(Improvements(results), 1)
    IN  {g \in {"allowed_tiers", "minimum_cases", "sealed_data", "no_dev_cases_in_validation_grade",
                "blind_key_fingerprint", "required_scenarios", "minimum_pass_rate_by_scenario",
                "min_p10_near_si_sdr_improvement_db"} :
            CASE g = "allowed_tiers" -> ~policy.allowed
              [] g = "minimum_cases" -> Len(results) < policy.minimum
              [] g = "sealed_data" -> corpus.tier # "regression" /\ ~corpus.sealed
              [] g = "no_dev_cases_in_validation_grade" ->
                    corpus.tier # "regression" /\ \E i \in DOMAIN results : results[i].split = "dev"
              [] g = "blind_key_fingerprint" -> corpus.tier = "validation-grade-blind" /\ ~corpus.key
              [] g = "required_scenarios" ->
                    \E s \in policy.scenarios : InScenario(results, s) = <<>>
              [] g = "minimum_pass_rate_by_scenario" ->
                    \E s \in policy.scenarios :
                        Len(Passed(InScenario(results, s))) # Len(InScenario(results, s))
              [] OTHER -> policy.aggregate # None /\ (p10 = None \/ p10 < 10 * policy.aggregate)}
AuthorityGates ==
    {"allowed_tiers", "sealed_data", "no_dev_cases_in_validation_grade", "blind_key_fingerprint"}

\* Mutant of PolicyViolations: what the engine makes of the tier's name stands.
EngineDecides(results) == EngineViolations(results)
\* policy_violations of the entry point puts the authority's rules in their place.
PolicyViolations(results) ==
    (EngineViolations(results) \ AuthorityGates) \cup
    {g \in {"allowed_tiers", "sealed_data", "dev_split_not_allowed", "blind_key_fingerprint"} :
        CASE g = "allowed_tiers" -> ~policy.allowed
          [] g = "sealed_data" -> spec.sealed /\ ~corpus.sealed
          [] g = "dev_split_not_allowed" ->
                ~spec.dev /\ \E i \in DOMAIN results : results[i].split = "dev"
          [] OTHER -> spec.key /\ ~corpus.key}

\* validate_authority on the entry of a tier.
ValidSpec(s) == s.blind = s.key /\ (s.blind => ~s.dev)

(***************************************************************************)
(* The run                                                                 *)
(***************************************************************************)
NoReport == [result |-> "none", gates |-> {}, p10 |-> None, shown |-> {}]

Init ==
    /\ corpus \in [tier : {"regression", "validation-grade-blind"}, sealed : BOOLEAN,
                   key : BOOLEAN, cases : 1 .. MaxCases]
    /\ policy \in [allowed : BOOLEAN, minimum : {MaxCases}, scenarios : {{}, {"echo"}},
                   aggregate : {None, 1}]
    /\ spec \in {s \in [sealed : BOOLEAN, dev : BOOLEAN, key : BOOLEAN, blind : BOOLEAN] : ValidSpec(s)}
    /\ done = <<>> /\ pc = "evaluate" /\ report = NoReport

\* The processor ran on the case: what it put out is measured and held to its thresholds.
Evaluate ==
    /\ pc = "evaluate" /\ Len(done) < corpus.cases
    /\ \E m \in Measurements, split \in {"dev", "validation"}, scenario \in {"echo", "noise"},
          gate \in {"min_vad_f1", "min_near_si_sdr_improvement_db", "min_noise_only_attenuation_db"} :
          done' = Append(done, [split |-> split, scenario |-> scenario,
                                improvement |-> m.improvement, identical |-> m.identical,
                                passed |-> ~Breaks(m, gate, 1)])
    /\ UNCHANGED <<corpus, policy, spec, pc, report>>
\* The processor exits with an error, or its output cannot be read: there is no report.
ProcessorFails ==
    /\ pc = "evaluate" /\ Len(done) < corpus.cases
    /\ pc' = "failed" /\ UNCHANGED <<corpus, policy, spec, done, report>>

\* The report of a blind tier lists its cases without their metrics; but the violations
\* of a case come with the value that was measured.
WriteReport ==
    /\ pc = "evaluate" /\ Len(done) = corpus.cases
    /\ LET gates == PolicyViolations(done)
           failing == {i \in DOMAIN done : ~done[i].passed}
       IN  report' = [result |-> IF failing = {} /\ gates = {} THEN "PASS" ELSE "FAIL",
                      gates |-> gates, p10 |-> Percentile(Improvements(done), 1),
                      shown |-> IF spec.blind THEN failing ELSE DOMAIN done]
    /\ pc' = "done" /\ UNCHANGED <<corpus, policy, spec, done>>

Next == Evaluate \/ ProcessorFails \/ WriteReport

Spec == Init /\ [][Next]_vars

(***************************************************************************)
(* Properties                                                              *)
(***************************************************************************)
\* A PASS is a statement about the corpus as the authority sees it, in a report only a run
\* that measured every case can write: every case within its thresholds, the data sealed,
\* keyed and split as its tier demands (whatever the engine thinks of the tier's name), no
\* required scenario empty, and the aggregate, taken over improvements that mean anything,
\* there and reached.
PassEarned ==
    report.result = "PASS" =>
        /\ Len(done) = corpus.cases /\ Len(done) >= policy.minimum
        /\ \A i \in DOMAIN done : done[i].passed /\ (done[i].split = "dev" => spec.dev)
        /\ policy.allowed
        /\ spec.sealed => corpus.sealed
        /\ spec.key => corpus.key
        /\ policy.scenarios \subseteq {done[i].scenario : i \in DOMAIN done}
        /\ policy.aggregate # None =>
              \E i \in DOMAIN done :
                  ~done[i].identical /\ done[i].improvement # None
                  /\ done[i].improvement >= policy.aggregate

\* The percentile that decides and the one that is shown per scenario, written twice in the
\* engine, are one value, and it lies among the values it stands for.
PercentilesAgree ==
    (report # NoReport /\ Improvements(done) # <<>>) =>
        LET d == Distribution(Improvements(done))
        IN  report.p10 = d.p10 /\ 10 * d.min <= d.p10 /\ d.p10 <= 10 * d.max

\* validation/RUNNER.md:146: "Blind reports expose aggregate results while suppressing
\* per-case metrics for the blind partition."
BlindSuppressed == (report # NoReport /\ spec.blind) => report.shown = {}
=============================================================================
