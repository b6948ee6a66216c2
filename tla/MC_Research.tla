----------------------------- MODULE MC_Research -----------------------------
(***************************************************************************)
(* How a candidate is searched for, measured and qualified, in one run:    *)
(* the validation engine and its authority, the search, the blind          *)
(* qualification and the source authority.  The components share nothing:  *)
(* a behaviour is one of a single component, chosen at the start.          *)
(***************************************************************************)
EXTENDS AcousticValidation, Integers, Sequences, FiniteSets

CONSTANTS All, Runs, Jobs, MayCrash, MaxRuns, MaxFaults, Seeds, Pools, SourceMaxRuns, MaxEdits,
          MaxFailures

VARIABLES which,   \* the component this behaviour is of
          run, disk, results, stage, todo, running, broken, alg, chosen, adjacent, decision, kind,
          contract, listed, parts, runs, evidence, faults, valid, sourceContract, sourcePolicy, lock,
          qualifications, executions, sourceResults, needsContract, edits, failures

Search == INSTANCE CandidateSearch
Blind == INSTANCE BlindQualification
Source == INSTANCE SourceAuthority WITH contract <- sourceContract, policy <- sourcePolicy, results <- sourceResults, MaxRuns <-
        SourceMaxRuns

\* The signals and detector traces a case is measured on.
SomeSignals == {<<1, 0, 1>>, <<1, 2, 0>>, <<0, 1, 2>>}
SomeTraces == {<<0, 0, 0>>, <<1, 0, 1>>}
\* The pool of partitions in either order.
SomePools == {<<1, 2>>, <<2, 1>>}
\* The searches: their strategy, grid, gates, units and what their reports may say.
T(a, l) == [agc |-> a, lim |-> l]
Rep(p, x, y, c1, c2) == [pass |-> p, m |-> [q |-> x, e |-> y], c |-> [c1 |-> c1, c2 |-> c2]]
Same == Rep(TRUE, 1, 1, 1, 1)
Better == Rep(TRUE, 2, 1, 1, 1)
Best == Rep(TRUE, 3, 1, 1, 1)
HurtsCase == Rep(TRUE, 3, 2, 1, 0)
NoMetric == Rep(TRUE, None, 2, 1, 1)
Traded == Rep(TRUE, 2, 0, 1, 1)
Fails == Rep(FALSE, 2, 2, 1, 1)
Gate(cs, lo, hi) == [stat |-> "min", cases |-> cs, min |-> lo, max |-> hi, minCases |-> 1]
Space(st, grid, gates) ==
    [strategy |-> st, baseline |-> T(-20, -2), grid |-> grid, max |-> 4, minScore |-> 1, minUnit |-> 0,
     scope |-> [q |-> All, e |-> All], gates |-> gates, maxRegression |-> 1, maxPareto |-> 2, minUnits |-> 1]
U(i, role, d, sd, tier) == [id |-> i, role |-> role, dataset |-> d, seed |-> sd, corpus |-> i, generated |-> sd, tier |-> tier]
Three == {U("d", "development", "synthetic", 1, "regression"),
          U("v", "validation", "synthetic", 2, "regression"), U("s", "shadow", "pub", 3, "validation-grade")}
Four == Three \cup {U("e", "development", "synthetic", 4, "regression")}
Sets == [synthetic |-> [kind |-> "synthetic", frozen |-> FALSE, selects |-> TRUE, evaluates |-> {"validation", "shadow"}],
         pub |-> [kind |-> "public", frozen |-> TRUE, selects |-> FALSE, evaluates |-> {"validation", "shadow"}],
         rob |-> [kind |-> "public", frozen |-> TRUE, selects |-> FALSE, evaluates |-> {"shadow"}]]
Reg(ts, js) == [sets |-> Sets, terminal |-> ts, terminalJoint |-> js]
R(mode, sp, us, reg, algs) ==
    [mode |-> mode, space |-> sp, units |-> us, registry |-> reg, reuse |-> "none",
     leftover |-> <<>>, algorithms |-> algs,
     devReports |-> CASE mode = "iterate" -> {Same, Better, Best, HurtsCase, NoMetric}
                      [] mode = "research" -> {Same, Better, Fails, NoMetric}
                      [] OTHER -> {Same, Better, Traded},
     holdoutReports |-> {Same, Traded, Fails}]
OneAxis == Space("one-at-a-time", [agc |-> <<-18, -16>>], {Gate(All, 0, None)})
Grid == Space("cartesian", [agc |-> <<-20, -16>>, lim |-> <<-2, -1>>], {})
Pairs == Space("paired", [agc |-> <<-18, -6>>, lim |-> <<-2, -4>>], {})
Small == Space("one-at-a-time", [agc |-> <<-18>>], {Gate({"c1", "c2"}, -1, None)})
Axes == Space("one-at-a-time", [agc |-> <<-18>>, lim |-> <<-1>>], {})
Old == R("iterate", OneAxis, Three, Reg({}, {}), <<"A">>)
Narrow(r) == [r EXCEPT !.devReports = {Same, Better}, !.holdoutReports = {Same}]
MCRuns ==
    {Old, [Old EXCEPT !.leftover = [p \in {[unit |-> "v", role |-> "candidate"]} |-> Best],
                      !.devReports = {Same, Better}],
     [Old EXCEPT !.reuse = "drifted"], [Narrow(Old) EXCEPT !.reuse = "bound"],
     Narrow(R("iterate", Pairs, Three, Reg({}, {}), <<"A">>)),
     Narrow(R("iterate", Axes, Three, Reg({}, {}), <<"A">>)),
     Narrow(R("iterate", Grid, Three, Reg({}, {}), <<"A">>)),
     [R("research", Small, Four, Reg({T(-18, -2)}, {}), <<"A">>) EXCEPT !.holdoutReports = {Same}],
     R("research", [Small EXCEPT !.gates = {}], Four, Reg({}, {}), <<"A">>),
     R("research", [OneAxis EXCEPT !.minScore = 0], Three, Reg({}, {}), <<"A">>),
     [Narrow(R("joint", [Small EXCEPT !.gates = {[Gate({"c1", "c2"}, None, 0) EXCEPT !.minCases = 2]}],
               Four, Reg({}, {}), <<"A", "B">>)) EXCEPT !.devReports = {Same}],
     [R("joint", Small, Four, Reg({}, {}), <<"A", "B">>)
        EXCEPT !.devReports = {Same, Better, Fails}, !.holdoutReports = {Same}],
     [R("joint", Axes, Four, Reg({T(-18, -2)}, {}), <<"A", "B">>)
        EXCEPT !.devReports = {Same, Fails}, !.holdoutReports = {Same}],
     R("joint", Small, Four, Reg({}, {<<"B", T(-18, -2)>>}), <<"A", "B">>)}

validationVars == <<corpus, policy, spec, done, pc, report>>
searchVars == <<run, disk, results, stage, todo, running, broken, alg, chosen, adjacent, decision>>
blindVars == <<kind, contract, listed, parts, runs, evidence, faults>>
sourceVars == <<valid, sourceContract, sourcePolicy, lock, qualifications, executions, sourceResults,
                needsContract, edits, failures>>

sumVars == <<which, validationVars, searchVars, blindVars, sourceVars>>

\* A component that is not the chosen one stays as it is.
SumInit ==
    /\ which \in {"validation", "search", "blind", "source"}
    /\ \/ which = "validation" /\ Init
       \/ /\ which # "validation"
          /\ corpus = 0 /\ policy = 0 /\ spec = 0 /\ done = 0 /\ pc = 0 /\ report = 0
    /\ \/ which = "search" /\ Search!Init
       \/ /\ which # "search"
          /\ run = 0 /\ disk = 0 /\ results = 0 /\ stage = "idle" /\ todo = 0 /\ running = {}
          /\ broken = 0 /\ alg = 0 /\ chosen = 0 /\ adjacent = 0 /\ decision = 0
    /\ \/ which = "blind" /\ Blind!Init
       \/ /\ which # "blind"
          /\ kind = 0 /\ contract = 0 /\ listed = 0 /\ parts = 0 /\ runs = 0 /\ evidence = 0
          /\ faults = 0
    /\ \/ which = "source" /\ Source!Init
       \/ /\ which # "source"
          /\ valid = 0 /\ sourceContract = 0 /\ sourcePolicy = 0 /\ lock = 0 /\ qualifications = 0
          /\ executions = 0 /\ sourceResults = 0 /\ needsContract = 0 /\ edits = 0 /\ failures = 0

SumNext ==
    \/ which = "validation" /\ Next /\ UNCHANGED <<which, searchVars, blindVars, sourceVars>>
    \/ which = "search" /\ Search!Next /\ UNCHANGED <<which, validationVars, blindVars, sourceVars>>
    \/ which = "blind" /\ Blind!Next /\ UNCHANGED <<which, validationVars, searchVars, sourceVars>>
    \/ which = "source" /\ Source!Next /\ UNCHANGED <<which, validationVars, searchVars, blindVars>>

SumSpec ==
    /\ SumInit /\ [][SumNext]_sumVars
    /\ WF_searchVars(which = "search" /\ Search!Drive)

ASSUME SearchRuns == Search!SearchAssumption
ASSUME BlindBounds == Blind!BlindAssumption
ASSUME SourcePools == Source!SourceAssumption

\* A PASS is a statement about the corpus as the authority sees it, in a report only a run that
\* measured every case can write; and the percentile that decides is the one that is shown.
ValidationSound == which = "validation" => PassEarned /\ PercentilesAgree
\* A candidate is handed on only over evidence that stands by itself, the development corpora choose
\* what no other dominates within tolerance, and its neighbours were really measured.
SearchSound == which = "search" => Search!FreezeEarned /\ Search!SelectionSound /\ Search!NeighboursAccounted
                                    /\ Search!CurriculumSound
\* Every search ends, in a decision or an abort, whatever fails on the way, unless one of its measuring
\* processes never comes back: nothing ends it then.
EverySearchEnds == which = "search" => Search!SearchEnds
\* A blind verdict stands on one partition, opened once, and on reports of both sides of it.
VerdictEarned == which = "blind" => Blind!TypeOK /\ Blind!OnePartition /\ Blind!VerdictEarned
\* A source candidate runs only on the first baseline-valid partitions of its own contract's pool, and
\* where its job waits for the one-shot guard, in one dispatch at most.
CandidateOnQualified == which = "source" => Source!CandidateOnQualified /\ Source!CandidateInOneRun
=============================================================================
