-------------------------- MODULE CandidateSearch --------------------------
(***************************************************************************)
(* The search for a tuning candidate, in its three forms: the acoustic     *)
(* iteration (tuning_iteration.py over tuning_iteration_engine.py), the    *)
(* research optimizer (research_optimizer_v3.py) and the joint optimizer   *)
(* that screens algorithms first (research_joint_optimizer.py).  Every     *)
(* candidate is evaluated on the development units by a pool of workers,   *)
(* one is selected, and only that one meets the holdouts.  Two coupled     *)
(* tuning keys stand for the four; every objective metric is to be raised, *)
(* weights and scales are 1; a report is [pass, m, c]: its verdict, its    *)
(* summary metrics and one metric of its cases.                            *)
(***************************************************************************)
EXTENDS Integers, Sequences, FiniteSets, FiniteSetsExt, Functions

CONSTANTS None, All,   \* no value; a scope without limits
          Runs,        \* what a run may be given: mode, search space, units, registry,
                       \* leftovers, and as a bound what its evaluations may report
          Jobs,        \* workers of the development pool
          MayCrash     \* whether a validation process may die without a report

\* What a run is: two keys to tune around a baseline, finitely many units, metrics and gates, reports
\* of one form; the iteration has one unit of each role, and it alone takes baseline reports over.
ReportOK(r, p) == p.pass \in BOOLEAN /\ p.m \in [DOMAIN r.space.scope -> Int \cup {None}]
RunOK(r) ==
    /\ r.mode \in {"iterate", "research", "joint"}
    /\ r.space.baseline \in [{"agc", "lim"} -> Int]
    /\ DOMAIN r.space.grid \subseteq {"agc", "lim"}
    /\ \A k \in DOMAIN r.space.grid : r.space.grid[k] \in Seq(Int)
    /\ r.space.strategy \in {"one-at-a-time", "cartesian", "paired"}
    /\ IsFiniteSet(DOMAIN r.space.scope) /\ IsFiniteSet(r.space.gates)
    /\ r.space.maxRegression \in Nat /\ r.space.minScore \in Int
    /\ IsFiniteSet(r.units) /\ r.algorithms \in Seq(STRING) \ {<<>>}
    /\ r.mode = "iterate" => \A role \in {"development", "validation", "shadow"} :
                                 Cardinality({u \in r.units : u.role = role}) = 1
    /\ r.reuse # "none" => r.mode = "iterate"
    /\ \A p \in r.devReports \cup r.holdoutReports : ReportOK(r, p)
    /\ \A path \in DOMAIN r.leftover : ReportOK(r, r.leftover[path])
SearchAssumption == None \notin Int \cup {"keep", "reject", "freeze"} /\ \A r \in Runs : RunOK(r)

VARIABLES run,        \* the inputs
          disk,       \* reports in the output directory, by path
          results,    \* reports the search has read, by task
          stage, todo, running, broken, \* the pool: tasks waiting, in flight, failed
          alg, chosen, adjacent,        \* selected algorithm and tuning; its neighbours
          decision

vars == <<run, disk, results, stage, todo, running, broken, alg, chosen, adjacent, decision>>

\* The values of a function added up over its finite domain.
Total(f) ==
    LET add[S \in SUBSET DOMAIN f] == IF S = {} THEN 0 ELSE LET x == CHOOSE x \in S : TRUE IN f[x] + add[S \ {x}]
    IN  add[DOMAIN f]
Mode == run.mode \* "iterate", "research" or "joint"

(***************************************************************************)
(* Search spaces                                                           *)
(***************************************************************************)
\* canonical_tuning: the ranges of the keys, and the target below the limiter.
Legal(t) == t.agc \in -60 .. -1 /\ t.lim \in -20 .. -1 /\ t.agc < t.lim
Alone(key, v) == IF key = "agc" THEN v \in -60 .. -1 ELSE v \in -20 .. -1
Put(t, pairs) == [k \in DOMAIN t |-> IF k \in DOMAIN pairs THEN pairs[k] ELSE t[k]]
Paired(sp) == {[k \in DOMAIN sp.grid |-> sp.grid[k][i]] : i \in DOMAIN sp.grid[CHOOSE k \in DOMAIN sp.grid : TRUE]}

\* A gate bounds the least or greatest change of its cases, from below, above or both.
GateValid(g) ==
    /\ g.stat \in {"min", "max"} /\ g.minCases >= 1 /\ g.cases # {}
    /\ g.min # None \/ g.max # None
    /\ g.min # None /\ g.max # None => g.min <= g.max
ScopesValid(mode, sp) ==
    IF mode = "iterate" THEN \A m \in DOMAIN sp.scope : sp.scope[m] = All
    ELSE \A m \in DOMAIN sp.scope : sp.scope[m] = All \/ "synthetic" \in sp.scope[m]
SpaceValid(mode, sp) ==
    /\ Legal(sp.baseline) /\ DOMAIN sp.grid # {} /\ \A k \in DOMAIN sp.grid : sp.grid[k] # <<>>
    /\ IF sp.strategy = "paired"
       THEN /\ \A k, l \in DOMAIN sp.grid : Len(sp.grid[k]) = Len(sp.grid[l])
            /\ \A p \in Paired(sp) : Legal(Put(sp.baseline, p))
            /\ \A k \in DOMAIN sp.grid : \A v \in Range(sp.grid[k]) : Alone(k, v)
       ELSE \A k \in DOMAIN sp.grid : \A v \in Range(sp.grid[k]) :
                Legal([sp.baseline EXCEPT ![k] = v])
    /\ sp.max \in 1 .. 256 /\ sp.minScore >= 0 /\ DOMAIN sp.scope # {}
    /\ \A g \in sp.gates : GateValid(g) /\ (g.cases # All => mode = "joint")
    /\ ScopesValid(mode, sp)

\* generate_candidates: the baseline and what the strategy adds, each tuning once.
Candidates(sp) ==
    {sp.baseline} \cup
    CASE sp.strategy = "one-at-a-time" ->
            UNION {{[sp.baseline EXCEPT ![k] = v] : v \in Range(sp.grid[k])} : k \in DOMAIN sp.grid}
      [] sp.strategy = "cartesian" ->
            {t \in [DOMAIN sp.baseline -> (UNION {Range(sp.grid[k]) : k \in DOMAIN sp.grid})
                                              \cup Range(<<sp.baseline.agc, sp.baseline.lim>>)] :
                \A k \in DOMAIN t : IF k \in DOMAIN sp.grid THEN t[k] \in Range(sp.grid[k])
                                    ELSE t[k] = sp.baseline[k]}
      [] OTHER -> {Put(sp.baseline, p) : p \in Paired(sp)}
Generated(sp) == (\A t \in Candidates(sp) : Legal(t)) /\ Cardinality(Candidates(sp)) <= sp.max

\* The tunings of a paired space in order, the baseline first, each once.
PairedPath(sp) ==
    LET n == Len(sp.grid[CHOOSE k \in DOMAIN sp.grid : TRUE])
        path[i \in 0 .. n] ==
            IF i = 0 THEN <<sp.baseline>>
            ELSE LET t == Put(sp.baseline, [k \in DOMAIN sp.grid |-> sp.grid[k][i]])
                 IN  IF t \in Range(path[i - 1]) THEN path[i - 1] ELSE Append(path[i - 1], t)
    IN  path[n]
\* Tunings one step from t along one axis, or along the path of a paired space.
AnyOther(sp, t) ==
    UNION {{[t EXCEPT ![k] = w] : w \in (Range(sp.grid[k]) \cup {sp.baseline[k]})} : k \in DOMAIN sp.grid}
Neighbours(sp, t) ==
    IF sp.strategy = "paired"
    THEN LET p == PairedPath(sp) at == CHOOSE i \in DOMAIN p : p[i] = t
         IN  {p[j] : j \in {at - 1, at + 1} \cap DOMAIN p}
    ELSE LET axis(k) == Range(sp.grid[k]) \cup {sp.baseline[k]}
             next(k, v, w) == v # w /\ \A x \in axis(k) : ~(v < x /\ x < w) /\ ~(w < x /\ x < v)
         IN  UNION {{[t EXCEPT ![k] = w] : w \in {w \in axis(k) : next(k, t[k], w)}} : k \in DOMAIN sp.grid}

(***************************************************************************)
(* The registry of datasets and what a run may use                         *)
(***************************************************************************)
RegistryValid(reg) ==
    /\ \A d \in DOMAIN reg.sets : LET e == reg.sets[d] IN
        /\ e.selects => e.kind # "product-external" /\ ~e.frozen
        /\ e.kind = "product-external" => e.evaluates = {}
    /\ \E d \in DOMAIN reg.sets : reg.sets[d].selects
    /\ Cardinality({d \in DOMAIN reg.sets : reg.sets[d].evaluates # {}}) >= 3
RoleAllowed(reg, u) ==
    /\ u.dataset \in DOMAIN reg.sets
    /\ IF u.role = "development" THEN reg.sets[u.dataset].selects
       ELSE u.role \in reg.sets[u.dataset].evaluates
\* The roles the authority gives a corpus by its tier.
TierAllows(tier, role) ==
    \/ tier \in {"regression", "research-validation"}
    \/ tier = "validation-grade" /\ role # "development"
UnitsOf(r, role) == {u \in r.units : u.role = role}
HoldoutUnits(r) == {u \in r.units : u.role # "development"}
\* validate_run_spec, of the optimizers.
RunSpecValid(r) ==
    /\ \A u \in r.units : RoleAllowed(r.registry, u) /\ TierAllows(u.tier, u.role)
                          /\ (u.generated # None => u.generated = u.seed)
    /\ Cardinality({u.seed : u \in UnitsOf(r, "development")}) >= 2
    /\ UnitsOf(r, "validation") # {} /\ UnitsOf(r, "shadow") # {}
\* strict_partition_independence, of the iteration: three corpora that share nothing.
PartitionsIndependent(r) ==
    /\ \A u \in r.units : TierAllows(u.tier, u.role)
    /\ Cardinality({u.corpus : u \in r.units}) = 3
    /\ (\A u \in r.units : u.generated # None) => Cardinality({u.generated : u \in r.units}) = 3
Admitted(r) ==
    /\ SpaceValid(r.mode, r.space) /\ Generated(r.space)
    /\ IF r.mode = "iterate" THEN PartitionsIndependent(r) /\ r.reuse # "drifted"
       ELSE RegistryValid(r.registry) /\ RunSpecValid(r)

(***************************************************************************)
(* Judging a report against the baseline's                                 *)
(***************************************************************************)
Applies(sp, m, u) == sp.scope[m] = All \/ u.dataset \in sp.scope[m]
\* Only the optimizers narrow the objective to the unit, and the joint one on holdouts.
MetricsFor(r, u) ==
    IF r.mode = "iterate" \/ (r.mode = "research" /\ u.role # "development") THEN DOMAIN r.space.scope
    ELSE {m \in DOMAIN r.space.scope : Applies(r.space, m, u)}
\* What ends the search instead of judging: the baseline lacks an objective.
Unjudgeable(ms, base) == ms = {} \/ \E m \in ms : base.m[m] = None
Penalty == -99
Score(ms, base, cand) ==
    IF \E m \in ms : cand.m[m] = None THEN Penalty
    ELSE Total([m \in ms |-> cand.m[m] - base.m[m]])
LostOn(sp, m, base, cand) == cand.m[m] # None /\ base.m[m] - cand.m[m] > sp.maxRegression
Regressed(sp, ms, base, cand) ==
    ~cand.pass \/ \E m \in ms : cand.m[m] = None \/ LostOn(sp, m, base, cand)
\* case_delta_gate_violations for one gate over the cases it may look at.
GateBroken(g, cases, base, cand) ==
    LET measured(r) == {c \in cases : r.c[c] # None}
        delta(c) == cand.c[c] - base.c[c]
        deltas == {delta(c) : c \in measured(base)}
        actual == IF g.stat = "min" THEN Min(deltas)
                  ELSE CHOOSE d \in deltas : \A e \in deltas : d >= e
    IN  \/ measured(base) # measured(cand)
        \/ Cardinality(measured(base)) < g.minCases
        \/ deltas = {}
        \/ g.min # None /\ actual < g.min
        \/ g.max # None /\ actual > g.max
\* The scoped form of the joint optimizer hands on the least change alone.
ScopedGateBroken(g, base, cand) ==
    LET known == g.cases \cap DOMAIN base.c
        kept == g.cases \cap DOMAIN cand.c
    IN  /\ known \cup kept # {}
        /\ known = g.cases /\ kept = g.cases
              => GateBroken([g EXCEPT !.max = None, !.minCases = 1], g.cases, base, cand)
\* It reads a least change the gate need not have, and the search ends there.
ScopedGateFails(sp, base, cand) ==
    \E g \in sp.gates : g.cases # All /\ g.min = None /\ g.cases \subseteq DOMAIN base.c \cap DOMAIN cand.c
BrokenGates(sp, base, cand) ==
    {g \in sp.gates :
        IF g.cases = All THEN DOMAIN base.c # DOMAIN cand.c \/ DOMAIN base.c = {}
                              \/ GateBroken(g, DOMAIN base.c, base, cand)
        ELSE ScopedGateBroken(g, base, cand)}
CaseBroken(sp, base, cand) == BrokenGates(sp, base, cand) # {}

(***************************************************************************)
(* Evaluations: a task runs one tuning of one algorithm on one unit, and   *)
(* its report has a path in the output directory                           *)
(***************************************************************************)
Task(a, t, u, s) == [alg |-> a, tuning |-> t, unit |-> u, stage |-> s]
BaseAlg == Head(run.algorithms)
Base == run.space.baseline
Path(k) == IF k.unit.role = "development" THEN k
           ELSE [unit |-> k.unit.id,
                 role |-> IF k.alg = BaseAlg /\ k.tuning = Base THEN "baseline" ELSE "candidate"]
ReportOf(a, t, u) == LET k == CHOOSE k \in DOMAIN results : k.alg = a /\ k.tuning = t /\ k.unit = u
                     IN  results[k]
Dev == UnitsOf(run, "development")
\* The tasks of a finite set, each once.
Queue(S) ==
    LET line[T \in SUBSET S] == IF T = {} THEN <<>> ELSE LET k == CHOOSE k \in T : TRUE IN Append(line[T \ {k}], k)
    IN  line[S]
Fresh(S, done) == Queue({k \in S : ~\E j \in DOMAIN done :
                            j.alg = k.alg /\ j.tuning = k.tuning /\ j.unit = k.unit})

ScreenTasks == Queue({Task(a, Base, u, "screen") : a \in Range(run.algorithms), u \in Dev})
SearchTasks(a, done) == Fresh({Task(a, t, u, "search") : t \in Candidates(run.space), u \in Dev}, done)
HoldoutTasks(a, t) ==
    Fresh({Task(BaseAlg, Base, u, "holdout") : u \in HoldoutUnits(run)}
          \cup {Task(a, t, u, "holdout") : u \in HoldoutUnits(run)}, results)
\* load_reusable_baseline_report: passing reports of the baseline, bound to these inputs.
Reusable == [{Task(BaseAlg, Base, u, IF u \in Dev THEN "search" ELSE "holdout") : u \in run.units}
                -> {r \in run.devReports : r.pass}]

Init ==
    /\ run \in Runs
    /\ disk = run.leftover
    /\ results = <<>>
    /\ stage = "admit" /\ todo = <<>> /\ running = {} /\ broken = {}
    /\ alg = None /\ chosen = None /\ adjacent = None /\ decision = None

Abort == stage' = "aborted" /\ todo' = <<>>
\* The inputs are checked before anything runs; a reused baseline report needs no task.
Admit ==
    /\ stage = "admit"
    /\ IF Admitted(run)
       THEN /\ results' \in IF run.reuse = "bound" THEN Reusable ELSE {results}
            /\ IF Mode = "joint" THEN stage' = "screen" /\ todo' = ScreenTasks
               ELSE stage' = "search" /\ todo' = SearchTasks(BaseAlg, results')
            /\ alg' = BaseAlg
       ELSE Abort /\ UNCHANGED <<alg, results>>
    /\ UNCHANGED <<run, disk, running, broken, chosen, adjacent, decision>>

\* A pool is given all tasks at once, and goes on with those in line after one has failed,
\* until the failure is reached in order and the rest cancelled; a loop ends with its task.
Pooled == Mode = "iterate" /\ Jobs > 1
StartTask ==
    /\ todo # <<>> /\ (broken = {} \/ Pooled)
    /\ Cardinality(running) < (IF Mode = "iterate" THEN Jobs ELSE 1)
    /\ running' = running \cup {Head(todo)} /\ todo' = Tail(todo)
    /\ UNCHANGED <<run, disk, results, stage, broken, alg, chosen, adjacent, decision>>

\* run_validation: the process writes its report and leaves, in any order of the pool.
FinishTask ==
    \E k \in running : \E r \in IF k.unit.role = "development" THEN run.devReports ELSE run.holdoutReports :
        /\ running' = running \ {k}
        /\ disk' = [p \in DOMAIN disk \cup {Path(k)} |-> IF p = Path(k) THEN r ELSE disk[p]]
        /\ results' = [j \in DOMAIN results \cup {k} |-> IF j = k THEN r ELSE results[j]]
        /\ UNCHANGED <<run, stage, todo, broken, alg, chosen, adjacent, decision>>

\* It dies before it writes: a report already at its path is read in its place.
CrashTask ==
    /\ MayCrash
    /\ \E k \in running :
        /\ running' = running \ {k}
        /\ IF Path(k) \in DOMAIN disk
           THEN /\ results' = [j \in DOMAIN results \cup {k} |->
                                  IF j = k THEN disk[Path(k)] ELSE results[j]]
                /\ UNCHANGED broken
           ELSE broken' = broken \cup {k} /\ UNCHANGED results
    /\ UNCHANGED <<run, disk, stage, todo, alg, chosen, adjacent, decision>>

\* The exception leaves the search once the workers have stopped, what waited is cancelled.
GiveUpWhenDrained ==
    /\ broken # {} /\ running = {} /\ todo = <<>> /\ stage # "aborted"
    /\ Abort
    /\ UNCHANGED <<run, disk, results, running, broken, alg, chosen, adjacent, decision>>
GiveUp ==
    /\ broken # {} /\ running = {} /\ stage # "aborted"
    /\ Abort
    /\ UNCHANGED <<run, disk, results, running, broken, alg, chosen, adjacent, decision>>

(***************************************************************************)
(* Selection                                                               *)
(***************************************************************************)
\* A row of the ranking: candidate x (an algorithm or a tuning), by its reports and those of the first.
Row(x, base, cand, barred) ==
    LET ms(u) == MetricsFor(run, u)
        score(u) == Score(ms(u), base[u], cand[u])
        units(m) == {u \in Dev : m \in ms(u)}
        \* A failing report and a metric that is not there are listed twice each.
        missing(u) == {m \in ms(u) : cand[u].m[m] = None}
        faults(u) == (IF cand[u].pass THEN 0 ELSE 2) + 2 * Cardinality(missing(u))
                     + Cardinality({m \in ms(u) : LostOn(run.space, m, base[u], cand[u])})
                     + Cardinality(BrokenGates(run.space, base[u], cand[u]))
    IN  [id |-> x,
         total |-> Total([u \in Dev |-> score(u)]),
         worst |-> Min({score(u) : u \in Dev}),
         mean |-> [m \in DOMAIN run.space.scope |->
                      IF \E u \in units(m) : cand[u].m[m] = None THEN Penalty
                      ELSE Total([u \in units(m) |-> cand[u].m[m] - base[u].m[m]])],
         barred |-> barred,
         faults |-> Total([u \in Dev |-> faults(u)]) + Cardinality(UNION {missing(u) : u \in Dev})]
Eligible(r) == ~r.barred /\ r.faults = 0
Dominates(a, b) == /\ \A m \in DOMAIN a.mean : a.mean[m] >= b.mean[m]
                   /\ \E m \in DOMAIN a.mean : a.mean[m] > b.mean[m]
AnyUndominated(rows) == {r \in rows : \A o \in rows : ~Dominates(o, r)}
Frontier(rows) == {r \in rows : Eligible(r) /\ \A o \in rows : Eligible(o) => ~Dominates(o, r)}
Better(a, b) == a.total > b.total \/ (a.total = b.total /\ a.worst > b.worst)
\* The rows rank_development may pick; the last tie is broken by a hash.
Picks(rows, base) ==
    LET fit == {r \in Frontier(rows) : /\ r.id # base /\ r.total >= run.space.minScore * Cardinality(Dev)
                                       /\ r.worst >= run.space.minUnit}
    IN  IF fit = {} THEN {base} ELSE {r.id : r \in {r \in fit : \A o \in fit : ~Better(o, r)}}
DevBase(a, u) == ReportOf(a, Base, u)
Terminal(ids, id) == id \in ids
Reports(a, t) == [u \in Dev |-> ReportOf(a, t, u)]
AlgRows == {Row(a, Reports(BaseAlg, Base), Reports(a, Base), FALSE) : a \in Range(run.algorithms)}
TuningRows == {Row(t, Reports(alg, Base), Reports(alg, t), Terminal(run.registry.terminal, t)) :
                  t \in Candidates(run.space)}
TooFew(sp) == \E m \in DOMAIN sp.scope :
                 Cardinality({u \in Dev : Applies(sp, m, u)}) < sp.minUnits
Idle(s) == stage = s /\ todo = <<>> /\ running = {} /\ broken = {}
CannotRank(a) == \/ \E u \in Dev : ScopedGateFails(run.space, DevBase(a, u), DevBase(a, u))
                 \/ \E u \in Dev : Unjudgeable(MetricsFor(run, u), DevBase(a, u))
                 \/ Mode # "iterate" /\ TooFew(run.space)

\* The joint optimizer settles the algorithm at the baseline tuning first.
ScreenAlgorithms ==
    /\ Idle("screen")
    /\ IF CannotRank(BaseAlg) \/ Cardinality(Frontier(AlgRows)) > run.space.maxPareto
       THEN Abort /\ alg' = alg
       ELSE \E a \in Picks(AlgRows, BaseAlg) :
                alg' = a /\ stage' = "search" /\ todo' = SearchTasks(a, results)
    /\ UNCHANGED <<run, disk, results, running, broken, chosen, adjacent, decision>>

\* The iteration takes the best score that passes, without regression gates or a frontier.
IterationPicks ==
    LET unit == CHOOSE u \in Dev : TRUE
        base == DevBase(BaseAlg, unit)
        cand(t) == ReportOf(BaseAlg, t, unit)
        score(t) == Score(DOMAIN run.space.scope, base, cand(t))
        fit == {t \in Candidates(run.space) : cand(t).pass /\ ~CaseBroken(run.space, base, cand(t))}
        best == {t \in fit : \A o \in fit : score(o) <= score(t)}
    IN  IF fit = {} THEN {Base}
        ELSE {IF score(t) < run.space.minScore THEN Base ELSE t : t \in best}
Select ==
    /\ Idle("search")
    /\ IF CannotRank(alg) \/ (Mode # "iterate" /\ Cardinality(Frontier(TuningRows)) > run.space.maxPareto)
       THEN Abort /\ UNCHANGED <<chosen, adjacent>>
       ELSE \E t \in IF Mode = "iterate" THEN IterationPicks ELSE Picks(TuningRows, Base) :
              /\ chosen' = t
              /\ stage' = "holdout" /\ todo' = HoldoutTasks(alg, t)
              /\ adjacent' = [seen |-> Neighbours(run.space, t) \cap Candidates(run.space),
                              unseen |-> Neighbours(run.space, t) \ Candidates(run.space)]
    /\ UNCHANGED <<run, disk, results, running, broken, alg, decision>>

(***************************************************************************)
(* The holdouts accept or reject; they never select                        *)
(***************************************************************************)
HealthyBaseAssumed(u) ==
    \/ Regressed(run.space, MetricsFor(run, u), ReportOf(BaseAlg, Base, u), ReportOf(alg, chosen, u))
    \/ CaseBroken(run.space, ReportOf(BaseAlg, Base, u), ReportOf(alg, chosen, u))
HoldoutBroken(u) ==
    LET base == ReportOf(BaseAlg, Base, u) cand == ReportOf(alg, chosen, u)
    IN  \/ Regressed(run.space, MetricsFor(run, u), base, cand)
        \/ CaseBroken(run.space, base, cand)
        \/ Mode # "iterate" /\ ~base.pass
Refused == \/ \E u \in HoldoutUnits(run) : HoldoutBroken(u)
           \/ Mode = "joint" /\ Terminal(run.registry.terminalJoint, <<alg, chosen>>)
Kept == alg = BaseAlg /\ chosen = Base
Decide ==
    /\ Idle("holdout")
    /\ IF \E u \in HoldoutUnits(run) :
             LET base == ReportOf(BaseAlg, Base, u)
             IN  Unjudgeable(MetricsFor(run, u), base)
                 \/ ScopedGateFails(run.space, base, ReportOf(alg, chosen, u))
       THEN Abort /\ decision' = decision
       ELSE /\ stage' = "done" /\ todo' = todo
            /\ decision' = CASE Kept -> "keep"
                             [] ~Kept /\ Refused -> "reject"
                             [] OTHER -> "freeze"
    /\ UNCHANGED <<run, disk, results, running, broken, alg, chosen, adjacent>>

(***************************************************************************)
(* selection_curriculum.py: what is learnt from those that were refused.   *)
(* It reads the rankings of a joint search, and those are of development.  *)
(***************************************************************************)
Tally(rows) == Total([r \in rows |-> r.faults + IF r.barred THEN 1 ELSE 0])
StageSummary(rows, base) ==
    LET others == {r \in rows : r.id # base}
        refused == {r \in others : ~Eligible(r)}
        repairable == {r \in refused : r.faults > 0}
        nearer(a, b) == a.faults < b.faults \/ (a.faults = b.faults /\ Better(a, b))
    IN  [eligible |-> Cardinality(others \ refused),
         terminalOnly |-> Cardinality(refused \ repairable),
         highest |-> {r.id : r \in {r \in refused : \A o \in refused : ~Better(o, r)}},
         closest |-> {r.id : r \in {r \in repairable : \A o \in repairable : ~nearer(o, r)}},
         violations |-> Tally(others)]
MineSelection ==
    LET stages == [algorithm |-> StageSummary(AlgRows, BaseAlg), parameter |-> StageSummary(TuningRows, Base)]
    IN  [s \in DOMAIN stages |-> [summary |-> stages[s], explore |-> stages[s].eligible > 0]]

Ended == stage \in {"done", "aborted"} /\ UNCHANGED vars
Next == Admit \/ StartTask \/ FinishTask \/ CrashTask \/ GiveUp \/ ScreenAlgorithms
        \/ Select \/ Decide \/ Ended
\* The search goes on whenever it can; nothing bounds how long a measuring process takes.
Drive == Admit \/ StartTask \/ GiveUp \/ ScreenAlgorithms \/ Select \/ Decide
Spec == Init /\ [][Next]_vars /\ WF_vars(Drive)

(***************************************************************************)
(* Properties                                                              *)
(***************************************************************************)
\* A candidate is handed on only over evidence that stands by itself: against the
\* shipping baseline, on every holdout, it passes and loses no objective beyond the
\* tolerance, no holdout or external data chose it, and it was never terminated: no tuning
\* but the baseline's alone, and in the joint search not as a pair with its algorithm
\* (iterate 1003-1006, execute of both optimizers).
FreezeEarned ==
    decision = "freeze" =>
        /\ <<alg, chosen>> # <<BaseAlg, Base>>
        /\ \A u \in HoldoutUnits(run) :
              LET base == ReportOf(BaseAlg, Base, u) cand == ReportOf(alg, chosen, u)
              IN  /\ cand.pass /\ (Mode # "iterate" => base.pass)
                  /\ \A m \in DOMAIN run.space.scope :
                        Mode # "joint" \/ Applies(run.space, m, u) =>
                            cand.m[m] # None /\ cand.m[m] + run.space.maxRegression >= base.m[m]
        /\ Mode # "iterate" =>
              /\ \A u \in Dev : ~run.registry.sets[u.dataset].frozen
              /\ chosen # Base => chosen \notin run.registry.terminal
        /\ Mode = "joint" => <<alg, chosen>> \notin run.registry.terminalJoint

\* What is selected passed everywhere it was searched, and no rival that also passed
\* and was not terminated is as good in every objective on every unit and better in one
\* (rank_development, _pareto_front; in the iteration, the score).
SelectionSound ==
    chosen # None /\ chosen # Base =>
        /\ \A u \in Dev : ReportOf(alg, chosen, u).pass
        /\ \A t \in Candidates(run.space) :
              LET gain(x, u, m) == ReportOf(alg, x, u).m[m]
              IN  ~(/\ \A u \in Dev : /\ ReportOf(alg, t, u).pass
                                      /\ ~CaseBroken(run.space, DevBase(alg, u), ReportOf(alg, t, u))
                                      /\ \A m \in MetricsFor(run, u) :
                                            gain(t, u, m) # None /\ gain(t, u, m) >= gain(chosen, u, m)
                    /\ \E u \in Dev : \E m \in MetricsFor(run, u) : gain(t, u, m) > gain(chosen, u, m)
                    /\ t \notin run.registry.terminal)

\* The neighbourhood reported with a selection is whole when the grid is: a full
\* Cartesian grid that holds the baseline leaves no neighbour unseen, and no neighbour
\* moves a key that is not searched (adjacent_development_sensitivity).
NeighboursAccounted ==
    adjacent # None =>
        /\ (/\ run.space.strategy = "cartesian"
            /\ \A k \in DOMAIN run.space.grid : Base[k] \in Range(run.space.grid[k]))
              => adjacent.unseen = {}
        /\ \A t \in adjacent.seen \cup adjacent.unseen :
              /\ t # chosen
              /\ \A k \in DOMAIN t \ DOMAIN run.space.grid : t[k] = Base[k]

\* The curriculum of a joint search that decided does not contradict it: where something else than
\* the baseline was taken there was something to explore, what is to be repaired was not taken, is
\* worse than the baseline by its own reports or fails, and is missing only if all that was refused
\* had merely been tried before (mine_selection, _stage_summary).
CurriculumSound ==
    decision # None /\ Mode = "joint" =>
        LET c == MineSelection
            worse(x, a, t) == \E u \in Dev :
                LET base == ReportOf(a, Base, u) cand == ReportOf(x, t, u)
                IN  \/ Regressed(run.space, MetricsFor(run, u), base, cand)
                    \/ CaseBroken(run.space, base, cand)
        IN  /\ (alg # BaseAlg => c["algorithm"].explore) /\ (chosen # Base => c["parameter"].explore)
            /\ alg \notin c["algorithm"].summary.highest \cup c["algorithm"].summary.closest
            /\ chosen \notin c["parameter"].summary.highest \cup c["parameter"].summary.closest
            /\ \A x \in c["algorithm"].summary.closest : worse(x, BaseAlg, Base)
            /\ \A t \in c["parameter"].summary.closest : worse(alg, alg, t)
            /\ c["parameter"].summary.closest = {} =>
                  \A t \in Candidates(run.space) \ {Base} : worse(alg, alg, t) => t \in run.registry.terminal

\* A gate that names its cases holds them to every bound it declares
\* (tuning_iteration_engine.py:213 accepts either bound; CHANGELOG.md:169).
ScopedBoundsKept ==
    decision = "freeze" =>
        \A u \in HoldoutUnits(run) : \A g \in run.space.gates :
            g.cases # All /\ g.max # None =>
                \A c \in g.cases \cap DOMAIN ReportOf(BaseAlg, Base, u).c :
                    LET b == ReportOf(BaseAlg, Base, u).c[c] n == ReportOf(alg, chosen, u).c[c]
                    IN  b # None /\ n # None => n - b <= g.max

\* Every search ends, in a decision or given up, in whatever order its processes finish, fail
\* or die, unless one of them never comes back: none is started with a timeout, and for that
\* one the search waits for ever.
SearchEnds == <>(stage \in {"done", "aborted"} \/ [](running # {}))
=============================================================================
