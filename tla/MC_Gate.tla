------------------------------- MODULE MC_Gate -------------------------------
(***************************************************************************)
(* What decides on a commit, in one run: the transport of evidence between *)
(* jobs, the gate that selects and aggregates the jobs of a pull request,  *)
(* the review of pinned actions, and the program plan.  The components     *)
(* share nothing: a behaviour is one of a single component, chosen at the  *)
(* start.                                                                  *)
(***************************************************************************)
EXTENDS EvidenceTransport, Integers, Sequences, FiniteSets

CONSTANTS Prs, MaxVersion, MaxUpdates, Sites, MaxMain, MaxPushes, MaxCommits

VARIABLES which,   \* the component this behaviour is of
          main, prs, runs, offers, mains, heads, head, meta, pc, event, seen, record, steady, plan, exact,
          baseline, policy, commits, runner, executions

Gate == INSTANCE VerifyGate
Pins == INSTANCE PinScope
Plan == INSTANCE ProgramPlan

transportVars == <<tree, used, phase, first, second, objects, mid, bundle, output, receiver>>
gateVars == <<main, prs, runs, offers>>
pinsVars == <<mains, heads, head, meta, pc, event, seen, record, steady>>
planVars == <<plan, exact, baseline, policy, commits, runner, executions>>

sumVars == <<which, transportVars, gateVars, pinsVars, planVars>>

\* A component that is not the chosen one stays as it is.
SumInit ==
    /\ which \in {"transport", "gate", "pins", "plan"}
    /\ Init /\ (which # "transport" => tree = CHOOSE t \in Trees : TRUE)
    /\ \/ which = "gate" /\ Gate!Init
       \/ /\ which # "gate"
          /\ main = 0 /\ prs = 0 /\ runs = 0 /\ offers = 0
    /\ \/ which = "pins" /\ Pins!Init
       \/ /\ which # "pins"
          /\ mains = 0 /\ heads = 0 /\ head = 0 /\ meta = 0 /\ pc = 0 /\ event = 0 /\ seen = 0
          /\ record = 0 /\ steady = 0
    /\ \/ which = "plan" /\ Plan!Init
       \/ /\ which # "plan"
          /\ plan = 0 /\ exact = 0 /\ baseline = 0 /\ policy = 0 /\ commits = 0 /\ runner = 0
          /\ executions = 0

SumNext ==
    \/ which = "transport" /\ Next /\ UNCHANGED <<which, gateVars, pinsVars, planVars>>
    \/ which = "gate" /\ Gate!Next /\ UNCHANGED <<which, transportVars, pinsVars, planVars>>
    \/ which = "pins" /\ Pins!Next /\ UNCHANGED <<which, transportVars, gateVars, planVars>>
    \/ which = "plan" /\ Plan!Next /\ UNCHANGED <<which, transportVars, gateVars, pinsVars>>

SumSpec == SumInit /\ [][SumNext]_sumVars

ASSUME BoundsAssumption == MaxMain \in Nat /\ MaxVersion \in Nat /\ MaxUpdates \in Nat

\* A change is merged only after every job that any one of its paths would have needed alone has
\* passed on it; and along main whatever is delivered carries a higher version, evidence none only
\* where an earlier commit registered exactly it, once (analyze, enforce_release_version).
MergedOnFullChecks == which = "gate" => Gate!NothingWateredDown /\ Gate!VersionsAdvance
\* A measurement is skipped only for the complete transition of the review main itself names, and
\* when nothing moved during the run such a merge is not denied (EXACT_DIRECT_PR_APPROVED_PIN_MAINTENANCE).
SkipEarned == which = "pins" => Pins!SkipEarned /\ Pins!DenialJustified
\* Whatever plans pass the checks one after the other, the runner starts nothing but the frozen
\* selector search, on closed foundations; and the release that ships moves only with the closure
\* that carried it (validate, validate_contract, self_test).
PlanKept == which = "plan" => Plan!OnlySelectorSearch /\ Plan!BaselineCarried
=============================================================================
