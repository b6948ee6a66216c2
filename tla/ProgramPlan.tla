------------------------------ MODULE ProgramPlan ------------------------------
(***************************************************************************)
(* The committed plan of the research program: what scripts/program.py and *)
(* promotion_governance.py accept of an edit of the plan, of the promotion *)
(* policy or of a reviewed document, and what the runner then starts.      *)
(* Reviewed documents are compared field by field with what was reviewed:  *)
(* here a task's documents are exact or not.                               *)
(***************************************************************************)
EXTENDS Integers

CONSTANT MaxCommits       \* bound: accepted commits

VARIABLES plan,           \* the entry of each task
          exact,          \* tasks whose contract, result and closure are as reviewed
          baseline,       \* the release the plan ships
          policy,         \* promotion-policy.json: the budget and the retired source group
          commits,
          runner,         \* scripts/program.py run
          executions      \* what it ran, and what was closed or consumed then

planVars == <<plan, exact, baseline, policy, commits>>
vars == <<planVars, runner, executions>>

Nil == "none"
States == {"PLANNED", "READY", "ACTIVE", "REVIEW_REQUIRED", "CLOSED", "DEFERRED"}
\* A handler is named by the task it is registered for.
Handlers == {"I002", "P001", "I003"}
Lane(t) == CASE t \in {"P001", "P002"} -> "governance" [] t = "I002" -> "measurement"
             [] t = "I008" -> "engineering" [] t = "E001" -> "external" [] OTHER -> "acoustic"
DependsOn(t) == CASE t = "I003" -> {"I002", "P001"} [] t = "I005" -> {"I004"}
                  [] t = "I009" -> {"I006", "P001"} [] t = "I010" -> {"I005"}
                  [] t \in {"I004", "I006", "I007"} -> {"P001"} [] OTHER -> {}
Tasks == {"I002", "P001", "I003", "I004", "I005", "I006", "I007", "I009", "I008", "P002", "I010", "E001"}
\* How many evidence pointers a closed task has; zero stands for none, one for some.
Pointers(t) == CASE t \in {"I008", "I009"} -> 5 [] t = "P002" -> 4 [] OTHER -> 1
Closed(t) == [status |-> "CLOSED", handler |-> Nil, contract |-> "closure", evidence |-> Pointers(t)]

(***************************************************************************)
(* validate                                                                *)
(***************************************************************************)
\* validate_contract: the contract on file is the handler's own and within its budgets, and
\* gives neither promotion nor confirmation.
ContractValid(t, task, documents) ==
    /\ Lane(t) = Lane(task.handler) /\ t = task.handler /\ t \in documents
    /\ Lane(t) \in {"measurement", "governance", "acoustic"}
TaskValid(p, t, documents) ==
    LET task == p[t]
    IN  /\ task.status \in {"CLOSED", "REVIEW_REQUIRED"} => task.evidence > 0
        /\ Lane(t) = "external" => task.status = "DEFERRED" /\ task.handler = Nil
        /\ task.handler # Nil => /\ task.handler \in Handlers /\ task.contract = "handler"
                                  /\ task.status \in {"READY", "ACTIVE", "REVIEW_REQUIRED"}
                                  /\ ContractValid(t, task, documents)

Idle(task) == task.status = "PLANNED" /\ task.handler = Nil /\ task.contract = Nil
              /\ task.evidence = 0
Frozen(t, task) == task.handler = Nil /\ task.contract = "closure" /\ task.evidence = Pointers(t)
Reviewed(task, n) == task.handler = Nil /\ task.contract = "review" /\ task.evidence >= n

I004Closed(p, d) ==
    p["I004"].status = "CLOSED" =>
        /\ p["I004"].handler = Nil /\ p["I004"].evidence > 0 /\ "I004" \in d
        /\ p["I005"].status \in {"PLANNED", "CLOSED"}
I006ReviewRequired(p, d) ==
    p["I006"].status = "REVIEW_REQUIRED" => /\ Reviewed(p["I006"], 1) /\ "I006" \in d
                                            /\ Idle(p["I007"])
I006Closed(p, d) ==
    p["I006"].status = "CLOSED" =>
        /\ p["I006"].handler = Nil /\ p["I006"].contract = "closure" /\ p["I006"].evidence > 0
        /\ "I006" \in d
        /\ Idle(p["I007"]) \/ (p["I007"].status = "CLOSED" /\ Frozen("I007", p["I007"]))
        /\ \/ Idle([p["I009"] EXCEPT !.contract = Nil]) /\ p["I009"].contract = "context"
           \/ p["I009"].status = "CLOSED" /\ p["I009"].handler = Nil
              /\ p["I009"].contract = "closure" /\ p["I009"].evidence > 0
I009Closed(p, d) == p["I009"].status = "CLOSED" => Frozen("I009", p["I009"]) /\ "I009" \in d
I008ReviewRequired(p, d, b) ==
    p["I008"].status = "REVIEW_REQUIRED" =>
        Reviewed(p["I008"], 2) /\ p["I008"].evidence = 2 /\ "I008" \in d /\ b = "v2.3.12"
\* Mutant of I008Closed: the closure is not held against the plan's baseline.
I008ClosedAnyBaseline(p, d, b) ==
    p["I008"].status = "CLOSED" => Frozen("I008", p["I008"]) /\ "I008" \in d
I008Closed(p, d, b) ==
    p["I008"].status = "CLOSED" => Frozen("I008", p["I008"]) /\ "I008" \in d /\ b = "v2.3.13"
P002Closed(p, d) ==
    p["P002"].status = "CLOSED" =>
        /\ Frozen("P002", p["P002"]) /\ "P002" \in d
        /\ \/ p["I008"].status = "REVIEW_REQUIRED" /\ Reviewed(p["I008"], 2) /\ p["I008"].evidence = 2
           \/ p["I008"].status = "CLOSED" /\ Frozen("I008", p["I008"])
Validate(p, d, b) ==
    /\ \A t \in Tasks : TaskValid(p, t, d)
    /\ I004Closed(p, d) /\ I006ReviewRequired(p, d) /\ I006Closed(p, d) /\ I009Closed(p, d)
    /\ I008ReviewRequired(p, d, b) /\ I008Closed(p, d, b) /\ P002Closed(p, d)

\* The task that is next is the first of these, in the order of priority.
Ready(p) == {t \in Tasks : p[t].status = "READY" /\ \A d \in DependsOn(t) : p[d].status = "CLOSED"}
Priority(t) == CASE t = "P001" -> 15 [] t = "I002" -> 20 [] t = "I003" -> 30 [] t = "I004" -> 40
                 [] t = "I005" -> 50 [] t = "I006" -> 60 [] t = "I007" -> 70 [] t = "I009" -> 75
                 [] t = "I008" -> 80 [] t = "P002" -> 90 [] t = "I010" -> 95 [] OTHER -> 100
NextTask(p) == IF Ready(p) = {} THEN Nil
               ELSE CHOOSE t \in Ready(p) : \A u \in Ready(p) : Priority(t) <= Priority(u)

(***************************************************************************)
(* The self-tests, which run on what is committed                          *)
(***************************************************************************)
PlannedOrSealed(p, t) == Idle(p[t]) \/ (p[t].status = "CLOSED" /\ Frozen(t, p[t]))
I003Lifecycle(p, d, q) ==
    LET task == p["I003"]
    IN  \/ task.status = "PLANNED" /\ task.handler = Nil /\ task.contract = Nil /\ NextTask(p) = Nil
        \/ task.status = "READY" /\ task.handler = "I003" /\ task.contract = "handler" /\ NextTask(p) = "I003"
        \/ task.status = "REVIEW_REQUIRED" /\ task.handler = Nil /\ task.evidence > 0 /\ NextTask(p) = Nil
        \/ /\ task.status = "CLOSED" /\ task.handler = Nil /\ task.evidence > 0 /\ "I003" \in d
           /\ q.confirmations = 1 /\ q.role = "regression" /\ ~q.independent /\ NextTask(p) = Nil
\* I003 ready and unhandled would block, and without it nothing is ready.
OthersBlocked(p) ==
    /\ NextTask([p EXCEPT !["I003"].status = "READY", !["I004"].status = "REVIEW_REQUIRED"]) = "I003"
    /\ NextTask([p EXCEPT !["I003"].status = "DEFERRED", !["I004"].status = "REVIEW_REQUIRED"]) = Nil
\* Mutant of SelfTest: a closed I005 says nothing of what is next.
SelfTestNextUnchecked(p, d, q) ==
    /\ \A t \in {"I002", "P001", "I004"} :
           p[t].status = "CLOSED" /\ p[t].handler = Nil /\ p[t].evidence > 0
    /\ PlannedOrSealed(p, "I005")
    /\ p["I005"].status = "CLOSED" =>
           /\ \/ Idle(p["I006"])
              \/ p["I006"].status = "REVIEW_REQUIRED" /\ Reviewed(p["I006"], 1)
              \/ p["I006"].status = "CLOSED" /\ Frozen("I006", p["I006"])
    /\ PlannedOrSealed(p, "I008") \/ (p["I008"].status = "REVIEW_REQUIRED" /\ Reviewed(p["I008"], 2)
                                       /\ p["I008"].evidence = 2)
    /\ PlannedOrSealed(p, "P002") /\ I003Lifecycle(p, d, q) /\ OthersBlocked(p)
SelfTest(p, d, q) ==
    /\ \A t \in {"I002", "P001", "I004"} :
           p[t].status = "CLOSED" /\ p[t].handler = Nil /\ p[t].evidence > 0
    /\ PlannedOrSealed(p, "I005")
    /\ p["I005"].status = "CLOSED" =>
           /\ \/ Idle(p["I006"])
              \/ p["I006"].status = "REVIEW_REQUIRED" /\ Reviewed(p["I006"], 1)
              \/ p["I006"].status = "CLOSED" /\ Frozen("I006", p["I006"])
           /\ NextTask(p) = Nil
    /\ PlannedOrSealed(p, "I008") \/ (p["I008"].status = "REVIEW_REQUIRED" /\ Reviewed(p["I008"], 2)
                                       /\ p["I008"].evidence = 2)
    /\ PlannedOrSealed(p, "P002") /\ I003Lifecycle(p, d, q) /\ OthersBlocked(p)
\* A source group that was observed has no independent role, and a budget is not exceeded.
PolicyValid(q) == /\ q.observed => ~q.independent
                  /\ q.searches <= 3 /\ q.confirmations <= 2

(***************************************************************************)
(* Commits and the runner                                                  *)
(***************************************************************************)
Init ==
    /\ plan = [t \in Tasks |-> IF t = "E001" THEN [Closed(t) EXCEPT !.status = "DEFERRED"] ELSE Closed(t)]
    /\ exact = Tasks \ {"E001"} /\ baseline = "v2.3.13"
    /\ policy = [searches |-> 2, confirmations |-> 1, observed |-> TRUE, independent |-> FALSE,
                 role |-> "regression"]
    /\ commits = 0 /\ runner = [phase |-> "idle", task |-> Nil, alive |-> {}] /\ executions = {}

Contracts(t) == {Nil, "closure"} \cup CASE t \in Handlers -> {"handler"} [] t = "I009" -> {"context"}
                                            [] t \in {"I006", "I008"} -> {"review"} [] OTHER -> {}
Entries(t) == [status : States, handler : {Nil, "I003"} \cup ({t} \cap Handlers),
               contract : Contracts(t),
               evidence : {0, Pointers(t)} \cup IF t = "I008" THEN {2} ELSE {}]
Accepted == /\ Validate(plan', exact', baseline') /\ SelfTest(plan', exact', policy')
            /\ PolicyValid(policy') /\ commits' = commits + 1
            /\ UNCHANGED <<runner, executions>>
EditTask(t) ==
    /\ commits < MaxCommits
    /\ \E e \in Entries(t) : plan' = [plan EXCEPT ![t] = e]
    /\ UNCHANGED <<exact, policy>>
    /\ baseline' \in (IF t = "I008" THEN {"v2.3.12", "v2.3.13"} ELSE {baseline})
    /\ Accepted
EditDocuments(t) == /\ commits < MaxCommits /\ exact' \in {exact \ {t}, exact \cup {t}} /\ exact' # exact
                    /\ UNCHANGED <<plan, baseline, policy>> /\ Accepted
EditPolicy ==
    /\ commits < MaxCommits
    /\ policy' \in [searches : 1 .. 3, confirmations : 0 .. 1, observed : BOOLEAN,
                    independent : BOOLEAN, role : {"regression", "confirmation"}]
    /\ policy' # policy /\ UNCHANGED <<plan, exact, baseline>> /\ Accepted

\* run on a checkout of the plan: the handler gets a session of its own.
RunNext ==
    /\ runner.phase = "idle" /\ NextTask(plan) # Nil /\ Validate(plan, exact, baseline)
    /\ LET t == NextTask(plan)
       IN  /\ plan[t].handler \in Handlers /\ ContractValid(t, plan[t], exact)
           /\ runner' = [runner EXCEPT !.phase = "running", !.task = t, !.alive = @ \cup {t}]
           /\ executions' = executions \cup
                  {[task |-> t, handler |-> plan[t].handler, searches |-> policy.searches,
                    closed |-> {u \in Tasks : plan[u].status = "CLOSED"}]}
    /\ UNCHANGED planVars
\* The handler ends by itself or is killed at its timeout, and is waited for; a runner that is
\* interrupted writes FAILED and leaves it.
Finish == /\ runner.phase = "running"
          /\ runner' = [runner EXCEPT !.phase = "idle", !.alive = @ \ {runner.task}, !.task = Nil]
          /\ UNCHANGED <<planVars, executions>>
Interrupt == /\ runner.phase = "running" /\ runner' = [runner EXCEPT !.phase = "idle", !.task = Nil]
             /\ UNCHANGED <<planVars, executions>>

Next == \/ \E t \in Tasks : EditTask(t) \/ EditDocuments(t)
        \/ EditPolicy \/ RunNext \/ Finish \/ Interrupt
Spec == Init /\ [][Next]_vars

\* Whatever the commits that pass the checks, the runner starts nothing but the frozen selector
\* search, for its own task, with the measurement and the governance it rests on closed and the
\* tasks that build on the lane's result reopened: no closed study is started again by an edit
\* of its entry, and no second acoustic candidate beside it (validate, validate_contract and
\* the self-test together, over the plans they accept one after the other).
OnlySelectorSearch ==
    \A e \in executions : /\ e.task = "I003" /\ e.handler = "I003"
                          /\ {"I002", "P001", "I004"} \subseteq e.closed /\ "I005" \notin e.closed

\* The release that ships moves with the closure that carried it: while the plan holds the
\* historical release no entry claims that closure, and P002 stands only on I008's evidence.
BaselineCarried ==
    /\ plan["I008"].status = "CLOSED" => baseline = "v2.3.13"
    /\ plan["P002"].status = "CLOSED" /\ baseline = "v2.3.12" => plan["I008"].status = "REVIEW_REQUIRED"

\* docs/program/promotion-policy.json: "budget_is_inherited_by_root_cause", and
\* promotion_governance.py:373 "budget_inheritance_enforced": what was consumed stays consumed.
BudgetInherited == [][policy'.searches >= policy.searches]_vars
=============================================================================
