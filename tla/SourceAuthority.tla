---------------------------- MODULE SourceAuthority ----------------------------
(***************************************************************************)
(* Authority v2 of a source candidate.  A qualification measures the       *)
(* shipping baseline alone on a preregistered pool and names the first N   *)
(* partitions it is valid on; a pull request lands that result as the      *)
(* authority lock; the candidate's own workflow may then run it on the     *)
(* locked partitions.  Jobs work on the main they checked out, while main  *)
(* moves: the contract and the policy can be edited at any time.           *)
(***************************************************************************)
EXTENDS Integers, Sequences, FiniteSets, SequencesExt

CONSTANTS Seeds, Pools,   \* the generator's seeds; pools a contract may register, as sequences
          MaxRuns,        \* bound: dispatches of each of the two workflows
          MaxEdits,       \* bound: edits of the contract or the policy on main
          MaxFailures     \* bound: materializations that fail

SourceAssumption == Pools \subseteq Seq(Seeds)

VARIABLES valid,              \* seed -> the baseline is valid on its partition
          contract, policy,   \* on main; the policy is its revision
          lock,               \* on main, NoLock when there is none
          qualifications, executions,  \* runs of the two workflows, oldest first
          results,            \* uploaded qualification results
          needsContract,      \* the candidate job also waits for the contract job
          edits, failures

vars == <<valid, contract, policy, lock, qualifications, executions, results, needsContract, edits,
          failures>>

\* A contract is known by its bytes: value stands for the frozen candidate.
Contracts == [value : 0 .. MaxEdits, pool : Pools, need : 1 .. 2]
ContractValid(c) == c.need <= Len(c.pool) /\ IsInjective(c.pool)

\* A workflow is accepted whether or not its candidate job needs the contract job.
AcceptedNeeds == BOOLEAN

NoLock == [decision |-> "none"]
Init ==
    /\ valid \in [Seeds -> BOOLEAN]
    /\ contract \in Contracts /\ contract.value = 0 /\ ContractValid(contract) /\ policy = 0
    /\ lock = NoLock /\ qualifications = <<>> /\ executions = <<>> /\ results = {}
    /\ needsContract \in AcceptedNeeds /\ edits = 0 /\ failures = 0

\* Main: a pull request edits the contract or the policy, or lands a result as the lock.
EditContract ==
    /\ edits < MaxEdits /\ edits' = edits + 1
    /\ \E c \in Contracts : /\ ContractValid(c) /\ c # contract /\ contract' = c
    /\ UNCHANGED <<valid, policy, lock, qualifications, executions, results, needsContract, failures>>
EditPolicy ==
    /\ edits < MaxEdits /\ edits' = edits + 1 /\ policy' = policy + 1
    /\ UNCHANGED <<valid, contract, lock, qualifications, executions, results, needsContract, failures>>
LandLock ==
    /\ lock = NoLock /\ lock' \in results
    /\ UNCHANGED <<valid, contract, policy, qualifications, executions, results, needsContract, edits,
                   failures>>

(***************************************************************************)
(* Qualification                                                           *)
(***************************************************************************)
Finished(run) == run.pc \in {"done", "refused", "failed"}
Checkout == [contract |-> contract, policy |-> policy, lock |-> lock]

\* No lock in the checkout, and no older run whose last attempt materialized the pool.
OneShot(i, checkout) ==
    /\ checkout.lock = NoLock
    /\ \A j \in 1 .. i - 1 : ~qualifications[j].materialized
Guarded(i, checkout) ==
    [at |-> checkout, materialized |-> FALSE,
     pc |-> IF OneShot(i, checkout) THEN "materialize" ELSE "refused"]

\* One at a time, so the guard reads what the dispatch sees.  The first attempt is
\* dispatched on main; an attempt after a failure keeps the run's id and checkout.
Qualify ==
    /\ \A i \in DOMAIN qualifications : Finished(qualifications[i])
    /\ \/ /\ Len(qualifications) < MaxRuns
          /\ qualifications' = Append(qualifications,
                                     Guarded(Len(qualifications) + 1, Checkout))
       \/ \E i \in DOMAIN qualifications :
            /\ qualifications[i].pc = "failed"
            /\ qualifications' = [qualifications EXCEPT ![i] = Guarded(i, @.at)]
    /\ UNCHANGED <<valid, contract, policy, lock, executions, results, needsContract, edits, failures>>

\* A step dies: before the pool exists, or after it with nothing measured.
QualifyFails(i) ==
    /\ qualifications[i].pc \in {"materialize", "measure"}
    /\ failures < MaxFailures /\ failures' = failures + 1
    /\ qualifications' = [qualifications EXCEPT ![i].pc = "failed"]
    /\ UNCHANGED <<valid, contract, policy, lock, executions, results, needsContract, edits>>

Materialize(i) ==
    /\ qualifications[i].pc = "materialize"
    /\ qualifications' = [qualifications EXCEPT ![i].pc = "measure", ![i].materialized = TRUE]
    /\ UNCHANGED <<valid, contract, policy, lock, executions, results, needsContract, edits, failures>>

\* The baseline is measured on every partition, in pool order.
BaselineValid(seed) == valid[seed]
Take(c, selected, seed) ==
    IF BaselineValid(seed) /\ Len(selected) < c.need THEN Append(selected, seed) ELSE selected
SelectAuthority(c) ==
    LET after[i \in 0 .. Len(c.pool)] == IF i = 0 THEN <<>> ELSE Take(c, after[i - 1], c.pool[i])
    IN  after[Len(c.pool)]
Result(at) ==
    LET selected == SelectAuthority(at.contract)
    IN  [decision |-> IF Len(selected) = at.contract.need THEN "LOCK" ELSE "INCOMPLETE",
         contract |-> at.contract, policy |-> at.policy, selected |-> selected,
         invalid |-> {s \in ToSet(at.contract.pool) : ~BaselineValid(s)}]
Measure(i) ==
    /\ qualifications[i].pc = "measure"
    /\ results' = results \cup {Result(qualifications[i].at)}
    /\ qualifications' = [qualifications EXCEPT ![i].pc = "done"]
    /\ UNCHANGED <<valid, contract, policy, lock, executions, needsContract, edits, failures>>

(***************************************************************************)
(* Execution                                                               *)
(***************************************************************************)
Dispatch ==
    /\ Len(executions) < MaxRuns
    /\ executions' = Append(executions, [at |-> Checkout, guard |-> "queued", ran |-> FALSE])
    /\ UNCHANGED <<valid, contract, policy, lock, qualifications, results, needsContract, edits,
                   failures>>

\* The contract job: no other dispatch of this workflow exists, whatever became of it.
Earlier(k) == {j \in DOMAIN executions \ {k} : executions[j].ran}  \* Mutant of Others
Others(k) == DOMAIN executions \ {k}
ContractJob(k) ==
    /\ executions[k].guard = "queued"
    /\ executions' = [executions EXCEPT ![k].guard = IF Others(k) = {} THEN "passed" ELSE "refused"]
    /\ UNCHANGED <<valid, contract, policy, lock, qualifications, results, needsContract, edits,
                   failures>>

\* The lock of the checkout against the contract and the policy of the checkout.
PolicyBound(l, at) == l.policy = at.policy  \* Mutant of BytesBound
BytesBound(l, at) == l.contract = at.contract /\ l.policy = at.policy
SelectionSound(l, c) ==
    /\ Len(l.selected) = c.need /\ IsInjective(l.selected)
    /\ \E at \in [1 .. c.need -> 1 .. Len(c.pool)] :
         /\ \A i \in 1 .. c.need : l.selected[i] = c.pool[at[i]]
         /\ \A i \in 1 .. c.need - 1 : at[i] < at[i + 1]
    /\ ToSet(l.selected) \cap l.invalid = {}
LockValid(l, at) ==
    /\ l.decision = "LOCK" /\ BytesBound(l, at)
    /\ SelectionSound(l, at.contract)

\* The authority job reads nothing but the checkout; where it passes, the candidate runs
\* on the partitions the lock selects.
CandidateJob(k) ==
    /\ LockValid(executions[k].at.lock, executions[k].at)
    /\ needsContract => executions[k].guard = "passed"
    /\ ~executions[k].ran /\ executions' = [executions EXCEPT ![k].ran = TRUE]
    /\ UNCHANGED <<valid, contract, policy, lock, qualifications, results, needsContract, edits,
                   failures>>

Next ==
    \/ EditContract \/ EditPolicy \/ LandLock \/ Qualify \/ Dispatch
    \/ \E i \in DOMAIN qualifications :
         QualifyFails(i) \/ Materialize(i) \/ Measure(i)
    \/ \E k \in DOMAIN executions : ContractJob(k) \/ CandidateJob(k)
Spec == Init /\ [][Next]_vars

(***************************************************************************)
(* Properties                                                              *)
(***************************************************************************)
\* The first n members of pool the baseline is valid on, said by position.
FirstValid(pool, n) ==
    {pool[i] : i \in {j \in DOMAIN pool :
        valid[pool[j]] /\ Cardinality({m \in 1 .. j : valid[pool[m]]}) <= n}}

\* A candidate runs only on the first N baseline-valid partitions of the pool its own
\* contract registers, under the policy of its checkout, and only if a qualification of
\* exactly that contract, frozen candidate included, chose them: neither an edit between
\* the qualification and the run nor a lock landed late changes what is being run.
CandidateOnQualified ==
    \A k \in DOMAIN executions :
        LET e == executions[k].at
        IN  executions[k].ran =>
                /\ ToSet(e.lock.selected) = FirstValid(e.contract.pool, e.contract.need)
                /\ Cardinality(ToSet(e.lock.selected)) = e.contract.need
                /\ \E i \in DOMAIN qualifications :
                     /\ qualifications[i].pc = "done"
                     /\ qualifications[i].at.contract = e.contract
                     /\ qualifications[i].at.policy = e.policy

\* Where the candidate job waits for the one-shot guard, one dispatch at most ever runs the
\* candidate, however dispatches and their jobs interleave.
CandidateInOneRun ==
    needsContract => Cardinality({k \in DOMAIN executions : executions[k].ran}) <= 1

\* candidate_budget is one: the workflow check does not ask for the guard above.
CandidateOnce == Cardinality({k \in DOMAIN executions : executions[k].ran}) <= 1

\* qualification_limit_per_candidate_identity is one: no second pool is measured.
QualifiedOnce == Cardinality(results) <= 1
===============================================================================
