-------------------------- MODULE BlindQualification --------------------------
(***************************************************************************)
(* The blind qualification of one frozen candidate.  A job draws a         *)
(* visible and a blind partition with a key it forgets, measures the       *)
(* candidate on them and classifies the reports it has; a job that dies    *)
(* with nothing measured may be resumed by another on the saved partition. *)
(*                                                                         *)
(* A "tuning" candidate runs alone and is judged by the two validation     *)
(* results; a source "patch" runs beside the shipping baseline and is      *)
(* judged by the pair.  parts[i] is what a whole evaluation of partition i *)
(* would measure, so that what a job concludes can be compared with it.    *)
(***************************************************************************)
EXTENDS Integers, Sequences

CONSTANTS MaxRuns,    \* bound: jobs dispatched
          MaxFaults   \* bound: steps that fail, runners lost, partitions refused

BlindAssumption == MaxRuns \in Nat /\ MaxFaults \in Nat

VARIABLES kind, contract,   \* the candidate, and for a patch the manifest's blind_contract
          listed,           \* the registry of main lists the candidate as terminal
          parts,            \* partitions drawn, in order
          runs, evidence,   \* jobs dispatched; artifacts uploaded, in order
          faults

vars == <<kind, contract, listed, parts, runs, evidence, faults>>

Results == {"PASS", "FAIL"}

\* What a stage shows of a patch beside the two results: non-VAD drift, a violation
\* row of a single case, a VAD-policy violation, no VAD change, a VAD regression.
Flaws == {"none", "drift", "case_row", "impacted", "unmoved", "worse"}
Possible(h) ==
    /\ h.flaw = "none" /\ h.cand = "FAIL" => h.base = "FAIL"
    /\ h.flaw = "unmoved" => h.cand = h.base
    /\ h.flaw = "impacted" => h.cand = "FAIL"
    /\ h.flaw = "case_row" => "FAIL" \in {h.base, h.cand}
Half == {h \in [base : Results, cand : Results, flaw : Flaws] : Possible(h)}
Lone == [base : {"PASS"}, cand : Results, flaw : {"none"}]

\* A partition may turn out too small (100 visible and 16 blind cases are asked for).
\* One stage of a patch's partition may be flawed at a time.
TuningPartitions == [fit : BOOLEAN, visible : Lone, blind : Lone]
PatchPartitions == {p \in [fit : BOOLEAN, visible : Half, blind : Half] :
                       "none" \in {p.visible.flaw, p.blind.flaw} /\ p.blind.flaw # "unmoved"}
Partitions == IF kind = "tuning" THEN TuningPartitions ELSE PatchPartitions

NoPartition == CHOOSE p \in PatchPartitions : ~p.fit  \* never looked at: nothing measured it

Contracts == {c \in [reference : {"absolute-pass", "valid-report"},
                     quality : {"full-absolute-pass", "vad-impact-scoped-v1"},
                     bound : BOOLEAN] :
                  c.quality = "vad-impact-scoped-v1" => c.reference = "valid-report"}

\* The reports in the order the job measures them.
Plan == IF kind = "tuning" THEN <<<<"cand", "visible">>, <<"cand", "blind">>>>
        ELSE <<<<"base", "visible">>, <<"cand", "visible">>,
               <<"base", "blind">>, <<"cand", "blind">>>>
Shows(p, report) == IF report[2] = "visible" THEN p.visible[report[1]] ELSE p.blind[report[1]]

Init ==
    /\ kind \in {"tuning", "patch"} /\ contract \in Contracts
    /\ kind = "tuning" => contract = [reference |-> "absolute-pass",
                                      quality |-> "full-absolute-pass", bound |-> TRUE]
    /\ listed = FALSE /\ parts = <<>> /\ runs = <<>> /\ evidence = <<>> /\ faults = 0

(***************************************************************************)
(* Classification: the first rule that applies                             *)
(***************************************************************************)
Verdict(decision, stage) == [decision |-> decision, stage |-> stage]
NoVerdict == Verdict("none", "none")
FirstRule(rules) ==
    rules[CHOOSE i \in DOMAIN rules : rules[i].when /\ \A j \in 1 .. i - 1 : ~rules[j].when].says
Rule(when, decision, stage) == [when |-> when, says |-> Verdict(decision, stage)]
Otherwise == Rule(TRUE, "QUALIFIED", "none")

\* Mutant of TuningVerdict: a missing blind report counts as a failed one.
MissingFails(p, have) ==
    FirstRule(<<Rule(have < 1, "INCOMPLETE", "visible-evidence-incomplete"),
                Rule(p.visible.cand = "FAIL", "REJECTED", "visible-validation"),
                Rule(have < 2 \/ p.blind.cand = "FAIL", "REJECTED", "blind-holdout"),
                Otherwise>>)

\* have is how many reports of the plan exist.
TuningVerdict(p, have) ==
    FirstRule(<<Rule(have < 1, "INCOMPLETE", "visible-evidence-incomplete"),
                Rule(p.visible.cand = "FAIL", "REJECTED", "visible-validation"),
                Rule(have < 2, "INCOMPLETE", "blind-evidence-incomplete"),
                Rule(p.blind.cand = "FAIL", "REJECTED", "blind-holdout"),
                Otherwise>>)

PatchVerdict(p, have) ==
    LET halves == {p.visible, p.blind}
        some(flaws) == \E h \in halves : h.flaw \in flaws
        scoped == contract.quality = "vad-impact-scoped-v1"
    IN  FirstRule(<<Rule(have < Len(Plan), "INCOMPLETE", "evidence-incomplete"),
                    \* The reports name another executable than the sealed one.
                    Rule(~contract.bound, "none", "none"),
                    Rule(contract.reference = "absolute-pass" /\ \E h \in halves : h.base = "FAIL",
                         "BASELINE_INVALID", "shipping-baseline"),
                    Rule(~scoped /\ p.visible.cand = "FAIL", "REJECTED", "visible-validation"),
                    Rule(~scoped /\ p.blind.cand = "FAIL", "REJECTED", "blind-holdout"),
                    \* A row of a single case names no metric: both of these raise.
                    Rule(scoped /\ some({"drift", "case_row"}), "none", "none"),
                    Rule(scoped /\ some({"impacted"}), "REJECTED",
                         "impact-scoped-candidate-quality"),
                    Rule(p.visible.flaw = "unmoved", "INCOMPLETE",
                         "visible-candidate-behavior-not-exercised"),
                    Rule(some({"worse"}), "REJECTED", "paired-relative-vad-gates"),
                    Otherwise>>)
Classification(p, have) == IF kind = "tuning" THEN TuningVerdict(p, have) ELSE PatchVerdict(p, have)

(***************************************************************************)
(* The jobs                                                                *)
(***************************************************************************)
Active(job) == \E r \in DOMAIN runs : runs[r].job = job /\ runs[r].pc \notin {"done", "lost"}
NewRun(job, source) ==
    [job |-> job, source |-> source, attempt |-> 1, pc |-> "guard", part |-> 0,
     consumed |-> FALSE, have |-> 0, verdict |-> NoVerdict]
Set(r, run) == runs' = [runs EXCEPT ![r] = run]
CountFault == faults < MaxFaults /\ faults' = faults + 1

\* One qualification at a time, by the workflow's concurrency group; each is started by hand.
Dispatch ==
    /\ Len(runs) < MaxRuns /\ ~Active("qualify")
    /\ runs' = Append(runs, NewRun("qualify", 0))
    /\ UNCHANGED <<kind, contract, listed, parts, evidence, faults>>

\* A finished job is run again, from nothing, under the same run id.
Rerun ==
    /\ ~Active("qualify")
    /\ \E r \in DOMAIN runs :
         /\ runs[r].job = "qualify" /\ runs[r].attempt = 1
         /\ Set(r, [runs[r] EXCEPT !.attempt = 2, !.pc = "guard", !.part = 0, !.have = 0,
                                   !.verdict = NoVerdict])
    /\ UNCHANGED <<kind, contract, listed, parts, evidence, faults>>

\* Only a job that measured nothing may be resumed, and only where its corpora were saved.
Resumable(e) ==
    /\ e.job = "qualify" /\ e.part # 0 /\ e.have = 0 /\ e.verdict.decision = "INCOMPLETE"
    /\ e.verdict.stage = IF kind = "tuning" THEN "visible-evidence-incomplete"
                                            ELSE "evidence-incomplete"
\* The patch's resume is written for one artifact, whose counts it fixes.
FitToResume(e) == kind = "tuning" \/ parts[e.part].fit
Resume ==
    /\ Len(runs) < MaxRuns /\ (kind = "patch" => ~Active("resume"))
    /\ \E e \in DOMAIN evidence :
         /\ Resumable(evidence[e]) /\ FitToResume(evidence[e])
         /\ \A r \in DOMAIN runs : runs[r].source = e => runs[r].pc \in {"done", "lost"}
         /\ runs' = Append(runs, NewRun("resume", e))
    /\ UNCHANGED <<kind, contract, listed, parts, evidence, faults>>

\* The registry has no such candidate; a patch must also be the first run to reach its partition.
AnyAttempt(r) == \A s \in DOMAIN runs \ {r} : ~runs[s].consumed  \* Mutant of FirstShot
FirstShot(r) == runs[r].attempt = 1 /\ \A s \in DOMAIN runs \ {r} : ~runs[s].consumed
Admitted(r) == ~listed /\ (kind = "patch" /\ runs[r].job = "qualify" => FirstShot(r))
Guard(r) ==
    /\ runs[r].pc = "guard"
    /\ Set(r, [runs[r] EXCEPT !.pc =
           IF ~Admitted(r) THEN "done"
           ELSE IF runs[r].job = "resume" THEN "evaluate" ELSE "partition",
                              !.part = IF runs[r].source = 0 THEN 0
                                       ELSE evidence[runs[r].source].part])
    /\ UNCHANGED <<kind, contract, listed, parts, evidence, faults>>

\* A partition is drawn; one that is too small fails the step after its corpora are written.
Partition(r) ==
    /\ runs[r].pc = "partition"
    /\ \E p \in Partitions :
         /\ parts' = Append(parts, p)
         /\ IF p.fit THEN UNCHANGED faults ELSE CountFault
         /\ Set(r, [runs[r] EXCEPT !.pc = IF p.fit THEN "evaluate" ELSE "classify",
                                   !.part = Len(parts) + 1, !.consumed = TRUE])
    /\ UNCHANGED <<kind, contract, listed, evidence>>

\* The next report.  A tuning candidate's failed visible run stops the job (--enforce).
Evaluate(r) ==
    /\ runs[r].pc = "evaluate"
    /\ LET have == runs[r].have + 1
           failed == kind = "tuning" /\ Shows(parts[runs[r].part], Plan[have]) = "FAIL"
       IN  Set(r, [runs[r] EXCEPT !.have = have,
                                  !.pc = IF failed \/ have = Len(Plan) THEN "classify" ELSE @])
    /\ UNCHANGED <<kind, contract, listed, parts, evidence, faults>>

\* Before the partition the job builds and seals; the step that draws may have begun or not.
Started(r) == IF runs[r].pc = "partition" THEN BOOLEAN ELSE {FALSE}

\* A step fails.  The qualification still classifies; a resume needs its visible step
\* (tuning) or every step (patch) to have succeeded, and otherwise only uploads.
StepFails(r) ==
    /\ runs[r].pc \in {"partition", "evaluate"} /\ CountFault
    /\ \E started \in Started(r) : Set(r, [runs[r] EXCEPT
           !.pc = IF @ = "partition" \/ runs[r].job = "qualify"
                       \/ (kind = "tuning" /\ runs[r].have > 0)
                  THEN "classify" ELSE "upload",
           !.consumed = @ \/ started])
    /\ UNCHANGED <<kind, contract, listed, parts, evidence>>

\* The runner is lost, or the upload fails: nothing of the job remains.
Lost(r) ==
    /\ runs[r].pc \notin {"guard", "done", "lost"} /\ CountFault
    /\ \E started \in Started(r) : Set(r, [runs[r] EXCEPT !.pc = "lost", !.consumed = @ \/ started])
    /\ UNCHANGED <<kind, contract, listed, parts, evidence>>

Classify(r) ==
    /\ runs[r].pc = "classify"
    /\ Set(r, [runs[r] EXCEPT !.pc = "upload",
           !.verdict = IF runs[r].part = 0
                       THEN Classification(NoPartition, 0)
                       ELSE Classification(parts[runs[r].part], runs[r].have)])
    /\ UNCHANGED <<kind, contract, listed, parts, evidence, faults>>

Upload(r) ==
    /\ runs[r].pc = "upload"
    /\ evidence' = Append(evidence, [job |-> runs[r].job, part |-> runs[r].part,
                                     have |-> runs[r].have, verdict |-> runs[r].verdict])
    /\ Set(r, [runs[r] EXCEPT !.pc = "done"])
    /\ UNCHANGED <<kind, contract, listed, parts, faults>>

\* A pull request enters a rejection in the registry.
Land ==
    /\ ~listed /\ \E e \in DOMAIN evidence : evidence[e].verdict.decision = "REJECTED"
    /\ listed' = TRUE
    /\ UNCHANGED <<kind, contract, parts, runs, evidence, faults>>

Work(r) == Guard(r) \/ Partition(r) \/ Evaluate(r) \/ StepFails(r) \/ Lost(r) \/ Classify(r)
           \/ Upload(r)
Next == Dispatch \/ Rerun \/ Resume \/ Land \/ \E r \in DOMAIN runs : Work(r)
Spec == Init /\ [][Next]_vars

(***************************************************************************)
(* Properties                                                              *)
(***************************************************************************)
\* Every variable stays in its domain.
TypeOK ==
    /\ kind \in {"tuning", "patch"} /\ contract \in Contracts /\ listed \in BOOLEAN
    /\ \A i \in DOMAIN parts : parts[i] \in Partitions
    /\ \A r \in DOMAIN runs : runs[r].part \in 0 .. Len(parts) /\ runs[r].have \in 0 .. Len(Plan)
    /\ Len(runs) <= MaxRuns /\ faults \in 0 .. MaxFaults

\* A source patch sees one blind partition, whatever is dispatched, run again, lost or
\* resumed: the one-shot guard, its attempt check and the concurrency group together.
OnePartition == kind = "patch" => Len(parts) <= 1

\* What the contract asks of a partition, said without regard to the order of the rules.
Deserves(p) ==
    LET halves == {p.visible, p.blind}
        absolute == kind = "tuning" \/ contract.quality = "full-absolute-pass"
    IN  /\ absolute => \A h \in halves : h.cand = "PASS"
        /\ contract.reference = "absolute-pass" => \A h \in halves : h.base = "PASS"
        /\ p.visible.flaw # "unmoved" /\ \A h \in halves : h.flaw # "worse"
        /\ ~absolute => \A h \in halves : h.flaw = "none"
Refuted(p) ==
    \E h \in {p.visible, p.blind} :
        \/ h.cand = "FAIL" /\ (contract.quality = "vad-impact-scoped-v1" => h.flaw = "impacted")
        \/ h.flaw = "worse"

\* No death of a job, missing report or resume turns into a verdict: a candidate is
\* qualified only where a whole evaluation of its partition deserves it, and rejected
\* only where one refutes it.
VerdictEarned ==
    \A i \in DOMAIN evidence :
        LET e == evidence[i]
        IN  /\ e.verdict.decision = "QUALIFIED" => e.have = Len(Plan) /\ Deserves(parts[e.part])
            /\ e.verdict.decision = "REJECTED" => Refuted(parts[e.part])

\* "holdout partition admission: v >= 100 and b >= 16": a candidate is qualified on a
\* partition that was admitted.  The resume workflow does not count the cases again.
AdmittedOnly ==
    \A i \in DOMAIN evidence :
        evidence[i].verdict.decision = "QUALIFIED" => parts[evidence[i].part].fit

\* "A rejection is terminal for that tuning identity": no later artifact qualifies it.
RejectedStaysRejected ==
    \A i, j \in DOMAIN evidence :
        i < j /\ evidence[i].verdict.decision = "REJECTED" => evidence[j].verdict.decision # "QUALIFIED"
===============================================================================
