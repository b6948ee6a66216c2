----------------------------- MODULE ResearchProofs -----------------------------
(***************************************************************************)
(* What a blind verdict and the run of a source candidate stand on, for    *)
(* every number of jobs, pools, edits and faults: a patch sees one         *)
(* partition, a candidate is qualified on every report its contract asks   *)
(* for and rejected only by one that refutes it, what runs is on the first *)
(* valid partitions of its own contract's pool, a validation that passes   *)
(* has measured every case within the policy's bounds, and a search hands  *)
(* on only what no rival outdid and the holdouts bore out, for every run   *)
(* of finitely many units, metrics and gates.                              *)
(***************************************************************************)
EXTENDS MC_Research, FiniteSetTheorems, SequenceTheorems, WellFoundedInduction, TLAPS

(***************************************************************************)
(* What a classification says                                              *)
(***************************************************************************)
\* A set of naturals that is not empty has a least element: what stands in for induction.
LEMMA LeastNumber ==
  ASSUME NEW Ns, Ns \subseteq Nat, Ns # {}
  PROVE  \E x \in Ns : \A y \in Ns : x <= y
<1> DEFINE Smaller == {ss \in Nat \X Nat : ss[1] < ss[2]}
<1>1. IsWellFoundedOn(Smaller, Nat)
  BY NatLessThanWellFounded DEF OpToRel
<1>2. \E x \in Ns : \A y \in Ns : ~ (<<y, x>> \in Smaller)
  <2> HIDE DEF Smaller
  <2> QED BY <1>1, WFMin
<1>3. PICK x \in Ns : \A y \in Ns : ~ (<<y, x>> \in Smaller)
  BY <1>2
<1>4. ASSUME NEW y \in Ns PROVE x <= y
  <2>1. x \in Nat /\ y \in Nat OBVIOUS
  <2>2. ~ (<<y, x>> \in Smaller) BY <1>3
  <2>3. ~ (y < x) BY <2>1, <2>2
  <2> QED BY <2>1, <2>3
<1> QED BY <1>4

\* Of rules one of which applies, the first that does decides.
Decides(rules, i) == rules[i].when /\ \A j \in 1 .. i - 1 : ~rules[j].when
LEMMA SomeRuleDecides ==
  ASSUME NEW n \in Nat, NEW rules, DOMAIN rules = 1 .. n, NEW k \in 1 .. n, rules[k].when
  PROVE  \E i \in 1 .. n : Decides(rules, i) /\ Blind!FirstRule(rules) = rules[i].says
<1> DEFINE Ns == {i \in 1 .. n : rules[i].when}
<1>1. Ns \subseteq Nat /\ Ns # {} OBVIOUS
<1>2. PICK x \in Ns : \A y \in Ns : x <= y BY <1>1, LeastNumber
<1>3. x \in 1 .. n /\ rules[x].when OBVIOUS
<1>4. ASSUME NEW j \in 1 .. x - 1, rules[j].when PROVE FALSE
  <2>1. j \in 1 .. n BY <1>3
  <2>2. j \in Ns BY <2>1, <1>4
  <2>3. x <= j BY <1>2, <2>2
  <2> QED BY <1>3, <2>1, <2>3
<1>5. rules[x].when /\ \A j \in 1 .. x - 1 : ~rules[j].when BY <1>3, <1>4
<1> HIDE DEF Ns
<1> DEFINE c == CHOOSE i \in DOMAIN rules : rules[i].when /\ \A j \in 1 .. i - 1 : ~rules[j].when
<1>6. c \in DOMAIN rules /\ rules[c].when /\ \A j \in 1 .. c - 1 : ~rules[j].when
  BY <1>3, <1>5, Zenon
<1>7. Blind!FirstRule(rules) = rules[c].says BY DEF Blind!FirstRule
<1> HIDE DEF c
<1> QED BY <1>6, <1>7 DEF Decides

\* What a candidate's kind and contract ask of a partition, with both named.
Asked(k, c, p) ==
    LET halves == {p.visible, p.blind}
        absolute == k = "tuning" \/ c.quality = "full-absolute-pass"
    IN  /\ absolute => \A h \in halves : h.cand = "PASS"
        /\ c.reference = "absolute-pass" => \A h \in halves : h.base = "PASS"
        /\ p.visible.flaw # "unmoved" /\ \A h \in halves : h.flaw # "worse"
        /\ ~absolute => \A h \in halves : h.flaw = "none"
Against(c, p) ==
    \E h \in {p.visible, p.blind} :
        \/ h.cand = "FAIL" /\ (c.quality = "vad-impact-scoped-v1" => h.flaw = "impacted")
        \/ h.flaw = "worse"
Reports(k) == IF k = "tuning" THEN 2 ELSE 4
PartsOf(k) == IF k = "tuning" THEN Blind!TuningPartitions ELSE Blind!PatchPartitions

LEMMA PlanLength == Len(Blind!Plan) = Reports(kind)
BY DEF Blind!Plan, Reports

Verdicts == [decision : {"none", "INCOMPLETE", "REJECTED", "QUALIFIED", "BASELINE_INVALID"},
             stage : {"none", "visible-evidence-incomplete", "blind-evidence-incomplete", "evidence-incomplete",
                      "visible-validation", "blind-holdout", "shipping-baseline",
                      "impact-scoped-candidate-quality", "visible-candidate-behavior-not-exercised",
                      "paired-relative-vad-gates"}]
\* A verdict that is what n reports of a partition allow.
Fair(v, k, c, p, n) == /\ v.decision = "QUALIFIED" => n = Reports(k) /\ Asked(k, c, p)
                       /\ v.decision = "REJECTED" => Against(c, p)

\* A tuning candidate is qualified only on both reports, and rejected only on one that failed.
LEMMA TuningVerdictEarned ==
  ASSUME NEW p \in Blind!TuningPartitions, NEW n \in 0 .. 2, NEW c \in Blind!Contracts,
         c = [reference |-> "absolute-pass", quality |-> "full-absolute-pass", bound |-> TRUE],
         NEW v, v = Blind!TuningVerdict(p, n)
  PROVE  v \in Verdicts /\ Fair(v, "tuning", c, p, n)
<1> DEFINE w1 == n < 1
           w2 == p.visible.cand = "FAIL"
           w3 == n < 2
           w4 == p.blind.cand = "FAIL"
           rules == <<Blind!Rule(w1, "INCOMPLETE", "visible-evidence-incomplete"),
                      Blind!Rule(w2, "REJECTED", "visible-validation"),
                      Blind!Rule(w3, "INCOMPLETE", "blind-evidence-incomplete"),
                      Blind!Rule(w4, "REJECTED", "blind-holdout"),
                      Blind!Otherwise>>
<1>1. v = Blind!FirstRule(rules) BY DEF Blind!TuningVerdict
<1>3. DOMAIN rules = 1 .. 5 OBVIOUS
<1>4. /\ rules[1].says = [decision |-> "INCOMPLETE", stage |-> "visible-evidence-incomplete"]
      /\ rules[2].says = [decision |-> "REJECTED", stage |-> "visible-validation"]
      /\ rules[3].says = [decision |-> "INCOMPLETE", stage |-> "blind-evidence-incomplete"]
      /\ rules[4].says = [decision |-> "REJECTED", stage |-> "blind-holdout"]
      /\ rules[5].says = [decision |-> "QUALIFIED", stage |-> "none"]
  BY DEF Blind!Rule, Blind!Verdict, Blind!Otherwise
<1>a. /\ rules[2].when <=> w2
      /\ rules[3].when <=> w3
      /\ rules[4].when <=> w4
      /\ rules[5].when
  BY DEF Blind!Rule, Blind!Verdict, Blind!Otherwise
<1>b. /\ rules[1].says \in Verdicts /\ rules[2].says \in Verdicts /\ rules[3].says \in Verdicts
      /\ rules[4].says \in Verdicts /\ rules[5].says \in Verdicts
  <2> HIDE DEF rules
  <2> QED BY <1>4 DEF Verdicts
<1>5. \E i \in 1 .. 5 : Decides(rules, i) /\ Blind!FirstRule(rules) = rules[i].says
  <2> HIDE DEF rules
  <2> QED BY <1>3, <1>a, 5 \in Nat, 5 \in 1 .. 5, SomeRuleDecides
<1>6. PICK i \in 1 .. 5 : Decides(rules, i) /\ Blind!FirstRule(rules) = rules[i].says BY <1>5
<1>7. p.visible.cand \in {"PASS", "FAIL"} /\ p.blind.cand \in {"PASS", "FAIL"} /\ p.visible.flaw = "none"
      /\ p.blind.flaw = "none" /\ p.visible.base = "PASS" /\ p.blind.base = "PASS"
  BY DEF Blind!TuningPartitions, Blind!Lone, Blind!Results
<1> HIDE DEF rules
<1>c. v \in Verdicts
  <2>1. i = 1 \/ i = 2 \/ i = 3 \/ i = 4 \/ i = 5 BY <1>6
  <2> QED BY <1>1, <1>6, <1>b, <2>1
<1>8. ASSUME v.decision = "REJECTED" PROVE Against(c, p)
  <2>1. i = 2 \/ i = 4 BY <1>1, <1>4, <1>6, <1>8
  <2>2. w2 \/ w4 BY <1>6, <1>a, <2>1 DEF Decides
  <2>3. c.quality # "vad-impact-scoped-v1" OBVIOUS
  <2> QED BY <2>2, <2>3 DEF Against
<1>9. ASSUME v.decision = "QUALIFIED" PROVE n = 2 /\ Asked("tuning", c, p)
  <2>0. i = 5 BY <1>1, <1>4, <1>6, <1>9
  <2>1. ~rules[2].when /\ ~rules[3].when /\ ~rules[4].when BY <1>6, <2>0 DEF Decides
  <2>2. ~w2 /\ ~w3 /\ ~w4 BY <1>a, <2>1
  <2>3. n = 2 BY <2>2
  <2>4. Asked("tuning", c, p) BY <1>7, <2>2 DEF Asked
  <2> QED BY <2>3, <2>4
<1> QED BY <1>c, <1>8, <1>9 DEF Fair, Reports

\* A patch is qualified only on all four reports and by every rule, and rejected by one a fault broke.
LEMMA PatchVerdictEarned ==
  ASSUME kind = "patch", contract \in Blind!Contracts,
         NEW p \in Blind!PatchPartitions, NEW n \in 0 .. 4, NEW v, v = Blind!PatchVerdict(p, n)
  PROVE  v \in Verdicts /\ Fair(v, "patch", contract, p, n)
<1> DEFINE halves == {p.visible, p.blind}
           some(flaws) == \E h \in halves : h.flaw \in flaws
           scoped == contract.quality = "vad-impact-scoped-v1"
           w1 == n < Len(Blind!Plan)
           w2 == ~contract.bound
           w3 == contract.reference = "absolute-pass" /\ \E h \in halves : h.base = "FAIL"
           w4 == ~scoped /\ p.visible.cand = "FAIL"
           w5 == ~scoped /\ p.blind.cand = "FAIL"
           w6 == scoped /\ some({"drift", "case_row"})
           w7 == scoped /\ some({"impacted"})
           w8 == p.visible.flaw = "unmoved"
           w9 == some({"worse"})
           rules == <<Blind!Rule(w1, "INCOMPLETE", "evidence-incomplete"),
                      Blind!Rule(w2, "none", "none"),
                      Blind!Rule(w3, "BASELINE_INVALID", "shipping-baseline"),
                      Blind!Rule(w4, "REJECTED", "visible-validation"),
                      Blind!Rule(w5, "REJECTED", "blind-holdout"),
                      Blind!Rule(w6, "none", "none"),
                      Blind!Rule(w7, "REJECTED", "impact-scoped-candidate-quality"),
                      Blind!Rule(w8, "INCOMPLETE", "visible-candidate-behavior-not-exercised"),
                      Blind!Rule(w9, "REJECTED", "paired-relative-vad-gates"),
                      Blind!Otherwise>>
<1>1. v = Blind!FirstRule(rules) BY DEF Blind!PatchVerdict
<1> HIDE DEF w1, w2, w3, w4, w5, w6, w7, w8, w9
<1>3. DOMAIN rules = 1 .. 10 OBVIOUS
<1>4. /\ rules[1].says = [decision |-> "INCOMPLETE", stage |-> "evidence-incomplete"]
      /\ rules[2].says = [decision |-> "none", stage |-> "none"]
      /\ rules[3].says = [decision |-> "BASELINE_INVALID", stage |-> "shipping-baseline"]
      /\ rules[4].says = [decision |-> "REJECTED", stage |-> "visible-validation"]
      /\ rules[5].says = [decision |-> "REJECTED", stage |-> "blind-holdout"]
      /\ rules[6].says = [decision |-> "none", stage |-> "none"]
      /\ rules[7].says = [decision |-> "REJECTED", stage |-> "impact-scoped-candidate-quality"]
      /\ rules[8].says = [decision |-> "INCOMPLETE", stage |-> "visible-candidate-behavior-not-exercised"]
      /\ rules[9].says = [decision |-> "REJECTED", stage |-> "paired-relative-vad-gates"]
      /\ rules[10].says = [decision |-> "QUALIFIED", stage |-> "none"]
  BY DEF Blind!Rule, Blind!Verdict, Blind!Otherwise
<1>a. /\ rules[1].when <=> w1
      /\ rules[2].when <=> w2
      /\ rules[3].when <=> w3
      /\ rules[4].when <=> w4
      /\ rules[5].when <=> w5
      /\ rules[6].when <=> w6
      /\ rules[7].when <=> w7
      /\ rules[8].when <=> w8
      /\ rules[9].when <=> w9
      /\ rules[10].when
  BY DEF Blind!Rule, Blind!Verdict, Blind!Otherwise
<1>b. \A i \in 1 .. 10 : rules[i].says \in Verdicts
  <2> HIDE DEF rules
  <2>1. /\ rules[1].says \in Verdicts /\ rules[2].says \in Verdicts /\ rules[3].says \in Verdicts
        /\ rules[4].says \in Verdicts /\ rules[5].says \in Verdicts /\ rules[6].says \in Verdicts
        /\ rules[7].says \in Verdicts /\ rules[8].says \in Verdicts /\ rules[9].says \in Verdicts
        /\ rules[10].says \in Verdicts
    BY <1>4 DEF Verdicts
  <2> QED BY <2>1
<1>5. \E i \in 1 .. 10 : Decides(rules, i) /\ Blind!FirstRule(rules) = rules[i].says
  <2> HIDE DEF rules
  <2> QED BY <1>3, <1>a, 10 \in Nat, 10 \in 1 .. 10, SomeRuleDecides
<1>6. PICK i \in 1 .. 10 : Decides(rules, i) /\ Blind!FirstRule(rules) = rules[i].says BY <1>5
<1> HIDE DEF rules
<1>c. v \in Verdicts BY <1>1, <1>6, <1>b
<1>7. /\ p.visible.cand \in {"PASS", "FAIL"} /\ p.blind.cand \in {"PASS", "FAIL"}
      /\ p.visible.base \in {"PASS", "FAIL"} /\ p.blind.base \in {"PASS", "FAIL"}
      /\ p.visible.flaw \in Blind!Flaws /\ p.blind.flaw \in Blind!Flaws
      /\ p.visible.flaw = "impacted" => p.visible.cand = "FAIL"
      /\ p.blind.flaw = "impacted" => p.blind.cand = "FAIL"
      /\ p.blind.flaw # "unmoved"
  BY DEF Blind!PatchPartitions, Blind!Half, Blind!Possible, Blind!Results
<1>8. contract.quality \in {"full-absolute-pass", "vad-impact-scoped-v1"}
  BY DEF Blind!Contracts
<1>9. ASSUME v.decision = "REJECTED" PROVE Against(contract, p)
  <2>1. i = 4 \/ i = 5 \/ i = 7 \/ i = 9 BY <1>1, <1>4, <1>6, <1>9
  <2>2. w4 \/ w5 \/ w7 \/ w9 BY <1>6, <1>a, <2>1 DEF Decides
  <2>3. CASE w4 \/ w5 BY <2>3 DEF Against, w4, w5
  <2>4. CASE w7 BY <1>7, <2>4 DEF Against, w7
  <2>5. CASE w9 BY <2>5 DEF Against, w9
  <2> QED BY <2>2, <2>3, <2>4, <2>5
<1>10. ASSUME v.decision = "QUALIFIED" PROVE n = 4 /\ Asked("patch", contract, p)
  <2>0. i = 10 BY <1>1, <1>4, <1>6, <1>10
  <2>1. /\ ~rules[1].when /\ ~rules[2].when /\ ~rules[3].when /\ ~rules[4].when /\ ~rules[5].when
        /\ ~rules[6].when /\ ~rules[7].when /\ ~rules[8].when /\ ~rules[9].when
    BY <1>6, <2>0 DEF Decides
  <2>2. ~w1 /\ ~w3 /\ ~w4 /\ ~w5 /\ ~w6 /\ ~w7 /\ ~w8 /\ ~w9 BY <1>a, <2>1
  <2>3. n = 4 BY <2>2, PlanLength DEF Reports, w1
  <2>4. contract.quality = "full-absolute-pass" => p.visible.cand = "PASS" /\ p.blind.cand = "PASS"
    BY <1>7, <2>2 DEF w4, w5
  <2>5. contract.reference = "absolute-pass" => p.visible.base = "PASS" /\ p.blind.base = "PASS"
    BY <1>7, <2>2 DEF w3
  <2>6. p.visible.flaw # "unmoved" /\ p.visible.flaw # "worse" /\ p.blind.flaw # "worse"
    BY <2>2 DEF w8, w9
  <2>7. contract.quality # "full-absolute-pass" => p.visible.flaw = "none" /\ p.blind.flaw = "none"
    BY <1>7, <1>8, <2>2, <2>6 DEF w6, w7, Blind!Flaws
  <2> QED BY <2>3, <2>4, <2>5, <2>6, <2>7 DEF Asked
<1> QED BY <1>c, <1>9, <1>10 DEF Fair, Reports

\* A classification with nothing measured says so, whatever it is given for a partition.
LEMMA NothingMeasured ==
  ASSUME kind \in {"tuning", "patch"}, NEW p, NEW v, v = Blind!Classification(p, 0)
  PROVE  v \in Verdicts /\ v.decision = "INCOMPLETE"
<1>1. ASSUME NEW n \in Nat \ {0}, NEW rules, DOMAIN rules = 1 .. n, rules[1].when
      PROVE  Blind!FirstRule(rules) = rules[1].says
  <2>1. PICK i \in 1 .. n : Decides(rules, i) /\ Blind!FirstRule(rules) = rules[i].says
    BY <1>1, 1 \in 1 .. n, SomeRuleDecides
  <2>2. CASE i # 1
    <3>1. 1 \in 1 .. i - 1 BY <2>2
    <3> QED BY <1>1, <2>1, <3>1 DEF Decides
  <2> QED BY <2>1, <2>2
<1>2. CASE kind = "tuning"
  <2> DEFINE w1 == 0 < 1
             rules == <<Blind!Rule(w1, "INCOMPLETE", "visible-evidence-incomplete"),
                        Blind!Rule(p.visible.cand = "FAIL", "REJECTED", "visible-validation"),
                        Blind!Rule(0 < 2, "INCOMPLETE", "blind-evidence-incomplete"),
                        Blind!Rule(p.blind.cand = "FAIL", "REJECTED", "blind-holdout"),
                        Blind!Otherwise>>
  <2>1. v = Blind!FirstRule(rules) BY <1>2 DEF Blind!Classification, Blind!TuningVerdict
  <2>2. DOMAIN rules = 1 .. 5 OBVIOUS
  <2>0. w1 OBVIOUS
  <2> HIDE DEF w1
  <2>3. rules[1].when BY <2>0 DEF Blind!Rule
  <2>4. rules[1].says = [decision |-> "INCOMPLETE", stage |-> "visible-evidence-incomplete"]
    BY DEF Blind!Rule, Blind!Verdict
  <2> HIDE DEF rules
  <2>5. v = rules[1].says BY <1>1, <2>1, <2>2, <2>3, 5 \in Nat \ {0}
  <2> QED BY <2>4, <2>5 DEF Verdicts
<1>3. CASE kind = "patch"
  <2> DEFINE halves == {p.visible, p.blind}
             some(flaws) == \E h \in halves : h.flaw \in flaws
             scoped == contract.quality = "vad-impact-scoped-v1"
             w1 == 0 < Len(Blind!Plan)
             rules == <<Blind!Rule(w1, "INCOMPLETE", "evidence-incomplete"),
                        Blind!Rule(~contract.bound, "none", "none"),
                        Blind!Rule(contract.reference = "absolute-pass" /\ \E h \in halves : h.base = "FAIL",
                                   "BASELINE_INVALID", "shipping-baseline"),
                        Blind!Rule(~scoped /\ p.visible.cand = "FAIL", "REJECTED", "visible-validation"),
                        Blind!Rule(~scoped /\ p.blind.cand = "FAIL", "REJECTED", "blind-holdout"),
                        Blind!Rule(scoped /\ some({"drift", "case_row"}), "none", "none"),
                        Blind!Rule(scoped /\ some({"impacted"}), "REJECTED", "impact-scoped-candidate-quality"),
                        Blind!Rule(p.visible.flaw = "unmoved", "INCOMPLETE",
                                   "visible-candidate-behavior-not-exercised"),
                        Blind!Rule(some({"worse"}), "REJECTED", "paired-relative-vad-gates"),
                        Blind!Otherwise>>
  <2>1. v = Blind!FirstRule(rules) BY <1>3 DEF Blind!Classification, Blind!PatchVerdict
  <2>2. DOMAIN rules = 1 .. 10 OBVIOUS
  <2>0. w1 BY <1>3, PlanLength DEF Reports
  <2> HIDE DEF w1
  <2>3. rules[1].when BY <2>0 DEF Blind!Rule
  <2>4. rules[1].says = [decision |-> "INCOMPLETE", stage |-> "evidence-incomplete"]
    BY DEF Blind!Rule, Blind!Verdict
  <2> HIDE DEF rules
  <2>5. v = rules[1].says BY <1>1, <2>1, <2>2, <2>3, 10 \in Nat \ {0}
  <2> QED BY <2>4, <2>5 DEF Verdicts
<1> QED BY <1>2, <1>3

(***************************************************************************)
(* The jobs of a qualification                                             *)
(***************************************************************************)
Jobs2 == [job : {"qualify", "resume"}, source : Nat, attempt : {1, 2},
          pc : {"guard", "partition", "evaluate", "classify", "upload", "done", "lost"},
          part : Nat, consumed : BOOLEAN, have : Nat, verdict : Verdicts]
Artifacts == [job : {"qualify", "resume"}, part : Nat, have : Nat, verdict : Verdicts]
BlindTypes ==
    /\ kind \in {"tuning", "patch"} /\ contract \in Blind!Contracts /\ listed \in BOOLEAN
    /\ kind = "tuning" =>
          contract = [reference |-> "absolute-pass", quality |-> "full-absolute-pass", bound |-> TRUE]
    /\ parts \in Seq(PartsOf(kind)) /\ runs \in Seq(Jobs2) /\ evidence \in Seq(Artifacts)
    /\ Len(runs) <= MaxRuns /\ faults \in 0 .. MaxFaults
\* What is concluded of a partition is fair; nothing else is concluded.
Earned(x, k, c, ps) ==
    /\ x.part \in 0 .. Len(ps) /\ x.have \in 0 .. Reports(k)
    /\ x.verdict.decision \in {"QUALIFIED", "REJECTED"} => x.part # 0 /\ Fair(x.verdict, k, c, ps[x.part], x.have)
\* A job at work has no verdict, measures no more than its plan, and only with a partition; a
\* resume has that of an artifact.
JobFine(x, k, c, ps, es) ==
    /\ Earned(x, k, c, ps)
    /\ x.pc \in {"guard", "partition", "evaluate", "classify"} => x.verdict = Blind!NoVerdict
    /\ x.pc \in {"guard", "partition"} => x.have = 0
    /\ x.pc = "evaluate" => x.have < Reports(k) /\ x.part # 0
    /\ x.pc = "classify" /\ x.have # 0 => x.part # 0
    /\ x.job = "resume" => x.pc # "partition" /\ x.source \in 1 .. Len(es) /\ es[x.source].part # 0
    /\ x.job = "qualify" => x.source = 0
    /\ x.attempt = 1 /\ x.pc = "guard" => ~x.consumed
JobsFine == \A r \in 1 .. Len(runs) : JobFine(runs[r], kind, contract, parts, evidence)
ArtifactsFine == \A i \in 1 .. Len(evidence) : Earned(evidence[i], kind, contract, parts)
\* One qualification is under way, and of a patch one ever draws.
Busy(x) == x.job = "qualify" /\ x.pc \notin {"done", "lost"}
OneJob == \A r, s \in 1 .. Len(runs) : Busy(runs[r]) /\ Busy(runs[s]) => r = s
OneShot ==
    kind = "patch" =>
        /\ Len(parts) <= 1
        /\ parts # <<>> => \E r \in 1 .. Len(runs) : runs[r].consumed
        /\ \A r, s \in 1 .. Len(runs) : runs[r].pc = "partition" => ~runs[s].consumed
BlindInv == BlindTypes /\ JobsFine /\ ArtifactsFine /\ OneJob /\ OneShot

\* The bare properties follow.
LEMMA BlindInvSuffices ==
  ASSUME BlindInv
  PROVE  Blind!TypeOK /\ Blind!OnePartition /\ Blind!VerdictEarned
<1>1. Blind!TypeOK
  <2>1. DOMAIN parts = 1 .. Len(parts) /\ \A i \in 1 .. Len(parts) : parts[i] \in PartsOf(kind)
    BY ElementOfSeq, LenProperties DEF BlindInv, BlindTypes
  <2>2. DOMAIN runs = 1 .. Len(runs) BY LenProperties DEF BlindInv, BlindTypes
  <2>3. \A r \in 1 .. Len(runs) : runs[r].part \in 0 .. Len(parts) /\ runs[r].have \in 0 .. Len(Blind!Plan)
    BY PlanLength DEF BlindInv, JobsFine, JobFine, Earned
  <2>4. Blind!Partitions = PartsOf(kind) BY DEF Blind!Partitions, PartsOf
  <2> QED BY <2>1, <2>2, <2>3, <2>4 DEF Blind!TypeOK, BlindInv, BlindTypes
<1>2. Blind!OnePartition BY DEF Blind!OnePartition, BlindInv, OneShot
<1>3. Blind!VerdictEarned
  <2>1. DOMAIN evidence = 1 .. Len(evidence) BY LenProperties DEF BlindInv, BlindTypes
  <2>2. SUFFICES ASSUME NEW i \in 1 .. Len(evidence)
                 PROVE  LET e == evidence[i] IN
                        /\ e.verdict.decision = "QUALIFIED" => e.have = Len(Blind!Plan) /\ Blind!Deserves(parts[e.part])
                        /\ e.verdict.decision = "REJECTED" => Blind!Refuted(parts[e.part])
    BY <2>1 DEF Blind!VerdictEarned
  <2>3. Earned(evidence[i], kind, contract, parts) BY DEF BlindInv, ArtifactsFine
  <2>4. \A p : Asked(kind, contract, p) => Blind!Deserves(p) BY DEF Asked, Blind!Deserves
  <2>5. \A p : Against(contract, p) => Blind!Refuted(p) BY DEF Against, Blind!Refuted
  <2> QED BY <2>3, <2>4, <2>5, PlanLength DEF Earned, Fair
<1> QED BY <1>1, <1>2, <1>3

\* Partitions and artifacts are only added.
Extends(q, q2) == /\ Len(q) \in Nat /\ Len(q2) \in Nat /\ Len(q) <= Len(q2)
                  /\ \A i \in 1 .. Len(q) : q2[i] = q[i]

LEMMA EarnedKept ==
  ASSUME NEW x, NEW k, NEW c, NEW ps, NEW ps2, Extends(ps, ps2), Earned(x, k, c, ps)
  PROVE  Earned(x, k, c, ps2)
<1>1. x.part \in 0 .. Len(ps2) BY DEF Earned, Extends
<1>2. x.part # 0 => ps2[x.part] = ps[x.part] BY DEF Earned, Extends
<1> QED BY <1>1, <1>2 DEF Earned

LEMMA JobFineKept ==
  ASSUME NEW x, NEW k, NEW c, NEW ps, NEW ps2, NEW es, NEW es2, Extends(ps, ps2), Extends(es, es2),
         JobFine(x, k, c, ps, es)
  PROVE  JobFine(x, k, c, ps2, es2)
<1>1. Earned(x, k, c, ps2) BY EarnedKept DEF JobFine
<1>2. x.job = "resume" => x.source \in 1 .. Len(es2) /\ es2[x.source].part # 0
  BY DEF JobFine, Extends
<1> QED BY <1>1, <1>2 DEF JobFine

LEMMA SeqChange ==
  ASSUME NEW S, NEW q \in Seq(S), NEW r \in 1 .. Len(q), NEW x \in S, NEW q2, q2 = [q EXCEPT ![r] = x]
  PROVE  /\ q2 \in Seq(S) /\ Len(q2) = Len(q) /\ q2[r] = x
         /\ \A s \in 1 .. Len(q) \ {r} : q2[s] = q[s]
BY ExceptSeq

\* One job changes, and perhaps a partition or an artifact is added.
LEMMA OneJobChanges ==
  ASSUME BlindInv, UNCHANGED <<kind, contract>>, listed' \in BOOLEAN, faults' \in 0 .. MaxFaults,
         parts' \in Seq(PartsOf(kind)), Extends(parts, parts'),
         evidence' \in Seq(Artifacts), Extends(evidence, evidence'),
         NEW r \in 1 .. Len(runs), NEW x \in Jobs2, runs' = [runs EXCEPT ![r] = x],
         JobFine(x, kind, contract, parts', evidence'),
         \A s \in 1 .. Len(runs) \ {r} : Busy(x) => ~Busy(runs[s])
  PROVE  /\ BlindTypes' /\ JobsFine' /\ OneJob'
         /\ \A i \in 1 .. Len(evidence) : Earned(evidence'[i], kind, contract, parts')
         /\ Len(runs') = Len(runs) /\ runs'[r] = x
         /\ \A s \in 1 .. Len(runs) \ {r} : runs'[s] = runs[s]
<1>1. runs \in Seq(Jobs2) BY DEF BlindInv, BlindTypes
<1>2. /\ runs' \in Seq(Jobs2) /\ Len(runs') = Len(runs) /\ runs'[r] = x
      /\ \A s \in 1 .. Len(runs) \ {r} : runs'[s] = runs[s]
  BY <1>1, SeqChange
<1>3. BlindTypes' BY <1>2 DEF BlindInv, BlindTypes
<1>4. JobsFine'
  <2>1. ASSUME NEW s \in 1 .. Len(runs) PROVE JobFine(runs'[s], kind, contract, parts', evidence')
    <3>1. CASE s = r BY <1>2, <3>1
    <3>2. CASE s # r
      <4>1. JobFine(runs[s], kind, contract, parts, evidence) BY DEF BlindInv, JobsFine
      <4>2. JobFine(runs[s], kind, contract, parts', evidence') BY <4>1, JobFineKept
      <4> QED BY <1>2, <3>2, <4>2
    <3> QED BY <3>1, <3>2
  <2> QED BY <1>2, <2>1 DEF JobsFine
<1>5. OneJob'
  <2>1. ASSUME NEW s \in 1 .. Len(runs), NEW t \in 1 .. Len(runs), Busy(runs'[s]), Busy(runs'[t]) PROVE s = t
    <3>1. CASE s # r /\ t # r BY <1>2, <2>1, <3>1 DEF BlindInv, OneJob
    <3>2. CASE s = r /\ t # r BY <1>2, <2>1, <3>2
    <3>3. CASE s # r /\ t = r BY <1>2, <2>1, <3>3
    <3> QED BY <3>1, <3>2, <3>3
  <2> QED BY <1>2, <2>1 DEF OneJob
<1>6. \A i \in 1 .. Len(evidence) : Earned(evidence'[i], kind, contract, parts')
  <2> TAKE i \in 1 .. Len(evidence)
  <2>1. Earned(evidence[i], kind, contract, parts) BY DEF BlindInv, ArtifactsFine
  <2>2. evidence'[i] = evidence[i] BY DEF Extends
  <2> QED BY <2>1, <2>2, EarnedKept
<1> QED BY <1>2, <1>3, <1>4, <1>5, <1>6

\* Only the job that draws consumes the shot.
LEMMA ShotKept ==
  ASSUME BlindInv, NEW r \in 1 .. Len(runs), NEW x, UNCHANGED <<kind, parts>>,
         Len(runs') = Len(runs), runs'[r] = x, \A s \in 1 .. Len(runs) \ {r} : runs'[s] = runs[s],
         runs[r].consumed => x.consumed,
         x.consumed /\ ~runs[r].consumed => runs[r].pc = "partition" /\ x.pc # "partition",
         kind = "patch" /\ x.pc = "partition" => \A s \in 1 .. Len(runs) : ~runs[s].consumed
  PROVE  OneShot'
<1> SUFFICES ASSUME kind = "patch" PROVE OneShot' BY DEF OneShot
<1>1. Len(parts') <= 1 BY DEF BlindInv, OneShot
<1>2. ASSUME parts' # <<>> PROVE \E s \in 1 .. Len(runs') : runs'[s].consumed
  <2>1. PICK s \in 1 .. Len(runs) : runs[s].consumed BY <1>2 DEF BlindInv, OneShot
  <2>2. CASE s = r BY <2>1, <2>2
  <2>3. CASE s # r BY <2>1, <2>3
  <2> QED BY <2>2, <2>3
<1>3. ASSUME NEW s \in 1 .. Len(runs), NEW t \in 1 .. Len(runs), runs'[s].pc = "partition", runs'[t].consumed
      PROVE  FALSE
  <2>1. CASE s = r
    <3>1. \A u \in 1 .. Len(runs) : ~runs[u].consumed BY <1>3, <2>1
    <3>2. t = r BY <1>3, <3>1
    <3>3. ~runs[r].consumed BY <3>1
    <3> QED BY <1>3, <2>1, <3>2, <3>3
  <2>2. CASE s # r
    <3>1. runs[s].pc = "partition" BY <1>3, <2>2
    <3>2. \A u \in 1 .. Len(runs) : ~runs[u].consumed BY <3>1 DEF BlindInv, OneShot
    <3>3. t = r BY <1>3, <3>2
    <3>4. ~runs[r].consumed BY <3>2
    <3>5. runs[r].pc = "partition" BY <1>3, <3>3, <3>4
    <3>6. \A u \in {r, s} : JobFine(runs[u], kind, contract, parts, evidence) /\ runs[u] \in Jobs2
      BY ElementOfSeq DEF BlindInv, JobsFine, BlindTypes
    <3>7. Busy(runs[r]) /\ Busy(runs[s]) BY <3>1, <3>5, <3>6 DEF Busy, JobFine, Jobs2
    <3> QED BY <2>2, <3>7 DEF BlindInv, OneJob
  <2> QED BY <2>1, <2>2
<1> QED BY <1>1, <1>2, <1>3 DEF OneShot

\* A step of one job that adds neither partition nor artifact.
LEMMA StepOfJob ==
  ASSUME BlindInv, UNCHANGED <<kind, contract, listed, parts, evidence>>, faults' \in 0 .. MaxFaults,
         NEW r \in 1 .. Len(runs), NEW x \in Jobs2, Blind!Set(r, x),
         JobFine(x, kind, contract, parts, evidence),
         \A s \in 1 .. Len(runs) \ {r} : Busy(x) => ~Busy(runs[s]),
         runs[r].consumed => x.consumed,
         x.consumed /\ ~runs[r].consumed => runs[r].pc = "partition" /\ x.pc # "partition",
         kind = "patch" /\ x.pc = "partition" => \A s \in 1 .. Len(runs) : ~runs[s].consumed
  PROVE  BlindInv'
<1>1. Extends(parts, parts') /\ Extends(evidence, evidence')
  BY LenProperties DEF Extends, BlindInv, BlindTypes
<1>2. parts' \in Seq(PartsOf(kind)) /\ evidence' \in Seq(Artifacts) /\ listed' \in BOOLEAN
  BY DEF BlindInv, BlindTypes
<1>3. runs' = [runs EXCEPT ![r] = x] BY DEF Blind!Set
<1>4. JobFine(x, kind, contract, parts', evidence') OBVIOUS
<1>5. /\ BlindTypes' /\ JobsFine' /\ OneJob'
      /\ \A i \in 1 .. Len(evidence) : Earned(evidence'[i], kind, contract, parts')
      /\ Len(runs') = Len(runs) /\ runs'[r] = x
      /\ \A s \in 1 .. Len(runs) \ {r} : runs'[s] = runs[s]
  BY <1>1, <1>2, <1>3, <1>4, OneJobChanges
<1>6. OneShot' BY <1>5, ShotKept
<1>7. ArtifactsFine' BY <1>5 DEF ArtifactsFine
<1> QED BY <1>5, <1>6, <1>7 DEF BlindInv

\* What the invariant says of a job that is looked at.
LEMMA JobKnown ==
  ASSUME BlindInv, NEW r \in DOMAIN runs
  PROVE  r \in 1 .. Len(runs) /\ runs[r] \in Jobs2 /\ JobFine(runs[r], kind, contract, parts, evidence)
<1>1. DOMAIN runs = 1 .. Len(runs) BY LenProperties DEF BlindInv, BlindTypes
<1> QED BY <1>1, ElementOfSeq DEF BlindInv, BlindTypes, JobsFine

LEMMA OthersIdle ==
  ASSUME BlindInv, NEW r \in 1 .. Len(runs), Busy(runs[r])
  PROVE  \A s \in 1 .. Len(runs) \ {r} : ~Busy(runs[s])
BY DEF BlindInv, OneJob

LEMMA NobodyActive ==
  ASSUME BlindInv, ~Blind!Active("qualify")
  PROVE  \A s \in 1 .. Len(runs) : ~Busy(runs[s])
<1>1. DOMAIN runs = 1 .. Len(runs) BY LenProperties DEF BlindInv, BlindTypes
<1> QED BY <1>1 DEF Blind!Active, Busy

LEMMA FaultCounted ==
  ASSUME BlindInv, Blind!CountFault
  PROVE  faults' \in 0 .. MaxFaults
BY BlindBounds DEF Blind!CountFault, Blind!BlindAssumption, BlindInv, BlindTypes

LEMMA FaultsKept ==
  ASSUME BlindInv, UNCHANGED faults
  PROVE  faults' \in 0 .. MaxFaults
BY DEF BlindInv, BlindTypes

LEMMA RerunKeeps == ASSUME BlindInv, Blind!Rerun PROVE BlindInv'
<1>1. PICK r \in DOMAIN runs :
         /\ runs[r].job = "qualify" /\ runs[r].attempt = 1
         /\ Blind!Set(r, [runs[r] EXCEPT !.attempt = 2, !.pc = "guard", !.part = 0, !.have = 0,
                                         !.verdict = Blind!NoVerdict])
  BY DEF Blind!Rerun
<1> DEFINE j == runs[r]
           x == [j EXCEPT !.attempt = 2, !.pc = "guard", !.part = 0, !.have = 0, !.verdict = Blind!NoVerdict]
<1>2. r \in 1 .. Len(runs) /\ j \in Jobs2 /\ JobFine(j, kind, contract, parts, evidence) BY JobKnown
<1>3. Blind!NoVerdict \in Verdicts /\ Blind!NoVerdict.decision = "none"
  BY DEF Blind!NoVerdict, Blind!Verdict, Verdicts
<1>4. x \in Jobs2 BY <1>2, <1>3, 0 \in Nat, 2 \in {1, 2} DEF Jobs2
<1>5. x.job = j.job /\ x.source = j.source /\ x.attempt = 2 /\ x.pc = "guard" /\ x.part = 0 /\ x.consumed = j.consumed
      /\ x.have = 0 /\ x.verdict = Blind!NoVerdict
  BY <1>2 DEF Jobs2
<1>6. Blind!Set(r, x) BY <1>1
<1> HIDE DEF j, x
<1>7. Len(parts) \in Nat /\ Reports(kind) \in Nat BY LenProperties DEF BlindInv, BlindTypes, Reports
<1>8. JobFine(x, kind, contract, parts, evidence) BY <1>2, <1>3, <1>5, <1>7 DEF JobFine, Earned
<1>9. \A s \in 1 .. Len(runs) \ {r} : ~Busy(runs[s]) BY NobodyActive DEF Blind!Rerun
<1>10. UNCHANGED <<kind, contract, listed, parts, evidence>> /\ faults' \in 0 .. MaxFaults
  BY FaultsKept DEF Blind!Rerun
<1>11. (runs[r].consumed => x.consumed) /\ ~(x.consumed /\ ~runs[r].consumed) /\ x.pc # "partition"
  BY <1>5 DEF j
<1> QED BY <1>2, <1>4, <1>6, <1>8, <1>9, <1>10, <1>11, StepOfJob

LEMMA GuardKeeps == ASSUME BlindInv, NEW r \in DOMAIN runs, Blind!Guard(r) PROVE BlindInv'
<1> DEFINE j == runs[r]
           newPc == IF ~Blind!Admitted(r) THEN "done" ELSE IF j.job = "resume" THEN "evaluate" ELSE "partition"
           newPart == IF j.source = 0 THEN 0 ELSE evidence[j.source].part
           x == [j EXCEPT !.pc = newPc, !.part = newPart]
<1>1. j.pc = "guard" /\ Blind!Set(r, x) BY DEF Blind!Guard
<1>2. r \in 1 .. Len(runs) /\ j \in Jobs2 /\ JobFine(j, kind, contract, parts, evidence) BY JobKnown
<1>3. /\ newPc \in {"done", "evaluate", "partition"}
      /\ newPc = "evaluate" => j.job = "resume"
      /\ newPc = "partition" => Blind!Admitted(r) /\ j.job = "qualify"
  BY <1>2 DEF Jobs2
<1>4. /\ newPart \in 0 .. Len(parts) /\ newPart \in Nat
      /\ j.job = "resume" => newPart # 0
  <2>1. CASE j.source = 0 BY <1>2, <2>1, LenProperties DEF JobFine, BlindInv, BlindTypes
  <2>2. CASE j.source # 0
    <3>1. j.job = "resume" BY <1>2, <2>2 DEF JobFine, Jobs2
    <3>2. j.source \in 1 .. Len(evidence) /\ evidence[j.source].part # 0 BY <1>2, <3>1 DEF JobFine
    <3>3. Earned(evidence[j.source], kind, contract, parts) BY <3>2 DEF BlindInv, ArtifactsFine
    <3>4. newPart = evidence[j.source].part BY <2>2
    <3> QED BY <3>2, <3>3, <3>4 DEF Earned
  <2> QED BY <2>1, <2>2
<1> HIDE DEF newPc, newPart
<1>5. x \in Jobs2 BY <1>2, <1>3, <1>4 DEF Jobs2
<1>6. x.job = j.job /\ x.source = j.source /\ x.attempt = j.attempt /\ x.pc = newPc /\ x.part = newPart
      /\ x.consumed = j.consumed /\ x.have = j.have /\ x.verdict = j.verdict
  BY <1>2 DEF Jobs2
<1>7. j.have = 0 /\ j.verdict = Blind!NoVerdict BY <1>1, <1>2 DEF JobFine
<1>a. j.attempt = 1 => ~j.consumed BY <1>1, <1>2 DEF JobFine
<1> HIDE DEF x
<1>8. Blind!NoVerdict.decision = "none" BY DEF Blind!NoVerdict, Blind!Verdict
<1>9. Reports(kind) \in {2, 4} BY DEF Reports
<1>10. JobFine(x, kind, contract, parts, evidence)
  BY <1>2, <1>3, <1>4, <1>6, <1>7, <1>8, <1>9 DEF JobFine, Earned
<1>11. \A s \in 1 .. Len(runs) \ {r} : Busy(x) => ~Busy(runs[s])
  <2>1. Busy(x) => Busy(j) BY <1>1, <1>6 DEF Busy
  <2>2. Busy(j) => \A s \in 1 .. Len(runs) \ {r} : ~Busy(runs[s]) BY <1>2, OthersIdle DEF j
  <2> QED BY <2>1, <2>2
<1>12. (runs[r].consumed => x.consumed) /\ ~(x.consumed /\ ~runs[r].consumed) BY <1>6 DEF j
<1>13. ASSUME kind = "patch", x.pc = "partition" PROVE \A s \in 1 .. Len(runs) : ~runs[s].consumed
  <2>1. Blind!FirstShot(r) BY <1>3, <1>6, <1>13 DEF Blind!Admitted, j
  <2>2. j.attempt = 1 /\ \A s \in DOMAIN runs \ {r} : ~runs[s].consumed BY <2>1 DEF Blind!FirstShot, j
  <2>3. ~j.consumed BY <1>a, <2>2
  <2>4. DOMAIN runs = 1 .. Len(runs) BY LenProperties DEF BlindInv, BlindTypes
  <2> QED BY <2>2, <2>3, <2>4 DEF j
<1>14. UNCHANGED <<kind, contract, listed, parts, evidence>> /\ faults' \in 0 .. MaxFaults
  BY FaultsKept DEF Blind!Guard
<1> QED BY <1>1, <1>2, <1>5, <1>10, <1>11, <1>12, <1>13, <1>14, StepOfJob

LEMMA EvaluateKeeps == ASSUME BlindInv, NEW r \in DOMAIN runs, Blind!Evaluate(r) PROVE BlindInv'
<1> DEFINE j == runs[r]
           n == j.have + 1
           failed == kind = "tuning" /\ Blind!Shows(parts[j.part], Blind!Plan[n]) = "FAIL"
           newPc == IF failed \/ n = Len(Blind!Plan) THEN "classify" ELSE j.pc
           x == [j EXCEPT !.have = n, !.pc = newPc]
<1>1. j.pc = "evaluate" /\ Blind!Set(r, x) BY DEF Blind!Evaluate
<1>2. r \in 1 .. Len(runs) /\ j \in Jobs2 /\ JobFine(j, kind, contract, parts, evidence) BY JobKnown
<1>3. newPc \in {"classify", "evaluate"} /\ (newPc = "evaluate" => n # Reports(kind))
  BY <1>1, PlanLength
<1>9. Reports(kind) \in {2, 4} BY DEF Reports
<1>4. n \in Nat /\ n \in 0 .. Reports(kind) BY <1>1, <1>2, <1>9 DEF JobFine, Jobs2
<1> HIDE DEF newPc, failed, n
<1>5. x \in Jobs2 BY <1>2, <1>3, <1>4 DEF Jobs2
<1>6. x.job = j.job /\ x.source = j.source /\ x.attempt = j.attempt /\ x.pc = newPc /\ x.part = j.part
      /\ x.consumed = j.consumed /\ x.have = n /\ x.verdict = j.verdict
  BY <1>2 DEF Jobs2
<1>7. j.part # 0 /\ j.verdict = Blind!NoVerdict BY <1>1, <1>2 DEF JobFine
<1> HIDE DEF x
<1>8. Blind!NoVerdict.decision = "none" BY DEF Blind!NoVerdict, Blind!Verdict
<1>10. JobFine(x, kind, contract, parts, evidence)
  BY <1>2, <1>3, <1>4, <1>6, <1>7, <1>8, <1>9 DEF JobFine, Earned
<1>11. \A s \in 1 .. Len(runs) \ {r} : Busy(x) => ~Busy(runs[s])
  <2>1. Busy(x) => Busy(j) BY <1>1, <1>6 DEF Busy
  <2>2. Busy(j) => \A s \in 1 .. Len(runs) \ {r} : ~Busy(runs[s]) BY <1>2, OthersIdle DEF j
  <2> QED BY <2>1, <2>2
<1>12. (runs[r].consumed => x.consumed) /\ ~(x.consumed /\ ~runs[r].consumed) BY <1>6 DEF j
<1>13. x.pc # "partition" BY <1>3, <1>6
<1>14. UNCHANGED <<kind, contract, listed, parts, evidence>> /\ faults' \in 0 .. MaxFaults
  BY FaultsKept DEF Blind!Evaluate
<1> QED BY <1>1, <1>2, <1>5, <1>10, <1>11, <1>12, <1>13, <1>14, StepOfJob

\* A job that fails or is lost: what it had begun may have drawn.
LEMMA EndingKeeps ==
  ASSUME BlindInv, NEW r \in DOMAIN runs, NEW newPc \in {"classify", "upload", "lost"},
         NEW started \in Blind!Started(r), runs[r].pc \notin {"guard", "done", "lost"},
         newPc = "classify" => runs[r].pc \in {"partition", "evaluate"},
         Blind!Set(r, [runs[r] EXCEPT !.pc = newPc, !.consumed = @ \/ started]),
         UNCHANGED <<kind, contract, listed, parts, evidence>>, Blind!CountFault
  PROVE  BlindInv'
<1> DEFINE j == runs[r]
           used == j.consumed \/ started
           x == [j EXCEPT !.pc = newPc, !.consumed = used]
<1>1. Blind!Set(r, x) OBVIOUS
<1>2. r \in 1 .. Len(runs) /\ j \in Jobs2 /\ JobFine(j, kind, contract, parts, evidence) BY JobKnown
<1>3. /\ used \in BOOLEAN
      /\ j.consumed => used
      /\ used /\ ~j.consumed => j.pc = "partition"
  BY DEF Blind!Started
<1> HIDE DEF used
<1>5. x \in Jobs2 BY <1>2, <1>3 DEF Jobs2
<1>6. x.job = j.job /\ x.source = j.source /\ x.attempt = j.attempt /\ x.pc = newPc /\ x.part = j.part
      /\ x.consumed = used /\ x.have = j.have /\ x.verdict = j.verdict
  BY <1>2 DEF Jobs2
<1> HIDE DEF x
<1>7. newPc = "classify" => j.verdict = Blind!NoVerdict /\ (j.have # 0 => j.part # 0)
  BY <1>2 DEF JobFine
<1>10. JobFine(x, kind, contract, parts, evidence)
  BY <1>2, <1>6, <1>7 DEF JobFine, Earned
<1>11. \A s \in 1 .. Len(runs) \ {r} : Busy(x) => ~Busy(runs[s])
  <2>1. Busy(x) => Busy(j) BY <1>6 DEF Busy
  <2>2. Busy(j) => \A s \in 1 .. Len(runs) \ {r} : ~Busy(runs[s]) BY <1>2, OthersIdle DEF j
  <2> QED BY <2>1, <2>2
<1>13. x.pc # "partition" BY <1>6
<1>12. (runs[r].consumed => x.consumed) /\ (x.consumed /\ ~runs[r].consumed => runs[r].pc = "partition")
  BY <1>3, <1>6 DEF j
<1>14. faults' \in 0 .. MaxFaults BY FaultCounted
<1> QED BY <1>1, <1>2, <1>5, <1>10, <1>11, <1>12, <1>13, <1>14, StepOfJob

LEMMA StepFailsKeeps == ASSUME BlindInv, NEW r \in DOMAIN runs, Blind!StepFails(r) PROVE BlindInv'
<1> DEFINE newPc == IF runs[r].pc = "partition" \/ runs[r].job = "qualify" \/ (kind = "tuning" /\ runs[r].have > 0)
                    THEN "classify" ELSE "upload"
<1>1. PICK started \in Blind!Started(r) : Blind!Set(r, [runs[r] EXCEPT !.pc = newPc, !.consumed = @ \/ started])
  BY DEF Blind!StepFails
<1>2. newPc \in {"classify", "upload", "lost"} OBVIOUS
<1> HIDE DEF newPc
<1>3. runs[r].pc \in {"partition", "evaluate"} /\ UNCHANGED <<kind, contract, listed, parts, evidence>> /\ Blind!CountFault
  BY DEF Blind!StepFails
<1> QED BY <1>1, <1>2, <1>3, EndingKeeps

LEMMA LostKeeps == ASSUME BlindInv, NEW r \in DOMAIN runs, Blind!Lost(r) PROVE BlindInv'
BY EndingKeeps DEF Blind!Lost

LEMMA ClassifyKeeps == ASSUME BlindInv, NEW r \in DOMAIN runs, Blind!Classify(r) PROVE BlindInv'
<1> DEFINE j == runs[r]
           v == IF j.part = 0 THEN Blind!Classification(Blind!NoPartition, 0)
                ELSE Blind!Classification(parts[j.part], j.have)
           x == [j EXCEPT !.pc = "upload", !.verdict = v]
<1>1. j.pc = "classify" /\ Blind!Set(r, x) BY DEF Blind!Classify
<1>2. r \in 1 .. Len(runs) /\ j \in Jobs2 /\ JobFine(j, kind, contract, parts, evidence) BY JobKnown
<1> HIDE DEF j
<1>3. /\ v \in Verdicts
      /\ v.decision \in {"QUALIFIED", "REJECTED"} => j.part # 0 /\ Fair(v, kind, contract, parts[j.part], j.have)
  <2>0. kind \in {"tuning", "patch"} /\ contract \in Blind!Contracts BY DEF BlindInv, BlindTypes
  <2>1. CASE j.part = 0
    <3>1. v = Blind!Classification(Blind!NoPartition, 0) BY <2>1
    <3> HIDE DEF v
    <3>2. v \in Verdicts /\ v.decision = "INCOMPLETE" BY <2>0, <3>1, NothingMeasured
    <3> QED BY <3>2
  <2>2. CASE j.part # 0
    <3>1. v = Blind!Classification(parts[j.part], j.have) BY <2>2
    <3>2. j.part \in 1 .. Len(parts) /\ j.have \in 0 .. Reports(kind)
      BY <1>2, <2>2, LenProperties DEF JobFine, Earned, BlindInv, BlindTypes
    <3>3. parts[j.part] \in PartsOf(kind) BY <3>2, ElementOfSeq DEF BlindInv, BlindTypes
    <3> HIDE DEF v
    <3>4. CASE kind = "tuning"
      <4>1. v = Blind!TuningVerdict(parts[j.part], j.have) BY <3>1, <3>4 DEF Blind!Classification
      <4>2. contract = [reference |-> "absolute-pass", quality |-> "full-absolute-pass", bound |-> TRUE]
        BY <3>4 DEF BlindInv, BlindTypes
      <4>3. parts[j.part] \in Blind!TuningPartitions /\ j.have \in 0 .. 2
        BY <3>2, <3>3, <3>4 DEF PartsOf, Reports
      <4> QED BY <2>0, <2>2, <3>4, <4>1, <4>2, <4>3, TuningVerdictEarned
    <3>5. CASE kind = "patch"
      <4>1. v = Blind!PatchVerdict(parts[j.part], j.have) BY <3>1, <3>5 DEF Blind!Classification
      <4>2. parts[j.part] \in Blind!PatchPartitions /\ j.have \in 0 .. 4
        BY <3>2, <3>3, <3>5 DEF PartsOf, Reports
      <4> QED BY <2>0, <2>2, <3>5, <4>1, <4>2, PatchVerdictEarned
    <3> QED BY <2>0, <3>4, <3>5
  <2> QED BY <2>1, <2>2
<1> HIDE DEF v
<1>5. x \in Jobs2 BY <1>2, <1>3 DEF Jobs2
<1>6. x.job = j.job /\ x.source = j.source /\ x.attempt = j.attempt /\ x.pc = "upload" /\ x.part = j.part
      /\ x.consumed = j.consumed /\ x.have = j.have /\ x.verdict = v
  BY <1>2 DEF Jobs2
<1> HIDE DEF x
<1>10. JobFine(x, kind, contract, parts, evidence) BY <1>2, <1>3, <1>6 DEF JobFine, Earned
<1>11. \A s \in 1 .. Len(runs) \ {r} : Busy(x) => ~Busy(runs[s])
  <2>1. Busy(x) => Busy(j) BY <1>1, <1>6 DEF Busy
  <2>2. Busy(j) => \A s \in 1 .. Len(runs) \ {r} : ~Busy(runs[s]) BY <1>2, OthersIdle DEF j
  <2> QED BY <2>1, <2>2
<1>12. (runs[r].consumed => x.consumed) /\ ~(x.consumed /\ ~runs[r].consumed) /\ x.pc # "partition"
  BY <1>6 DEF j
<1>14. UNCHANGED <<kind, contract, listed, parts, evidence>> /\ faults' \in 0 .. MaxFaults
  BY FaultsKept DEF Blind!Classify
<1> QED BY <1>1, <1>2, <1>5, <1>10, <1>11, <1>12, <1>14, StepOfJob

LEMMA PartitionKeeps == ASSUME BlindInv, NEW r \in DOMAIN runs, Blind!Partition(r) PROVE BlindInv'
<1>1. PICK p \in Blind!Partitions :
         /\ parts' = Append(parts, p)
         /\ IF p.fit THEN UNCHANGED faults ELSE Blind!CountFault
         /\ Blind!Set(r, [runs[r] EXCEPT !.pc = IF p.fit THEN "evaluate" ELSE "classify",
                                         !.part = Len(parts) + 1, !.consumed = TRUE])
  BY DEF Blind!Partition
<1> DEFINE j == runs[r]
           newPc == IF p.fit THEN "evaluate" ELSE "classify"
           x == [j EXCEPT !.pc = newPc, !.part = Len(parts) + 1, !.consumed = TRUE]
<1>2. r \in 1 .. Len(runs) /\ j \in Jobs2 /\ JobFine(j, kind, contract, parts, evidence) BY JobKnown
<1>3. j.pc = "partition" /\ UNCHANGED <<kind, contract, listed, evidence>> BY DEF Blind!Partition
<1>4. runs' = [runs EXCEPT ![r] = x] BY <1>1 DEF Blind!Set
<1>5. newPc \in {"evaluate", "classify"} OBVIOUS
<1> HIDE DEF newPc
<1>6. p \in PartsOf(kind) BY <1>1 DEF Blind!Partitions, PartsOf
<1>7. parts \in Seq(PartsOf(kind)) /\ Len(parts) \in Nat BY LenProperties DEF BlindInv, BlindTypes
<1>8. /\ parts' \in Seq(PartsOf(kind)) /\ Len(parts') = Len(parts) + 1
      /\ \A i \in 1 .. Len(parts) : parts'[i] = parts[i]
  BY <1>1, <1>6, <1>7, AppendProperties
<1>9. Extends(parts, parts') BY <1>7, <1>8 DEF Extends
<1>10. faults' \in 0 .. MaxFaults BY <1>1, FaultCounted, FaultsKept
<1>11. /\ evidence' \in Seq(Artifacts) /\ listed' \in BOOLEAN /\ Extends(evidence, evidence')
  BY <1>3, LenProperties DEF BlindInv, BlindTypes, Extends
<1>12. Len(parts) + 1 \in Nat BY <1>7
<1>13. x \in Jobs2 BY <1>2, <1>5, <1>12 DEF Jobs2
<1>14. x.job = j.job /\ x.source = j.source /\ x.attempt = j.attempt /\ x.pc = newPc
       /\ x.part = Len(parts) + 1 /\ x.consumed = TRUE /\ x.have = j.have /\ x.verdict = j.verdict
  BY <1>2 DEF Jobs2
<1> HIDE DEF x
<1>15. j.have = 0 /\ j.verdict = Blind!NoVerdict /\ j.job = "qualify" /\ j.source = 0
  BY <1>2, <1>3 DEF JobFine, Jobs2
<1>16. Blind!NoVerdict.decision = "none" BY DEF Blind!NoVerdict, Blind!Verdict
<1>17. Reports(kind) \in {2, 4} BY DEF Reports
<1>18. Earned(x, kind, contract, parts') BY <1>7, <1>8, <1>14, <1>15, <1>16, <1>17 DEF Earned
<1>19. JobFine(x, kind, contract, parts', evidence')
  BY <1>5, <1>7, <1>14, <1>15, <1>17, <1>18 DEF JobFine
<1>20. Busy(runs[r]) BY <1>3, <1>15 DEF Busy
<1>21. \A s \in 1 .. Len(runs) \ {r} : Busy(x) => ~Busy(runs[s]) BY <1>2, <1>20, OthersIdle
<1>22. /\ BlindTypes' /\ JobsFine' /\ OneJob'
       /\ \A i \in 1 .. Len(evidence) : Earned(evidence'[i], kind, contract, parts')
       /\ Len(runs') = Len(runs) /\ runs'[r] = x
       /\ \A s \in 1 .. Len(runs) \ {r} : runs'[s] = runs[s]
  BY <1>2, <1>3, <1>4, <1>8, <1>9, <1>10, <1>11, <1>13, <1>19, <1>21, OneJobChanges
<1>23. ArtifactsFine' BY <1>3, <1>22 DEF ArtifactsFine
<1>24. OneShot'
  <2> SUFFICES ASSUME kind = "patch" PROVE OneShot' BY <1>3 DEF OneShot
  <2>1. \A s \in 1 .. Len(runs) : ~runs[s].consumed BY <1>2, <1>3 DEF BlindInv, OneShot
  <2>2. parts = <<>> BY <2>1 DEF BlindInv, OneShot
  <2>3. Len(parts') <= 1 BY <1>8, <2>2
  <2>4. \E s \in 1 .. Len(runs') : runs'[s].consumed BY <1>2, <1>14, <1>22
  <2>5. ASSUME NEW s \in 1 .. Len(runs), runs'[s].pc = "partition" PROVE FALSE
    <3>1. s # r BY <1>5, <1>14, <1>22, <2>5
    <3>2. runs[s].pc = "partition" BY <1>22, <2>5, <3>1
    <3>3. JobFine(runs[s], kind, contract, parts, evidence) /\ runs[s] \in Jobs2
      BY ElementOfSeq DEF BlindInv, JobsFine, BlindTypes
    <3>4. Busy(runs[s]) BY <3>2, <3>3 DEF Busy, JobFine, Jobs2
    <3> QED BY <1>2, <1>20, <3>1, <3>4 DEF BlindInv, OneJob
  <2> QED BY <1>22, <2>3, <2>4, <2>5 DEF OneShot
<1> QED BY <1>22, <1>23, <1>24 DEF BlindInv

LEMMA UploadKeeps == ASSUME BlindInv, NEW r \in DOMAIN runs, Blind!Upload(r) PROVE BlindInv'
<1> DEFINE j == runs[r]
           a == [job |-> j.job, part |-> j.part, have |-> j.have, verdict |-> j.verdict]
           x == [j EXCEPT !.pc = "done"]
<1>1. /\ j.pc = "upload" /\ evidence' = Append(evidence, a)
      /\ UNCHANGED <<kind, contract, listed, parts, faults>>
  BY DEF Blind!Upload
<1>2. r \in 1 .. Len(runs) /\ j \in Jobs2 /\ JobFine(j, kind, contract, parts, evidence) BY JobKnown
<1>3. runs' = [runs EXCEPT ![r] = x] BY DEF Blind!Upload, Blind!Set
<1>4. a \in Artifacts BY <1>2 DEF Artifacts, Jobs2
<1>5. Earned(a, kind, contract, parts) BY <1>2 DEF JobFine, Earned
<1> HIDE DEF a
<1>6. evidence \in Seq(Artifacts) /\ Len(evidence) \in Nat BY LenProperties DEF BlindInv, BlindTypes
<1>7. /\ evidence' \in Seq(Artifacts) /\ Len(evidence') = Len(evidence) + 1
      /\ evidence'[Len(evidence) + 1] = a
      /\ \A i \in 1 .. Len(evidence) : evidence'[i] = evidence[i]
  BY <1>1, <1>4, <1>6, AppendProperties
<1>8. Extends(evidence, evidence') BY <1>6, <1>7 DEF Extends
<1>9. /\ parts' \in Seq(PartsOf(kind)) /\ listed' \in BOOLEAN /\ Extends(parts, parts')
      /\ faults' \in 0 .. MaxFaults
  BY <1>1, LenProperties DEF BlindInv, BlindTypes, Extends
<1>10. x \in Jobs2 BY <1>2 DEF Jobs2
<1>11. x.job = j.job /\ x.source = j.source /\ x.attempt = j.attempt /\ x.pc = "done" /\ x.part = j.part
       /\ x.consumed = j.consumed /\ x.have = j.have /\ x.verdict = j.verdict
  BY <1>2 DEF Jobs2
<1> HIDE DEF x
<1>12. JobFine(x, kind, contract, parts, evidence) BY <1>2, <1>11 DEF JobFine, Earned
<1>13. JobFine(x, kind, contract, parts', evidence') BY <1>8, <1>9, <1>12, JobFineKept
<1>14. \A s \in 1 .. Len(runs) \ {r} : Busy(x) => ~Busy(runs[s]) BY <1>11 DEF Busy
<1>15. /\ BlindTypes' /\ JobsFine' /\ OneJob'
       /\ \A i \in 1 .. Len(evidence) : Earned(evidence'[i], kind, contract, parts')
       /\ Len(runs') = Len(runs) /\ runs'[r] = x
       /\ \A s \in 1 .. Len(runs) \ {r} : runs'[s] = runs[s]
  BY <1>1, <1>2, <1>3, <1>7, <1>8, <1>9, <1>10, <1>13, <1>14, OneJobChanges
<1>16. ArtifactsFine'
  <2>1. ASSUME NEW i \in 1 .. Len(evidence) + 1 PROVE Earned(evidence'[i], kind, contract, parts')
    <3>1. CASE i \in 1 .. Len(evidence) BY <1>15, <3>1
    <3>2. CASE i = Len(evidence) + 1 BY <1>1, <1>5, <1>7, <3>2
    <3> QED BY <1>6, <3>1, <3>2
  <2> QED BY <1>1, <1>7, <2>1 DEF ArtifactsFine
<1>17. (runs[r].consumed => x.consumed) /\ ~(x.consumed /\ ~runs[r].consumed) /\ x.pc # "partition"
  BY <1>11 DEF j
<1>18. OneShot' BY <1>1, <1>2, <1>15, <1>17, ShotKept
<1> QED BY <1>15, <1>16, <1>18 DEF BlindInv

\* A job is dispatched: a qualification while none is under way, or a resume of an artifact that
\* has a partition.
LEMMA NewRunKeeps ==
  ASSUME BlindInv, NEW job \in {"qualify", "resume"}, NEW source \in Nat, Len(runs) < MaxRuns,
         runs' = Append(runs, Blind!NewRun(job, source)),
         job = "qualify" => source = 0 /\ \A s \in 1 .. Len(runs) : ~Busy(runs[s]),
         job = "resume" => source \in 1 .. Len(evidence) /\ evidence[source].part # 0,
         UNCHANGED <<kind, contract, listed, parts, evidence, faults>>
  PROVE  BlindInv'
<1> DEFINE x == Blind!NewRun(job, source)
           n == Len(runs)
<1>1. Blind!NoVerdict \in Verdicts /\ Blind!NoVerdict.decision = "none"
  BY DEF Blind!NoVerdict, Blind!Verdict, Verdicts
<1>2. x.job = job /\ x.source = source /\ x.attempt = 1 /\ x.pc = "guard" /\ x.part = 0 /\ x.consumed = FALSE
      /\ x.have = 0 /\ x.verdict = Blind!NoVerdict
  BY DEF Blind!NewRun
<1>3. x \in Jobs2 BY <1>1, 0 \in Nat, 1 \in {1, 2} DEF Blind!NewRun, Jobs2
<1> HIDE DEF x
<1>4. runs \in Seq(Jobs2) /\ n \in Nat BY LenProperties DEF BlindInv, BlindTypes
<1>5. /\ runs' \in Seq(Jobs2) /\ Len(runs') = n + 1 /\ runs'[n + 1] = x
      /\ \A s \in 1 .. n : runs'[s] = runs[s]
  <2>1. runs' = Append(runs, x) BY DEF x
  <2> QED BY <1>3, <1>4, <2>1, AppendProperties
<1> HIDE DEF n
<1>6. BlindTypes' BY <1>4, <1>5, BlindBounds DEF BlindInv, BlindTypes, Blind!BlindAssumption, n
<1>7. Len(parts) \in Nat /\ Reports(kind) \in Nat BY LenProperties DEF BlindInv, BlindTypes, Reports
<1>8. JobFine(x, kind, contract, parts, evidence) BY <1>1, <1>2, <1>7 DEF JobFine, Earned
<1>9. JobsFine'
  <2>1. ASSUME NEW s \in 1 .. n + 1 PROVE JobFine(runs'[s], kind, contract, parts, evidence)
    <3>1. CASE s \in 1 .. n BY <1>5, <3>1 DEF BlindInv, JobsFine, n
    <3>2. CASE s = n + 1 BY <1>5, <1>8, <3>2
    <3>3. s \in 1 .. n \/ s = n + 1 BY <1>4, <2>1
    <3> QED BY <3>1, <3>2, <3>3
  <2> QED BY <1>5, <2>1 DEF JobsFine
<1>10. ArtifactsFine' BY DEF BlindInv, ArtifactsFine
<1>11. OneJob'
  <2>1. ASSUME NEW s \in 1 .. n + 1, NEW t \in 1 .. n + 1, Busy(runs'[s]), Busy(runs'[t]) PROVE s = t
    <3>1. CASE s \in 1 .. n /\ t \in 1 .. n BY <1>5, <2>1, <3>1 DEF BlindInv, OneJob, n
    <3>2. CASE s = n + 1 /\ t \in 1 .. n
      <4>1. job = "qualify" BY <1>2, <1>5, <2>1, <3>2 DEF Busy
      <4>2. ~Busy(runs[t]) BY <3>2, <4>1 DEF n
      <4> QED BY <1>5, <2>1, <3>2, <4>2
    <3>3. CASE t = n + 1 /\ s \in 1 .. n
      <4>1. job = "qualify" BY <1>2, <1>5, <2>1, <3>3 DEF Busy
      <4>2. ~Busy(runs[s]) BY <3>3, <4>1 DEF n
      <4> QED BY <1>5, <2>1, <3>3, <4>2
    <3> QED BY <1>4, <3>1, <3>2, <3>3
  <2> QED BY <1>5, <2>1 DEF OneJob
<1>12. OneShot'
  <2> SUFFICES ASSUME kind = "patch" PROVE OneShot' BY DEF OneShot
  <2>1. Len(parts') <= 1 BY DEF BlindInv, OneShot
  <2>2. ASSUME parts' # <<>> PROVE \E s \in 1 .. n + 1 : runs'[s].consumed
    <3>1. PICK s \in 1 .. n : runs[s].consumed BY <2>2 DEF BlindInv, OneShot, n
    <3> QED BY <1>4, <1>5, <3>1
  <2>3. ASSUME NEW s \in 1 .. n + 1, NEW t \in 1 .. n + 1, runs'[s].pc = "partition" PROVE ~runs'[t].consumed
    <3>1. s \in 1 .. n BY <1>2, <1>4, <1>5, <2>3
    <3>2. \A u \in 1 .. n : ~runs[u].consumed BY <1>5, <2>3, <3>1 DEF BlindInv, OneShot, n
    <3>3. CASE t \in 1 .. n BY <1>5, <3>2, <3>3
    <3>4. CASE t = n + 1 BY <1>2, <1>5, <3>4
    <3>5. t \in 1 .. n \/ t = n + 1 BY <1>4, <2>3
    <3> QED BY <3>3, <3>4, <3>5
  <2> QED BY <1>5, <2>1, <2>2, <2>3 DEF OneShot
<1> QED BY <1>6, <1>9, <1>10, <1>11, <1>12 DEF BlindInv

LEMMA DispatchKeeps == ASSUME BlindInv, Blind!Dispatch PROVE BlindInv'
<1>1. \A s \in 1 .. Len(runs) : ~Busy(runs[s]) BY NobodyActive DEF Blind!Dispatch
<1> QED BY <1>1, 0 \in Nat, NewRunKeeps DEF Blind!Dispatch

LEMMA ResumeKeeps == ASSUME BlindInv, Blind!Resume PROVE BlindInv'
<1>1. PICK e \in DOMAIN evidence : Blind!Resumable(evidence[e]) /\ runs' = Append(runs, Blind!NewRun("resume", e))
  BY DEF Blind!Resume
<1>2. e \in 1 .. Len(evidence) /\ e \in Nat BY LenProperties DEF BlindInv, BlindTypes
<1>3. evidence[e].part # 0 BY <1>1 DEF Blind!Resumable
<1>4. Len(runs) < MaxRuns /\ UNCHANGED <<kind, contract, listed, parts, evidence, faults>> BY DEF Blind!Resume
<1> QED BY <1>1, <1>2, <1>3, <1>4, NewRunKeeps

\* Nothing of a qualification depends on what the registry lists.
LEMMA RegistryKeeps ==
  ASSUME BlindInv, listed' \in BOOLEAN, UNCHANGED <<kind, contract, parts, runs, evidence, faults>>
  PROVE  BlindInv'
<1>1. BlindTypes' BY DEF BlindInv, BlindTypes
<1>2. JobsFine' /\ ArtifactsFine' BY DEF BlindInv, JobsFine, ArtifactsFine
<1>3. OneJob' /\ OneShot' BY DEF BlindInv, OneJob, OneShot
<1> QED BY <1>1, <1>2, <1>3 DEF BlindInv

LEMMA BlindStart == ASSUME Blind!Init PROVE BlindInv
<1>1. parts = <<>> /\ runs = <<>> /\ evidence = <<>> /\ faults = 0 BY DEF Blind!Init
<1>2. Len(parts) = 0 /\ Len(runs) = 0 /\ Len(evidence) = 0 BY <1>1
<1>a. parts \in Seq(PartsOf(kind)) /\ runs \in Seq(Jobs2) /\ evidence \in Seq(Artifacts) BY <1>1, EmptySeq
<1>b. Len(runs) <= MaxRuns /\ faults \in 0 .. MaxFaults BY <1>1, <1>2, BlindBounds DEF Blind!BlindAssumption
<1>3. BlindTypes BY <1>a, <1>b DEF Blind!Init, BlindTypes
<1>4. JobsFine /\ ArtifactsFine BY <1>2 DEF JobsFine, ArtifactsFine
<1>5. OneJob /\ OneShot BY <1>1, <1>2 DEF OneJob, OneShot
<1> QED BY <1>3, <1>4, <1>5 DEF BlindInv

LEMMA BlindStep == ASSUME BlindInv, Blind!Next PROVE BlindInv'
<1>1. CASE Blind!Land
  <2>1. listed' \in BOOLEAN /\ UNCHANGED <<kind, contract, parts, runs, evidence, faults>> BY <1>1 DEF Blind!Land
  <2> QED BY <2>1, RegistryKeeps
<1>2. CASE \E r \in DOMAIN runs : Blind!Work(r)
  BY <1>2, GuardKeeps, PartitionKeeps, EvaluateKeeps, StepFailsKeeps, LostKeeps, ClassifyKeeps, UploadKeeps
  DEF Blind!Work
<1> QED BY <1>1, <1>2, DispatchKeeps, RerunKeeps, ResumeKeeps DEF Blind!Next

\* A blind verdict is one of a partition opened once, qualified only on every report and rejected
\* only by one that failed: for any number of jobs dispatched, run again, resumed and lost, and of
\* faults (vad_patch_holdout.py, tuning_holdout.py and their workflows).
THEOREM VerdictEarnedHolds == SumSpec => []VerdictEarned
<1> DEFINE Safe == which = "blind" => BlindInv
<1>1. SumInit => Safe BY BlindStart DEF SumInit
<1>2. Safe /\ [SumNext]_sumVars => Safe'
  <2> SUFFICES ASSUME Safe, [SumNext]_sumVars, which' = "blind" PROVE BlindInv' OBVIOUS
  <2>1. which = "blind" BY DEF SumNext, sumVars
  <2>2. CASE UNCHANGED blindVars
    <3>1. listed' \in BOOLEAN BY <2>1, <2>2 DEF BlindInv, BlindTypes, blindVars
    <3> QED BY <2>1, <2>2, <3>1, RegistryKeeps DEF blindVars
  <2>3. CASE Blind!Next BY <2>1, <2>3, BlindStep
  <2> QED BY <2>1, <2>2, <2>3 DEF SumNext, sumVars
<1>3. Safe => VerdictEarned BY BlindInvSuffices DEF VerdictEarned
<1> QED BY <1>1, <1>2, <1>3, PTL DEF SumSpec

(***************************************************************************)
(* What a qualification selects                                            *)
(***************************************************************************)
\* The positions of a pool up to k the baseline is valid on.
ValidUpTo(pool, k) == {m \in 1 .. k : valid[pool[m]]}
Count(pool, k) == Cardinality(ValidUpTo(pool, k))
\* What has been selected after k entries: the first that are valid, in their order.
Taken(c, q, k) ==
    /\ q \in Seq(Seeds)
    /\ Len(q) = IF Count(c.pool, k) < c.need THEN Count(c.pool, k) ELSE c.need
    /\ {q[i] : i \in 1 .. Len(q)} =
          {c.pool[i] : i \in {j \in 1 .. k : valid[c.pool[j]] /\ Count(c.pool, j) <= c.need}}
Pooled(c) == c.pool \in Seq(Seeds) /\ c.need \in 1 .. 2

LEMMA SourceCardinality == ASSUME NEW S PROVE Source!Cardinality(S) = Cardinality(S)
  BY DEF Source!Cardinality, Cardinality

LEMMA CountUp ==
  ASSUME NEW pool, NEW k \in Nat
  PROVE  /\ Count(pool, k) \in Nat
         /\ Count(pool, 0) = 0
         /\ Count(pool, k + 1) = IF valid[pool[k + 1]] THEN Count(pool, k) + 1 ELSE Count(pool, k)
<1>1. IsFiniteSet(ValidUpTo(pool, k))
  <2>1. IsFiniteSet(1 .. k) BY FS_Interval
  <2>2. ValidUpTo(pool, k) \in SUBSET (1 .. k) BY DEF ValidUpTo
  <2> QED BY <2>1, <2>2, FS_Subset
<1>2. Count(pool, k) \in Nat BY <1>1, FS_CardinalityType DEF Count
<1>3. Count(pool, 0) = 0
  <2>1. ValidUpTo(pool, 0) = {} BY DEF ValidUpTo
  <2> QED BY <2>1, FS_EmptySet DEF Count
<1>4. CASE valid[pool[k + 1]]
  <2>1. ValidUpTo(pool, k + 1) = ValidUpTo(pool, k) \cup {k + 1} BY <1>4 DEF ValidUpTo
  <2>2. k + 1 \notin ValidUpTo(pool, k) BY DEF ValidUpTo
  <2>3. Count(pool, k + 1) = Count(pool, k) + 1 BY <1>1, <2>1, <2>2, FS_AddElement DEF Count
  <2> QED BY <1>2, <1>3, <1>4, <2>3
<1>5. CASE ~valid[pool[k + 1]]
  <2>1. ValidUpTo(pool, k + 1) = ValidUpTo(pool, k)
    <3>1. \A m \in 1 .. k + 1 : m \in 1 .. k \/ m = k + 1 OBVIOUS
    <3>2. \A m \in 1 .. k : m \in 1 .. k + 1 OBVIOUS
    <3> QED BY <1>5, <3>1, <3>2 DEF ValidUpTo
  <2> QED BY <1>2, <1>3, <1>5, <2>1 DEF Count
<1> QED BY <1>4, <1>5

LEMMA TakenNothing == ASSUME NEW c, Pooled(c) PROVE Taken(c, <<>>, 0)
<1>1. Count(c.pool, 0) = 0 BY 0 \in Nat, CountUp
<1>2. <<>> \in Seq(Seeds) /\ Len(<<>>) = 0 BY EmptySeq
<1>3. {<<>>[i] : i \in 1 .. 0} = {} /\ {c.pool[i] : i \in {j \in 1 .. 0 : valid[c.pool[j]] /\ Count(c.pool, j) <= c.need}} = {}
  OBVIOUS
<1> QED BY <1>1, <1>2, <1>3 DEF Taken, Pooled

LEMMA TakenNext ==
  ASSUME NEW c, Pooled(c), NEW k \in Nat, k < Len(c.pool), NEW q, Taken(c, q, k)
  PROVE  Taken(c, Source!Take(c, q, c.pool[k + 1]), k + 1)
<1> DEFINE seed == c.pool[k + 1]
           new == Source!Take(c, q, seed)
           first(n) == {j \in 1 .. n : valid[c.pool[j]] /\ Count(c.pool, j) <= c.need}
           seeds(n) == {c.pool[i] : i \in first(n)}
<1>1. seed \in Seeds /\ c.need \in Nat BY ElementOfSeq DEF Pooled
<1>2. /\ Count(c.pool, k) \in Nat
      /\ Count(c.pool, k + 1) = IF valid[seed] THEN Count(c.pool, k) + 1 ELSE Count(c.pool, k)
  BY CountUp
<1>3. /\ q \in Seq(Seeds) /\ Len(q) \in Nat
      /\ Len(q) = IF Count(c.pool, k) < c.need THEN Count(c.pool, k) ELSE c.need
      /\ {q[i] : i \in 1 .. Len(q)} = seeds(k)
  BY LenProperties DEF Taken
<1>4. first(k + 1) = IF valid[seed] /\ Count(c.pool, k + 1) <= c.need THEN first(k) \cup {k + 1} ELSE first(k)
  <2>1. \A j : j \in 1 .. k + 1 <=> j \in 1 .. k \/ j = k + 1 OBVIOUS
  <2> QED BY <2>1
<1>5. seeds(k + 1) = IF valid[seed] /\ Count(c.pool, k + 1) <= c.need THEN seeds(k) \cup {seed} ELSE seeds(k)
  <2> HIDE DEF first
  <2> QED BY <1>4
<1>6. CASE valid[seed] /\ Len(q) < c.need
  <2>1. new = Append(q, seed) BY <1>6 DEF Source!Take, Source!BaselineValid
  <2>2. /\ new \in Seq(Seeds) /\ Len(new) = Len(q) + 1 /\ new[Len(q) + 1] = seed
        /\ \A i \in 1 .. Len(q) : new[i] = q[i]
    BY <1>1, <1>3, <2>1, AppendProperties
  <2> HIDE DEF new, seed, first
  <2>3. \A i : i \in 1 .. Len(q) + 1 <=> i \in 1 .. Len(q) \/ i = Len(q) + 1 BY <1>3
  <2>4. {new[i] : i \in 1 .. Len(q) + 1} = {q[i] : i \in 1 .. Len(q)} \cup {seed}
    BY <2>2, <2>3
  <2>5. Count(c.pool, k + 1) = Len(q) + 1 /\ Count(c.pool, k + 1) <= c.need BY <1>1, <1>2, <1>3, <1>6
  <2>6. {new[i] : i \in 1 .. Len(new)} = seeds(k + 1) BY <1>3, <1>5, <1>6, <2>2, <2>4, <2>5
  <2>7. Len(new) = IF Count(c.pool, k + 1) < c.need THEN Count(c.pool, k + 1) ELSE c.need
    BY <1>1, <1>3, <2>2, <2>5
  <2> QED BY <2>2, <2>6, <2>7 DEF Taken, new, seed, first
<1>7. CASE ~(valid[seed] /\ Len(q) < c.need)
  <2>1. new = q BY <1>7 DEF Source!Take, Source!BaselineValid
  <2> HIDE DEF new, seed, first
  <2>2. valid[seed] => Count(c.pool, k) >= c.need BY <1>1, <1>2, <1>3, <1>7
  <2>a. ~(valid[seed] /\ Count(c.pool, k + 1) <= c.need)
    <3> SUFFICES ASSUME valid[seed] PROVE ~(Count(c.pool, k + 1) <= c.need) OBVIOUS
    <3>1. Count(c.pool, k + 1) = Count(c.pool, k) + 1 BY <1>2
    <3> QED BY <1>1, <1>2, <2>2, <3>1
  <2>3. seeds(k + 1) = seeds(k) BY <1>5, <2>a
  <2>4. Len(q) = IF Count(c.pool, k + 1) < c.need THEN Count(c.pool, k + 1) ELSE c.need
    BY <1>1, <1>2, <1>3, <2>2
  <2> QED BY <1>3, <2>1, <2>3, <2>4 DEF Taken, new, seed, first
<1> QED BY <1>6, <1>7

\* What the loop over a pool leaves after each entry: there is one such function.
AfterEach(c, g, n) == g = [i \in 0 .. n |-> IF i = 0 THEN <<>> ELSE Source!Take(c, g[i - 1], c.pool[i])]

LEMMA LoopRuns == ASSUME NEW c, NEW n \in Nat PROVE \E g : AfterEach(c, g, n)
<1> DEFINE never == {k \in 0 .. n : ~ \E g : AfterEach(c, g, k)}
<1>1. SUFFICES ASSUME never # {} PROVE FALSE
  <2>1. n \in 0 .. n OBVIOUS
  <2> QED BY <2>1
<1>2. PICK x \in never : \A y \in never : x <= y
  <2>1. never \subseteq Nat OBVIOUS
  <2> HIDE DEF never
  <2> QED BY <1>1, <2>1, LeastNumber
<1>3. x \in 0 .. n /\ ~ \E g : AfterEach(c, g, x) OBVIOUS
<1>4. x # 0
  <2> DEFINE g == [i \in 0 .. 0 |-> <<>>]
  <2>1. g = [i \in 0 .. 0 |-> IF i = 0 THEN <<>> ELSE Source!Take(c, g[i - 1], c.pool[i])] OBVIOUS
  <2> HIDE DEF g
  <2>2. AfterEach(c, g, 0) BY <2>1 DEF AfterEach
  <2> QED BY <1>3, <2>2
<1>5. x - 1 \in 0 .. n BY <1>3, <1>4
<1>6. PICK g : AfterEach(c, g, x - 1)
  <2>1. ~(x <= x - 1) BY <1>3
  <2>2. x - 1 \notin never BY <1>2, <2>1
  <2> QED BY <1>5, <2>2
<1> HIDE DEF never
<1> DEFINE h == [i \in 0 .. x |-> IF i = x THEN Source!Take(c, g[x - 1], c.pool[x]) ELSE g[i]]
<1>7. DOMAIN g = 0 .. x - 1 /\ \A i \in 0 .. x - 1 : g[i] = IF i = 0 THEN <<>> ELSE Source!Take(c, g[i - 1], c.pool[i])
  <2>1. g = [i \in 0 .. x - 1 |-> IF i = 0 THEN <<>> ELSE Source!Take(c, g[i - 1], c.pool[i])]
    BY <1>6 DEF AfterEach
  <2> QED BY <2>1
<1>8. \A i \in 0 .. x : h[i] = IF i = 0 THEN <<>> ELSE Source!Take(c, h[i - 1], c.pool[i])
  <2> TAKE i \in 0 .. x
  <2>1. CASE i = x
    <3>1. h[i - 1] = g[x - 1] BY <1>3, <1>4, <2>1
    <3> QED BY <1>3, <1>4, <2>1, <3>1
  <2>2. CASE i # x
    <3>1. i \in 0 .. x - 1 /\ h[i] = g[i] BY <1>3, <2>2
    <3>2. i # 0 => h[i - 1] = g[i - 1] BY <1>3, <2>2
    <3> QED BY <1>7, <3>1, <3>2
  <2> QED BY <2>1, <2>2
<1>9. h = [i \in 0 .. x |-> h[i]] OBVIOUS
<1> HIDE DEF h
<1>10. AfterEach(c, h, x) BY <1>8, <1>9 DEF AfterEach
<1> QED BY <1>3, <1>10

LEMMA LoopTakes ==
  ASSUME NEW c, Pooled(c), NEW g, AfterEach(c, g, Len(c.pool))
  PROVE  Taken(c, g[Len(c.pool)], Len(c.pool))
<1> DEFINE n == Len(c.pool)
           wrong == {k \in 0 .. n : ~Taken(c, g[k], k)}
<1>0. n \in Nat BY LenProperties DEF Pooled
<1>1. SUFFICES ASSUME wrong # {} PROVE FALSE
  <2>1. n \in 0 .. n BY <1>0
  <2> QED BY <2>1
<1>2. PICK x \in wrong : \A y \in wrong : x <= y
  <2>1. wrong \subseteq Nat BY <1>0
  <2> HIDE DEF wrong
  <2> QED BY <1>1, <2>1, LeastNumber
<1>3. x \in 0 .. n /\ ~Taken(c, g[x], x) OBVIOUS
<1>4. \A i \in 0 .. n : g[i] = IF i = 0 THEN <<>> ELSE Source!Take(c, g[i - 1], c.pool[i])
  <2>1. g = [i \in 0 .. n |-> IF i = 0 THEN <<>> ELSE Source!Take(c, g[i - 1], c.pool[i])] BY DEF AfterEach
  <2> QED BY <2>1
<1>5. CASE x = 0
  <2>1. g[0] = <<>> BY <1>0, <1>4
  <2> QED BY <1>3, <1>5, <2>1, TakenNothing
<1>6. CASE x # 0
  <2>1. x - 1 \in 0 .. n /\ x - 1 \in Nat /\ x - 1 < n /\ (x - 1) + 1 = x BY <1>0, <1>3, <1>6
  <2>2. x - 1 \notin wrong
    <3>1. ~(x <= x - 1) BY <1>0, <1>3
    <3> QED BY <1>2, <3>1
  <2>3. Taken(c, g[x - 1], x - 1) BY <2>1, <2>2
  <2>4. Taken(c, Source!Take(c, g[x - 1], c.pool[(x - 1) + 1]), (x - 1) + 1)
    BY <2>1, <2>3, TakenNext DEF n
  <2>5. g[x] = Source!Take(c, g[x - 1], c.pool[x]) BY <1>3, <1>4, <1>6
  <2> QED BY <1>3, <2>1, <2>4, <2>5
<1> QED BY <1>5, <1>6

\* The loop selects the first valid partitions of the pool.
LEMMA SelectsFirstValid ==
  ASSUME NEW c, Pooled(c)
  PROVE  Source!ToSet(Source!SelectAuthority(c)) = Source!FirstValid(c.pool, c.need)
<1> DEFINE n == Len(c.pool)
           after == CHOOSE g : AfterEach(c, g, n)
           s == Source!SelectAuthority(c)
<1>0. n \in Nat /\ DOMAIN c.pool = 1 .. n BY LenProperties DEF Pooled
<1>1. AfterEach(c, after, n) BY <1>0, LoopRuns
<1>2. s = after[n] BY DEF Source!SelectAuthority, AfterEach
<1> HIDE DEF after, s
<1>3. Taken(c, s, n) BY <1>1, <1>2, LoopTakes DEF n
<1>4. DOMAIN s = 1 .. Len(s) BY <1>3, LenProperties DEF Taken
<1>5. Source!ToSet(s) = {s[i] : i \in 1 .. Len(s)} BY <1>4 DEF Source!ToSet
<1>6. Source!FirstValid(c.pool, c.need)
        = {c.pool[i] : i \in {j \in 1 .. n : valid[c.pool[j]] /\ Count(c.pool, j) <= c.need}}
  <2>1. Source!FirstValid(c.pool, c.need)
          = {c.pool[i] : i \in {j \in DOMAIN c.pool : valid[c.pool[j]] /\ Count(c.pool, j) <= c.need}}
    BY SourceCardinality, Zenon DEF Source!FirstValid, Count, ValidUpTo
  <2> QED BY <1>0, <2>1
<1> QED BY <1>3, <1>5, <1>6 DEF Taken, s

\* A selection that names as many different partitions as are asked for.
LEMMA AllDifferent ==
  ASSUME NEW S, NEW q \in Seq(S), Source!IsInjective(q)
  PROVE  Cardinality(Source!ToSet(q)) = Len(q)
<1> DEFINE n == Len(q)
           named == Source!ToSet(q)
<1>1. n \in Nat /\ DOMAIN q = 1 .. n /\ q \in [1 .. n -> S] BY LenProperties
<1>2. named = {q[i] : i \in 1 .. n} BY <1>1 DEF Source!ToSet
<1>3. q \in [1 .. n -> named] BY <1>1, <1>2
<1>4. \A a, b \in 1 .. n : q[a] = q[b] => a = b BY <1>1 DEF Source!IsInjective
<1>5. \A t \in named : \E s \in 1 .. n : q[s] = t BY <1>2
<1> HIDE DEF n, named
<1>6. q \in Injection(1 .. n, named) BY <1>1, <1>3, <1>4 DEF Injection, IsInjective
<1>7. q \in Surjection(1 .. n, named) BY <1>3, <1>5 DEF Surjection
<1>8. ExistsBijection(1 .. n, named) BY <1>6, <1>7 DEF Bijection, ExistsBijection
<1> QED BY <1>1, <1>8, FS_CountingElements DEF n, named

(***************************************************************************)
(* From a qualification over the lock to the run of a candidate            *)
(***************************************************************************)
\* Named with what they are read of, since they are spoken of in two states.
FirstOf(v, pool, n) ==
    {pool[i] : i \in {j \in DOMAIN pool : v[pool[j]] /\ Cardinality({m \in 1 .. j : v[pool[m]]}) <= n}}
AnyResult == [decision : {"LOCK", "INCOMPLETE"}, contract : Source!Contracts, policy : Nat,
              selected : Seq(Seeds), invalid : SUBSET Seeds]
Checkouts == [contract : Source!Contracts, policy : Nat, lock : AnyResult \cup {Source!NoLock}]
QualRuns == [at : Checkouts, materialized : BOOLEAN,
             pc : {"materialize", "measure", "done", "refused", "failed"}]
ExecRuns == [at : Checkouts, guard : {"queued", "passed", "refused"}, ran : BOOLEAN]
SourceTypes ==
    /\ sourceContract \in Source!Contracts /\ sourcePolicy \in Nat
    /\ lock \in AnyResult \cup {Source!NoLock} /\ sourceResults \subseteq AnyResult
    /\ qualifications \in Seq(QualRuns) /\ executions \in Seq(ExecRuns)
\* A result is what a finished qualification of its contract and policy selected.
Chosen(r, qs, v) ==
    /\ \E i \in 1 .. Len(qs) : qs[i].pc = "done" /\ qs[i].at.contract = r.contract /\ qs[i].at.policy = r.policy
    /\ Source!ToSet(r.selected) = FirstOf(v, r.contract.pool, r.contract.need)
ResultsChosen == \A r \in sourceResults : Chosen(r, qualifications, valid)
\* A lock is one of the results, on main and in every checkout.
LocksLanded == /\ lock \in sourceResults \cup {Source!NoLock}
               /\ \A k \in 1 .. Len(executions) : executions[k].at.lock \in sourceResults \cup {Source!NoLock}
\* The guard passes the oldest dispatch only, and what ran passed what it waits for.
Guards(es) ==
    \A k \in 1 .. Len(es) :
        /\ es[k].guard = "passed" => k = 1
        /\ es[k].ran => Source!LockValid(es[k].at.lock, es[k].at) /\ (needsContract => es[k].guard = "passed")
SourceInv == SourceTypes /\ ResultsChosen /\ LocksLanded /\ Guards(executions)

LEMMA PooledContract == ASSUME NEW c \in Source!Contracts PROVE Pooled(c)
BY SourcePools DEF Source!Contracts, Source!SourceAssumption, Pooled

LEMMA FirstValidOf == ASSUME NEW pool, NEW n PROVE Source!FirstValid(pool, n) = FirstOf(valid, pool, n)
BY SourceCardinality, Zenon DEF Source!FirstValid, FirstOf

LEMMA SourceHolds ==
  ASSUME SourceInv
  PROVE  Source!CandidateOnQualified /\ Source!CandidateInOneRun
<1>0. DOMAIN executions = 1 .. Len(executions) /\ DOMAIN qualifications = 1 .. Len(qualifications)
  BY LenProperties DEF SourceInv, SourceTypes
<1>1. Source!CandidateOnQualified
  <2> SUFFICES ASSUME NEW k \in 1 .. Len(executions), executions[k].ran
               PROVE  LET e == executions[k].at IN
                      /\ Source!ToSet(e.lock.selected) = Source!FirstValid(e.contract.pool, e.contract.need)
                      /\ Source!Cardinality(Source!ToSet(e.lock.selected)) = e.contract.need
                      /\ \E i \in DOMAIN qualifications :
                           /\ qualifications[i].pc = "done"
                           /\ qualifications[i].at.contract = e.contract
                           /\ qualifications[i].at.policy = e.policy
    BY <1>0 DEF Source!CandidateOnQualified
  <2> DEFINE e == executions[k].at
             l == e.lock
  <2>1. Source!LockValid(l, e) BY DEF SourceInv, Guards
  <2>2. l.decision = "LOCK" /\ l.contract = e.contract /\ l.policy = e.policy /\ Source!SelectionSound(l, e.contract)
    BY <2>1 DEF Source!LockValid, Source!BytesBound
  <2>3. l \in sourceResults
    <3>1. Source!NoLock.decision = "none" BY DEF Source!NoLock
    <3>2. l \in sourceResults \cup {Source!NoLock} BY DEF SourceInv, LocksLanded
    <3> QED BY <2>2, <3>1, <3>2
  <2>4. Chosen(l, qualifications, valid) /\ l \in AnyResult
    BY <2>3 DEF SourceInv, ResultsChosen, SourceTypes
  <2>5. Len(l.selected) = e.contract.need /\ Source!IsInjective(l.selected) BY <2>2 DEF Source!SelectionSound
  <2>6. l.selected \in Seq(Seeds) BY <2>4 DEF AnyResult
  <2> HIDE DEF e, l
  <2>7. Source!Cardinality(Source!ToSet(l.selected)) = e.contract.need
    BY <2>5, <2>6, AllDifferent, SourceCardinality
  <2>8. Source!ToSet(l.selected) = Source!FirstValid(e.contract.pool, e.contract.need)
    BY <2>2, <2>4, FirstValidOf DEF Chosen
  <2>9. \E i \in DOMAIN qualifications : /\ qualifications[i].pc = "done"
                                         /\ qualifications[i].at.contract = e.contract
                                         /\ qualifications[i].at.policy = e.policy
    BY <1>0, <2>2, <2>4 DEF Chosen
  <2> QED BY <2>7, <2>8, <2>9 DEF e, l
<1>2. Source!CandidateInOneRun
  <2> SUFFICES ASSUME needsContract PROVE Source!Cardinality({k \in DOMAIN executions : executions[k].ran}) <= 1
    BY DEF Source!CandidateInOneRun
  <2> DEFINE ran == {k \in DOMAIN executions : executions[k].ran}
  <2>1. ran \in SUBSET {1} BY <1>0 DEF SourceInv, Guards
  <2> HIDE DEF ran
  <2>2. IsFiniteSet({1}) /\ Cardinality({1}) = 1 BY FS_Singleton
  <2>3. Cardinality(ran) <= 1 BY <2>1, <2>2, FS_Subset
  <2>4. Source!Cardinality(ran) <= 1 BY <2>3, SourceCardinality
  <2> QED BY <2>4 DEF ran
<1> QED BY <1>1, <1>2

\* What main is when nothing but main changes, and what a dispatch takes with it.
LEMMA CheckoutTyped == ASSUME SourceInv PROVE Source!Checkout \in Checkouts
BY DEF SourceInv, SourceTypes, Source!Checkout, Checkouts

LEMMA MainMoves ==
  ASSUME SourceInv, sourceContract' \in Source!Contracts, sourcePolicy' \in Nat, lock' \in sourceResults \cup {Source!NoLock},
         UNCHANGED <<valid, qualifications, executions, sourceResults, needsContract>>
  PROVE  SourceInv'
<1>1. SourceTypes' BY DEF SourceInv, SourceTypes
<1>2. ResultsChosen' BY DEF SourceInv, ResultsChosen
<1>3. LocksLanded' BY DEF SourceInv, LocksLanded
<1>4. Guards(executions)' BY DEF SourceInv, Guards
<1> QED BY <1>1, <1>2, <1>3, <1>4 DEF SourceInv

\* The runs of qualifications change, those that are done stay, and perhaps a result is uploaded.
LEMMA QualificationsMove ==
  ASSUME SourceInv, qualifications' \in Seq(QualRuns),
         \A i \in 1 .. Len(qualifications) : qualifications[i].pc = "done" =>
             /\ i \in 1 .. Len(qualifications')
             /\ qualifications'[i].pc = "done" /\ qualifications'[i].at = qualifications[i].at,
         sourceResults \subseteq sourceResults', sourceResults' \subseteq AnyResult,
         \A r \in sourceResults' \ sourceResults : Chosen(r, qualifications', valid),
         UNCHANGED <<valid, sourceContract, sourcePolicy, lock, executions, needsContract>>
  PROVE  SourceInv'
<1>1. SourceTypes' BY DEF SourceInv, SourceTypes
<1>2. ASSUME NEW r \in sourceResults PROVE Chosen(r, qualifications', valid)
  <2>1. Chosen(r, qualifications, valid) BY DEF SourceInv, ResultsChosen
  <2> QED BY <2>1 DEF Chosen
<1>3. ResultsChosen' BY <1>2 DEF ResultsChosen
<1>4. LocksLanded' BY DEF SourceInv, LocksLanded
<1>5. Guards(executions)' BY DEF SourceInv, Guards
<1> QED BY <1>1, <1>3, <1>4, <1>5 DEF SourceInv

LEMMA OneQualification ==
  ASSUME SourceInv, NEW i \in DOMAIN qualifications, qualifications[i].pc # "done",
         NEW q \in QualRuns, qualifications' = [qualifications EXCEPT ![i] = q],
         sourceResults \subseteq sourceResults', sourceResults' \subseteq AnyResult,
         \A r \in sourceResults' \ sourceResults : Chosen(r, qualifications', valid),
         UNCHANGED <<valid, sourceContract, sourcePolicy, lock, executions, needsContract>>
  PROVE  SourceInv'
<1>1. qualifications \in Seq(QualRuns) /\ i \in 1 .. Len(qualifications)
  BY LenProperties DEF SourceInv, SourceTypes
<1>2. /\ qualifications' \in Seq(QualRuns) /\ Len(qualifications') = Len(qualifications)
      /\ \A s \in 1 .. Len(qualifications) \ {i} : qualifications'[s] = qualifications[s]
  BY <1>1, SeqChange
<1>3. \A s \in 1 .. Len(qualifications) : qualifications[s].pc = "done" =>
          /\ s \in 1 .. Len(qualifications')
          /\ qualifications'[s].pc = "done" /\ qualifications'[s].at = qualifications[s].at
  BY <1>2
<1> QED BY <1>2, <1>3, QualificationsMove

LEMMA GuardedTyped == ASSUME NEW i, NEW at \in Checkouts PROVE Source!Guarded(i, at) \in QualRuns
BY DEF Source!Guarded, QualRuns

LEMMA QualifyKeeps == ASSUME SourceInv, Source!Qualify PROVE SourceInv'
<1>0. /\ UNCHANGED <<valid, sourceContract, sourcePolicy, lock, executions, needsContract, sourceResults>>
      /\ sourceResults' \subseteq AnyResult
  BY DEF Source!Qualify, SourceInv, SourceTypes
<1>1. CASE qualifications' = Append(qualifications, Source!Guarded(Len(qualifications) + 1, Source!Checkout))
  <2>1. Source!Guarded(Len(qualifications) + 1, Source!Checkout) \in QualRuns BY CheckoutTyped, GuardedTyped
  <2>2. qualifications \in Seq(QualRuns) /\ Len(qualifications) \in Nat
    BY LenProperties DEF SourceInv, SourceTypes
  <2>3. /\ qualifications' \in Seq(QualRuns) /\ Len(qualifications') = Len(qualifications) + 1
        /\ \A s \in 1 .. Len(qualifications) : qualifications'[s] = qualifications[s]
    BY <1>1, <2>1, <2>2, AppendProperties
  <2>4. \A s \in 1 .. Len(qualifications) : s \in 1 .. Len(qualifications') BY <2>2, <2>3
  <2> QED BY <1>0, <2>3, <2>4, QualificationsMove
<1>2. CASE \E i \in DOMAIN qualifications :
             /\ qualifications[i].pc = "failed"
             /\ qualifications' = [qualifications EXCEPT ![i] = Source!Guarded(i, @.at)]
  <2>1. PICK i \in DOMAIN qualifications :
             /\ qualifications[i].pc = "failed"
             /\ qualifications' = [qualifications EXCEPT ![i] = Source!Guarded(i, qualifications[i].at)]
    BY <1>2
  <2>2. i \in 1 .. Len(qualifications) BY LenProperties DEF SourceInv, SourceTypes
  <2>3. qualifications[i] \in QualRuns BY <2>2, ElementOfSeq DEF SourceInv, SourceTypes
  <2>4. Source!Guarded(i, qualifications[i].at) \in QualRuns BY <2>3, GuardedTyped DEF QualRuns
  <2> QED BY <1>0, <2>1, <2>4, OneQualification
<1> QED BY <1>1, <1>2 DEF Source!Qualify

LEMMA QualificationKeeps ==
  ASSUME SourceInv, NEW i \in DOMAIN qualifications,
         Source!QualifyFails(i) \/ Source!Materialize(i) \/ Source!Measure(i)
  PROVE  SourceInv'
<1> DEFINE q == qualifications[i]
<1>0. i \in 1 .. Len(qualifications) BY LenProperties DEF SourceInv, SourceTypes
<1>1. q \in QualRuns BY <1>0, ElementOfSeq DEF SourceInv, SourceTypes
<1>2. q.pc # "done" BY DEF Source!QualifyFails, Source!Materialize, Source!Measure
<1>3. CASE Source!QualifyFails(i) \/ Source!Materialize(i)
  <2>1. PICK m \in BOOLEAN, p \in {"failed", "measure"} :
            qualifications' = [qualifications EXCEPT ![i] = [q EXCEPT !.materialized = m, !.pc = p]]
    <3>1. CASE Source!QualifyFails(i)
      <4>1. qualifications' = [qualifications EXCEPT ![i] = [q EXCEPT !.pc = "failed"]] BY <3>1 DEF Source!QualifyFails
      <4>2. [q EXCEPT !.pc = "failed"] = [q EXCEPT !.materialized = q.materialized, !.pc = "failed"] BY <1>1 DEF QualRuns
      <4> QED BY <1>1, <4>1, <4>2 DEF QualRuns
    <3>2. CASE Source!Materialize(i) BY <3>2 DEF Source!Materialize
    <3> QED BY <1>3, <3>1, <3>2
  <2> DEFINE x == [q EXCEPT !.materialized = m, !.pc = p]
  <2>2. x \in QualRuns BY <1>1 DEF QualRuns
  <2>3. /\ UNCHANGED <<valid, sourceContract, sourcePolicy, lock, executions, needsContract, sourceResults>>
        /\ sourceResults' \subseteq AnyResult
    BY <1>3 DEF Source!QualifyFails, Source!Materialize, SourceInv, SourceTypes
  <2> HIDE DEF x
  <2>4. qualifications' = [qualifications EXCEPT ![i] = x] BY <2>1 DEF x
  <2> QED BY <1>2, <2>2, <2>3, <2>4, OneQualification
<1>4. CASE Source!Measure(i)
  <2> DEFINE r == Source!Result(q.at)
             x == [q EXCEPT !.pc = "done"]
  <2>1. /\ qualifications' = [qualifications EXCEPT ![i] = x] /\ sourceResults' = sourceResults \cup {r}
        /\ UNCHANGED <<valid, sourceContract, sourcePolicy, lock, executions, needsContract>>
    BY <1>4 DEF Source!Measure
  <2>2. x \in QualRuns /\ x.pc = "done" /\ x.at = q.at BY <1>1 DEF QualRuns
  <2>3. q.at \in Checkouts /\ q.at.contract \in Source!Contracts /\ q.at.policy \in Nat
    BY <1>1 DEF QualRuns, Checkouts
  <2>4. Pooled(q.at.contract) BY <2>3, PooledContract
  <2>5. /\ r.contract = q.at.contract /\ r.policy = q.at.policy
        /\ r.selected = Source!SelectAuthority(q.at.contract)
    BY DEF Source!Result
  <2>6. Source!SelectAuthority(q.at.contract) \in Seq(Seeds)
    <3>1. Len(q.at.contract.pool) \in Nat BY <2>4, LenProperties DEF Pooled
    <3> DEFINE after == CHOOSE g : AfterEach(q.at.contract, g, Len(q.at.contract.pool))
    <3>2. AfterEach(q.at.contract, after, Len(q.at.contract.pool)) BY <3>1, LoopRuns
    <3>3. Source!SelectAuthority(q.at.contract) = after[Len(q.at.contract.pool)]
      BY DEF Source!SelectAuthority, AfterEach
    <3> HIDE DEF after
    <3> QED BY <2>4, <3>2, <3>3, LoopTakes DEF Taken
  <2>7. {s \in Source!ToSet(q.at.contract.pool) : ~Source!BaselineValid(s)} \in SUBSET Seeds
    <3>1. \A j \in DOMAIN q.at.contract.pool : q.at.contract.pool[j] \in Seeds
      BY <2>4, LenProperties, ElementOfSeq DEF Pooled
    <3> QED BY <3>1 DEF Source!ToSet
  <2>8. r \in AnyResult BY <2>3, <2>6, <2>7 DEF Source!Result, AnyResult
  <2>9. Source!ToSet(r.selected) = FirstOf(valid, r.contract.pool, r.contract.need)
    BY <2>4, <2>5, SelectsFirstValid, FirstValidOf
  <2> HIDE DEF r, x
  <2>10. Len(qualifications') = Len(qualifications) /\ qualifications'[i] = x
    BY <1>0, <2>1, <2>2, SeqChange DEF SourceInv, SourceTypes
  <2>11. Chosen(r, qualifications', valid) BY <1>0, <2>2, <2>5, <2>9, <2>10 DEF Chosen
  <2>12. sourceResults \subseteq sourceResults' /\ sourceResults' \subseteq AnyResult
    BY <2>1, <2>8 DEF SourceInv, SourceTypes
  <2>13. \A z \in sourceResults' \ sourceResults : Chosen(z, qualifications', valid) BY <2>1, <2>11
  <2> QED BY <1>2, <2>1, <2>2, <2>12, <2>13, OneQualification
<1> QED BY <1>3, <1>4

\* The executions change; main and the qualifications stay.
LEMMA ExecutionsMove ==
  ASSUME SourceInv, executions' \in Seq(ExecRuns), Guards(executions'),
         \A k \in 1 .. Len(executions') : executions'[k].at.lock \in sourceResults \cup {Source!NoLock},
         UNCHANGED <<valid, sourceContract, sourcePolicy, lock, qualifications, sourceResults, needsContract>>
  PROVE  SourceInv'
<1>1. SourceTypes' BY DEF SourceInv, SourceTypes
<1>2. ResultsChosen' BY DEF SourceInv, ResultsChosen
<1>3. LocksLanded' BY DEF SourceInv, LocksLanded
<1>4. Guards(executions)' BY DEF Guards
<1> QED BY <1>1, <1>2, <1>3, <1>4 DEF SourceInv

LEMMA DispatchedKeeps == ASSUME SourceInv, Source!Dispatch PROVE SourceInv'
<1> DEFINE x == [at |-> Source!Checkout, guard |-> "queued", ran |-> FALSE]
           n == Len(executions)
<1>1. x \in ExecRuns BY CheckoutTyped DEF ExecRuns
<1>2. x.guard = "queued" /\ ~x.ran /\ x.at.lock = lock BY DEF Source!Checkout
<1>3. executions \in Seq(ExecRuns) /\ n \in Nat BY LenProperties DEF SourceInv, SourceTypes
<1>4. executions' = Append(executions, x) BY DEF Source!Dispatch
<1> HIDE DEF x
<1>5. /\ executions' \in Seq(ExecRuns) /\ Len(executions') = n + 1 /\ executions'[n + 1] = x
      /\ \A k \in 1 .. n : executions'[k] = executions[k]
  BY <1>1, <1>3, <1>4, AppendProperties
<1>6. \A k \in 1 .. n + 1 : k \in 1 .. n \/ k = n + 1 BY <1>3
<1> HIDE DEF n
<1>7. Guards(executions')
  <2>1. ASSUME NEW k \in 1 .. n + 1
        PROVE  /\ executions'[k].guard = "passed" => k = 1
               /\ executions'[k].ran => Source!LockValid(executions'[k].at.lock, executions'[k].at)
                                         /\ (needsContract => executions'[k].guard = "passed")
    <3>1. CASE k \in 1 .. n BY <1>5, <3>1 DEF SourceInv, Guards, n
    <3>2. CASE k = n + 1 BY <1>2, <1>5, <3>2
    <3> QED BY <1>6, <3>1, <3>2
  <2> QED BY <1>5, <2>1 DEF Guards
<1>8. \A k \in 1 .. n + 1 : executions'[k].at.lock \in sourceResults \cup {Source!NoLock}
  BY <1>2, <1>5, <1>6 DEF SourceInv, LocksLanded, n
<1>9. UNCHANGED <<valid, sourceContract, sourcePolicy, lock, qualifications, sourceResults, needsContract>>
  BY DEF Source!Dispatch
<1> QED BY <1>5, <1>7, <1>8, <1>9, ExecutionsMove

LEMMA ExecutionKeeps ==
  ASSUME SourceInv, NEW k \in DOMAIN executions, Source!ContractJob(k) \/ Source!CandidateJob(k)
  PROVE  SourceInv'
<1> DEFINE e == executions[k]
           n == Len(executions)
<1>0. executions \in Seq(ExecRuns) /\ n \in Nat /\ DOMAIN executions = 1 .. n /\ k \in 1 .. n
  BY LenProperties DEF SourceInv, SourceTypes
<1>1. e \in ExecRuns BY <1>0, ElementOfSeq
<1>2. /\ e.guard = "passed" => k = 1
      /\ e.ran => Source!LockValid(e.at.lock, e.at) /\ (needsContract => e.guard = "passed")
  BY <1>0 DEF SourceInv, Guards
<1>3. \E g \in {"queued", "passed", "refused"}, b \in BOOLEAN :
        /\ executions' = [executions EXCEPT ![k] = [at |-> e.at, guard |-> g, ran |-> b]]
        /\ g = "passed" => k = 1
        /\ b => Source!LockValid(e.at.lock, e.at) /\ (needsContract => g = "passed")
  <2>1. CASE Source!ContractJob(k)
    <3> DEFINE g == IF Source!Others(k) = {} THEN "passed" ELSE "refused"
    <3>1. e.guard = "queued" /\ executions' = [executions EXCEPT ![k] = [e EXCEPT !.guard = g]]
      BY <2>1 DEF Source!ContractJob
    <3>2. g = "passed" => k = 1
      <4> SUFFICES ASSUME Source!Others(k) = {} PROVE k = 1 OBVIOUS
      <4>1. 1 \in 1 .. n BY <1>0
      <4> QED BY <1>0, <4>1 DEF Source!Others
    <3>3. g \in {"queued", "passed", "refused"} OBVIOUS
    <3> HIDE DEF g
    <3>4. [e EXCEPT !.guard = g] = [at |-> e.at, guard |-> g, ran |-> e.ran] BY <1>1 DEF ExecRuns
    <3>5. e.ran \in BOOLEAN BY <1>1 DEF ExecRuns
    <3>6. e.ran => Source!LockValid(e.at.lock, e.at) /\ ~needsContract BY <1>2, <3>1
    <3> HIDE DEF e
    <3> QED BY <3>1, <3>2, <3>3, <3>4, <3>5, <3>6
  <2>2. CASE Source!CandidateJob(k)
    <3>1. /\ Source!LockValid(e.at.lock, e.at) /\ (needsContract => e.guard = "passed")
          /\ executions' = [executions EXCEPT ![k] = [e EXCEPT !.ran = TRUE]]
      BY <2>2 DEF Source!CandidateJob
    <3>a. \A b : [e EXCEPT !.ran = b] = [at |-> e.at, guard |-> e.guard, ran |-> b] BY <1>1 DEF ExecRuns
    <3>2. [e EXCEPT !.ran = TRUE] = [at |-> e.at, guard |-> e.guard, ran |-> TRUE] BY <3>a
    <3>3. e.guard \in {"queued", "passed", "refused"} BY <1>1 DEF ExecRuns
    <3> HIDE DEF e
    <3> QED BY <1>2, <3>1, <3>2, <3>3
  <2> QED BY <2>1, <2>2
<1>4. PICK g \in {"queued", "passed", "refused"}, b \in BOOLEAN :
        /\ executions' = [executions EXCEPT ![k] = [at |-> e.at, guard |-> g, ran |-> b]]
        /\ g = "passed" => k = 1
        /\ b => Source!LockValid(e.at.lock, e.at) /\ (needsContract => g = "passed")
  BY <1>3
<1> DEFINE x == [at |-> e.at, guard |-> g, ran |-> b]
<1>5. x \in ExecRuns /\ x.at = e.at /\ x.guard = g /\ x.ran = b BY <1>1 DEF ExecRuns
<1>6. executions' = [executions EXCEPT ![k] = x] BY <1>4
<1> HIDE DEF x
<1>7. /\ executions' \in Seq(ExecRuns) /\ Len(executions') = n /\ executions'[k] = x
      /\ \A j \in 1 .. n \ {k} : executions'[j] = executions[j]
  BY <1>0, <1>5, <1>6, SeqChange
<1> HIDE DEF n
<1>8. Guards(executions')
  <2>1. ASSUME NEW j \in 1 .. n
        PROVE  /\ executions'[j].guard = "passed" => j = 1
               /\ executions'[j].ran => Source!LockValid(executions'[j].at.lock, executions'[j].at)
                                         /\ (needsContract => executions'[j].guard = "passed")
    <3>1. CASE j = k BY <1>4, <1>5, <1>7, <3>1
    <3>2. CASE j # k BY <1>7, <3>2 DEF SourceInv, Guards, n
    <3> QED BY <3>1, <3>2
  <2> QED BY <1>7, <2>1 DEF Guards
<1>9. \A j \in 1 .. n : executions'[j].at.lock \in sourceResults \cup {Source!NoLock}
  <2>1. \A j \in 1 .. n : executions'[j].at = executions[j].at BY <1>5, <1>7
  <2> QED BY <2>1 DEF SourceInv, LocksLanded, n
<1>10. UNCHANGED <<valid, sourceContract, sourcePolicy, lock, qualifications, sourceResults, needsContract>>
  BY DEF Source!ContractJob, Source!CandidateJob
<1> QED BY <1>7, <1>8, <1>9, <1>10, ExecutionsMove

LEMMA SourceStart == ASSUME Source!Init PROVE SourceInv
<1>1. Len(qualifications) = 0 /\ Len(executions) = 0 /\ sourceResults = {} /\ lock = Source!NoLock
  BY DEF Source!Init
<1>2. qualifications \in Seq(QualRuns) /\ executions \in Seq(ExecRuns) BY EmptySeq DEF Source!Init
<1>3. SourceTypes BY <1>1, <1>2 DEF Source!Init, SourceTypes
<1>4. ResultsChosen /\ LocksLanded /\ Guards(executions) BY <1>1 DEF ResultsChosen, LocksLanded, Guards
<1> QED BY <1>3, <1>4 DEF SourceInv

LEMMA SourceStep == ASSUME SourceInv, Source!Next PROVE SourceInv'
<1>1. CASE Source!EditContract \/ Source!EditPolicy \/ Source!LandLock
  <2>1. /\ sourceContract' \in Source!Contracts /\ sourcePolicy' \in Nat
        /\ lock' \in sourceResults \cup {Source!NoLock}
        /\ UNCHANGED <<valid, qualifications, executions, sourceResults, needsContract>>
    BY <1>1 DEF Source!EditContract, Source!EditPolicy, Source!LandLock, SourceInv, SourceTypes, LocksLanded
  <2> QED BY <2>1, MainMoves
<1>2. CASE \E i \in DOMAIN qualifications : Source!QualifyFails(i) \/ Source!Materialize(i) \/ Source!Measure(i)
  BY <1>2, QualificationKeeps
<1>3. CASE \E k \in DOMAIN executions : Source!ContractJob(k) \/ Source!CandidateJob(k)
  BY <1>3, ExecutionKeeps
<1> QED BY <1>1, <1>2, <1>3, QualifyKeeps, DispatchedKeeps DEF Source!Next

\* A candidate runs only on the first valid partitions of the pool its own contract registers, chosen
\* by a qualification of that contract and policy, and in one dispatch where its job waits for the
\* guard: for every pool, number of edits, dispatches and failures (source_candidate_authority_v2.py).
THEOREM CandidateOnQualifiedHolds == SumSpec => []CandidateOnQualified
<1> DEFINE Safe == which = "source" => SourceInv
<1>1. SumInit => Safe BY SourceStart DEF SumInit
<1>2. Safe /\ [SumNext]_sumVars => Safe'
  <2> SUFFICES ASSUME Safe, [SumNext]_sumVars, which' = "source" PROVE SourceInv' OBVIOUS
  <2>1. which = "source" BY DEF SumNext, sumVars
  <2>2. CASE UNCHANGED sourceVars
    <3>1. sourceContract' \in Source!Contracts /\ sourcePolicy' \in Nat /\ lock' \in sourceResults \cup {Source!NoLock}
      BY <2>1, <2>2 DEF SourceInv, SourceTypes, LocksLanded, sourceVars
    <3> QED BY <2>1, <2>2, <3>1, MainMoves DEF sourceVars
  <2>3. CASE Source!Next BY <2>1, <2>3, SourceStep
  <2> QED BY <2>1, <2>2, <2>3 DEF SumNext, sumVars
<1>3. Safe => CandidateOnQualified BY SourceHolds DEF CandidateOnQualified
<1> QED BY <1>1, <1>2, <1>3, PTL DEF SumSpec

(***************************************************************************)
(* The validation engine and its authority                                 *)
(***************************************************************************)
\* The loop that picks, after n members.
PickedUpTo(s, kept, g, n) ==
    g = [i \in 0 .. n |-> IF i = 0 THEN <<>> ELSE IF i \in kept THEN Append(g[i - 1], s[i]) ELSE g[i - 1]]

LEMMA PickRuns == ASSUME NEW s, NEW kept, NEW n \in Nat PROVE \E g : PickedUpTo(s, kept, g, n)
<1> DEFINE never == {k \in 0 .. n : ~ \E g : PickedUpTo(s, kept, g, k)}
<1>1. SUFFICES ASSUME never # {} PROVE FALSE
  <2>1. n \in 0 .. n OBVIOUS
  <2> QED BY <2>1
<1>2. PICK x \in never : \A y \in never : x <= y
  <2>1. never \subseteq Nat OBVIOUS
  <2> HIDE DEF never
  <2> QED BY <1>1, <2>1, LeastNumber
<1>3. x \in 0 .. n /\ ~ \E g : PickedUpTo(s, kept, g, x) OBVIOUS
<1>4. x # 0
  <2> DEFINE g == [i \in 0 .. 0 |-> <<>>]
  <2>1. g = [i \in 0 .. 0 |-> IF i = 0 THEN <<>> ELSE IF i \in kept THEN Append(g[i - 1], s[i]) ELSE g[i - 1]] OBVIOUS
  <2> HIDE DEF g
  <2>2. PickedUpTo(s, kept, g, 0) BY <2>1 DEF PickedUpTo
  <2> QED BY <1>3, <2>2
<1>5. x - 1 \in 0 .. n BY <1>3, <1>4
<1>6. PICK g : PickedUpTo(s, kept, g, x - 1)
  <2>1. ~(x <= x - 1) BY <1>3
  <2>2. x - 1 \notin never BY <1>2, <2>1
  <2> QED BY <1>5, <2>2
<1> HIDE DEF never
<1> DEFINE h == [i \in 0 .. x |-> IF i = x THEN IF x \in kept THEN Append(g[x - 1], s[x]) ELSE g[x - 1] ELSE g[i]]
<1>7. DOMAIN g = 0 .. x - 1 /\ \A i \in 0 .. x - 1 :
          g[i] = IF i = 0 THEN <<>> ELSE IF i \in kept THEN Append(g[i - 1], s[i]) ELSE g[i - 1]
  <2>1. g = [i \in 0 .. x - 1 |-> IF i = 0 THEN <<>> ELSE IF i \in kept THEN Append(g[i - 1], s[i]) ELSE g[i - 1]]
    BY <1>6 DEF PickedUpTo
  <2> QED BY <2>1
<1>8. \A i \in 0 .. x : h[i] = IF i = 0 THEN <<>> ELSE IF i \in kept THEN Append(h[i - 1], s[i]) ELSE h[i - 1]
  <2> TAKE i \in 0 .. x
  <2>1. CASE i = x
    <3>1. h[i - 1] = g[x - 1] BY <1>3, <1>4, <2>1
    <3> QED BY <1>3, <1>4, <2>1, <3>1
  <2>2. CASE i # x
    <3>1. i \in 0 .. x - 1 /\ h[i] = g[i] BY <1>3, <2>2
    <3>2. i # 0 => h[i - 1] = g[i - 1] BY <1>3, <2>2
    <3> QED BY <1>7, <3>1, <3>2
  <2> QED BY <2>1, <2>2
<1>9. h = [i \in 0 .. x |-> h[i]] OBVIOUS
<1> HIDE DEF h
<1>10. PickedUpTo(s, kept, h, x) BY <1>8, <1>9 DEF PickedUpTo
<1> QED BY <1>3, <1>10

\* What is picked are members of the sequence from the places that are kept.
From(s, kept, q) == q \in Seq(UNION {{s[i]} : i \in DOMAIN s}) /\ \A j \in DOMAIN q : \E i \in DOMAIN s \cap kept : q[j] = s[i]
LEMMA PickedAreKept == ASSUME NEW S, NEW s \in Seq(S), NEW kept PROVE From(s, kept, Pick(s, kept))
<1> DEFINE n == Len(s)
           all == UNION {{s[i]} : i \in DOMAIN s}
<1>0. n \in Nat /\ DOMAIN s = 1 .. n OBVIOUS
<1>1. \E g : PickedUpTo(s, kept, g, n)
  <2> HIDE DEF n
  <2> QED BY <1>0, PickRuns
<1> DEFINE g == CHOOSE g : PickedUpTo(s, kept, g, n)
<1>2. PickedUpTo(s, kept, g, n) BY <1>1
<1>3. Pick(s, kept) = g[n] BY DEF Pick, PickedUpTo
<1> HIDE DEF g, n, all
<1>4. \A i \in 0 .. n : g[i] = IF i = 0 THEN <<>> ELSE IF i \in kept THEN Append(g[i - 1], s[i]) ELSE g[i - 1]
  BY <1>2 DEF PickedUpTo
<1> DEFINE bad == {k \in 0 .. n : ~ From(s, kept, g[k])}
<1>5. bad = {}
  <2>1. SUFFICES ASSUME bad # {} PROVE FALSE OBVIOUS
  <2>2. bad \subseteq Nat OBVIOUS
  <2>3. PICK k \in bad : \A y \in bad : k <= y
    <3> HIDE DEF bad
    <3> QED BY <2>1, <2>2, LeastNumber
  <2>4. k \in 0 .. n /\ ~ From(s, kept, g[k]) OBVIOUS
  <2>5. CASE k = 0
    <3>1. g[k] = <<>> BY <1>4, <2>4, <2>5
    <3> QED BY <2>4, <3>1 DEF From
  <2>6. CASE k # 0
    <3>1. k - 1 \in 0 .. n /\ k \in DOMAIN s /\ ~(k <= k - 1) BY <1>0, <2>4, <2>6
    <3>2. k - 1 \notin bad
      <4> HIDE DEF bad
      <4> QED BY <2>3, <3>1
    <3>3. From(s, kept, g[k - 1]) BY <3>1, <3>2
    <3>4. CASE k \notin kept
      <4>1. g[k] = g[k - 1] BY <1>4, <2>4, <2>6, <3>4
      <4> QED BY <2>4, <3>3, <4>1
    <3>5. CASE k \in kept
      <4> DEFINE q == g[k - 1]
      <4>1. g[k] = Append(q, s[k]) BY <1>4, <2>4, <2>6, <3>5
      <4>2. q \in Seq(all) /\ s[k] \in all BY <3>1, <3>3 DEF From, all
      <4>3. \A j \in DOMAIN q : \E i \in DOMAIN s \cap kept : q[j] = s[i] BY <3>3 DEF From
      <4> HIDE DEF q
      <4>4. Append(q, s[k]) \in Seq(all) /\ DOMAIN Append(q, s[k]) = 1 .. Len(q) + 1 /\ DOMAIN q = 1 .. Len(q)
            /\ Len(q) \in Nat BY <4>2
      <4>5. \A j \in DOMAIN Append(q, s[k]) : \E i \in DOMAIN s \cap kept : Append(q, s[k])[j] = s[i]
        <5> TAKE j \in DOMAIN Append(q, s[k])
        <5>1. CASE j = Len(q) + 1
          <6>1. Append(q, s[k])[j] = s[k] BY <4>2, <5>1
          <6> QED BY <3>1, <3>5, <6>1
        <5>2. CASE j # Len(q) + 1
          <6>1. j \in DOMAIN q /\ Append(q, s[k])[j] = q[j] BY <4>2, <4>4, <5>2
          <6> QED BY <4>3, <6>1
        <5> QED BY <5>1, <5>2
      <4> QED BY <2>4, <4>1, <4>4, <4>5 DEF From, all
    <3> QED BY <3>4, <3>5
  <2> QED BY <2>5, <2>6
<1>6. n \in 0 .. n /\ n \notin bad
  <2> HIDE DEF bad
  <2> QED BY <1>0, <1>5
<1> QED BY <1>3, <1>6

\* Every sequence of numbers has an order.
Orders(s, n, p) == /\ p \in [1 .. n -> 1 .. n] /\ \A i, j \in 1 .. n : i # j => p[i] # p[j]
                   /\ \A i, j \in 1 .. n : i <= j => s[p[i]] <= s[p[j]]

LEMMA GreatestOf == ASSUME NEW n \in Nat, n >= 1, NEW s \in [1 .. n -> Int] PROVE \E m \in 1 .. n : \A i \in 1 .. n : s[i] <= s[m]
<1> DEFINE never == {k \in 1 .. n : ~ \E m \in 1 .. k : \A i \in 1 .. k : s[i] <= s[m]}
<1>1. SUFFICES ASSUME never # {} PROVE FALSE
  <2>1. n \in 1 .. n OBVIOUS
  <2> QED BY <2>1
<1>2. PICK k \in never : \A y \in never : k <= y
  <2>1. never \subseteq Nat OBVIOUS
  <2> HIDE DEF never
  <2> QED BY <1>1, <2>1, LeastNumber
<1>3. k \in 1 .. n /\ ~ \E m \in 1 .. k : \A i \in 1 .. k : s[i] <= s[m] OBVIOUS
<1>4. k # 1
  <2>1. k = 1 => \A i \in 1 .. k : s[i] <= s[1] BY <1>3
  <2> QED BY <1>3, <2>1
<1>5. k - 1 \in 1 .. n /\ ~(k <= k - 1) BY <1>3, <1>4
<1>6. k - 1 \notin never
  <2> HIDE DEF never
  <2> QED BY <1>2, <1>5
<1>7. PICK m \in 1 .. k - 1 : \A i \in 1 .. k - 1 : s[i] <= s[m] BY <1>5, <1>6
<1>8. s[m] \in Int /\ s[k] \in Int BY <1>3, <1>5
<1>9. CASE s[k] <= s[m]
  <2>1. m \in 1 .. k /\ \A i \in 1 .. k : s[i] <= s[m]
    <3>1. \A i \in 1 .. k : i = k \/ i \in 1 .. k - 1 BY <1>3
    <3>2. m \in 1 .. k BY <1>5
    <3> QED BY <1>7, <1>9, <3>1, <3>2
  <2> QED BY <1>3, <2>1
<1>10. CASE s[m] <= s[k]
  <2>1. \A i \in 1 .. k - 1 : s[i] <= s[k]
    <3> TAKE i \in 1 .. k - 1
    <3>1. s[i] \in Int /\ s[i] <= s[m] BY <1>3, <1>5, <1>7
    <3> QED BY <1>8, <1>10, <3>1
  <2>2. \A i \in 1 .. k : i = k \/ i \in 1 .. k - 1 BY <1>3
  <2>3. \A i \in 1 .. k : s[i] <= s[k] BY <1>8, <2>1, <2>2
  <2>4. k \in 1 .. k BY <1>3
  <2> QED BY <1>3, <2>3, <2>4
<1> QED BY <1>8, <1>9, <1>10

LEMMA CanBeOrdered == ASSUME NEW n \in Nat PROVE \A s \in [1 .. n -> Int] : \E p : Orders(s, n, p)
<1> DEFINE never == {k \in 0 .. n : ~ \A s \in [1 .. k -> Int] : \E p : Orders(s, k, p)}
<1>1. SUFFICES ASSUME never # {} PROVE FALSE
  <2>1. n \in 0 .. n OBVIOUS
  <2> QED BY <2>1
<1>2. PICK k \in never : \A y \in never : k <= y
  <2>1. never \subseteq Nat OBVIOUS
  <2> HIDE DEF never
  <2> QED BY <1>1, <2>1, LeastNumber
<1>3. k \in 0 .. n OBVIOUS
<1>4. PICK s \in [1 .. k -> Int] : ~ \E p : Orders(s, k, p) OBVIOUS
<1>5. k # 0
  <2> DEFINE p == [i \in 1 .. 0 |-> 1]
  <2>1. k = 0 => p \in [1 .. k -> 1 .. k] /\ \A i \in 1 .. k : FALSE OBVIOUS
  <2> HIDE DEF p
  <2>2. k = 0 => Orders(s, k, p) BY <2>1 DEF Orders
  <2> QED BY <1>4, <2>2
<1>6. k - 1 \in 0 .. n /\ ~(k <= k - 1) /\ k \in Nat /\ k >= 1 BY <1>3, <1>5
<1>7. k - 1 \notin never
  <2> HIDE DEF never
  <2> QED BY <1>2, <1>6
<1>8. PICK m \in 1 .. k : \A i \in 1 .. k : s[i] <= s[m] BY <1>6, GreatestOf
\* The greatest goes last, and the last member takes its place.
<1> DEFINE rest == [i \in 1 .. k - 1 |-> IF i = m THEN s[k] ELSE s[i]]
<1>9. rest \in [1 .. k - 1 -> Int] BY <1>6
<1>10. PICK p : Orders(rest, k - 1, p)
  <2> HIDE DEF rest
  <2>1. \A ss \in [1 .. k - 1 -> Int] : \E pp : Orders(ss, k - 1, pp) BY <1>6, <1>7
  <2> QED BY <1>9, <2>1
<1> HIDE DEF never
<1> DEFINE q == [i \in 1 .. k |-> IF i = k THEN m ELSE IF p[i] = m THEN k ELSE p[i]]
<1>11. p \in [1 .. k - 1 -> 1 .. k - 1] /\ (\A i, j \in 1 .. k - 1 : i # j => p[i] # p[j])
       /\ (\A i, j \in 1 .. k - 1 : i <= j => rest[p[i]] <= rest[p[j]])
  BY <1>10 DEF Orders
<1>12. \A i \in 1 .. k - 1 : p[i] \in 1 .. k - 1 /\ q[i] \in 1 .. k /\ q[i] # m /\ s[q[i]] = rest[p[i]]
                             /\ q[i] = IF p[i] = m THEN k ELSE p[i]
  <2> TAKE i \in 1 .. k - 1
  <2>1. p[i] \in 1 .. k - 1 BY <1>11
  <2>2. i \in 1 .. k /\ i # k /\ k \in 1 .. k /\ k # p[i] BY <1>6, <2>1
  <2>3. q[i] = IF p[i] = m THEN k ELSE p[i] BY <2>2
  <2>4. q[i] \in 1 .. k /\ q[i] # m BY <1>6, <2>1, <2>2, <2>3
  <2>5. s[q[i]] = rest[p[i]] BY <2>1, <2>3
  <2> QED BY <2>1, <2>3, <2>4, <2>5
<1>13. q[k] = m /\ k \in 1 .. k BY <1>6
<1>14. \A i \in 1 .. k : i = k \/ i \in 1 .. k - 1 BY <1>6
<1>15. q \in [1 .. k -> 1 .. k]
  <2>1. \A i \in 1 .. k : q[i] \in 1 .. k BY <1>12, <1>13, <1>14
  <2>2. q = [i \in 1 .. k |-> q[i]] OBVIOUS
  <2> HIDE DEF q
  <2> QED BY <2>1, <2>2
<1> HIDE DEF q, rest
<1>16. \A i, j \in 1 .. k : i # j => q[i] # q[j]
  <2> SUFFICES ASSUME NEW i \in 1 .. k, NEW j \in 1 .. k, i # j PROVE q[i] # q[j] OBVIOUS
  <2>1. CASE i = k \/ j = k BY <1>12, <1>13, <1>14, <2>1
  <2>2. CASE i \in 1 .. k - 1 /\ j \in 1 .. k - 1
    <3>1. p[i] # p[j] BY <1>11, <2>2
    <3>2. k \notin 1 .. k - 1 BY <1>6
    <3> QED BY <1>12, <2>2, <3>1, <3>2
  <2> QED BY <1>14, <2>1, <2>2
<1>17. \A i, j \in 1 .. k : i <= j => s[q[i]] <= s[q[j]]
  <2> SUFFICES ASSUME NEW i \in 1 .. k, NEW j \in 1 .. k, i <= j PROVE s[q[i]] <= s[q[j]] OBVIOUS
  <2>1. CASE j = k
    <3>1. q[i] \in 1 .. k BY <1>15
    <3> QED BY <1>8, <1>13, <2>1, <3>1
  <2>2. CASE j # k
    <3>1. i \in 1 .. k - 1 /\ j \in 1 .. k - 1 BY <1>6, <2>2
    <3> QED BY <1>11, <1>12, <3>1
  <2> QED BY <2>1, <2>2
<1>18. Orders(s, k, q) BY <1>15, <1>16, <1>17 DEF Orders
<1> QED BY <1>4, <1>18

\* A sorted sequence is made of the members of the sequence, and ascends.
LEMMA SortedAscends ==
  ASSUME NEW s \in Seq(Int)
  PROVE  /\ \A i \in 1 .. Len(s) : Sorted(s)[i] \in Int /\ \E j \in 1 .. Len(s) : Sorted(s)[i] = s[j]
         /\ \A i, j \in 1 .. Len(s) : i <= j => Sorted(s)[i] <= Sorted(s)[j]
<1> DEFINE n == Len(s)
<1>1. n \in Nat /\ s \in [1 .. n -> Int] OBVIOUS
<1>2. \E p : Orders(s, n, p)
  <2> HIDE DEF n
  <2> QED BY <1>1, CanBeOrdered
<1> DEFINE order == CHOOSE p \in [1 .. n -> 1 .. n] :
                       /\ \A i, j \in 1 .. n : i # j => p[i] # p[j]
                       /\ \A i, j \in 1 .. n : i <= j => s[p[i]] <= s[p[j]]
<1>3. order \in [1 .. n -> 1 .. n] /\ \A i, j \in 1 .. n : i <= j => s[order[i]] <= s[order[j]]
  BY <1>2 DEF Orders
<1>4. Sorted(s) = [i \in 1 .. n |-> s[order[i]]] BY DEF Sorted
<1> HIDE DEF order
<1>5. \A i \in 1 .. n : Sorted(s)[i] = s[order[i]] /\ order[i] \in 1 .. n BY <1>3, <1>4
<1> HIDE DEF n
<1>6. \A i \in 1 .. n : Sorted(s)[i] \in Int /\ \E j \in 1 .. n : Sorted(s)[i] = s[j] BY <1>1, <1>5
<1>7. \A i, j \in 1 .. n : i <= j => Sorted(s)[i] <= Sorted(s)[j] BY <1>3, <1>5
<1> QED BY <1>6, <1>7 DEF n

\* Between two neighbours, in tenths.
LEMMA Interpolates ==
  ASSUME NEW a \in Int, NEW b \in Int, a <= b, NEW f \in 0 .. 9
  PROVE  /\ a * (10 - f) + b * f = 10 * a + (b - a) * f
         /\ 10 * a <= a * (10 - f) + b * f /\ a * (10 - f) + b * f <= 10 * b
<1>1. f = 0 \/ f = 1 \/ f = 2 \/ f = 3 \/ f = 4 \/ f = 5 \/ f = 6 \/ f = 7 \/ f = 8 \/ f = 9 OBVIOUS
<1> QED BY <1>1

\* The first decile lies between the least and the greatest value, and both ways to compute it agree.
LEMMA DecileWithin ==
  ASSUME NEW s \in Seq(Int), s # <<>>
  PROVE  /\ Percentile(s, 1) \in Int /\ Percentile(s, 1) = Distribution(s).p10
         /\ 10 * Distribution(s).min <= Percentile(s, 1) /\ Percentile(s, 1) <= 10 * Distribution(s).max
         /\ \E i \in DOMAIN s : s[i] = Distribution(s).max
<1> DEFINE n == Len(s)
           o == Sorted(s)
           lo == (n - 1) \div 10
           f == (n - 1) % 10
<1>1. n \in Nat /\ n >= 1 /\ DOMAIN s = 1 .. n OBVIOUS
<1>2. /\ \A i \in 1 .. n : o[i] \in Int /\ \E j \in 1 .. n : o[i] = s[j]
      /\ \A i, j \in 1 .. n : i <= j => o[i] <= o[j]
  BY SortedAscends
<1>3. lo \in Nat /\ f \in 0 .. 9 /\ n - 1 = 10 * lo + f
  <2> HIDE DEF n
  <2> QED BY <1>1
<1>4. 1 * (n - 1) = n - 1
  <2> HIDE DEF n
  <2> QED BY <1>1
<1>5. Percentile(s, 1) = IF f = 0 THEN 10 * o[lo + 1] ELSE o[lo + 1] * (10 - f) + o[lo + 2] * f
  BY <1>4 DEF Percentile
<1>6. Distribution(s).min = o[1] /\ Distribution(s).max = o[n]
      /\ Distribution(s).p10 =
            IF n = 1 THEN 10 * o[1]
            ELSE 10 * o[lo + 1] + (o[(IF f = 0 THEN lo ELSE lo + 1) + 1] - o[lo + 1]) * ((n - 1) - 10 * lo)
  BY DEF Distribution
<1> HIDE DEF o, lo, f, n
<1>7. lo + 1 \in 1 .. n /\ 1 \in 1 .. n /\ n \in 1 .. n BY <1>1, <1>3
<1>8. o[1] \in Int /\ o[n] \in Int /\ o[lo + 1] \in Int /\ o[1] <= o[lo + 1] /\ o[lo + 1] <= o[n]
  <2>1. 1 <= lo + 1 /\ lo + 1 <= n BY <1>1, <1>3, <1>7
  <2> QED BY <1>2, <1>7, <2>1
<1>9. (n - 1) - 10 * lo = f BY <1>1, <1>3
<1>10. \E i \in DOMAIN s : s[i] = Distribution(s).max BY <1>1, <1>2, <1>6, <1>7
<1>11. CASE f = 0
  <2>1. Percentile(s, 1) = 10 * o[lo + 1] BY <1>5, <1>11
  <2>2. n = 1 => lo + 1 = 1 BY <1>3, <1>11
  <2>3. n # 1 => Distribution(s).p10 = 10 * o[lo + 1] + (o[lo + 1] - o[lo + 1]) * 0 BY <1>6, <1>9, <1>11
  <2>4. Distribution(s).p10 = 10 * o[lo + 1]
    <3>1. CASE n = 1 BY <1>6, <2>2, <3>1
    <3>2. CASE n # 1 BY <1>8, <2>3, <3>2
    <3> QED BY <3>1, <3>2
  <2> QED BY <1>6, <1>8, <1>10, <2>1, <2>4
<1>12. CASE f # 0
  <2>1. lo + 2 \in 1 .. n /\ (lo + 1) + 1 = lo + 2 /\ n # 1 BY <1>1, <1>3, <1>12
  <2>2. o[lo + 2] \in Int /\ o[lo + 1] <= o[lo + 2] /\ o[lo + 2] <= o[n]
    <3>1. lo + 1 <= lo + 2 /\ lo + 2 <= n BY <1>1, <1>3, <2>1
    <3> QED BY <1>2, <1>7, <2>1, <3>1
  <2>3. Percentile(s, 1) = o[lo + 1] * (10 - f) + o[lo + 2] * f BY <1>5, <1>12
  <2>4. Distribution(s).p10 = 10 * o[lo + 1] + (o[lo + 2] - o[lo + 1]) * f BY <1>6, <1>9, <1>12, <2>1
  <2> DEFINE a == o[lo + 1]
             b == o[lo + 2]
  <2>5. a \in Int /\ b \in Int /\ a <= b BY <1>8, <2>2
  <2> HIDE DEF a, b
  <2>6. /\ a * (10 - f) + b * f = 10 * a + (b - a) * f
        /\ 10 * a <= a * (10 - f) + b * f /\ a * (10 - f) + b * f <= 10 * b
    BY <1>3, <2>5, Interpolates
  <2>7. Percentile(s, 1) = Distribution(s).p10 /\ Percentile(s, 1) = a * (10 - f) + b * f BY <2>3, <2>4, <2>6 DEF a, b
  <2>8. a * (10 - f) + b * f \in Int BY <1>3, <2>5
  <2>9. 10 * o[1] <= 10 * a /\ 10 * b <= 10 * o[n] BY <1>8, <2>2 DEF a, b
  <2>10. 10 * a \in Int /\ 10 * b \in Int /\ 10 * o[1] \in Int /\ 10 * o[n] \in Int BY <1>8, <2>5
  <2> QED BY <1>6, <1>10, <2>6, <2>7, <2>8, <2>9, <2>10
<1> QED BY <1>11, <1>12

\* What was evaluated so far, and improvements that mean something.
Evaluated == [split : {"dev", "validation"}, scenario : {"echo", "noise"}, improvement : Values \cup {None},
              identical : BOOLEAN, passed : BOOLEAN]
LEMMA Improving ==
  ASSUME NEW res \in Seq(Evaluated)
  PROVE  /\ Improvements(res) \in Seq(Int)
         /\ \A j \in DOMAIN Improvements(res) : \E i \in DOMAIN res :
                Improvements(res)[j] = res[i].improvement /\ res[i].improvement # None /\ ~ res[i].identical
<1> DEFINE kept == {i \in DOMAIN res : res[i].improvement # None /\ ~res[i].identical}
           q == Pick(res, kept)
<1>1. From(res, kept, q)
  <2> HIDE DEF kept
  <2> QED BY PickedAreKept
<1>2. Improvements(res) = [i \in DOMAIN q |-> q[i].improvement] BY DEF Improvements
<1> HIDE DEF q
<1>3. \A j \in DOMAIN q : \E i \in DOMAIN res : q[j] = res[i] /\ res[i].improvement # None /\ ~res[i].identical
  BY <1>1 DEF From
<1>4. \A i \in DOMAIN res : res[i].improvement \in Values \cup {None}
  <2>1. \A i \in DOMAIN res : res[i] \in Evaluated OBVIOUS
  <2> QED BY <2>1 DEF Evaluated
<1>5. \A j \in DOMAIN q : q[j].improvement \in Int
  <2>1. Values \subseteq Int BY BoundAssumption DEF BoundAssumption
  <2> QED BY <1>3, <1>4, <2>1
<1>6. DOMAIN q = 1 .. Len(q) /\ Len(q) \in Nat BY <1>1 DEF From
<1>7. Improvements(res) \in Seq(Int) BY <1>2, <1>5, <1>6
<1>8. ASSUME NEW j \in DOMAIN Improvements(res)
      PROVE  \E i \in DOMAIN res :
                Improvements(res)[j] = res[i].improvement /\ res[i].improvement # None /\ ~ res[i].identical
  <2>1. j \in DOMAIN q /\ Improvements(res)[j] = q[j].improvement BY <1>2
  <2> QED BY <1>3, <2>1
<1> QED BY <1>7, <1>8

LEMMA ScenarioSeen ==
  ASSUME NEW res \in Seq(Evaluated), NEW sc, InScenario(res, sc) # <<>>
  PROVE  \E i \in DOMAIN res : res[i].scenario = sc
<1> DEFINE kept == {i \in DOMAIN res : res[i].scenario = sc}
           q == Pick(res, kept)
<1>1. From(res, kept, q)
  <2> HIDE DEF kept
  <2> QED BY PickedAreKept
<1>2. InScenario(res, sc) = q BY DEF InScenario
<1> HIDE DEF q
<1>3. q # <<>> /\ DOMAIN q = 1 .. Len(q) /\ Len(q) \in Nat BY <1>1, <1>2 DEF From
<1>4. 1 \in DOMAIN q BY <1>1, <1>3 DEF From
<1> QED BY <1>1, <1>4 DEF From

ValidationInv ==
    /\ done \in Seq(Evaluated) /\ pc \in {"evaluate", "failed", "done"}
    /\ policy.aggregate \in {None, 1} /\ policy.minimum \in Nat
    /\ pc # "done" => report = NoReport
    /\ PassEarned /\ PercentilesAgree

LEMMA ValidationStarts == ASSUME Init PROVE ValidationInv
<1>1. done = <<>> /\ report = NoReport /\ pc = "evaluate" /\ policy.aggregate \in {None, 1} /\ policy.minimum \in Nat
  BY BoundAssumption DEF Init, BoundAssumption
<1>2. report.result = "none" BY <1>1 DEF NoReport
<1> QED BY <1>1, <1>2 DEF ValidationInv, PassEarned, PercentilesAgree

LEMMA ValidationStays == ASSUME ValidationInv, UNCHANGED validationVars PROVE ValidationInv'
  BY DEF ValidationInv, validationVars, PassEarned, PercentilesAgree

LEMMA EvaluateCase == ASSUME ValidationInv, Evaluate \/ ProcessorFails PROVE ValidationInv'
<1>1. pc = "evaluate" /\ report' = report /\ report = NoReport /\ policy' = policy /\ pc' # "done"
  BY DEF ValidationInv, Evaluate, ProcessorFails
<1>2. done' \in Seq(Evaluated) /\ pc' \in {"evaluate", "failed", "done"}
  <2>1. CASE Evaluate
    <3>1. \A m \in Measurements : m.improvement \in Values \cup {None} /\ m.identical \in BOOLEAN
      <4> TAKE m \in Measurements
      <4>1. PICK clean \in Signals, mic \in Signals, labels \in Traces, trace \in Traces, value \in Values, delay \in {0, 1} :
                m = Measure(clean, mic, labels, trace, value, delay)
        BY DEF Measurements
      <4>2. m.improvement \in Values \cup {None} BY <4>1 DEF Measure
      <4>3. m.identical = SpanIdentical(clean, mic, AlignedSpan(clean, mic, 0)) BY <4>1 DEF Measure
      <4>4. m.identical \in BOOLEAN BY <4>3 DEF SpanIdentical
      <4> QED BY <4>2, <4>4
    <3>2. PICK m \in Measurements, split \in {"dev", "validation"}, scenario \in {"echo", "noise"},
              gate \in {"min_vad_f1", "min_near_si_sdr_improvement_db", "min_noise_only_attenuation_db"} :
              done' = Append(done, [split |-> split, scenario |-> scenario,
                                    improvement |-> m.improvement, identical |-> m.identical,
                                    passed |-> ~Breaks(m, gate, 1)])
      BY <2>1 DEF Evaluate
    <3>3. (~Breaks(m, gate, 1)) \in BOOLEAN OBVIOUS
    <3>4. [split |-> split, scenario |-> scenario, improvement |-> m.improvement, identical |-> m.identical,
           passed |-> ~Breaks(m, gate, 1)] \in Evaluated
      <4> DEFINE mark == ~Breaks(m, gate, 1)
      <4>1. mark \in BOOLEAN OBVIOUS
      <4> HIDE DEF mark
      <4>2. [split |-> split, scenario |-> scenario, improvement |-> m.improvement, identical |-> m.identical,
             passed |-> mark] \in Evaluated
        BY <3>1, <4>1 DEF Evaluated
      <4> QED BY <4>2 DEF mark
    <3>5. done \in Seq(Evaluated) BY DEF ValidationInv
    <3>6. done' \in Seq(Evaluated) BY <3>2, <3>4, <3>5
    <3> QED BY <2>1, <3>6 DEF Evaluate
  <2>2. CASE ProcessorFails BY <2>2 DEF ProcessorFails, ValidationInv
  <2> QED BY <2>1, <2>2
<1>3. report'.result # "PASS" /\ report' = NoReport BY <1>1 DEF NoReport
<1>4. policy'.aggregate \in {None, 1} /\ policy'.minimum \in Nat BY <1>1 DEF ValidationInv
<1>5. PassEarned' BY <1>3 DEF PassEarned
<1>6. PercentilesAgree' BY <1>3 DEF PercentilesAgree
<1> QED BY <1>1, <1>2, <1>3, <1>4, <1>5, <1>6 DEF ValidationInv

\* Where nothing is violated, every rule is kept: the engine's and, in their place, the authority's.
LEMMA NothingViolated ==
  ASSUME NEW res, PolicyViolations(res) = {}
  PROVE  /\ ~ (Len(res) < policy.minimum)
         /\ \A sc \in policy.scenarios : InScenario(res, sc) # <<>>
         /\ policy.aggregate # None => /\ Percentile(Improvements(res), 1) # None
                                       /\ ~ (Percentile(Improvements(res), 1) < 10 * policy.aggregate)
         /\ policy.allowed /\ (spec.sealed => corpus.sealed) /\ (spec.key => corpus.key)
         /\ spec.dev \/ \A i \in DOMAIN res : res[i].split # "dev"
<1>1. \A g : g \notin EngineViolations(res) \/ g \in AuthorityGates BY DEF PolicyViolations
<1>2. \A g : g \in {"minimum_cases", "required_scenarios", "min_p10_near_si_sdr_improvement_db"} => g \notin EngineViolations(res)
  BY <1>1 DEF AuthorityGates
<1>3. ~ (Len(res) < policy.minimum)
  <2>1. "minimum_cases" \notin EngineViolations(res) BY <1>2
  <2> QED BY <2>1 DEF EngineViolations
<1>4. \A sc \in policy.scenarios : InScenario(res, sc) # <<>>
  <2>1. "required_scenarios" \notin EngineViolations(res) BY <1>2
  <2> QED BY <2>1 DEF EngineViolations
<1>5. policy.aggregate # None => /\ Percentile(Improvements(res), 1) # None
                                 /\ ~ (Percentile(Improvements(res), 1) < 10 * policy.aggregate)
  <2>1. "min_p10_near_si_sdr_improvement_db" \notin EngineViolations(res) BY <1>2
  <2> QED BY <2>1 DEF EngineViolations
<1> DEFINE own == {g \in {"allowed_tiers", "sealed_data", "dev_split_not_allowed", "blind_key_fingerprint"} :
                      CASE g = "allowed_tiers" -> ~policy.allowed
                        [] g = "sealed_data" -> spec.sealed /\ ~corpus.sealed
                        [] g = "dev_split_not_allowed" ->
                              ~spec.dev /\ \E i \in DOMAIN res : res[i].split = "dev"
                        [] OTHER -> spec.key /\ ~corpus.key}
<1>6. own = {} BY DEF PolicyViolations
<1>7. policy.allowed
  <2>1. "allowed_tiers" \notin own BY <1>6
  <2> QED BY <2>1
<1>8. spec.sealed => corpus.sealed
  <2>1. "sealed_data" \notin own BY <1>6
  <2> QED BY <2>1
<1>9. spec.dev \/ \A i \in DOMAIN res : res[i].split # "dev"
  <2>1. "dev_split_not_allowed" \notin own BY <1>6
  <2> QED BY <2>1
<1>10. spec.key => corpus.key
  <2>1. "blind_key_fingerprint" \notin own BY <1>6
  <2> QED BY <2>1
<1> QED BY <1>3, <1>4, <1>5, <1>7, <1>8, <1>9, <1>10

LEMMA ReportWritten == ASSUME ValidationInv, WriteReport PROVE ValidationInv'
<1> DEFINE values == Improvements(done)
           failing == {i \in DOMAIN done : ~done[i].passed}
<1>1. /\ pc' = "done" /\ corpus' = corpus /\ policy' = policy /\ spec' = spec /\ done' = done
      /\ Len(done) = corpus.cases /\ done \in Seq(Evaluated) /\ policy.aggregate \in {None, 1}
      /\ policy.minimum \in Nat
  BY DEF ValidationInv, WriteReport
<1>2. report'.p10 = Percentile(values, 1)
      /\ report'.result = IF failing = {} /\ PolicyViolations(done) = {} THEN "PASS" ELSE "FAIL"
  BY DEF WriteReport
<1>3. values \in Seq(Int) /\ \A j \in DOMAIN values : \E i \in DOMAIN done :
          values[j] = done[i].improvement /\ done[i].improvement # None /\ ~ done[i].identical
  BY <1>1, Improving
<1>4. values # <<>> => /\ Percentile(values, 1) \in Int /\ Percentile(values, 1) = Distribution(values).p10
                       /\ 10 * Distribution(values).min <= Percentile(values, 1)
                       /\ Percentile(values, 1) <= 10 * Distribution(values).max
                       /\ \E i \in DOMAIN values : values[i] = Distribution(values).max
  <2> HIDE DEF values
  <2> QED BY <1>3, DecileWithin
<1>5. PercentilesAgree'
  <2>1. values # <<>> => LET d == Distribution(values)
                         IN  report'.p10 = d.p10 /\ 10 * d.min <= d.p10 /\ d.p10 <= 10 * d.max
    <3> HIDE DEF values
    <3> QED BY <1>2, <1>4
  <2>2. Improvements(done') = values /\ Distribution(Improvements(done')) = Distribution(values) BY <1>1
  <2> QED BY <2>1, <2>2 DEF PercentilesAgree
<1>6. ASSUME report'.result = "PASS"
      PROVE  /\ Len(done) = corpus.cases /\ ~ (Len(done) < policy.minimum)
             /\ \A i \in DOMAIN done : done[i].passed /\ (done[i].split = "dev" => spec.dev)
             /\ policy.allowed
             /\ spec.sealed => corpus.sealed
             /\ spec.key => corpus.key
             /\ policy.scenarios \subseteq {done[i].scenario : i \in DOMAIN done}
             /\ policy.aggregate # None =>
                   \E i \in DOMAIN done :
                       ~done[i].identical /\ done[i].improvement # None
                       /\ done[i].improvement >= policy.aggregate
  <2>1. failing = {} /\ PolicyViolations(done) = {} BY <1>2, <1>6
  <2>2. \A i \in DOMAIN done : done[i].passed BY <2>1
  <2>3. /\ ~ (Len(done) < policy.minimum) /\ policy.allowed /\ (spec.sealed => corpus.sealed) /\ (spec.key => corpus.key)
        /\ spec.dev \/ \A i \in DOMAIN done : done[i].split # "dev"
        /\ \A sc \in policy.scenarios : InScenario(done, sc) # <<>>
        /\ policy.aggregate # None => Percentile(values, 1) # None /\ ~ (Percentile(values, 1) < 10 * policy.aggregate)
    BY <2>1, NothingViolated
  <2>4. \A sc \in policy.scenarios : \E i \in DOMAIN done : done[i].scenario = sc BY <1>1, <2>3, ScenarioSeen
  <2>5. ASSUME policy.aggregate # None
        PROVE  \E i \in DOMAIN done : ~done[i].identical /\ done[i].improvement # None
                                      /\ done[i].improvement >= policy.aggregate
    <3>1. policy.aggregate = 1 BY <1>1, <2>5
    <3>2. values # <<>> BY <2>3, <2>5 DEF Percentile
    <3> HIDE DEF values
    <3>3. PICK j \in DOMAIN values : values[j] = Distribution(values).max BY <1>4, <3>2
    <3>4. values[j] \in Int BY <1>3
    <3>5. Percentile(values, 1) \in Int /\ ~ (Percentile(values, 1) < 10) /\ Percentile(values, 1) <= 10 * values[j]
      BY <1>4, <2>3, <2>5, <3>1, <3>2, <3>3
    <3>6. values[j] >= 1 BY <3>4, <3>5
    <3>7. PICK i \in DOMAIN done : values[j] = done[i].improvement /\ done[i].improvement # None /\ ~ done[i].identical
      BY <1>3
    <3> QED BY <3>1, <3>6, <3>7
  <2> QED BY <1>1, <2>2, <2>3, <2>4, <2>5
<1>7. PassEarned'
  <2>1. Len(done) \in Nat BY <1>1
  <2>2. ~ (Len(done) < policy.minimum) => Len(done) >= policy.minimum BY <1>1, <2>1
  <2> QED BY <1>1, <1>6, <2>2 DEF PassEarned
<1> QED BY <1>1, <1>5, <1>7 DEF ValidationInv

\* A PASS is earned on every case as the authority sees the corpus, on an aggregate that is there and
\* reached by an improvement that means something, and the decile that decides is the one that is shown
\* and lies among the improvements: for every number of cases, every set of signals, traces and
\* improvements (run_validation.py policy_violations and main, run_validation_engine.py percentile_of
\* and metric_distribution).
THEOREM ValidationSoundHolds == SumSpec => []ValidationSound
<1> DEFINE Inv == which = "validation" => ValidationInv
<1>1. SumInit => Inv BY ValidationStarts DEF SumInit
<1>2. Inv /\ [SumNext]_sumVars => Inv'
  <2> SUFFICES ASSUME Inv, [SumNext]_sumVars, which' = "validation" PROVE ValidationInv' OBVIOUS
  <2>1. CASE UNCHANGED sumVars BY <2>1, ValidationStays DEF sumVars
  <2>2. CASE SumNext
    <3>1. which = "validation" BY <2>2 DEF SumNext
    <3>2. ValidationInv /\ Next BY <2>2, <3>1 DEF SumNext
    <3> QED BY <3>2, EvaluateCase, ReportWritten DEF Next
  <2> QED BY <2>1, <2>2
<1>3. Inv => ValidationSound BY DEF ValidationInv, ValidationSound
<1> QED BY <1>1, <1>2, <1>3, PTL DEF SumSpec

(***************************************************************************)
(* The search                                                              *)
(***************************************************************************)
\* What is added up over a set is well defined, and no less of what is nowhere less.
AddsUp(f, add) ==
    add = [S \in SUBSET DOMAIN f |->
              IF S = {} THEN 0 ELSE LET x == CHOOSE x \in S : TRUE IN f[x] + add[S \ {x}]]
Within(D, n) == {S \in SUBSET D : Cardinality(S) <= n}
AddsUpTo(f, add, n) ==
    add = [S \in Within(DOMAIN f, n) |-> IF S = {} THEN 0 ELSE LET x == CHOOSE x \in S : TRUE IN f[x] + add[S \ {x}]]

LEMMA OneLess ==
  ASSUME NEW D, IsFiniteSet(D), NEW n \in Nat, NEW S \in Within(D, n), S # {}, NEW x \in S
  PROVE  n - 1 \in Nat /\ S \ {x} \in Within(D, n - 1) /\ S \ {x} \in Within(D, n) /\ Cardinality(S \ {x}) < Cardinality(S)
         /\ Cardinality(S \ {x}) \in Nat /\ Cardinality(S) \in Nat
<1>1. IsFiniteSet(S) /\ S \in SUBSET D /\ Cardinality(S) <= n BY FS_Subset DEF Within
<1>2. Cardinality(S) \in Nat /\ Cardinality(S) # 0 BY <1>1, FS_CardinalityType, FS_EmptySet
<1>3. IsFiniteSet(S \ {x}) /\ Cardinality(S \ {x}) = Cardinality(S) - 1 BY <1>1, FS_RemoveElement
<1>4. S \ {x} \in SUBSET D BY <1>1
<1>5. Cardinality(S \ {x}) \in Nat BY <1>3, FS_CardinalityType
<1>6. n - 1 \in Nat /\ Cardinality(S \ {x}) <= n - 1 /\ Cardinality(S \ {x}) <= n BY <1>1, <1>2, <1>3
<1> QED BY <1>2, <1>3, <1>4, <1>5, <1>6 DEF Within

LEMMA NothingWithin == ASSUME NEW D, IsFiniteSet(D), NEW S \in Within(D, 0) PROVE S = {}
<1>1. IsFiniteSet(S) /\ Cardinality(S) <= 0 BY FS_Subset DEF Within
<1>2. Cardinality(S) = 0 BY <1>1, FS_CardinalityType
<1> QED BY <1>1, <1>2, FS_EmptySet

LEMMA TotalRuns == ASSUME NEW f, IsFiniteSet(DOMAIN f), NEW n \in Nat PROVE \E add : AddsUpTo(f, add, n)
<1> DEFINE never == {k \in 0 .. n : ~ \E add : AddsUpTo(f, add, k)}
<1>1. SUFFICES ASSUME never # {} PROVE FALSE
  <2>1. n \in 0 .. n OBVIOUS
  <2> QED BY <2>1
<1>2. PICK m \in never : \A y \in never : m <= y
  <2>1. never \subseteq Nat OBVIOUS
  <2> HIDE DEF never
  <2> QED BY <1>1, <2>1, LeastNumber
<1>3. m \in 0 .. n /\ ~ \E add : AddsUpTo(f, add, m) OBVIOUS
<1>4. m # 0
  <2> DEFINE add == [S \in Within(DOMAIN f, 0) |-> 0]
  <2>1. \A S \in Within(DOMAIN f, 0) : S = {} BY NothingWithin
  <2>2. add = [S \in Within(DOMAIN f, 0) |-> IF S = {} THEN 0 ELSE LET x == CHOOSE x \in S : TRUE IN f[x] + add[S \ {x}]]
    BY <2>1
  <2> HIDE DEF add
  <2>3. AddsUpTo(f, add, 0) BY <2>2 DEF AddsUpTo
  <2> QED BY <1>3, <2>3
<1>5. m - 1 \in 0 .. n BY <1>3, <1>4
<1>6. PICK add : AddsUpTo(f, add, m - 1)
  <2>1. ~(m <= m - 1) BY <1>3
  <2>2. m - 1 \notin never BY <1>2, <2>1
  <2> QED BY <1>5, <2>2
<1> HIDE DEF never
<1> DEFINE more == [S \in Within(DOMAIN f, m) |->
                       IF S \in Within(DOMAIN f, m - 1) THEN add[S]
                       ELSE IF S = {} THEN 0 ELSE LET x == CHOOSE x \in S : TRUE IN f[x] + add[S \ {x}]]
<1>7. \A S \in Within(DOMAIN f, m - 1) :
          add[S] = IF S = {} THEN 0 ELSE LET x == CHOOSE x \in S : TRUE IN f[x] + add[S \ {x}]
  BY <1>6 DEF AddsUpTo
<1>8. \A S \in Within(DOMAIN f, m) : more[S] = IF S = {} THEN 0 ELSE LET x == CHOOSE x \in S : TRUE IN f[x] + more[S \ {x}]
  <2> TAKE S \in Within(DOMAIN f, m)
  <2>1. CASE S = {}
    <3>1. more[S] = 0 BY <1>7, <2>1
    <3> QED BY <2>1, <3>1
  <2>2. CASE S # {}
    <3> DEFINE x == CHOOSE x \in S : TRUE
    <3>1. x \in S BY <2>2
    <3>2. S \ {x} \in Within(DOMAIN f, m - 1) /\ S \ {x} \in Within(DOMAIN f, m)
      <4>1. m \in Nat BY <1>3
      <4> HIDE DEF x, more
      <4> QED BY <2>2, <3>1, <4>1, OneLess
    <3>3. more[S \ {x}] = add[S \ {x}] BY <3>2
    <3>4. more[S] = f[x] + add[S \ {x}] BY <1>7, <2>2
    <3> QED BY <2>2, <3>3, <3>4
  <2> QED BY <2>1, <2>2
<1>9. more = [S \in Within(DOMAIN f, m) |-> more[S]] OBVIOUS
<1> HIDE DEF more
<1>10. AddsUpTo(f, more, m) BY <1>8, <1>9 DEF AddsUpTo
<1> QED BY <1>3, <1>10

LEMMA TotalIsAdded ==
  ASSUME NEW f, IsFiniteSet(DOMAIN f)
  PROVE  \E add : AddsUp(f, add) /\ Search!Total(f) = add[DOMAIN f]
<1> DEFINE n == Cardinality(DOMAIN f)
<1>1. n \in Nat BY FS_CardinalityType
<1>2. Within(DOMAIN f, n) = SUBSET DOMAIN f
  <2>1. \A S \in SUBSET DOMAIN f : Cardinality(S) <= n BY FS_Subset
  <2> QED BY <2>1 DEF Within
<1>3. \E add : AddsUpTo(f, add, n)
  <2> HIDE DEF n
  <2> QED BY <1>1, TotalRuns
<1>4. \E add : AddsUp(f, add) BY <1>2, <1>3 DEF AddsUp, AddsUpTo
<1> DEFINE sum == CHOOSE add : AddsUp(f, add)
<1>5. AddsUp(f, sum) BY <1>4
<1>6. Search!Total(f) = sum[DOMAIN f] BY DEF Search!Total, AddsUp
<1> QED BY <1>5, <1>6

\* Where one function is nowhere above another it adds up to no more, to less if it is below
\* somewhere, and to zero if it is zero everywhere.
LEMMA TotalsCompare ==
  ASSUME NEW f, NEW g, DOMAIN f = DOMAIN g, IsFiniteSet(DOMAIN f),
         \A x \in DOMAIN f : f[x] \in Int /\ g[x] \in Int /\ f[x] <= g[x]
  PROVE  /\ Search!Total(f) \in Int /\ Search!Total(g) \in Int /\ Search!Total(f) <= Search!Total(g)
         /\ (\E x \in DOMAIN f : f[x] < g[x]) => Search!Total(f) < Search!Total(g)
         /\ (\A x \in DOMAIN f : f[x] = 0) => Search!Total(f) = 0
<1>1. PICK a : AddsUp(f, a) /\ Search!Total(f) = a[DOMAIN f] BY TotalIsAdded
<1>2. PICK b : AddsUp(g, b) /\ Search!Total(g) = b[DOMAIN f] BY TotalIsAdded
<1> DEFINE Fine(S) == /\ a[S] \in Int /\ b[S] \in Int /\ a[S] <= b[S]
                      /\ (\E x \in S : f[x] < g[x]) => a[S] < b[S]
                      /\ (\A x \in S : f[x] = 0) => a[S] = 0
<1> DEFINE bad == {Cardinality(S) : S \in {S \in SUBSET DOMAIN f : ~ Fine(S)}}
<1>3. \A S \in SUBSET DOMAIN f :
          /\ a[S] = IF S = {} THEN 0 ELSE LET x == CHOOSE x \in S : TRUE IN f[x] + a[S \ {x}]
          /\ b[S] = IF S = {} THEN 0 ELSE LET x == CHOOSE x \in S : TRUE IN g[x] + b[S \ {x}]
  BY <1>1, <1>2 DEF AddsUp
<1>4. bad = {}
  <2>1. SUFFICES ASSUME bad # {} PROVE FALSE OBVIOUS
  <2>2. \A S \in SUBSET DOMAIN f : IsFiniteSet(S) /\ Cardinality(S) \in Nat BY FS_Subset, FS_CardinalityType
  <2>3. bad \subseteq Nat BY <2>2
  <2>4. PICK k \in bad : \A y \in bad : k <= y
    <3> HIDE DEF bad
    <3> QED BY <2>1, <2>3, LeastNumber
  <2>5. PICK S \in SUBSET DOMAIN f : k = Cardinality(S) /\ ~ Fine(S) BY <2>4
  <2>6. CASE S = {}
    <3>1. a[S] = 0 BY <1>3, <2>6
    <3>2. b[S] = 0 BY <1>3, <2>6
    <3> QED BY <2>5, <2>6, <3>1, <3>2
  <2>7. CASE S # {}
    <3> DEFINE x == CHOOSE x \in S : TRUE
    <3>1. x \in S BY <2>7
    <3>2. S \ {x} \in SUBSET DOMAIN f /\ Cardinality(S \ {x}) < Cardinality(S)
          /\ Cardinality(S \ {x}) \in Nat /\ Cardinality(S) \in Nat
      <4>1. Cardinality(S) \in Nat /\ S \in Within(DOMAIN f, Cardinality(S)) BY <2>2 DEF Within
      <4> HIDE DEF x
      <4> QED BY <2>7, <3>1, <4>1, OneLess
    <3>3. Fine(S \ {x})
      <4>1. Cardinality(S \ {x}) \notin bad
        <5>1. ~(k <= Cardinality(S \ {x})) BY <2>5, <3>2
        <5> HIDE DEF bad, x
        <5> QED BY <2>4, <5>1
      <4> QED BY <3>2, <4>1
    <3>4. a[S] = f[x] + a[S \ {x}] /\ b[S] = g[x] + b[S \ {x}] BY <1>3, <2>7
    <3>5. \A y \in S : f[y] \in Int /\ g[y] \in Int /\ f[y] <= g[y] OBVIOUS
    <3> HIDE DEF x
    <3>6. a[S] \in Int /\ b[S] \in Int /\ a[S] <= b[S] BY <3>1, <3>3, <3>4, <3>5
    <3>7. ASSUME \E y \in S : f[y] < g[y] PROVE a[S] < b[S]
      <4>1. PICK y \in S : f[y] < g[y] BY <3>7
      <4>2. CASE y = x BY <3>1, <3>3, <3>4, <3>5, <4>1, <4>2
      <4>3. CASE y # x
        <5>1. a[S \ {x}] < b[S \ {x}] BY <3>3, <4>1, <4>3
        <5> QED BY <3>1, <3>3, <3>4, <3>5, <5>1
      <4> QED BY <4>2, <4>3
    <3>8. ASSUME \A y \in S : f[y] = 0 PROVE a[S] = 0
      <4>1. a[S \ {x}] = 0 /\ f[x] = 0 BY <3>1, <3>3, <3>8
      <4> QED BY <3>4, <4>1
    <3> QED BY <2>5, <3>6, <3>7, <3>8
  <2> QED BY <2>6, <2>7
<1>5. Fine(DOMAIN f)
  <2>1. DOMAIN f \in SUBSET DOMAIN f OBVIOUS
  <2>2. Cardinality(DOMAIN f) \notin bad
    <3> HIDE DEF bad
    <3> QED BY <1>4
  <2> QED BY <2>1, <2>2
<1> QED BY <1>1, <1>2, <1>5

\* Naturals add up to zero only if each of them is zero.
LEMMA TotalIsZero ==
  ASSUME NEW f, IsFiniteSet(DOMAIN f), \A x \in DOMAIN f : f[x] \in Nat
  PROVE  Search!Total(f) \in Nat /\ (Search!Total(f) = 0 <=> \A x \in DOMAIN f : f[x] = 0)
<1> DEFINE zero == [x \in DOMAIN f |-> 0]
<1>1. DOMAIN zero = DOMAIN f /\ \A x \in DOMAIN zero : zero[x] = 0 OBVIOUS
<1> HIDE DEF zero
<1>2. IsFiniteSet(DOMAIN zero) BY <1>1
<1>3. \A x \in DOMAIN zero : zero[x] \in Int /\ f[x] \in Int /\ zero[x] <= f[x] BY <1>1
<1>4. /\ Search!Total(zero) = 0 /\ Search!Total(f) \in Int /\ Search!Total(zero) <= Search!Total(f)
      /\ (\E x \in DOMAIN zero : zero[x] < f[x]) => Search!Total(zero) < Search!Total(f)
  BY <1>1, <1>2, <1>3, TotalsCompare
<1>5. \A x \in DOMAIN f : f[x] \in Int /\ f[x] <= f[x] OBVIOUS
<1>6. (\A x \in DOMAIN f : f[x] = 0) => Search!Total(f) = 0 BY <1>5, TotalsCompare
<1>7. Search!Total(f) = 0 => \A x \in DOMAIN f : f[x] = 0
  <2> SUFFICES ASSUME Search!Total(f) = 0, NEW x \in DOMAIN f, f[x] # 0 PROVE FALSE OBVIOUS
  <2>1. zero[x] < f[x] BY <1>1
  <2> QED BY <1>1, <1>4, <2>1
<1> QED BY <1>4, <1>6, <1>7

\* A line of tasks is well defined, has each task of the set, and each once.
LinesUp(D, line) ==
    line = [S \in SUBSET D |-> IF S = {} THEN <<>> ELSE LET k == CHOOSE k \in S : TRUE IN Append(line[S \ {k}], k)]
LinesUpTo(D, line, n) ==
    line = [S \in Within(D, n) |-> IF S = {} THEN <<>> ELSE LET k == CHOOSE k \in S : TRUE IN Append(line[S \ {k}], k)]

LEMMA LinesRun == ASSUME NEW D, IsFiniteSet(D), NEW n \in Nat PROVE \E line : LinesUpTo(D, line, n)
<1> DEFINE never == {i \in 0 .. n : ~ \E line : LinesUpTo(D, line, i)}
<1>1. SUFFICES ASSUME never # {} PROVE FALSE
  <2>1. n \in 0 .. n OBVIOUS
  <2> QED BY <2>1
<1>2. PICK m \in never : \A y \in never : m <= y
  <2>1. never \subseteq Nat OBVIOUS
  <2> HIDE DEF never
  <2> QED BY <1>1, <2>1, LeastNumber
<1>3. m \in 0 .. n /\ ~ \E line : LinesUpTo(D, line, m) OBVIOUS
<1>4. m # 0
  <2> DEFINE line == [S \in Within(D, 0) |-> <<>>]
  <2>1. \A S \in Within(D, 0) : S = {} BY NothingWithin
  <2>2. line = [S \in Within(D, 0) |-> IF S = {} THEN <<>> ELSE LET k == CHOOSE k \in S : TRUE IN Append(line[S \ {k}], k)]
    BY <2>1
  <2> HIDE DEF line
  <2>3. LinesUpTo(D, line, 0) BY <2>2 DEF LinesUpTo
  <2> QED BY <1>3, <2>3
<1>5. m - 1 \in 0 .. n BY <1>3, <1>4
<1>6. PICK line : LinesUpTo(D, line, m - 1)
  <2>1. ~(m <= m - 1) BY <1>3
  <2>2. m - 1 \notin never BY <1>2, <2>1
  <2> QED BY <1>5, <2>2
<1> HIDE DEF never
<1> DEFINE more == [S \in Within(D, m) |->
                       IF S \in Within(D, m - 1) THEN line[S]
                       ELSE IF S = {} THEN <<>> ELSE LET k == CHOOSE k \in S : TRUE IN Append(line[S \ {k}], k)]
<1>7. \A S \in Within(D, m - 1) :
          line[S] = IF S = {} THEN <<>> ELSE LET k == CHOOSE k \in S : TRUE IN Append(line[S \ {k}], k)
  BY <1>6 DEF LinesUpTo
<1>8. \A S \in Within(D, m) : more[S] = IF S = {} THEN <<>> ELSE LET k == CHOOSE k \in S : TRUE IN Append(more[S \ {k}], k)
  <2> TAKE S \in Within(D, m)
  <2>1. CASE S = {}
    <3>1. more[S] = <<>> BY <1>7, <2>1
    <3> QED BY <2>1, <3>1
  <2>2. CASE S # {}
    <3> DEFINE k == CHOOSE k \in S : TRUE
    <3>1. k \in S BY <2>2
    <3>2. S \ {k} \in Within(D, m - 1) /\ S \ {k} \in Within(D, m)
      <4>1. m \in Nat BY <1>3
      <4> HIDE DEF k, more
      <4> QED BY <2>2, <3>1, <4>1, OneLess
    <3>3. more[S \ {k}] = line[S \ {k}] BY <3>2
    <3>4. more[S] = Append(line[S \ {k}], k) BY <1>7, <2>2
    <3> QED BY <2>2, <3>3, <3>4
  <2> QED BY <2>1, <2>2
<1>9. more = [S \in Within(D, m) |-> more[S]] OBVIOUS
<1> HIDE DEF more
<1>10. LinesUpTo(D, more, m) BY <1>8, <1>9 DEF LinesUpTo
<1> QED BY <1>3, <1>10

InLine(s) == {s[i] : i \in 1 .. Len(s)}
Lined(s, S) == s \in Seq(S) /\ InLine(s) = S /\ \A i, j \in 1 .. Len(s) : s[i] = s[j] => i = j
LEMMA OneMoreInLine ==
  ASSUME NEW S, NEW x \in S, NEW s, Lined(s, S \ {x})
  PROVE  Lined(Append(s, x), S)
<1> DEFINE t == Append(s, x)
<1>1. s \in Seq(S) /\ Len(s) \in Nat BY SeqMonotonic, LenProperties DEF Lined
<1>2. t \in Seq(S) /\ Len(t) = Len(s) + 1 /\ t[Len(s) + 1] = x /\ \A i \in 1 .. Len(s) : t[i] = s[i]
  BY <1>1, AppendProperties
<1>3. \A i \in 1 .. Len(t) : i \in 1 .. Len(s) \/ i = Len(s) + 1 BY <1>1, <1>2
<1>4. \A i \in 1 .. Len(s) : s[i] \in S \ {x} BY DEF Lined, InLine
<1> HIDE DEF t
<1>5. \A i \in 1 .. Len(t) : t[i] \in S BY <1>2, <1>3, <1>4
<1>6. ASSUME NEW y \in S PROVE \E i \in 1 .. Len(t) : t[i] = y
  <2>1. CASE y = x BY <1>1, <1>2, <2>1
  <2>2. CASE y # x
    <3>1. PICK i \in 1 .. Len(s) : s[i] = y BY <2>2 DEF Lined, InLine
    <3>2. i \in 1 .. Len(t) /\ t[i] = y BY <1>1, <1>2, <3>1
    <3> QED BY <3>2
  <2> QED BY <2>1, <2>2
<1>7. InLine(t) = S BY <1>5, <1>6 DEF InLine
<1>8. ASSUME NEW i \in 1 .. Len(t), NEW j \in 1 .. Len(t), t[i] = t[j] PROVE i = j
  <2>1. CASE i \in 1 .. Len(s) /\ j \in 1 .. Len(s) BY <1>2, <1>8, <2>1 DEF Lined
  <2>2. CASE i = Len(s) + 1 /\ j = Len(s) + 1 BY <2>2
  <2>3. CASE i \in 1 .. Len(s) /\ j = Len(s) + 1
    <3>1. t[i] # x /\ t[j] = x BY <1>2, <1>4, <2>3
    <3> QED BY <1>8, <3>1
  <2>4. CASE i = Len(s) + 1 /\ j \in 1 .. Len(s)
    <3>1. t[j] # x /\ t[i] = x BY <1>2, <1>4, <2>4
    <3> QED BY <1>8, <3>1
  <2> QED BY <1>3, <2>1, <2>2, <2>3, <2>4
<1>9. Lined(t, S) BY <1>2, <1>7, <1>8 DEF Lined
<1> QED BY <1>9 DEF t

LEMMA QueueLines == ASSUME NEW D, IsFiniteSet(D) PROVE Lined(Search!Queue(D), D)
<1> DEFINE n == Cardinality(D)
<1>1. n \in Nat BY FS_CardinalityType
<1>2. Within(D, n) = SUBSET D
  <2>1. \A S \in SUBSET D : Cardinality(S) <= n BY FS_Subset
  <2> QED BY <2>1 DEF Within
<1>3. \E line : LinesUpTo(D, line, n)
  <2> HIDE DEF n
  <2> QED BY <1>1, LinesRun
<1>4. \E line : LinesUp(D, line) BY <1>2, <1>3 DEF LinesUp, LinesUpTo
<1> DEFINE line == CHOOSE line : LinesUp(D, line)
<1>5. LinesUp(D, line) BY <1>4
<1>6. Search!Queue(D) = line[D] BY DEF Search!Queue, LinesUp
<1> HIDE DEF line
<1>7. \A S \in SUBSET D : line[S] = IF S = {} THEN <<>> ELSE LET k == CHOOSE k \in S : TRUE IN Append(line[S \ {k}], k)
  BY <1>5 DEF LinesUp
<1> DEFINE bad == {Cardinality(S) : S \in {S \in SUBSET D : ~ Lined(line[S], S)}}
<1>8. bad = {}
  <2>1. SUFFICES ASSUME bad # {} PROVE FALSE OBVIOUS
  <2>2. \A S \in SUBSET D : IsFiniteSet(S) /\ Cardinality(S) \in Nat BY FS_Subset, FS_CardinalityType
  <2>3. bad \subseteq Nat BY <2>2
  <2>4. PICK c \in bad : \A y \in bad : c <= y
    <3> HIDE DEF bad
    <3> QED BY <2>1, <2>3, LeastNumber
  <2>5. PICK S \in SUBSET D : c = Cardinality(S) /\ ~ Lined(line[S], S) BY <2>4
  <2>6. CASE S = {}
    <3>1. line[S] = <<>> BY <1>7, <2>6
    <3>2. Lined(<<>>, {}) BY EmptySeq DEF Lined, InLine
    <3> QED BY <2>5, <2>6, <3>1, <3>2
  <2>7. CASE S # {}
    <3> DEFINE k == CHOOSE k \in S : TRUE
    <3>1. k \in S BY <2>7
    <3>2. S \ {k} \in SUBSET D /\ Cardinality(S \ {k}) < Cardinality(S)
          /\ Cardinality(S \ {k}) \in Nat /\ Cardinality(S) \in Nat
      <4>1. Cardinality(S) \in Nat /\ S \in Within(D, Cardinality(S)) BY <2>2 DEF Within
      <4> HIDE DEF k
      <4> QED BY <2>7, <3>1, <4>1, OneLess
    <3>3. Lined(line[S \ {k}], S \ {k})
      <4>1. Cardinality(S \ {k}) \notin bad
        <5>1. ~(c <= Cardinality(S \ {k})) BY <2>5, <3>2
        <5> HIDE DEF bad, k
        <5> QED BY <2>4, <5>1
      <4> QED BY <3>2, <4>1
    <3>4. line[S] = Append(line[S \ {k}], k) BY <1>7, <2>7
    <3> HIDE DEF k
    <3> QED BY <2>5, <3>1, <3>3, <3>4, OneMoreInLine
  <2> QED BY <2>6, <2>7
<1>9. Lined(line[D], D)
  <2>1. Cardinality(D) \notin bad
    <3> HIDE DEF bad
    <3> QED BY <1>8
  <2> QED BY <2>1
<1> QED BY <1>6, <1>9

LEMMA SearchCardinality == ASSUME NEW S PROVE Search!Cardinality(S) = Cardinality(S)
  BY DEF Search!Cardinality, Cardinality, Search!IsFiniteSet, IsFiniteSet
LEMMA SearchFinite == ASSUME NEW S PROVE Search!IsFiniteSet(S) <=> IsFiniteSet(S)
  BY DEF Search!IsFiniteSet, IsFiniteSet

(***************************************************************************)
(* The ranking                                                             *)
(***************************************************************************)
LEMMA GreatestInt == ASSUME NEW S, IsFiniteSet(S), S # {}, S \subseteq Int PROVE \E x \in S : \A y \in S : y <= x
<1> DEFINE n == Cardinality(S)
<1>1. n \in Nat /\ n # 0 BY FS_CardinalityType, FS_EmptySet
<1>2. PICK f \in Surjection(1 .. n, S) : TRUE
  BY FS_CardinalityType DEF ExistsBijection, Bijection
<1>3. f \in [1 .. n -> S] /\ \A y \in S : \E i \in 1 .. n : f[i] = y BY <1>2 DEF Surjection
<1> HIDE DEF n
<1>4. n >= 1 /\ f \in [1 .. n -> Int]
  <2>1. n >= 1 BY <1>1
  <2>2. \A i \in 1 .. n : f[i] \in Int BY <1>3
  <2>3. f = [i \in 1 .. n |-> f[i]] BY <1>3
  <2> QED BY <2>1, <2>2, <2>3
<1>5. PICK m \in 1 .. n : \A i \in 1 .. n : f[i] <= f[m] BY <1>1, <1>4, GreatestOf
<1> QED BY <1>3, <1>5

\* What a rule of the ranking makes of two reports of one unit, and of all of them.
CleanOn(r, u, base, cand) ==
    /\ ~ Search!Regressed(r.space, Search!MetricsFor(r, u), base, cand)
    /\ ~ Search!CaseBroken(r.space, base, cand)

LEMMA SomeMetrics ==
  ASSUME Search!RunOK(run), NEW u
  PROVE  /\ Search!MetricsFor(run, u) \subseteq DOMAIN run.space.scope
         /\ IsFiniteSet(Search!MetricsFor(run, u)) /\ IsFiniteSet(Search!Dev)
<1>1. Search!MetricsFor(run, u) \in SUBSET DOMAIN run.space.scope BY DEF Search!MetricsFor
<1>2. Search!Dev \in SUBSET run.units BY DEF Search!Dev, Search!UnitsOf
<1>3. IsFiniteSet(DOMAIN run.space.scope) /\ IsFiniteSet(run.units) BY SearchFinite DEF Search!RunOK
<1> QED BY <1>1, <1>2, <1>3, FS_Subset

\* A row has no faults where no report fails, misses, loses or breaks a gate.
LEMMA FaultsCount ==
  ASSUME Search!RunOK(run), NEW x, NEW base, NEW cand, NEW barred,
         \A u \in Search!Dev : Search!ReportOK(run, base[u]) /\ Search!ReportOK(run, cand[u])
  PROVE  /\ Search!Row(x, base, cand, barred).faults \in Nat
         /\ Search!Row(x, base, cand, barred).faults = 0 <=> \A u \in Search!Dev : CleanOn(run, u, base[u], cand[u])
<1> DEFINE ms(u) == Search!MetricsFor(run, u)
           missing(u) == {m \in ms(u) : cand[u].m[m] = None}
           lost(u) == {m \in ms(u) : Search!LostOn(run.space, m, base[u], cand[u])}
           gates(u) == Search!BrokenGates(run.space, base[u], cand[u])
           fault(u) == (IF cand[u].pass THEN 0 ELSE 2) + 2 * Search!Cardinality(missing(u))
                        + Search!Cardinality(lost(u)) + Search!Cardinality(gates(u))
           f == [u \in Search!Dev |-> fault(u)]
           nowhere == UNION {missing(u) : u \in Search!Dev}
<1>1. Search!Row(x, base, cand, barred).faults = Search!Total(f) + Search!Cardinality(nowhere)
  BY DEF Search!Row
<1>2. IsFiniteSet(Search!Dev) /\ \A u : ms(u) \subseteq DOMAIN run.space.scope /\ IsFiniteSet(ms(u)) BY SomeMetrics
<1>3. IsFiniteSet(run.space.gates) /\ IsFiniteSet(DOMAIN run.space.scope) BY SearchFinite DEF Search!RunOK
<1>4. ASSUME NEW S, IsFiniteSet(S)
      PROVE  Search!Cardinality(S) \in Nat /\ (Search!Cardinality(S) = 0 <=> S = {})
  BY <1>4, SearchCardinality, FS_CardinalityType, FS_EmptySet
<1>5. ASSUME NEW u \in Search!Dev
      PROVE  /\ Search!Cardinality(missing(u)) \in Nat /\ (Search!Cardinality(missing(u)) = 0 <=> missing(u) = {})
             /\ Search!Cardinality(lost(u)) \in Nat /\ (Search!Cardinality(lost(u)) = 0 <=> lost(u) = {})
             /\ Search!Cardinality(gates(u)) \in Nat /\ (Search!Cardinality(gates(u)) = 0 <=> gates(u) = {})
  <2>1. missing(u) \in SUBSET ms(u) /\ lost(u) \in SUBSET ms(u) OBVIOUS
  <2>2. gates(u) \in SUBSET run.space.gates BY DEF Search!BrokenGates
  <2> HIDE DEF missing, lost, gates, ms
  <2>3. IsFiniteSet(missing(u)) /\ IsFiniteSet(lost(u)) /\ IsFiniteSet(gates(u)) BY <1>2, <1>3, <2>1, <2>2, FS_Subset
  <2> QED BY <1>4, <2>3
<1>6. Search!Cardinality(nowhere) \in Nat /\ (Search!Cardinality(nowhere) = 0 <=> nowhere = {})
  <2>1. nowhere \in SUBSET DOMAIN run.space.scope BY <1>2
  <2> HIDE DEF nowhere
  <2>2. IsFiniteSet(nowhere) BY <1>3, <2>1, FS_Subset
  <2> QED BY <1>4, <2>2
<1>7. ASSUME NEW u \in Search!Dev
      PROVE  fault(u) \in Nat /\ (fault(u) = 0 <=> cand[u].pass /\ missing(u) = {} /\ lost(u) = {} /\ gates(u) = {})
  <2>1. cand[u].pass \in BOOLEAN BY DEF Search!ReportOK
  <2> DEFINE a == Search!Cardinality(missing(u))
             b == Search!Cardinality(lost(u))
             c == Search!Cardinality(gates(u))
             p == IF cand[u].pass THEN 0 ELSE 2
  <2>2. a \in Nat /\ b \in Nat /\ c \in Nat /\ (a = 0 <=> missing(u) = {}) /\ (b = 0 <=> lost(u) = {}) /\ (c = 0 <=> gates(u) = {})
    BY <1>5
  <2>3. p \in Nat /\ (p = 0 <=> cand[u].pass) BY <2>1
  <2>4. fault(u) = p + 2 * a + b + c OBVIOUS
  <2> HIDE DEF a, b, c, p, fault, missing, lost, gates
  <2>5. fault(u) \in Nat /\ (fault(u) = 0 <=> p = 0 /\ a = 0 /\ b = 0 /\ c = 0)
    <3>1. a \in Nat /\ b \in Nat /\ c \in Nat /\ p \in Nat BY <2>2, <2>3
    <3>2. p + 2 * a + b + c \in Nat /\ (p + 2 * a + b + c = 0 <=> p = 0 /\ a = 0 /\ b = 0 /\ c = 0) BY <3>1
    <3> QED BY <2>4, <3>2
  <2> QED BY <2>2, <2>3, <2>5
<1>8. ASSUME NEW u \in Search!Dev
      PROVE  CleanOn(run, u, base[u], cand[u]) <=> cand[u].pass /\ missing(u) = {} /\ lost(u) = {} /\ gates(u) = {}
  <2>1. gates(u) = {} <=> ~ Search!CaseBroken(run.space, base[u], cand[u]) BY DEF Search!CaseBroken
  <2>2. Search!Regressed(run.space, ms(u), base[u], cand[u]) <=> ~ (cand[u].pass /\ missing(u) = {} /\ lost(u) = {})
    BY DEF Search!Regressed
  <2> QED BY <2>1, <2>2 DEF CleanOn
<1>9. DOMAIN f = Search!Dev /\ \A u \in Search!Dev : f[u] = fault(u) OBVIOUS
<1>10. nowhere = {} <=> \A u \in Search!Dev : missing(u) = {} OBVIOUS
<1> HIDE DEF f, fault, nowhere, missing, lost, gates, ms
<1>11. Search!Total(f) \in Nat /\ (Search!Total(f) = 0 <=> \A u \in Search!Dev : f[u] = 0)
  BY <1>2, <1>7, <1>9, TotalIsZero
<1>12. Search!Total(f) + Search!Cardinality(nowhere) = 0 <=> Search!Total(f) = 0 /\ Search!Cardinality(nowhere) = 0
  BY <1>6, <1>11
<1> QED BY <1>1, <1>6, <1>7, <1>8, <1>9, <1>10, <1>11, <1>12

\* A rival nowhere worse and somewhere better on what the objectives measure dominates.
LEMMA RivalDominates ==
  ASSUME Search!RunOK(run), NEW x, NEW y, NEW base, NEW cand, NEW rival, NEW barred, NEW other,
         \A u \in Search!Dev : \A m \in Search!MetricsFor(run, u) :
             /\ base[u].m[m] \in Int /\ cand[u].m[m] \in Int /\ rival[u].m[m] \in Int
             /\ cand[u].m[m] <= rival[u].m[m],
         \E u \in Search!Dev : \E m \in Search!MetricsFor(run, u) : cand[u].m[m] < rival[u].m[m],
         None \notin Int
  PROVE  Search!Dominates(Search!Row(y, base, rival, other), Search!Row(x, base, cand, barred))
<1> DEFINE units(m) == {u \in Search!Dev : m \in Search!MetricsFor(run, u)}
           gain(c, m) == [u \in units(m) |-> c[u].m[m] - base[u].m[m]]
           mean(c) == [m \in DOMAIN run.space.scope |->
                          IF \E u \in units(m) : c[u].m[m] = None THEN Search!Penalty
                          ELSE Search!Total([u \in units(m) |-> c[u].m[m] - base[u].m[m]])]
<1>1. /\ Search!Row(y, base, rival, other).mean = mean(rival)
      /\ Search!Row(x, base, cand, barred).mean = mean(cand)
  BY DEF Search!Row
<1>2. \A m : \A u \in units(m) :
          /\ base[u].m[m] \in Int /\ cand[u].m[m] \in Int /\ rival[u].m[m] \in Int
          /\ cand[u].m[m] <= rival[u].m[m]
  OBVIOUS
<1>3. ASSUME NEW m \in DOMAIN run.space.scope
      PROVE  mean(cand)[m] = Search!Total(gain(cand, m)) /\ mean(rival)[m] = Search!Total(gain(rival, m))
  <2>1. \A u \in units(m) : cand[u].m[m] # None /\ rival[u].m[m] # None BY <1>2
  <2> QED BY <2>1
<1>4. ASSUME NEW m
      PROVE  /\ Search!Total(gain(cand, m)) \in Int /\ Search!Total(gain(rival, m)) \in Int
             /\ Search!Total(gain(cand, m)) <= Search!Total(gain(rival, m))
             /\ (\E u \in units(m) : cand[u].m[m] < rival[u].m[m])
                   => Search!Total(gain(cand, m)) < Search!Total(gain(rival, m))
  <2> DEFINE f == gain(cand, m)
             g == gain(rival, m)
  <2>1. DOMAIN f = units(m) /\ DOMAIN g = units(m) OBVIOUS
  <2>2. IsFiniteSet(units(m))
    <3>1. units(m) \in SUBSET Search!Dev OBVIOUS
    <3> QED BY <3>1, SomeMetrics, FS_Subset
  <2>3. \A u \in units(m) : f[u] = cand[u].m[m] - base[u].m[m] /\ g[u] = rival[u].m[m] - base[u].m[m] OBVIOUS
  <2> HIDE DEF f, g, units
  <2>4. \A u \in DOMAIN f : f[u] \in Int /\ g[u] \in Int /\ f[u] <= g[u] BY <1>2, <2>1, <2>3
  <2>5. (\E u \in units(m) : cand[u].m[m] < rival[u].m[m]) => \E u \in DOMAIN f : f[u] < g[u]
    BY <1>2, <2>1, <2>3
  <2>6. /\ Search!Total(f) \in Int /\ Search!Total(g) \in Int /\ Search!Total(f) <= Search!Total(g)
        /\ (\E u \in DOMAIN f : f[u] < g[u]) => Search!Total(f) < Search!Total(g)
    BY <2>1, <2>2, <2>4, TotalsCompare
  <2>7. f = gain(cand, m) /\ g = gain(rival, m) BY DEF f, g
  <2> HIDE DEF gain
  <2> QED BY <2>5, <2>6, <2>7
<1>5. DOMAIN mean(rival) = DOMAIN run.space.scope OBVIOUS
<1>6. PICK u \in Search!Dev : \E m \in Search!MetricsFor(run, u) : cand[u].m[m] < rival[u].m[m] OBVIOUS
<1>7. PICK m \in Search!MetricsFor(run, u) : cand[u].m[m] < rival[u].m[m] BY <1>6
<1>8. m \in DOMAIN run.space.scope /\ u \in units(m) BY SomeMetrics
<1> HIDE DEF mean, gain, units
<1>9. mean(cand)[m] < mean(rival)[m] BY <1>3, <1>4, <1>7, <1>8
<1>10. \A n \in DOMAIN run.space.scope : mean(rival)[n] >= mean(cand)[n] BY <1>3, <1>4
<1>11. mean(rival)[m] > mean(cand)[m] BY <1>3, <1>4, <1>8, <1>9
<1> QED BY <1>1, <1>5, <1>8, <1>10, <1>11 DEF Search!Dominates

LEMMA ScoreTyped ==
  ASSUME Search!RunOK(run), None \notin Int, NEW u, NEW base, NEW cand, Search!ReportOK(run, base), Search!ReportOK(run, cand),
         \A m \in Search!MetricsFor(run, u) : base.m[m] # None
  PROVE  Search!Score(Search!MetricsFor(run, u), base, cand) \in Int
<1> DEFINE ms == Search!MetricsFor(run, u)
           f == [m \in ms |-> cand.m[m] - base.m[m]]
<1>1. ms \subseteq DOMAIN run.space.scope /\ IsFiniteSet(ms) BY SomeMetrics
<1>2. \A m \in ms : base.m[m] \in Int /\ (cand.m[m] # None => cand.m[m] \in Int)
  BY <1>1 DEF Search!ReportOK
<1>3. ASSUME \A m \in ms : cand.m[m] # None PROVE Search!Total(f) \in Int
  <2>1. DOMAIN f = ms /\ \A m \in ms : f[m] \in Int BY <1>2, <1>3
  <2> HIDE DEF f, ms
  <2>2. \A m \in DOMAIN f : f[m] \in Int /\ f[m] <= f[m] BY <2>1
  <2> QED BY <1>1, <2>1, <2>2, TotalsCompare
<1> QED BY <1>3 DEF Search!Score, Search!Penalty

LEMMA RowTyped ==
  ASSUME Search!RunOK(run), None \notin Int, NEW x, NEW base, NEW cand, NEW barred, Search!Dev # {},
         \A u \in Search!Dev : Search!ReportOK(run, base[u]) /\ Search!ReportOK(run, cand[u]),
         \A u \in Search!Dev : \A m \in Search!MetricsFor(run, u) : base[u].m[m] # None
  PROVE  /\ Search!Row(x, base, cand, barred).total \in Int
         /\ Search!Row(x, base, cand, barred).worst \in Int
<1> DEFINE score(u) == Search!Score(Search!MetricsFor(run, u), base[u], cand[u])
           f == [u \in Search!Dev |-> score(u)]
           scores == {score(u) : u \in Search!Dev}
<1>1. /\ Search!Row(x, base, cand, barred).total = Search!Total(f)
      /\ Search!Row(x, base, cand, barred).worst = Search!Min(scores)
  BY DEF Search!Row
<1>2. \A u \in Search!Dev : score(u) \in Int BY ScoreTyped
<1>3. DOMAIN f = Search!Dev /\ \A u \in Search!Dev : f[u] = score(u) OBVIOUS
<1>4. scores = {f[u] : u \in DOMAIN f} OBVIOUS
<1> HIDE DEF score, f, scores
<1>5. IsFiniteSet(DOMAIN f) BY <1>3, SomeMetrics
<1>6. \A u \in DOMAIN f : f[u] \in Int /\ f[u] <= f[u] BY <1>2, <1>3
<1>7. Search!Total(f) \in Int BY <1>5, <1>6, TotalsCompare
<1> DEFINE minus == {-s : s \in scores}
<1>8. scores \subseteq Int /\ scores # {} BY <1>3, <1>4, <1>6
<1>9. minus \subseteq Int /\ minus # {}
  <2>1. PICK l \in scores : TRUE BY <1>8
  <2>2. -l \in minus BY <2>1
  <2>3. ASSUME NEW d \in minus PROVE d \in Int
    <3>1. PICK t \in scores : d = -t BY <2>3
    <3>2. t \in Int BY <1>8
    <3> QED BY <3>1, <3>2
  <2> HIDE DEF minus
  <2> QED BY <2>2, <2>3
<1>10. IsFiniteSet(minus)
  <2> DEFINE h == [u \in DOMAIN f |-> -f[u]]
  <2>1. h \in Surjection(DOMAIN f, minus) BY <1>4 DEF Surjection
  <2> HIDE DEF h, minus
  <2> QED BY <1>5, <2>1, FS_Surjection
<1>11. PICK s \in minus : \A t \in minus : t <= s
  <2> HIDE DEF minus
  <2> QED BY <1>9, <1>10, GreatestInt
<1>12. PICK l \in scores : \A t \in scores : l <= t
  <2>1. PICK l \in scores : s = -l BY <1>11
  <2>2. \A t \in scores : -t \in minus OBVIOUS
  <2>3. \A t \in scores : -t <= -l
    <3> HIDE DEF minus
    <3> QED BY <1>11, <2>1, <2>2
  <2>4. \A t \in scores : l <= t BY <1>8, <2>1, <2>3
  <2> QED BY <2>4
<1>13. Search!Min(scores) \in scores BY <1>12 DEF Search!Min
<1> QED BY <1>1, <1>7, <1>8, <1>13

\* Among finitely many rows some have the fewest faults, and of those the highest score, and then the
\* highest score of the weakest unit.
LEMMA ClosestRow ==
  ASSUME NEW S, IsFiniteSet(S), S # {}, \A r \in S : r.faults \in Nat /\ r.total \in Int /\ r.worst \in Int
  PROVE  \E r \in S : \A o \in S : ~ (o.faults < r.faults \/ (o.faults = r.faults /\ Search!Better(o, r)))
<1> DEFINE counts == {r.faults : r \in S}
<1>1. PICK n \in counts : \A c \in counts : n <= c
  <2>1. counts \subseteq Nat /\ counts # {} OBVIOUS
  <2> HIDE DEF counts
  <2> QED BY <2>1, LeastNumber
<1> DEFINE few == {r \in S : r.faults = n}
           totals == {r.total : r \in few}
<1>2. few # {} /\ few \in SUBSET S BY <1>1
<1>3. IsFiniteSet(few)
  <2> HIDE DEF few
  <2> QED BY <1>2, FS_Subset
<1>4. IsFiniteSet(totals) /\ totals # {} /\ totals \subseteq Int
  <2> DEFINE h == [r \in few |-> r.total]
  <2>1. h \in Surjection(few, totals) BY DEF Surjection
  <2>2. totals # {} /\ totals \subseteq Int BY <1>2
  <2> HIDE DEF h, few, totals
  <2> QED BY <1>3, <2>1, <2>2, FS_Surjection
<1>5. PICK k \in totals : \A c \in totals : c <= k
  <2> HIDE DEF totals
  <2> QED BY <1>4, GreatestInt
<1> DEFINE good == {r \in few : r.total = k}
           worsts == {r.worst : r \in good}
<1>6. good # {} /\ good \in SUBSET few BY <1>5
<1>7. IsFiniteSet(good)
  <2> HIDE DEF good, few
  <2> QED BY <1>3, <1>6, FS_Subset
<1>8. IsFiniteSet(worsts) /\ worsts # {} /\ worsts \subseteq Int
  <2> DEFINE h == [r \in good |-> r.worst]
  <2>1. h \in Surjection(good, worsts) BY DEF Surjection
  <2>2. worsts # {} /\ worsts \subseteq Int BY <1>2, <1>6
  <2> HIDE DEF h, good, worsts
  <2> QED BY <1>7, <2>1, <2>2, FS_Surjection
<1>9. PICK w \in worsts : \A c \in worsts : c <= w
  <2> HIDE DEF worsts
  <2> QED BY <1>8, GreatestInt
<1>10. PICK r \in good : r.worst = w BY <1>9
<1>11. r \in S /\ r.faults = n /\ r.total = k /\ r.worst = w BY <1>10
<1>12. ASSUME NEW o \in S PROVE n <= o.faults /\ (o.faults = n => o.total <= k) /\ (o.faults = n /\ o.total = k => o.worst <= w)
  <2>1. n <= o.faults
    <3>1. o.faults \in counts OBVIOUS
    <3> HIDE DEF counts
    <3> QED BY <1>1, <3>1
  <2>2. ASSUME o.faults = n PROVE o.total <= k
    <3>1. o.total \in totals BY <2>2
    <3> HIDE DEF totals
    <3> QED BY <1>5, <3>1
  <2>3. ASSUME o.faults = n, o.total = k PROVE o.worst <= w
    <3>1. o.worst \in worsts BY <2>3
    <3> HIDE DEF worsts
    <3> QED BY <1>9, <3>1
  <2> HIDE DEF counts, totals, worsts, few, good
  <2> QED BY <2>1, <2>2, <2>3
<1> HIDE DEF counts, totals, worsts, few, good
<1>13. ASSUME NEW o \in S PROVE ~ (o.faults < r.faults \/ (o.faults = r.faults /\ Search!Better(o, r)))
  <2>1. o.faults \in Int /\ o.total \in Int /\ o.worst \in Int /\ n \in Int /\ k \in Int /\ w \in Int BY <1>11
  <2>2. n <= o.faults /\ (o.faults = n => o.total <= k) /\ (o.faults = n /\ o.total = k => o.worst <= w) BY <1>12
  <2> QED BY <1>11, <2>1, <2>2 DEF Search!Better
<1> QED BY <1>11, <1>13

(***************************************************************************)
(* The candidates and their neighbours                                     *)
(***************************************************************************)
LEMMA RangeIsFinite == ASSUME NEW S, NEW s \in Seq(S) PROVE IsFiniteSet(Search!Range(s))
<1>1. s \in [1 .. Len(s) -> S] /\ Len(s) \in Nat /\ DOMAIN s = 1 .. Len(s) BY LenProperties
<1>2. s \in Surjection(1 .. Len(s), Search!Range(s)) BY <1>1 DEF Surjection, Search!Range
<1>3. IsFiniteSet(1 .. Len(s)) BY <1>1, FS_Interval
<1> QED BY <1>2, <1>3, FS_Surjection

Keys == {"agc", "lim"}
LEMMA TuningsFinite == ASSUME NEW V, IsFiniteSet(V) PROVE IsFiniteSet([Keys -> V])
<1> DEFINE h == [t \in [Keys -> V] |-> <<t["agc"], t["lim"]>>]
<1>1. h \in [[Keys -> V] -> V \X V] BY DEF Keys
<1>2. ASSUME NEW s \in [Keys -> V], NEW t \in [Keys -> V], h[s] = h[t] PROVE s = t
  <2>1. s["agc"] = t["agc"] /\ s["lim"] = t["lim"] BY <1>2
  <2>2. \A k \in Keys : s[k] = t[k] BY <2>1 DEF Keys
  <2>3. s = [k \in Keys |-> s[k]] /\ t = [k \in Keys |-> t[k]] OBVIOUS
  <2> QED BY <2>2, <2>3
<1> HIDE DEF h
<1>3. h \in Injection([Keys -> V], V \X V) BY <1>1, <1>2 DEF Injection, IsInjective
<1>4. IsFiniteSet(V \X V) BY FS_Product
<1> QED BY <1>3, <1>4, FS_Injection

\* The values a space may give its keys.
ValuesOf(sp) == (UNION {Search!Range(sp.grid[k]) : k \in DOMAIN sp.grid}) \cup {sp.baseline["agc"], sp.baseline["lim"]}
LEMMA ValuesAre ==
  ASSUME NEW sp
  PROVE  /\ \A k \in Keys : sp.baseline[k] \in ValuesOf(sp)
         /\ \A k \in DOMAIN sp.grid : \A v \in Search!Range(sp.grid[k]) : v \in ValuesOf(sp)
<1> DEFINE ranged == UNION {Search!Range(sp.grid[k]) : k \in DOMAIN sp.grid}
<1>1. ValuesOf(sp) = ranged \cup {sp.baseline["agc"], sp.baseline["lim"]} BY DEF ValuesOf
<1>2. \A k \in DOMAIN sp.grid : \A v \in Search!Range(sp.grid[k]) : v \in ranged OBVIOUS
<1> HIDE DEF ranged
<1> QED BY <1>1, <1>2 DEF Keys
LEMMA PairFinite == ASSUME NEW x, NEW y PROVE IsFiniteSet({x, y})
<1>1. IsFiniteSet({x}) /\ {x} \cup {y} = {x, y} BY FS_Singleton
<1> QED BY <1>1, FS_AddElement
SpaceOK(sp) ==
    /\ sp.baseline \in [Keys -> Int]
    /\ DOMAIN sp.grid \subseteq Keys /\ DOMAIN sp.grid # {}
    /\ \A k \in DOMAIN sp.grid : sp.grid[k] \in Seq(Int)
    /\ sp.strategy \in {"one-at-a-time", "cartesian", "paired"}
    /\ sp.strategy = "paired" => \A k, l \in DOMAIN sp.grid : Len(sp.grid[k]) = Len(sp.grid[l])
\* A tuning that moves no key but those that are searched.
Moves(sp, t) == t \in [Keys -> ValuesOf(sp)] /\ \A k \in Keys \ DOMAIN sp.grid : t[k] = sp.baseline[k]

LEMMA SpacesOK == ASSUME NEW r, Search!RunOK(r), Search!SpaceValid(r.mode, r.space) PROVE SpaceOK(r.space)
  BY DEF Search!RunOK, Search!SpaceValid, SpaceOK, Keys

LEMMA PairsMove ==
  ASSUME NEW sp, SpaceOK(sp), sp.strategy = "paired", NEW p \in Search!Paired(sp)
  PROVE  Moves(sp, Search!Put(sp.baseline, p))
<1> DEFINE first == CHOOSE k \in DOMAIN sp.grid : TRUE
<1>1. PICK i \in DOMAIN sp.grid[first] : p = [k \in DOMAIN sp.grid |-> sp.grid[k][i]] BY DEF Search!Paired
<1>2. first \in DOMAIN sp.grid BY DEF SpaceOK
<1> HIDE DEF first
<1>3. \A k \in DOMAIN sp.grid : i \in DOMAIN sp.grid[k]
  <2>1. \A k \in DOMAIN sp.grid : sp.grid[k] \in Seq(Int) /\ Len(sp.grid[k]) = Len(sp.grid[first]) BY <1>2 DEF SpaceOK
  <2>2. \A k \in DOMAIN sp.grid : DOMAIN sp.grid[k] = 1 .. Len(sp.grid[k]) BY <2>1, LenProperties
  <2> QED BY <1>2, <2>1, <2>2
<1>4. \A k \in DOMAIN sp.grid : p[k] \in ValuesOf(sp)
  <2> TAKE k \in DOMAIN sp.grid
  <2>1. p[k] = sp.grid[k][i] /\ i \in DOMAIN sp.grid[k] BY <1>1, <1>3
  <2>2. p[k] \in Search!Range(sp.grid[k]) BY <2>1 DEF Search!Range
  <2> QED BY <2>2 DEF ValuesOf
<1>5. DOMAIN p = DOMAIN sp.grid /\ DOMAIN sp.baseline = Keys BY <1>1 DEF SpaceOK
<1>6. \A k \in Keys : sp.baseline[k] \in ValuesOf(sp) BY ValuesAre
<1> DEFINE t == Search!Put(sp.baseline, p)
<1>7. t = [k \in Keys |-> IF k \in DOMAIN sp.grid THEN p[k] ELSE sp.baseline[k]] BY <1>5 DEF Search!Put
<1> HIDE DEF t
<1>8. t \in [Keys -> ValuesOf(sp)] /\ \A k \in Keys \ DOMAIN sp.grid : t[k] = sp.baseline[k] BY <1>4, <1>6, <1>7
<1>9. Moves(sp, t) BY <1>8 DEF Moves
<1> QED BY <1>9 DEF t

LEMMA BaselineMoves == ASSUME NEW sp, SpaceOK(sp) PROVE Moves(sp, sp.baseline) /\ sp.baseline \in Search!Candidates(sp)
<1>1. \A k \in Keys : sp.baseline[k] \in ValuesOf(sp) BY ValuesAre
<1>2. sp.baseline = [k \in Keys |-> sp.baseline[k]] BY DEF SpaceOK
<1>3. sp.baseline \in [Keys -> ValuesOf(sp)] BY <1>1, <1>2
<1> QED BY <1>3 DEF Moves, Search!Candidates

LEMMA OneMoves ==
  ASSUME NEW sp, SpaceOK(sp), NEW t, Moves(sp, t), NEW k \in DOMAIN sp.grid, NEW v \in ValuesOf(sp)
  PROVE  Moves(sp, [t EXCEPT ![k] = v])
BY DEF Moves, SpaceOK

LEMMA CandidatesMove == ASSUME NEW sp, SpaceOK(sp), NEW t \in Search!Candidates(sp) PROVE Moves(sp, t)
<1>1. CASE t = sp.baseline BY <1>1, BaselineMoves
<1>2. CASE t # sp.baseline /\ sp.strategy = "one-at-a-time"
  <2>0. PICK k \in DOMAIN sp.grid : t \in {[sp.baseline EXCEPT ![k] = v] : v \in Search!Range(sp.grid[k])}
    BY <1>2 DEF Search!Candidates
  <2>1. PICK v \in Search!Range(sp.grid[k]) : t = [sp.baseline EXCEPT ![k] = v] BY <2>0
  <2>2. v \in ValuesOf(sp) BY <2>1 DEF ValuesOf
  <2> QED BY <2>1, <2>2, BaselineMoves, OneMoves
<1>3. CASE t # sp.baseline /\ sp.strategy = "cartesian"
  <2>1. DOMAIN sp.baseline = Keys BY DEF SpaceOK
  <2>2. /\ DOMAIN t = Keys /\ t = [k \in Keys |-> t[k]]
        /\ \A k \in Keys : IF k \in DOMAIN sp.grid THEN t[k] \in Search!Range(sp.grid[k]) ELSE t[k] = sp.baseline[k]
    BY <1>3, <2>1 DEF Search!Candidates
  <2>3. \A k \in Keys : t[k] \in ValuesOf(sp) BY <2>2, ValuesAre
  <2>4. t \in [Keys -> ValuesOf(sp)] BY <2>2, <2>3
  <2> QED BY <2>2, <2>4 DEF Moves
<1>4. CASE t # sp.baseline /\ sp.strategy = "paired"
  <2>1. PICK p \in Search!Paired(sp) : t = Search!Put(sp.baseline, p) BY <1>4 DEF Search!Candidates
  <2> QED BY <1>4, <2>1, PairsMove
<1> QED BY <1>1, <1>2, <1>3, <1>4 DEF SpaceOK

LEMMA CandidatesFinite == ASSUME NEW sp, SpaceOK(sp) PROVE IsFiniteSet(Search!Candidates(sp))
<1> DEFINE ranges == {Search!Range(sp.grid[k]) : k \in DOMAIN sp.grid}
<1>1. IsFiniteSet(Keys)
  <2>1. Keys = {"agc"} \cup {"lim"} BY DEF Keys
  <2> QED BY <2>1, FS_Singleton, FS_Union
<1>2. IsFiniteSet(DOMAIN sp.grid) BY <1>1, FS_Subset DEF SpaceOK
<1>3. IsFiniteSet(ranges)
  <2> DEFINE h == [k \in DOMAIN sp.grid |-> Search!Range(sp.grid[k])]
  <2>1. h \in Surjection(DOMAIN sp.grid, ranges) BY DEF Surjection
  <2> HIDE DEF h, ranges
  <2> QED BY <1>2, <2>1, FS_Surjection
<1>4. \A S \in ranges : IsFiniteSet(S) BY RangeIsFinite DEF SpaceOK
<1>5. IsFiniteSet(UNION ranges)
  <2> HIDE DEF ranges
  <2> QED BY <1>3, <1>4, FS_UNION
<1>6. IsFiniteSet({sp.baseline["agc"], sp.baseline["lim"]}) BY PairFinite
<1>7. IsFiniteSet(ValuesOf(sp))
  <2> DEFINE a == UNION ranges
             b == {sp.baseline["agc"], sp.baseline["lim"]}
  <2>1. ValuesOf(sp) = a \cup b BY DEF ValuesOf
  <2>2. IsFiniteSet(a) /\ IsFiniteSet(b) BY <1>5, <1>6
  <2> HIDE DEF a, b
  <2> QED BY <2>1, <2>2, FS_Union
<1>8. IsFiniteSet([Keys -> ValuesOf(sp)]) BY <1>7, TuningsFinite
<1>9. Search!Candidates(sp) \in SUBSET [Keys -> ValuesOf(sp)] BY CandidatesMove DEF Moves
<1> QED BY <1>8, <1>9, FS_Subset

\* The loop that lays out the path of a paired space.
WalkUpTo(b, w, g, n) ==
    g = [i \in 0 .. n |-> IF i = 0 THEN <<b>> ELSE IF w[i] \in Search!Range(g[i - 1]) THEN g[i - 1] ELSE Append(g[i - 1], w[i])]

LEMMA WalkRuns == ASSUME NEW b, NEW w, NEW n \in Nat PROVE \E g : WalkUpTo(b, w, g, n)
<1> DEFINE never == {k \in 0 .. n : ~ \E g : WalkUpTo(b, w, g, k)}
<1>1. SUFFICES ASSUME never # {} PROVE FALSE
  <2>1. n \in 0 .. n OBVIOUS
  <2> QED BY <2>1
<1>2. PICK x \in never : \A y \in never : x <= y
  <2>1. never \subseteq Nat OBVIOUS
  <2> HIDE DEF never
  <2> QED BY <1>1, <2>1, LeastNumber
<1>3. x \in 0 .. n /\ ~ \E g : WalkUpTo(b, w, g, x) OBVIOUS
<1>4. x # 0
  <2> DEFINE g == [i \in 0 .. 0 |-> <<b>>]
  <2>1. g = [i \in 0 .. 0 |-> IF i = 0 THEN <<b>> ELSE IF w[i] \in Search!Range(g[i - 1]) THEN g[i - 1] ELSE Append(g[i - 1], w[i])] OBVIOUS
  <2> HIDE DEF g
  <2>2. WalkUpTo(b, w, g, 0) BY <2>1 DEF WalkUpTo
  <2> QED BY <1>3, <2>2
<1>5. x - 1 \in 0 .. n BY <1>3, <1>4
<1>6. PICK g : WalkUpTo(b, w, g, x - 1)
  <2>1. ~(x <= x - 1) BY <1>3
  <2>2. x - 1 \notin never BY <1>2, <2>1
  <2> QED BY <1>5, <2>2
<1> HIDE DEF never
<1> DEFINE h == [i \in 0 .. x |-> IF i = x THEN IF w[x] \in Search!Range(g[x - 1]) THEN g[x - 1] ELSE Append(g[x - 1], w[x]) ELSE g[i]]
<1>7. DOMAIN g = 0 .. x - 1 /\ \A i \in 0 .. x - 1 :
          g[i] = IF i = 0 THEN <<b>> ELSE IF w[i] \in Search!Range(g[i - 1]) THEN g[i - 1] ELSE Append(g[i - 1], w[i])
  <2>1. g = [i \in 0 .. x - 1 |-> IF i = 0 THEN <<b>> ELSE IF w[i] \in Search!Range(g[i - 1]) THEN g[i - 1] ELSE Append(g[i - 1], w[i])]
    BY <1>6 DEF WalkUpTo
  <2> QED BY <2>1
<1>8. \A i \in 0 .. x : h[i] = IF i = 0 THEN <<b>> ELSE IF w[i] \in Search!Range(h[i - 1]) THEN h[i - 1] ELSE Append(h[i - 1], w[i])
  <2> TAKE i \in 0 .. x
  <2>1. CASE i = x
    <3>1. h[i - 1] = g[x - 1] BY <1>3, <1>4, <2>1
    <3> QED BY <1>3, <1>4, <2>1, <3>1
  <2>2. CASE i # x
    <3>1. i \in 0 .. x - 1 /\ h[i] = g[i] BY <1>3, <2>2
    <3>2. i # 0 => h[i - 1] = g[i - 1] BY <1>3, <2>2
    <3> QED BY <1>7, <3>1, <3>2
  <2> QED BY <2>1, <2>2
<1>9. h = [i \in 0 .. x |-> h[i]] OBVIOUS
<1> HIDE DEF h
<1>10. WalkUpTo(b, w, h, x) BY <1>8, <1>9 DEF WalkUpTo
<1> QED BY <1>3, <1>10

LEMMA WalkLined ==
  ASSUME NEW b, NEW w, NEW g, NEW n \in Nat, WalkUpTo(b, w, g, n)
  PROVE  Lined(g[n], {b} \cup {w[i] : i \in 1 .. n})
<1> DEFINE Upto(k) == {b} \cup {w[i] : i \in 1 .. k}
<1>1. \A i \in 0 .. n : g[i] = IF i = 0 THEN <<b>> ELSE IF w[i] \in Search!Range(g[i - 1]) THEN g[i - 1] ELSE Append(g[i - 1], w[i])
  BY DEF WalkUpTo
<1> DEFINE bad == {k \in 0 .. n : ~ Lined(g[k], Upto(k))}
<1>2. bad = {}
  <2>1. SUFFICES ASSUME bad # {} PROVE FALSE OBVIOUS
  <2>2. bad \subseteq Nat OBVIOUS
  <2>3. PICK k \in bad : \A y \in bad : k <= y
    <3> HIDE DEF bad
    <3> QED BY <2>1, <2>2, LeastNumber
  <2>4. k \in 0 .. n /\ ~ Lined(g[k], Upto(k)) OBVIOUS
  <2>5. CASE k = 0
    <3>1. g[k] = <<b>> BY <1>1, <2>4, <2>5
    <3>2. Upto(k) = {b} BY <2>5
    <3>3. <<b>> \in Seq({b}) /\ Len(<<b>>) = 1 /\ <<b>>[1] = b OBVIOUS
    <3>4. InLine(<<b>>) = {b} BY <3>3 DEF InLine
    <3>5. Lined(<<b>>, {b}) BY <3>3, <3>4 DEF Lined
    <3> QED BY <2>4, <3>1, <3>2, <3>5
  <2>6. CASE k # 0
    <3>1. k - 1 \in 0 .. n /\ ~(k <= k - 1) BY <2>4, <2>6
    <3>2. k - 1 \notin bad
      <4> HIDE DEF bad
      <4> QED BY <2>3, <3>1
    <3>3. Lined(g[k - 1], Upto(k - 1)) BY <3>1, <3>2
    <3>4. Upto(k) = Upto(k - 1) \cup {w[k]}
      <4>1. 1 .. k = 1 .. k - 1 \cup {k} BY <2>4, <2>6
      <4> QED BY <4>1
    <3> HIDE DEF Upto
    <3>5. Search!Range(g[k - 1]) = Upto(k - 1)
      <4>1. DOMAIN g[k - 1] = 1 .. Len(g[k - 1]) BY <3>3, LenProperties DEF Lined
      <4> QED BY <3>3, <4>1 DEF Lined, InLine, Search!Range
    <3>6. CASE w[k] \in Upto(k - 1)
      <4>1. g[k] = g[k - 1] BY <1>1, <2>4, <2>6, <3>5, <3>6
      <4>2. Upto(k) = Upto(k - 1) BY <3>4, <3>6
      <4> QED BY <2>4, <3>3, <4>1, <4>2
    <3>7. CASE w[k] \notin Upto(k - 1)
      <4>1. g[k] = Append(g[k - 1], w[k]) BY <1>1, <2>4, <2>6, <3>5, <3>7
      <4>2. Upto(k) \ {w[k]} = Upto(k - 1) /\ w[k] \in Upto(k) BY <3>4, <3>7
      <4> QED BY <2>4, <3>3, <4>1, <4>2, OneMoreInLine
    <3> QED BY <3>6, <3>7
  <2> QED BY <2>5, <2>6
<1>3. n \in 0 .. n /\ n \notin bad
  <2> HIDE DEF bad
  <2> QED BY <1>2
<1> QED BY <1>3

LEMMA PathLined == ASSUME NEW sp, SpaceOK(sp), sp.strategy = "paired" PROVE Lined(Search!PairedPath(sp), Search!Candidates(sp))
<1> DEFINE first == CHOOSE k \in DOMAIN sp.grid : TRUE
           n == Len(sp.grid[first])
           tuning(i) == Search!Put(sp.baseline, [k \in DOMAIN sp.grid |-> sp.grid[k][i]])
           w == [i \in 1 .. n |-> tuning(i)]
           path == CHOOSE path : path = [i \in 0 .. n |->
                       IF i = 0 THEN <<sp.baseline>>
                       ELSE LET t == Search!Put(sp.baseline, [k \in DOMAIN sp.grid |-> sp.grid[k][i]])
                            IN  IF t \in Search!Range(path[i - 1]) THEN path[i - 1] ELSE Append(path[i - 1], t)]
<1>1. Search!PairedPath(sp) = path[n] BY DEF Search!PairedPath
<1>2. first \in DOMAIN sp.grid /\ sp.grid[first] \in Seq(Int) BY DEF SpaceOK
<1>3. n \in Nat /\ DOMAIN sp.grid[first] = 1 .. n
  <2> HIDE DEF first
  <2> QED BY <1>2, LenProperties
<1>4. \A g : (g = [i \in 0 .. n |->
                       IF i = 0 THEN <<sp.baseline>>
                       ELSE LET t == Search!Put(sp.baseline, [k \in DOMAIN sp.grid |-> sp.grid[k][i]])
                            IN  IF t \in Search!Range(g[i - 1]) THEN g[i - 1] ELSE Append(g[i - 1], t)])
              <=> WalkUpTo(sp.baseline, w, g, n)
  <2>1. \A i \in 0 .. n : i # 0 => i \in 1 .. n BY <1>3
  <2>2. \A i \in 1 .. n : w[i] = tuning(i) OBVIOUS
  <2> HIDE DEF w, n
  <2> QED BY <2>1, <2>2 DEF WalkUpTo
<1>5. \E g : WalkUpTo(sp.baseline, w, g, n)
  <2> HIDE DEF w, n
  <2> QED BY <1>3, WalkRuns
<1>6. WalkUpTo(sp.baseline, w, path, n)
  <2> HIDE DEF w, n
  <2> QED BY <1>4, <1>5
<1>7. Lined(path[n], {sp.baseline} \cup {w[i] : i \in 1 .. n})
  <2> HIDE DEF w, n, path
  <2> QED BY <1>3, <1>6, WalkLined
<1>8. Search!Candidates(sp) = {sp.baseline} \cup {tuning(i) : i \in 1 .. n}
  <2>1. Search!Paired(sp) = {[k \in DOMAIN sp.grid |-> sp.grid[k][i]] : i \in 1 .. n} BY <1>3 DEF Search!Paired
  <2>2. Search!Candidates(sp) = {sp.baseline} \cup {Search!Put(sp.baseline, p) : p \in Search!Paired(sp)}
    BY DEF Search!Candidates
  <2> HIDE DEF n
  <2>3. \A p \in Search!Paired(sp) : \E i \in 1 .. n : Search!Put(sp.baseline, p) = tuning(i) BY <2>1
  <2>4. \A i \in 1 .. n : \E p \in Search!Paired(sp) : Search!Put(sp.baseline, p) = tuning(i) BY <2>1
  <2> HIDE DEF tuning
  <2> QED BY <2>2, <2>3, <2>4
<1>9. {w[i] : i \in 1 .. n} = {tuning(i) : i \in 1 .. n} OBVIOUS
<1> HIDE DEF w, n, path
<1> QED BY <1>1, <1>7, <1>8, <1>9

\* A neighbour is another tuning and moves no other key; in a full grid it is a candidate.
LEMMA NeighboursMove ==
  ASSUME NEW sp, SpaceOK(sp), NEW t \in Search!Candidates(sp), NEW n \in Search!Neighbours(sp, t)
  PROVE  /\ n # t /\ Moves(sp, n)
         /\ (/\ sp.strategy = "cartesian"
             /\ \A k \in DOMAIN sp.grid : sp.baseline[k] \in Search!Range(sp.grid[k]))
               => n \in Search!Candidates(sp)
<1>1. CASE sp.strategy = "paired"
  <2> DEFINE p == Search!PairedPath(sp)
             at == CHOOSE i \in DOMAIN p : p[i] = t
  <2>1. PICK j \in {at - 1, at + 1} \cap DOMAIN p : n = p[j] BY <1>1 DEF Search!Neighbours
  <2>2. Lined(p, Search!Candidates(sp)) BY <1>1, PathLined
  <2>3. DOMAIN p = 1 .. Len(p) /\ Len(p) \in Nat BY <2>2, LenProperties DEF Lined
  <2>4. \E i \in DOMAIN p : p[i] = t
    <3> HIDE DEF p
    <3> QED BY <2>2, <2>3 DEF Lined, InLine
  <2>5. at \in DOMAIN p /\ p[at] = t
    <3> HIDE DEF p
    <3> QED BY <2>4
  <2> HIDE DEF p, at
  <2>6. j # at /\ j \in 1 .. Len(p) /\ at \in 1 .. Len(p) BY <2>1, <2>3, <2>5
  <2>7. n # t BY <2>1, <2>2, <2>5, <2>6 DEF Lined
  <2>8. n \in Search!Candidates(sp) BY <2>1, <2>2, <2>6 DEF Lined, InLine
  <2> QED BY <1>1, <2>7, <2>8, CandidatesMove
<1>2. CASE sp.strategy # "paired"
  <2> DEFINE axis(k) == Search!Range(sp.grid[k]) \cup {sp.baseline[k]}
  <2>0. PICK k \in DOMAIN sp.grid : \E v \in axis(k) : n = [t EXCEPT ![k] = v] /\ t[k] # v
    BY <1>2 DEF Search!Neighbours
  <2>1. PICK v \in axis(k) : n = [t EXCEPT ![k] = v] /\ t[k] # v BY <2>0
  <2>2. Moves(sp, t) BY CandidatesMove
  <2>3. k \in Keys BY <2>1 DEF SpaceOK
  <2>4. v \in ValuesOf(sp) BY <2>1, <2>3, ValuesAre
  <2>5. Moves(sp, n) BY <2>1, <2>2, <2>4, OneMoves
  <2>6. t \in [Keys -> ValuesOf(sp)] BY <2>2 DEF Moves
  <2>7. n[k] = v BY <2>1, <2>3, <2>6
  <2>8. n # t BY <2>1, <2>7
  <2>9. ASSUME sp.strategy = "cartesian", \A l \in DOMAIN sp.grid : sp.baseline[l] \in Search!Range(sp.grid[l])
        PROVE  n \in Search!Candidates(sp)
    <3>1. v \in Search!Range(sp.grid[k]) BY <2>1, <2>9
    <3>2. DOMAIN sp.baseline = Keys BY DEF SpaceOK
    <3>3. (UNION {Search!Range(sp.grid[l]) : l \in DOMAIN sp.grid}) \cup Search!Range(<<sp.baseline.agc, sp.baseline.lim>>)
          = ValuesOf(sp)
      <4>1. Search!Range(<<sp.baseline.agc, sp.baseline.lim>>) = {sp.baseline["agc"], sp.baseline["lim"]}
        <5>1. DOMAIN <<sp.baseline.agc, sp.baseline.lim>> = {1, 2} OBVIOUS
        <5> QED BY <5>1 DEF Search!Range
      <4> QED BY <4>1 DEF ValuesOf
    <3>4. \A l \in Keys : IF l \in DOMAIN sp.grid THEN t[l] \in Search!Range(sp.grid[l]) ELSE t[l] = sp.baseline[l]
      <4>1. CASE t = sp.baseline BY <2>9, <4>1
      <4>2. CASE t # sp.baseline BY <2>9, <3>2, <4>2 DEF Search!Candidates
      <4> QED BY <4>1, <4>2
    <3>5. \A l \in Keys : IF l \in DOMAIN sp.grid THEN n[l] \in Search!Range(sp.grid[l]) ELSE n[l] = sp.baseline[l]
      <4> TAKE l \in Keys
      <4>1. CASE l = k BY <2>7, <3>1, <4>1, <2>1
      <4>2. CASE l # k
        <5>1. n[l] = t[l] BY <2>1, <2>6, <4>2
        <5> QED BY <3>4, <5>1
      <4> QED BY <4>1, <4>2
    <3>6. n \in [Keys -> ValuesOf(sp)] BY <2>5 DEF Moves
    <3>7. n \in {x \in [DOMAIN sp.baseline -> (UNION {Search!Range(sp.grid[l]) : l \in DOMAIN sp.grid})
                                              \cup Search!Range(<<sp.baseline.agc, sp.baseline.lim>>)] :
                 \A l \in DOMAIN x : IF l \in DOMAIN sp.grid THEN x[l] \in Search!Range(sp.grid[l])
                                    ELSE x[l] = sp.baseline[l]}
      BY <3>2, <3>3, <3>5, <3>6
    <3> QED BY <2>9, <3>7 DEF Search!Candidates
  <2> QED BY <2>5, <2>8, <2>9
<1> QED BY <1>1, <1>2

(***************************************************************************)
(* What a search knows: one report for what was asked, and kept            *)
(***************************************************************************)
Of(k, a, t, u) == k.alg = a /\ k.tuning = t /\ k.unit = u
HasIn(res, a, t, u) == \E k \in DOMAIN res : Of(k, a, t, u)
Find(res, a, t, u) == res[CHOOSE k \in DOMAIN res : Of(k, a, t, u)]
Covered(K, a, t, u) == \E k \in K : Of(k, a, t, u)
Single(K) == \A j, k \in K : Of(j, k.alg, k.tuning, k.unit) => j = k
Grows(res, res2) == \A a, t, u : HasIn(res, a, t, u) => HasIn(res2, a, t, u) /\ Find(res2, a, t, u) = Find(res, a, t, u)
Live(res, td, rn) == DOMAIN res \cup InLine(td) \cup rn
Devs(r) == Search!UnitsOf(r, "development")

LEMMA FoundIs == ASSUME NEW a, NEW t, NEW u PROVE Search!ReportOf(a, t, u) = Find(results, a, t, u)
BY DEF Search!ReportOf, Find, Of

LEMMA FoundOK ==
  ASSUME NEW r, NEW res, \A k \in DOMAIN res : Search!ReportOK(r, res[k]), NEW a, NEW t, NEW u, HasIn(res, a, t, u)
  PROVE  Search!ReportOK(r, Find(res, a, t, u))
<1> DEFINE k == CHOOSE k \in DOMAIN res : Of(k, a, t, u)
<1>1. k \in DOMAIN res BY DEF HasIn
<1> HIDE DEF k
<1>2. Search!ReportOK(r, res[k]) BY <1>1
<1> QED BY <1>2 DEF Find, k

LEMMA OneMoreGrows ==
  ASSUME NEW res, NEW k, k \notin DOMAIN res, Single(DOMAIN res \cup {k}), NEW v,
         NEW res2, res2 = [j \in DOMAIN res \cup {k} |-> IF j = k THEN v ELSE res[j]]
  PROVE  Grows(res, res2)
<1> SUFFICES ASSUME NEW a, NEW t, NEW u, HasIn(res, a, t, u)
             PROVE  HasIn(res2, a, t, u) /\ Find(res2, a, t, u) = Find(res, a, t, u)
  BY DEF Grows
<1>1. PICK j \in DOMAIN res : Of(j, a, t, u) BY DEF HasIn
<1>2. DOMAIN res2 = DOMAIN res \cup {k} OBVIOUS
<1>3. \A i \in DOMAIN res2 : Of(i, a, t, u) => i = j BY <1>1, <1>2 DEF Single, Of
<1>4. (CHOOSE i \in DOMAIN res2 : Of(i, a, t, u)) = j BY <1>1, <1>2, <1>3
<1>5. (CHOOSE i \in DOMAIN res : Of(i, a, t, u)) = j BY <1>1, <1>2, <1>3
<1>6. j # k /\ res2[j] = res[j] BY <1>1, <1>2
<1> QED BY <1>1, <1>2, <1>4, <1>5, <1>6 DEF HasIn, Find

LEMMA TailInLine ==
  ASSUME NEW s, Lined(s, InLine(s)), s # <<>>
  PROVE  /\ Lined(Tail(s), InLine(Tail(s))) /\ Head(s) \notin InLine(Tail(s))
         /\ InLine(s) = {Head(s)} \cup InLine(Tail(s))
<1> DEFINE S == InLine(s)
           n == Len(s)
           q == Tail(s)
<1>1. s \in Seq(S) /\ n \in Nat BY LenProperties DEF Lined
<1>2. n >= 1 /\ Head(s) = s[1] BY <1>1, EmptySeq
<1>3. q \in Seq(S) /\ Len(q) = n - 1 /\ \A i \in 1 .. n - 1 : q[i] = s[i + 1]
  BY <1>1, HeadTailProperties
<1>4. \A i, j \in 1 .. n : s[i] = s[j] => i = j BY DEF Lined
<1>5. InLine(q) = {s[i] : i \in 2 .. n}
  <2>1. \A i \in 1 .. n - 1 : i + 1 \in 2 .. n BY <1>1
  <2>2. \A i \in 2 .. n : i - 1 \in 1 .. n - 1 /\ (i - 1) + 1 = i BY <1>1
  <2>3. \A i \in 2 .. n : s[i] = q[i - 1] BY <1>3, <2>2
  <2> HIDE DEF n, q
  <2>4. \A x \in InLine(q) : x \in {s[i] : i \in 2 .. n} BY <1>3, <2>1 DEF InLine
  <2>5. \A i \in 2 .. n : s[i] \in InLine(q) BY <1>3, <2>2, <2>3 DEF InLine
  <2> QED BY <2>4, <2>5
<1>6. Head(s) \notin InLine(q)
  <2>1. \A i \in 2 .. n : s[i] # s[1] BY <1>1, <1>2, <1>4
  <2> HIDE DEF q, n
  <2> QED BY <1>2, <1>5, <2>1
<1>7. S = {Head(s)} \cup InLine(q)
  <2>1. 1 .. n = {1} \cup 2 .. n BY <1>1, <1>2
  <2> HIDE DEF q
  <2> QED BY <1>2, <1>5, <2>1 DEF InLine
<1>8. Lined(q, InLine(q))
  <2>1. \A i, j \in 1 .. Len(q) : q[i] = q[j] => i = j
    <3> TAKE i, j \in 1 .. Len(q)
    <3>1. i + 1 \in 1 .. n /\ j + 1 \in 1 .. n /\ i \in 1 .. n - 1 /\ j \in 1 .. n - 1 BY <1>1, <1>3
    <3>2. q[i] = s[i + 1] /\ q[j] = s[j + 1] BY <1>3, <3>1
    <3> HIDE DEF q
    <3>3. q[i] = q[j] => i + 1 = j + 1 BY <1>4, <3>1, <3>2
    <3> QED BY <3>1, <3>3
  <2>2. q \in Seq(InLine(q))
    <3> HIDE DEF q
    <3>1. Len(q) \in Nat /\ \A i \in 1 .. Len(q) : q[i] \in InLine(q) BY <1>1, <1>2, <1>3 DEF InLine
    <3>2. q = [i \in 1 .. Len(q) |-> q[i]] BY <1>3, LenProperties
    <3>3. q \in [1 .. Len(q) -> InLine(q)] BY <3>1, <3>2
    <3> QED BY <3>1, <3>3, SeqDef
  <2> QED BY <2>1, <2>2 DEF Lined
<1> QED BY <1>6, <1>7, <1>8

\* The tasks that are not yet done, in line.
LEMMA FreshLined ==
  ASSUME NEW S, IsFiniteSet(S), NEW res
  PROVE  /\ Lined(Search!Fresh(S, res), {k \in S : ~ HasIn(res, k.alg, k.tuning, k.unit)})
<1> DEFINE F == {k \in S : ~\E j \in DOMAIN res : j.alg = k.alg /\ j.tuning = k.tuning /\ j.unit = k.unit}
<1>1. F \in SUBSET S OBVIOUS
<1>2. F = {k \in S : ~ HasIn(res, k.alg, k.tuning, k.unit)} BY DEF HasIn, Of
<1>3. Search!Fresh(S, res) = Search!Queue(F) BY DEF Search!Fresh
<1> HIDE DEF F
<1>4. IsFiniteSet(F) BY <1>1, FS_Subset
<1> QED BY <1>2, <1>3, <1>4, QueueLines

LEMMA LinedInLine == ASSUME NEW s, NEW S, Lined(s, S) PROVE InLine(s) = S /\ Lined(s, InLine(s))
BY DEF Lined

\* All that was to be asked is known or in line, and nothing twice.
LEMMA FreshCovers ==
  ASSUME NEW S, IsFiniteSet(S), Single(S), NEW res, Single(DOMAIN res)
  PROVE  /\ Lined(Search!Fresh(S, res), InLine(Search!Fresh(S, res)))
         /\ InLine(Search!Fresh(S, res)) \cap DOMAIN res = {}
         /\ Single(DOMAIN res \cup InLine(Search!Fresh(S, res)))
         /\ \A k \in S : Covered(DOMAIN res \cup InLine(Search!Fresh(S, res)), k.alg, k.tuning, k.unit)
<1> DEFINE L == InLine(Search!Fresh(S, res))
<1>1. L = {k \in S : ~ HasIn(res, k.alg, k.tuning, k.unit)} /\ Lined(Search!Fresh(S, res), L)
  BY FreshLined, LinedInLine
<1> HIDE DEF L
<1>2. \A k \in L : k \in S /\ ~ HasIn(res, k.alg, k.tuning, k.unit) BY <1>1
<1>3. L \cap DOMAIN res = {}
  <2> SUFFICES ASSUME NEW k \in L, k \in DOMAIN res PROVE FALSE OBVIOUS
  <2>1. Of(k, k.alg, k.tuning, k.unit) BY DEF Of
  <2> QED BY <1>2, <2>1 DEF HasIn
<1>4. ASSUME NEW j \in DOMAIN res \cup L, NEW k \in DOMAIN res \cup L, Of(j, k.alg, k.tuning, k.unit) PROVE j = k
  <2>1. CASE j \in DOMAIN res /\ k \in DOMAIN res BY <1>4, <2>1 DEF Single
  <2>2. CASE j \in L /\ k \in L BY <1>2, <1>4, <2>2 DEF Single
  <2>3. CASE j \in DOMAIN res /\ k \in L BY <1>2, <1>4, <2>3 DEF HasIn
  <2>4. CASE j \in L /\ k \in DOMAIN res
    <3>1. Of(k, j.alg, j.tuning, j.unit) BY <1>4 DEF Of
    <3> QED BY <1>2, <2>4, <3>1 DEF HasIn
  <2> QED BY <2>1, <2>2, <2>3, <2>4
<1>5. ASSUME NEW k \in S PROVE Covered(DOMAIN res \cup L, k.alg, k.tuning, k.unit)
  <2>1. CASE HasIn(res, k.alg, k.tuning, k.unit) BY <2>1 DEF HasIn, Covered
  <2>2. CASE ~ HasIn(res, k.alg, k.tuning, k.unit)
    <3>1. k \in L /\ Of(k, k.alg, k.tuning, k.unit) BY <1>1, <2>2 DEF Of
    <3> QED BY <3>1 DEF Covered
  <2> QED BY <2>1, <2>2
<1>6. Single(DOMAIN res \cup L) BY <1>4 DEF Single
<1> QED BY <1>1, <1>3, <1>5, <1>6 DEF L

(***************************************************************************)
(* The invariant                                                           *)
(***************************************************************************)
\* The screening took an algorithm that was asked everywhere and is clean wherever it is new.
AlgKept(r, res, a) ==
    /\ a \in Search!Range(r.algorithms)
    /\ r.mode # "joint" => a = Head(r.algorithms)
    /\ r.mode = "joint" =>
          /\ \A x \in Search!Range(r.algorithms) : \A u \in Devs(r) : HasIn(res, x, r.space.baseline, u)
          /\ a # Head(r.algorithms) =>
                \A u \in Devs(r) : CleanOn(r, u, Find(res, Head(r.algorithms), r.space.baseline, u),
                                               Find(res, a, r.space.baseline, u))
Searched(r, res, a) == \A t \in Search!Candidates(r.space) : \A u \in Devs(r) : HasIn(res, a, t, u)
\* A rival that passed, broke no gate and is nowhere worse than c but somewhere better.
Outdone(r, res, a, c, t) ==
    /\ \A u \in Devs(r) :
          /\ Find(res, a, t, u).pass
          /\ ~ Search!CaseBroken(r.space, Find(res, a, r.space.baseline, u), Find(res, a, t, u))
          /\ \A m \in Search!MetricsFor(r, u) :
                Find(res, a, t, u).m[m] # None /\ Find(res, a, t, u).m[m] >= Find(res, a, c, u).m[m]
    /\ \E u \in Devs(r) : \E m \in Search!MetricsFor(r, u) : Find(res, a, t, u).m[m] > Find(res, a, c, u).m[m]
    /\ t \notin r.registry.terminal
SelectedWell(r, res, a, c) ==
    /\ c \in Search!Candidates(r.space)
    /\ \A u \in Devs(r) : \A m \in Search!MetricsFor(r, u) : Find(res, a, r.space.baseline, u).m[m] # None
    /\ c # r.space.baseline =>
          /\ \A u \in Devs(r) : Find(res, a, c, u).pass
          /\ \A t \in Search!Candidates(r.space) : ~ Outdone(r, res, a, c, t)
          /\ r.mode # "iterate" =>
                /\ c \notin r.registry.terminal
                /\ \A u \in Devs(r) : CleanOn(r, u, Find(res, a, r.space.baseline, u), Find(res, a, c, u))
\* What the holdouts have to say of what is handed on.
Withstood(r, res, a, c) ==
    /\ <<a, c>> # <<Head(r.algorithms), r.space.baseline>>
    /\ \A u \in Search!HoldoutUnits(r) :
          /\ Find(res, a, c, u).pass
          /\ r.mode # "iterate" => Find(res, Head(r.algorithms), r.space.baseline, u).pass
          /\ \A m \in DOMAIN r.space.scope :
                r.mode # "joint" \/ Search!Applies(r.space, m, u) =>
                    /\ Find(res, a, c, u).m[m] # None
                    /\ Find(res, a, c, u).m[m] + r.space.maxRegression
                          >= Find(res, Head(r.algorithms), r.space.baseline, u).m[m]
    /\ r.mode = "joint" => <<a, c>> \notin r.registry.terminalJoint

PoolOK(r, dsk, res, td, rn) ==
    /\ Lined(td, InLine(td)) /\ Single(Live(res, td, rn))
    /\ DOMAIN res \cap rn = {} /\ DOMAIN res \cap InLine(td) = {} /\ InLine(td) \cap rn = {}
    /\ \A k \in DOMAIN res : Search!ReportOK(r, res[k])
    /\ \A p \in DOMAIN dsk : Search!ReportOK(r, dsk[p])
\* K is all that was ever asked.
AskedOK(r, res, K, st, a, c) ==
    /\ st \in {"screen", "search", "holdout", "done"} => Search!Admitted(r)
    /\ st = "screen" =>
          r.mode = "joint" /\ \A x \in Search!Range(r.algorithms) : \A u \in Devs(r) : Covered(K, x, r.space.baseline, u)
    /\ st = "search" =>
          AlgKept(r, res, a) /\ \A t \in Search!Candidates(r.space) : \A u \in Devs(r) : Covered(K, a, t, u)
    /\ st \in {"holdout", "done"} => AlgKept(r, res, a)
    /\ st = "holdout" =>
          \A u \in Search!HoldoutUnits(r) : Covered(K, Head(r.algorithms), r.space.baseline, u) /\ Covered(K, a, c, u)
ChosenOK(r, res, st, a, c, adj) ==
    /\ c # None \/ adj # None \/ st \in {"holdout", "done"} =>
          Search!Admitted(r) /\ Searched(r, res, a) /\ SelectedWell(r, res, a, c)
    /\ adj # None =>
          adj = [seen |-> Search!Neighbours(r.space, c) \cap Search!Candidates(r.space),
                    unseen |-> Search!Neighbours(r.space, c) \ Search!Candidates(r.space)]
StageOK(r, dsk, res, st, td, rn, br, c, adj, dec) ==
    /\ st \in {"admit", "screen", "search", "holdout", "done", "aborted"}
    /\ st = "admit" => res = <<>> /\ td = <<>> /\ rn = {} /\ br = {}
    /\ st \in {"admit", "screen", "search"} => c = None /\ adj = None
    /\ st # "done" => dec = None
    /\ st \in {"done", "aborted"} => td = <<>> /\ rn = {}
    /\ st = "done" => br = {}
SearchInvOf(r, dsk, res, st, td, rn, br, a, c, adj, dec) ==
    /\ r \in Runs
    /\ PoolOK(r, dsk, res, td, rn)
    /\ AskedOK(r, res, Live(res, td, rn) \cup br, st, a, c)
    /\ ChosenOK(r, res, st, a, c, adj)
    /\ StageOK(r, dsk, res, st, td, rn, br, c, adj, dec)
    /\ dec = "freeze" => Withstood(r, res, a, c)
SearchInv == SearchInvOf(run, disk, results, stage, todo, running, broken, alg, chosen, adjacent, decision)

LEMMA RunsAre == ASSUME NEW r \in Runs PROVE Search!RunOK(r) BY SearchRuns DEF Search!SearchAssumption
LEMMA NoneIs == None \notin Int /\ None # "freeze" BY SearchRuns DEF Search!SearchAssumption
LEMMA HeadInRange == ASSUME NEW r, Search!RunOK(r) PROVE Head(r.algorithms) \in Search!Range(r.algorithms)
<1> DEFINE s == r.algorithms
<1>1. s \in Seq(STRING) /\ s # <<>> BY DEF Search!RunOK
<1> HIDE DEF s
<1>2. Len(s) \in Nat /\ Len(s) # 0 /\ DOMAIN s = 1 .. Len(s) /\ Head(s) = s[1] BY <1>1, LenProperties, EmptySeq
<1>3. 1 \in DOMAIN s BY <1>2
<1> QED BY <1>2, <1>3 DEF Search!Range, s

\* What more is read changes nothing of what was concluded.
LEMMA AlgStays ==
  ASSUME NEW r, Search!RunOK(r), NEW res, NEW res2, Grows(res, res2), NEW a, AlgKept(r, res, a)
  PROVE  AlgKept(r, res2, a)
<1>1. CASE r.mode # "joint" BY <1>1 DEF AlgKept
<1>2. CASE r.mode = "joint"
  <2> DEFINE b == r.space.baseline
             h == Head(r.algorithms)
  <2>1. a \in Search!Range(r.algorithms) /\ h \in Search!Range(r.algorithms) BY HeadInRange DEF AlgKept
  <2>2. \A x \in Search!Range(r.algorithms) : \A u \in Devs(r) : HasIn(res2, x, b, u) /\ Find(res2, x, b, u) = Find(res, x, b, u)
    BY <1>2 DEF AlgKept, Grows
  <2>3. ASSUME a # h, NEW u \in Devs(r) PROVE CleanOn(r, u, Find(res2, h, b, u), Find(res2, a, b, u))
    <3>1. CleanOn(r, u, Find(res, h, b, u), Find(res, a, b, u)) BY <1>2, <2>3 DEF AlgKept
    <3>2. Find(res2, h, b, u) = Find(res, h, b, u) /\ Find(res2, a, b, u) = Find(res, a, b, u) BY <2>1, <2>2
    <3> QED BY <3>1, <3>2
  <2> QED BY <1>2, <2>1, <2>2, <2>3 DEF AlgKept
<1> QED BY <1>1, <1>2

LEMMA TuningStays ==
  ASSUME NEW r, SpaceOK(r.space), NEW res, NEW res2, Grows(res, res2), NEW a, NEW c, Searched(r, res, a),
         SelectedWell(r, res, a, c)
  PROVE  Searched(r, res2, a) /\ SelectedWell(r, res2, a, c)
<1> DEFINE b == r.space.baseline
<1>1. b \in Search!Candidates(r.space) /\ c \in Search!Candidates(r.space) BY BaselineMoves DEF SelectedWell
<1>2. \A t \in Search!Candidates(r.space) : \A u \in Devs(r) : HasIn(res2, a, t, u) /\ Find(res2, a, t, u) = Find(res, a, t, u)
  BY DEF Searched, Grows
<1>3. Searched(r, res2, a) BY <1>2 DEF Searched
<1>4. \A u \in Devs(r) : Find(res2, a, b, u) = Find(res, a, b, u) /\ Find(res2, a, c, u) = Find(res, a, c, u) BY <1>1, <1>2
<1>5. ASSUME NEW u \in Devs(r), NEW m \in Search!MetricsFor(r, u) PROVE Find(res2, a, b, u).m[m] # None
  BY <1>4 DEF SelectedWell
<1>6. ASSUME c # b PROVE \A u \in Devs(r) : Find(res2, a, c, u).pass BY <1>4, <1>6 DEF SelectedWell
<1>7. ASSUME c # b, NEW t \in Search!Candidates(r.space) PROVE ~ Outdone(r, res2, a, c, t)
  <2>1. \A u \in Devs(r) : Find(res2, a, t, u) = Find(res, a, t, u) BY <1>2
  <2>2. ~ Outdone(r, res, a, c, t) BY <1>7 DEF SelectedWell
  <2>3. Outdone(r, res2, a, c, t) => Outdone(r, res, a, c, t) BY <1>4, <2>1 DEF Outdone
  <2> QED BY <2>2, <2>3
<1>8. ASSUME c # b, r.mode # "iterate" PROVE c \notin r.registry.terminal BY <1>8 DEF SelectedWell
<1>9. ASSUME c # b, r.mode # "iterate", NEW u \in Devs(r) PROVE CleanOn(r, u, Find(res2, a, b, u), Find(res2, a, c, u))
  <2>1. CleanOn(r, u, Find(res, a, b, u), Find(res, a, c, u)) BY <1>9 DEF SelectedWell
  <2> QED BY <1>4, <2>1
<1> HIDE DEF b
<1>10. SelectedWell(r, res2, a, c) BY <1>1, <1>5, <1>6, <1>7, <1>8, <1>9 DEF SelectedWell, b
<1> QED BY <1>3, <1>10

LEMMA CoveredWhole == ASSUME NEW K, NEW K2, K \subseteq K2, NEW a, NEW t, NEW u, Covered(K, a, t, u) PROVE Covered(K2, a, t, u)
BY DEF Covered
LEMMA CoveredRead == ASSUME NEW res, NEW a, NEW t, NEW u, Covered(DOMAIN res, a, t, u) PROVE HasIn(res, a, t, u)
BY DEF Covered, HasIn
LEMMA SearchSpace == ASSUME NEW r, Search!RunOK(r), Search!Admitted(r) PROVE SpaceOK(r.space)
BY SpacesOK DEF Search!Admitted

LEMMA SearchStarts == ASSUME Search!Init PROVE SearchInv
<1>1. /\ run \in Runs /\ disk = run.leftover /\ results = <<>> /\ stage = "admit" /\ todo = <<>> /\ running = {} /\ broken = {}
      /\ chosen = None /\ adjacent = None /\ decision = None
  BY DEF Search!Init
<1>2. Search!RunOK(run) BY <1>1, RunsAre
<1>3. InLine(todo) = {} /\ Lined(todo, InLine(todo))
  <2>1. Len(<<>>) = 0 /\ <<>> \in Seq({}) BY EmptySeq
  <2>2. InLine(<<>>) = {} BY <2>1 DEF InLine
  <2> QED BY <1>1, <2>1, <2>2 DEF Lined
<1>4. DOMAIN results = {} BY <1>1
<1>5. \A p \in DOMAIN disk : Search!ReportOK(run, disk[p]) BY <1>1, <1>2 DEF Search!RunOK
<1>6. PoolOK(run, disk, results, todo, running) BY <1>1, <1>3, <1>4, <1>5 DEF PoolOK, Single, Live
<1>7. AskedOK(run, results, Live(results, todo, running) \cup broken, stage, alg, chosen) BY <1>1 DEF AskedOK
<1>8. ChosenOK(run, results, stage, alg, chosen, adjacent) BY <1>1 DEF ChosenOK
<1>9. StageOK(run, disk, results, stage, todo, running, broken, chosen, adjacent, decision) BY <1>1 DEF StageOK
<1> QED BY <1>1, <1>6, <1>7, <1>8, <1>9, NoneIs DEF SearchInv, SearchInvOf

LEMMA StartKeeps == ASSUME SearchInv, Search!StartTask PROVE SearchInv'
<1>1. /\ todo # <<>> /\ running' = running \cup {Head(todo)} /\ todo' = Tail(todo)
      /\ run' = run /\ disk' = disk /\ results' = results /\ stage' = stage /\ broken' = broken /\ alg' = alg
      /\ chosen' = chosen /\ adjacent' = adjacent /\ decision' = decision
  BY DEF Search!StartTask
<1>2. /\ Lined(todo', InLine(todo')) /\ Head(todo) \notin InLine(todo') /\ InLine(todo) = {Head(todo)} \cup InLine(todo')
  BY <1>1, TailInLine DEF SearchInv, SearchInvOf, PoolOK
<1>3. Live(results', todo', running') = Live(results, todo, running) BY <1>1, <1>2 DEF Live
<1>4. PoolOK(run', disk', results', todo', running')
  BY <1>1, <1>2, <1>3 DEF SearchInv, SearchInvOf, PoolOK
<1>5. stage \notin {"admit", "done", "aborted"} BY <1>1 DEF SearchInv, SearchInvOf, StageOK
<1>6. StageOK(run', disk', results', stage', todo', running', broken', chosen', adjacent', decision')
  BY <1>1, <1>5 DEF SearchInv, SearchInvOf, StageOK
<1>7. AskedOK(run', results', Live(results', todo', running') \cup broken', stage', alg', chosen')
  BY <1>1, <1>3 DEF SearchInv, SearchInvOf
<1>8. ChosenOK(run', results', stage', alg', chosen', adjacent') BY <1>1 DEF SearchInv, SearchInvOf
<1>9. run' \in Runs /\ (decision' = "freeze" => Withstood(run', results', alg', chosen'))
  BY <1>1 DEF SearchInv, SearchInvOf
<1> QED BY <1>4, <1>6, <1>7, <1>8, <1>9 DEF SearchInv, SearchInvOf

\* A report that arrives adds to what is known and leaves what was asked.
LEMMA ReadOne ==
  ASSUME SearchInv, NEW k \in running, NEW v, Search!ReportOK(run, v),
         NEW dsk, \A p \in DOMAIN dsk : Search!ReportOK(run, dsk[p]),
         NEW res, res = [j \in DOMAIN results \cup {k} |-> IF j = k THEN v ELSE results[j]]
  PROVE  SearchInvOf(run, dsk, res, stage, todo, running \ {k}, broken, alg, chosen, adjacent, decision)
<1>1. PoolOK(run, disk, results, todo, running) BY DEF SearchInv, SearchInvOf
<1>2. k \notin DOMAIN results /\ DOMAIN res = DOMAIN results \cup {k} /\ \A j \in DOMAIN results : res[j] = results[j]
  BY <1>1 DEF PoolOK
<1>3. Live(res, todo, running \ {k}) = Live(results, todo, running) BY <1>2 DEF Live
<1>4. Grows(results, res)
  <2>1. DOMAIN results \cup {k} \subseteq Live(results, todo, running) BY DEF Live
  <2>2. Single(DOMAIN results \cup {k}) BY <1>1, <2>1 DEF PoolOK, Single
  <2> QED BY <1>2, <2>2, OneMoreGrows
<1>5. PoolOK(run, dsk, res, todo, running \ {k})
  <2>1. Single(Live(res, todo, running \ {k})) BY <1>1, <1>3 DEF PoolOK
  <2>2. \A j \in DOMAIN res : Search!ReportOK(run, res[j])
    <3>1. res[k] = v OBVIOUS
    <3> QED BY <1>1, <1>2, <3>1 DEF PoolOK
  <2>3. InLine(todo) \cap running = {} /\ DOMAIN results \cap running = {} /\ DOMAIN results \cap InLine(todo) = {}
        /\ Lined(todo, InLine(todo))
    BY <1>1 DEF PoolOK
  <2>4. DOMAIN res \cap (running \ {k}) = {} /\ DOMAIN res \cap InLine(todo) = {} /\ InLine(todo) \cap (running \ {k}) = {}
    BY <1>2, <2>3
  <2> QED BY <2>1, <2>2, <2>3, <2>4 DEF PoolOK
<1>6. stage \notin {"admit", "done", "aborted"} BY DEF SearchInv, SearchInvOf, StageOK
<1>7. StageOK(run, dsk, res, stage, todo, running \ {k}, broken, chosen, adjacent, decision)
  BY <1>6 DEF SearchInv, SearchInvOf, StageOK
<1>8. run \in Runs /\ Search!RunOK(run) BY RunsAre DEF SearchInv, SearchInvOf
<1>9. AskedOK(run, res, Live(res, todo, running \ {k}) \cup broken, stage, alg, chosen)
  <2>1. AskedOK(run, results, Live(results, todo, running) \cup broken, stage, alg, chosen) BY DEF SearchInv, SearchInvOf
  <2>2. AlgKept(run, results, alg) => AlgKept(run, res, alg) BY <1>4, <1>8, AlgStays
  <2> QED BY <1>3, <2>1, <2>2 DEF AskedOK
<1>10. ChosenOK(run, res, stage, alg, chosen, adjacent)
  <2>1. ChosenOK(run, results, stage, alg, chosen, adjacent) BY DEF SearchInv, SearchInvOf
  <2>2. Search!Admitted(run) /\ Searched(run, results, alg) /\ SelectedWell(run, results, alg, chosen)
        => Searched(run, res, alg) /\ SelectedWell(run, res, alg, chosen)
    BY <1>4, <1>8, SearchSpace, TuningStays
  <2> QED BY <2>1, <2>2 DEF ChosenOK
<1>11. decision = None BY <1>6 DEF SearchInv, SearchInvOf, StageOK
<1> QED BY <1>5, <1>7, <1>8, <1>9, <1>10, <1>11, NoneIs DEF SearchInvOf

LEMMA FinishKeeps == ASSUME SearchInv, Search!FinishTask PROVE SearchInv'
<1>1. PICK k \in running : \E r \in IF k.unit.role = "development" THEN run.devReports ELSE run.holdoutReports :
          /\ running' = running \ {k}
          /\ disk' = [p \in DOMAIN disk \cup {Search!Path(k)} |-> IF p = Search!Path(k) THEN r ELSE disk[p]]
          /\ results' = [j \in DOMAIN results \cup {k} |-> IF j = k THEN r ELSE results[j]]
          /\ UNCHANGED <<run, stage, todo, broken, alg, chosen, adjacent, decision>>
  BY DEF Search!FinishTask
<1>2. PICK r \in IF k.unit.role = "development" THEN run.devReports ELSE run.holdoutReports :
          /\ running' = running \ {k}
          /\ disk' = [p \in DOMAIN disk \cup {Search!Path(k)} |-> IF p = Search!Path(k) THEN r ELSE disk[p]]
          /\ results' = [j \in DOMAIN results \cup {k} |-> IF j = k THEN r ELSE results[j]]
          /\ UNCHANGED <<run, stage, todo, broken, alg, chosen, adjacent, decision>>
  BY <1>1
<1>3. r \in run.devReports \cup run.holdoutReports BY <1>2
<1>4. Search!ReportOK(run, r) BY <1>3, RunsAre DEF SearchInv, SearchInvOf, Search!RunOK
<1>5. \A p \in DOMAIN disk' : Search!ReportOK(run, disk'[p])
  BY <1>2, <1>4 DEF SearchInv, SearchInvOf, PoolOK
<1>6. SearchInvOf(run, disk', results', stage, todo, running \ {k}, broken, alg, chosen, adjacent, decision)
  BY <1>2, <1>4, <1>5, ReadOne
<1> QED BY <1>2, <1>6 DEF SearchInv

LEMMA CrashKeeps == ASSUME SearchInv, Search!CrashTask PROVE SearchInv'
<1>1. PICK k \in running :
        /\ running' = running \ {k}
        /\ IF Search!Path(k) \in DOMAIN disk
           THEN /\ results' = [j \in DOMAIN results \cup {k} |-> IF j = k THEN disk[Search!Path(k)] ELSE results[j]]
                /\ UNCHANGED broken
           ELSE broken' = broken \cup {k} /\ UNCHANGED results
  BY DEF Search!CrashTask
<1>2. UNCHANGED <<run, disk, stage, todo, alg, chosen, adjacent, decision>> BY DEF Search!CrashTask
<1>3. PoolOK(run, disk, results, todo, running) BY DEF SearchInv, SearchInvOf
<1>4. CASE Search!Path(k) \in DOMAIN disk
  <2>1. Search!ReportOK(run, disk[Search!Path(k)]) /\ \A p \in DOMAIN disk : Search!ReportOK(run, disk[p])
    BY <1>3, <1>4 DEF PoolOK
  <2>2. SearchInvOf(run, disk, results', stage, todo, running \ {k}, broken, alg, chosen, adjacent, decision)
    BY <1>1, <1>4, <2>1, ReadOne
  <2> QED BY <1>1, <1>2, <1>4, <2>2 DEF SearchInv
<1>5. CASE Search!Path(k) \notin DOMAIN disk
  <2>1. results' = results /\ broken' = broken \cup {k} /\ running' = running \ {k} BY <1>1, <1>5
  <2>2. Live(results, todo, running \ {k}) \cup (broken \cup {k}) = Live(results, todo, running) \cup broken BY DEF Live
  <2>3. Live(results, todo, running \ {k}) \subseteq Live(results, todo, running) BY DEF Live
  <2>4. PoolOK(run, disk, results, todo, running \ {k}) BY <1>3, <2>3 DEF PoolOK, Single
  <2>5. stage # "admit" BY DEF SearchInv, SearchInvOf, StageOK
  <2>6. StageOK(run, disk, results, stage, todo, running \ {k}, broken \cup {k}, chosen, adjacent, decision)
    BY <2>5 DEF SearchInv, SearchInvOf, StageOK
  <2>7. SearchInvOf(run, disk, results, stage, todo, running \ {k}, broken \cup {k}, alg, chosen, adjacent, decision)
    BY <2>2, <2>4, <2>6 DEF SearchInv, SearchInvOf
  <2> QED BY <1>2, <2>1, <2>7 DEF SearchInv
<1> QED BY <1>4, <1>5

\* An end without a decision, from any stage with nothing running.
LEMMA AbortKeeps ==
  ASSUME SearchInv, running = {}, decision = None, stage' = "aborted", todo' = <<>>,
         UNCHANGED <<run, disk, results, running, broken, chosen, adjacent, decision>>,
         alg' = alg \/ (chosen = None /\ adjacent = None /\ stage \notin {"holdout", "done"})
  PROVE  SearchInv'
<1>1. InLine(<<>>) = {} /\ Lined(<<>>, {})
  <2>1. Len(<<>>) = 0 /\ <<>> \in Seq({}) BY EmptySeq
  <2> QED BY <2>1 DEF InLine, Lined
<1>2. Live(results, <<>>, {}) \subseteq Live(results, todo, running) BY <1>1 DEF Live
<1>3. PoolOK(run, disk, results, <<>>, {}) BY <1>1, <1>2 DEF SearchInv, SearchInvOf, PoolOK, Single
<1>4. AskedOK(run, results, Live(results, <<>>, {}) \cup broken, "aborted", alg', chosen) BY DEF AskedOK
<1>5. ChosenOK(run, results, "aborted", alg', chosen, adjacent) BY DEF SearchInv, SearchInvOf, ChosenOK
<1>6. StageOK(run, disk, results, "aborted", <<>>, {}, broken, chosen, adjacent, decision)
  BY DEF SearchInv, SearchInvOf, StageOK
<1>7. SearchInvOf(run, disk, results, "aborted", <<>>, {}, broken, alg', chosen, adjacent, decision)
  BY <1>3, <1>4, <1>5, <1>6, NoneIs DEF SearchInv, SearchInvOf
<1> QED BY <1>7 DEF SearchInv

LEMMA GiveUpKeeps == ASSUME SearchInv, Search!GiveUp PROVE SearchInv'
<1>1. /\ broken # {} /\ running = {} /\ stage # "aborted" /\ stage' = "aborted" /\ todo' = <<>>
      /\ UNCHANGED <<run, disk, results, running, broken, alg, chosen, adjacent, decision>>
  BY DEF Search!GiveUp, Search!Abort
<1>2. decision = None BY <1>1 DEF SearchInv, SearchInvOf, StageOK
<1> QED BY <1>1, <1>2, AbortKeeps

\* Tasks are as many as what they are made of, and differ where it differs.
TaskSet(A, B, C, s) == {Search!Task(a, t, u, s) : a \in A, t \in B, u \in C}
LEMMA TasksFinite ==
  ASSUME NEW A, NEW B, NEW C, NEW s, IsFiniteSet(A), IsFiniteSet(B), IsFiniteSet(C)
  PROVE  IsFiniteSet(TaskSet(A, B, C, s))
<1> DEFINE h == [p \in (A \X B) \X C |-> Search!Task(p[1][1], p[1][2], p[2], s)]
<1>1. IsFiniteSet((A \X B) \X C)
  <2>1. IsFiniteSet(A \X B) BY FS_Product
  <2> QED BY <2>1, FS_Product
<1>2. h \in Surjection((A \X B) \X C, TaskSet(A, B, C, s))
  <2>1. h \in [(A \X B) \X C -> TaskSet(A, B, C, s)] BY DEF TaskSet
  <2>2. ASSUME NEW k \in TaskSet(A, B, C, s) PROVE \E p \in (A \X B) \X C : h[p] = k
    <3>1. PICK a \in A, t \in B, u \in C : k = Search!Task(a, t, u, s) BY <2>2 DEF TaskSet
    <3>2. <<<<a, t>>, u>> \in (A \X B) \X C /\ h[<<<<a, t>>, u>>] = k BY <3>1
    <3> QED BY <3>2
  <2> QED BY <2>1, <2>2 DEF Surjection
<1> HIDE DEF h
<1> QED BY <1>1, <1>2, FS_Surjection

LEMMA TaskIs ==
  ASSUME NEW a, NEW t, NEW u, NEW s
  PROVE  Search!Task(a, t, u, s).alg = a /\ Search!Task(a, t, u, s).tuning = t /\ Search!Task(a, t, u, s).unit = u
         /\ Search!Task(a, t, u, s).stage = s
BY DEF Search!Task
LEMMA TasksSingle == ASSUME NEW s, NEW K, \A k \in K : \E a, t, u : k = Search!Task(a, t, u, s) PROVE Single(K)
<1> SUFFICES ASSUME NEW j \in K, NEW k \in K, Of(j, k.alg, k.tuning, k.unit) PROVE j = k BY DEF Single
<1>1. PICK a, t, u : j = Search!Task(a, t, u, s) OBVIOUS
<1>2. PICK x, y, z : k = Search!Task(x, y, z, s) OBVIOUS
<1>3. a = x /\ t = y /\ u = z BY <1>1, <1>2, TaskIs DEF Of
<1> QED BY <1>1, <1>2, <1>3

\* The pool after the tasks of a set were put in line.
LEMMA PoolFilled ==
  ASSUME NEW dsk, \A p \in DOMAIN dsk : Search!ReportOK(run, dsk[p]),
         NEW res, Single(DOMAIN res), \A k \in DOMAIN res : Search!ReportOK(run, res[k]),
         NEW S, IsFiniteSet(S), Single(S)
  PROVE  /\ PoolOK(run, dsk, res, Search!Fresh(S, res), {})
         /\ \A k \in S : Covered(Live(res, Search!Fresh(S, res), {}) \cup {}, k.alg, k.tuning, k.unit)
<1> DEFINE td == Search!Fresh(S, res)
<1>1. /\ Lined(td, InLine(td)) /\ InLine(td) \cap DOMAIN res = {} /\ Single(DOMAIN res \cup InLine(td))
      /\ \A k \in S : Covered(DOMAIN res \cup InLine(td), k.alg, k.tuning, k.unit)
  BY FreshCovers
<1> HIDE DEF td
<1>2. Live(res, td, {}) = DOMAIN res \cup InLine(td) BY DEF Live
<1>3. DOMAIN res \cap InLine(td) = {} BY <1>1
<1>4. PoolOK(run, dsk, res, td, {}) BY <1>1, <1>2, <1>3 DEF PoolOK
<1>5. \A k \in S : Covered(Live(res, td, {}) \cup {}, k.alg, k.tuning, k.unit) BY <1>1, <1>2
<1> QED BY <1>4, <1>5 DEF td

LEMMA SearchAsks ==
  ASSUME run \in Runs, Search!Admitted(run),
         NEW dsk, \A p \in DOMAIN dsk : Search!ReportOK(run, dsk[p]),
         NEW res, Single(DOMAIN res), \A k \in DOMAIN res : Search!ReportOK(run, res[k]), NEW a
  PROVE  /\ PoolOK(run, dsk, res, Search!SearchTasks(a, res), {})
         /\ \A t \in Search!Candidates(run.space) : \A u \in Devs(run) :
               Covered(Live(res, Search!SearchTasks(a, res), {}) \cup {}, a, t, u)
<1> DEFINE S == {Search!Task(a, t, u, "search") : t \in Search!Candidates(run.space), u \in Search!Dev}
<1>1. Search!RunOK(run) /\ SpaceOK(run.space) BY RunsAre, SearchSpace
<1>2. IsFiniteSet(S)
  <2>1. S \in SUBSET TaskSet({a}, Search!Candidates(run.space), Search!Dev, "search") BY DEF TaskSet
  <2>2. IsFiniteSet({a}) /\ IsFiniteSet(Search!Candidates(run.space)) /\ IsFiniteSet(Search!Dev)
    BY <1>1, FS_Singleton, CandidatesFinite, SomeMetrics
  <2> HIDE DEF S
  <2> QED BY <2>1, <2>2, TasksFinite, FS_Subset
<1>3. Single(S)
  <2>1. \A k \in S : \E x, t, u : k = Search!Task(x, t, u, "search") OBVIOUS
  <2> HIDE DEF S
  <2> QED BY <2>1, TasksSingle
<1>4. Search!SearchTasks(a, res) = Search!Fresh(S, res) BY DEF Search!SearchTasks
<1>5. Search!Dev = Devs(run) BY DEF Search!Dev, Devs
<1>6. ASSUME NEW t \in Search!Candidates(run.space), NEW u \in Devs(run)
      PROVE  \E k \in S : k.alg = a /\ k.tuning = t /\ k.unit = u
  <2>1. Search!Task(a, t, u, "search") \in S BY <1>5
  <2> QED BY <2>1, TaskIs
<1> HIDE DEF S
<1>7. /\ PoolOK(run, dsk, res, Search!Fresh(S, res), {})
      /\ \A k \in S : Covered(Live(res, Search!Fresh(S, res), {}) \cup {}, k.alg, k.tuning, k.unit)
  BY <1>2, <1>3, PoolFilled
<1>8. ASSUME NEW t \in Search!Candidates(run.space), NEW u \in Devs(run)
      PROVE  Covered(Live(res, Search!Fresh(S, res), {}) \cup {}, a, t, u)
  <2>1. PICK k \in S : k.alg = a /\ k.tuning = t /\ k.unit = u BY <1>6
  <2> QED BY <1>7, <2>1
<1> QED BY <1>4, <1>7, <1>8

LEMMA ScreenAsks ==
  ASSUME run \in Runs, NEW dsk, \A p \in DOMAIN dsk : Search!ReportOK(run, dsk[p]), NEW res, DOMAIN res = {}
  PROVE  /\ PoolOK(run, dsk, res, Search!ScreenTasks, {})
         /\ \A x \in Search!Range(run.algorithms) : \A u \in Devs(run) :
               Covered(Live(res, Search!ScreenTasks, {}) \cup {}, x, run.space.baseline, u)
<1> DEFINE S == {Search!Task(a, Search!Base, u, "screen") : a \in Search!Range(run.algorithms), u \in Search!Dev}
<1>1. Search!RunOK(run) BY RunsAre
<1>2. IsFiniteSet(S)
  <2>1. S \in SUBSET TaskSet(Search!Range(run.algorithms), {Search!Base}, Search!Dev, "screen") BY DEF TaskSet
  <2>2. IsFiniteSet({Search!Base}) /\ IsFiniteSet(Search!Dev) BY <1>1, FS_Singleton, SomeMetrics
  <2>3. run.algorithms \in Seq(STRING) BY <1>1 DEF Search!RunOK
  <2>4. IsFiniteSet(Search!Range(run.algorithms)) BY <2>3, RangeIsFinite
  <2> HIDE DEF S
  <2> QED BY <2>1, <2>2, <2>4, TasksFinite, FS_Subset
<1>3. Single(S)
  <2>1. \A k \in S : \E x, t, u : k = Search!Task(x, t, u, "screen") OBVIOUS
  <2> HIDE DEF S
  <2> QED BY <2>1, TasksSingle
<1>4. Search!ScreenTasks = Search!Queue(S) BY DEF Search!ScreenTasks
<1>5. Search!Dev = Devs(run) /\ Search!Base = run.space.baseline BY DEF Search!Dev, Devs, Search!Base
<1>6. ASSUME NEW x \in Search!Range(run.algorithms), NEW u \in Devs(run)
      PROVE  \E k \in S : k.alg = x /\ k.tuning = run.space.baseline /\ k.unit = u
  <2>1. Search!Task(x, Search!Base, u, "screen") \in S BY <1>5
  <2> QED BY <1>5, <2>1, TaskIs
<1> HIDE DEF S
<1>7. Lined(Search!Queue(S), S) /\ InLine(Search!Queue(S)) = S BY <1>2, QueueLines, LinedInLine
<1>8. Live(res, Search!Queue(S), {}) = S BY <1>7 DEF Live
<1>9. PoolOK(run, dsk, res, Search!Queue(S), {}) BY <1>3, <1>7, <1>8 DEF PoolOK
<1>10. ASSUME NEW x \in Search!Range(run.algorithms), NEW u \in Devs(run)
       PROVE  Covered(Live(res, Search!Queue(S), {}) \cup {}, x, run.space.baseline, u)
  BY <1>6, <1>8 DEF Covered, Of
<1> QED BY <1>4, <1>9, <1>10

LEMMA HoldoutAsks ==
  ASSUME run \in Runs, \A p \in DOMAIN disk : Search!ReportOK(run, disk[p]),
         Single(DOMAIN results), \A k \in DOMAIN results : Search!ReportOK(run, results[k]), NEW a, NEW c
  PROVE  /\ PoolOK(run, disk, results, Search!HoldoutTasks(a, c), {})
         /\ \A u \in Search!HoldoutUnits(run) :
               /\ Covered(Live(results, Search!HoldoutTasks(a, c), {}) \cup {}, Head(run.algorithms), run.space.baseline, u)
               /\ Covered(Live(results, Search!HoldoutTasks(a, c), {}) \cup {}, a, c, u)
<1> DEFINE L == {Search!Task(Search!BaseAlg, Search!Base, u, "holdout") : u \in Search!HoldoutUnits(run)}
           M == {Search!Task(a, c, u, "holdout") : u \in Search!HoldoutUnits(run)}
           S == L \cup M
<1>1. Search!RunOK(run) BY RunsAre
<1>2. IsFiniteSet(S)
  <2>1. L \in SUBSET TaskSet({Search!BaseAlg}, {Search!Base}, Search!HoldoutUnits(run), "holdout") BY DEF TaskSet
  <2>2. M \in SUBSET TaskSet({a}, {c}, Search!HoldoutUnits(run), "holdout") BY DEF TaskSet
  <2>3. IsFiniteSet(Search!HoldoutUnits(run))
    <3>1. Search!HoldoutUnits(run) \in SUBSET run.units BY DEF Search!HoldoutUnits
    <3> QED BY <1>1, <3>1, FS_Subset, SearchFinite DEF Search!RunOK
  <2>4. IsFiniteSet({a}) /\ IsFiniteSet({c}) /\ IsFiniteSet({Search!BaseAlg}) /\ IsFiniteSet({Search!Base}) BY FS_Singleton
  <2> HIDE DEF L, M
  <2>5. IsFiniteSet(L) BY <2>1, <2>3, <2>4, TasksFinite, FS_Subset
  <2>6. IsFiniteSet(M) BY <2>2, <2>3, <2>4, TasksFinite, FS_Subset
  <2> QED BY <2>5, <2>6, FS_Union
<1>3. Single(S)
  <2>1. \A k \in S : \E x, t, u : k = Search!Task(x, t, u, "holdout") OBVIOUS
  <2> HIDE DEF S
  <2> QED BY <2>1, TasksSingle
<1>4. Search!HoldoutTasks(a, c) = Search!Fresh(S, results) BY DEF Search!HoldoutTasks
<1>5. Search!BaseAlg = Head(run.algorithms) /\ Search!Base = run.space.baseline BY DEF Search!BaseAlg, Search!Base
<1>6. ASSUME NEW u \in Search!HoldoutUnits(run)
      PROVE  /\ \E k \in S : k.alg = Head(run.algorithms) /\ k.tuning = run.space.baseline /\ k.unit = u
             /\ \E k \in S : k.alg = a /\ k.tuning = c /\ k.unit = u
  <2>1. Search!Task(Search!BaseAlg, Search!Base, u, "holdout") \in S /\ Search!Task(a, c, u, "holdout") \in S OBVIOUS
  <2> HIDE DEF S
  <2> QED BY <1>5, <2>1, TaskIs
<1> HIDE DEF S
<1>7. /\ PoolOK(run, disk, results, Search!Fresh(S, results), {})
      /\ \A k \in S : Covered(Live(results, Search!Fresh(S, results), {}) \cup {}, k.alg, k.tuning, k.unit)
  BY <1>2, <1>3, PoolFilled
<1>8. ASSUME NEW u \in Search!HoldoutUnits(run)
      PROVE  /\ Covered(Live(results, Search!Fresh(S, results), {}) \cup {}, Head(run.algorithms), run.space.baseline, u)
             /\ Covered(Live(results, Search!Fresh(S, results), {}) \cup {}, a, c, u)
  BY <1>6, <1>7
<1> QED BY <1>4, <1>7, <1>8

LEMMA ReusedOK ==
  ASSUME run \in Runs, NEW res \in Search!Reusable
  PROVE  Single(DOMAIN res) /\ \A k \in DOMAIN res : Search!ReportOK(run, res[k])
<1> DEFINE K == {Search!Task(Search!BaseAlg, Search!Base, u, IF u \in Search!Dev THEN "search" ELSE "holdout") : u \in run.units}
<1>1. DOMAIN res = K /\ \A k \in K : res[k] \in run.devReports BY DEF Search!Reusable
<1>2. Single(K)
  <2> SUFFICES ASSUME NEW j \in K, NEW k \in K, Of(j, k.alg, k.tuning, k.unit) PROVE j = k BY DEF Single
  <2>1. PICK u \in run.units : j = Search!Task(Search!BaseAlg, Search!Base, u, IF u \in Search!Dev THEN "search" ELSE "holdout")
    OBVIOUS
  <2>2. PICK v \in run.units : k = Search!Task(Search!BaseAlg, Search!Base, v, IF v \in Search!Dev THEN "search" ELSE "holdout")
    OBVIOUS
  <2> HIDE DEF K
  <2>3. u = v BY <2>1, <2>2, TaskIs DEF Of
  <2> QED BY <2>1, <2>2, <2>3
<1> HIDE DEF K
<1>3. \A k \in K : Search!ReportOK(run, res[k]) BY <1>1, RunsAre DEF Search!RunOK
<1> QED BY <1>1, <1>2, <1>3

LEMMA AdmitKeeps == ASSUME SearchInv, Search!Admit PROVE SearchInv'
<1>1. stage = "admit" /\ UNCHANGED <<run, disk, running, broken, chosen, adjacent, decision>> BY DEF Search!Admit
<1>2. run \in Runs /\ Search!RunOK(run) BY RunsAre DEF SearchInv, SearchInvOf
<1>3. /\ results = <<>> /\ todo = <<>> /\ running = {} /\ broken = {} /\ chosen = None /\ adjacent = None /\ decision = None
      /\ \A p \in DOMAIN disk : Search!ReportOK(run, disk[p])
  BY <1>1 DEF SearchInv, SearchInvOf, StageOK, PoolOK
<1>4. CASE ~ Search!Admitted(run)
  <2>1. stage' = "aborted" /\ todo' = <<>> /\ alg' = alg /\ results' = results
    BY <1>4 DEF Search!Admit, Search!Abort
  <2> QED BY <1>1, <1>3, <2>1, AbortKeeps
<1>5. CASE Search!Admitted(run)
  <2>1. /\ results' \in IF run.reuse = "bound" THEN Search!Reusable ELSE {results}
        /\ IF Search!Mode = "joint" THEN stage' = "screen" /\ todo' = Search!ScreenTasks
           ELSE stage' = "search" /\ todo' = Search!SearchTasks(Search!BaseAlg, results')
        /\ alg' = Search!BaseAlg
    BY <1>5 DEF Search!Admit
  <2>2. Search!BaseAlg = Head(run.algorithms) /\ Search!Mode = run.mode BY DEF Search!BaseAlg, Search!Mode
  <2>3. Single(DOMAIN results') /\ \A k \in DOMAIN results' : Search!ReportOK(run, results'[k])
    <3>1. CASE run.reuse = "bound" BY <1>2, <2>1, <3>1, ReusedOK
    <3>2. CASE run.reuse # "bound"
      <4>1. DOMAIN results' = {} BY <1>3, <2>1, <3>2
      <4> QED BY <4>1 DEF Single
    <3> QED BY <3>1, <3>2
  <2>4. CASE run.mode = "joint"
    <3>1. run.reuse # "bound" BY <1>2, <2>4 DEF Search!RunOK
    <3>2. DOMAIN results' = {} /\ stage' = "screen" /\ todo' = Search!ScreenTasks BY <1>3, <2>1, <2>2, <2>4, <3>1
    <3>3. /\ PoolOK(run, disk, results', todo', {})
          /\ \A x \in Search!Range(run.algorithms) : \A u \in Devs(run) :
                Covered(Live(results', todo', {}) \cup {}, x, run.space.baseline, u)
      BY <1>2, <1>3, <3>2, ScreenAsks
    <3>4. AskedOK(run, results', Live(results', todo', {}) \cup {}, "screen", alg', None) BY <1>5, <2>4, <3>3 DEF AskedOK
    <3>5. ChosenOK(run, results', "screen", alg', None, None) BY DEF ChosenOK
    <3>6. StageOK(run, disk, results', "screen", todo', {}, {}, None, None, None) BY DEF StageOK
    <3>7. SearchInvOf(run, disk, results', "screen", todo', {}, {}, alg', None, None, None)
      BY <1>2, <3>3, <3>4, <3>5, <3>6, NoneIs DEF SearchInvOf
    <3> QED BY <1>1, <1>3, <3>2, <3>7 DEF SearchInv
  <2>5. CASE run.mode # "joint"
    <3>1. stage' = "search" /\ todo' = Search!SearchTasks(alg', results') BY <2>1, <2>2, <2>5
    <3>2. /\ PoolOK(run, disk, results', todo', {})
          /\ \A t \in Search!Candidates(run.space) : \A u \in Devs(run) : Covered(Live(results', todo', {}) \cup {}, alg', t, u)
      BY <1>2, <1>3, <1>5, <2>3, <3>1, SearchAsks
    <3>3. AlgKept(run, results', alg') BY <1>2, <2>1, <2>2, <2>5, HeadInRange DEF AlgKept
    <3>4. AskedOK(run, results', Live(results', todo', {}) \cup {}, "search", alg', None) BY <1>5, <3>2, <3>3 DEF AskedOK
    <3>5. ChosenOK(run, results', "search", alg', None, None) BY DEF ChosenOK
    <3>6. StageOK(run, disk, results', "search", todo', {}, {}, None, None, None) BY DEF StageOK
    <3>7. SearchInvOf(run, disk, results', "search", todo', {}, {}, alg', None, None, None)
      BY <1>2, <3>2, <3>4, <3>5, <3>6, NoneIs DEF SearchInvOf
    <3> QED BY <1>1, <1>3, <3>1, <3>7 DEF SearchInv
  <2> QED BY <2>4, <2>5
<1> QED BY <1>4, <1>5

\* With nothing waiting, in flight or failed, what was asked has been read.
LEMMA IdleRead ==
  ASSUME SearchInv, NEW s, Search!Idle(s)
  PROVE  /\ stage = s /\ todo = <<>> /\ running = {} /\ broken = {} /\ Live(results, todo, running) \cup broken = DOMAIN results
         /\ Single(DOMAIN results) /\ \A k \in DOMAIN results : Search!ReportOK(run, results[k])
         /\ \A p \in DOMAIN disk : Search!ReportOK(run, disk[p])
<1>1. stage = s /\ todo = <<>> /\ running = {} /\ broken = {} BY DEF Search!Idle
<1>2. InLine(<<>>) = {}
  <2>1. Len(<<>>) = 0 BY EmptySeq
  <2> QED BY <2>1 DEF InLine
<1>3. Live(results, todo, running) \cup broken = DOMAIN results /\ Live(results, todo, running) = DOMAIN results
  BY <1>1, <1>2 DEF Live
<1> QED BY <1>1, <1>3 DEF SearchInv, SearchInvOf, PoolOK

(***************************************************************************)
(* The selections                                                          *)
(***************************************************************************)
LEMMA ReportsAre ==
  ASSUME NEW a, NEW t
  PROVE  Search!Dev = Devs(run) /\ \A u \in Devs(run) : Search!Reports(a, t)[u] = Find(results, a, t, u)
<1>1. Search!Dev = Devs(run) BY DEF Search!Dev, Devs
<1>2. \A u \in Devs(run) : Search!Reports(a, t)[u] = Search!ReportOf(a, t, u) BY <1>1 DEF Search!Reports
<1> QED BY <1>1, <1>2, FoundIs

\* A row of the reports of two tunings that were both asked everywhere.
LEMMA RowClean ==
  ASSUME Search!RunOK(run), \A k \in DOMAIN results : Search!ReportOK(run, results[k]),
         NEW x, NEW a, NEW c, NEW s, NEW barred,
         \A u \in Devs(run) : HasIn(results, a, Search!Base, u) /\ HasIn(results, c, s, u)
  PROVE  /\ Search!Row(x, Search!Reports(a, Search!Base), Search!Reports(c, s), barred).faults \in Nat
         /\ Search!Row(x, Search!Reports(a, Search!Base), Search!Reports(c, s), barred).faults = 0
              <=> \A u \in Devs(run) : CleanOn(run, u, Find(results, a, Search!Base, u), Find(results, c, s, u))
<1> DEFINE b == Search!Reports(a, Search!Base)
           n == Search!Reports(c, s)
<1>1. \A u \in Devs(run) : b[u] = Find(results, a, Search!Base, u) /\ n[u] = Find(results, c, s, u) BY ReportsAre
<1>2. Search!Dev = Devs(run) BY ReportsAre
<1> HIDE DEF b, n
<1>3. \A u \in Devs(run) : Search!ReportOK(run, b[u]) /\ Search!ReportOK(run, n[u]) BY <1>1, FoundOK
<1>4. /\ Search!Row(x, b, n, barred).faults \in Nat
      /\ Search!Row(x, b, n, barred).faults = 0 <=> \A u \in Search!Dev : CleanOn(run, u, b[u], n[u])
  BY <1>2, <1>3, FaultsCount
<1>5. (\A u \in Search!Dev : CleanOn(run, u, b[u], n[u]))
        <=> \A u \in Devs(run) : CleanOn(run, u, Find(results, a, Search!Base, u), Find(results, c, s, u))
  BY <1>1, <1>2
<1> QED BY <1>4, <1>5 DEF b, n

LEMMA RowIs ==
  ASSUME NEW x, NEW base, NEW cand, NEW barred
  PROVE  Search!Row(x, base, cand, barred).id = x /\ Search!Row(x, base, cand, barred).barred = barred
BY DEF Search!Row
LEMMA PickedIs ==
  ASSUME NEW rows, NEW base, NEW t \in Search!Picks(rows, base), t # base
  PROVE  \E r \in Search!Frontier(rows) : r.id = t
<1> DEFINE fit == {r \in Search!Frontier(rows) : /\ r.id # base /\ r.total >= run.space.minScore * Search!Cardinality(Search!Dev)
                                                 /\ r.worst >= run.space.minUnit}
<1>1. t \in IF fit = {} THEN {base} ELSE {r.id : r \in {r \in fit : \A o \in fit : ~ Search!Better(o, r)}}
  BY DEF Search!Picks
<1>2. \E r \in fit : r.id = t
  <2> HIDE DEF fit
  <2> QED BY <1>1
<1> QED BY <1>2
LEMMA FrontierIs ==
  ASSUME NEW rows, NEW r \in Search!Frontier(rows)
  PROVE  r \in rows /\ ~ r.barred /\ r.faults = 0 /\ \A o \in rows : ~ o.barred /\ o.faults = 0 => ~ Search!Dominates(o, r)
BY DEF Search!Frontier, Search!Eligible

LEMMA ScreenKeeps == ASSUME SearchInv, Search!ScreenAlgorithms PROVE SearchInv'
<1>1. Search!Idle("screen") /\ UNCHANGED <<run, disk, results, running, broken, chosen, adjacent, decision>>
  BY DEF Search!ScreenAlgorithms
<1>2. /\ stage = "screen" /\ todo = <<>> /\ running = {} /\ broken = {} /\ Live(results, todo, running) \cup broken = DOMAIN results
      /\ Single(DOMAIN results) /\ \A k \in DOMAIN results : Search!ReportOK(run, results[k])
      /\ \A p \in DOMAIN disk : Search!ReportOK(run, disk[p])
  BY <1>1, IdleRead
<1>3. run \in Runs /\ Search!RunOK(run) BY RunsAre DEF SearchInv, SearchInvOf
<1>4. chosen = None /\ adjacent = None /\ decision = None BY <1>2 DEF SearchInv, SearchInvOf, StageOK
<1>5. /\ Search!Admitted(run) /\ run.mode = "joint"
      /\ \A x \in Search!Range(run.algorithms) : \A u \in Devs(run) : Covered(DOMAIN results, x, run.space.baseline, u)
  BY <1>2 DEF SearchInv, SearchInvOf, AskedOK
<1>6. Search!Base = run.space.baseline /\ Search!BaseAlg = Head(run.algorithms) BY DEF Search!Base, Search!BaseAlg
<1>7. \A x \in Search!Range(run.algorithms) : \A u \in Devs(run) : HasIn(results, x, Search!Base, u)
  BY <1>5, <1>6, CoveredRead
<1>8. Search!BaseAlg \in Search!Range(run.algorithms) BY <1>3, <1>6, HeadInRange
<1>9. CASE Search!CannotRank(Search!BaseAlg) \/ Search!Cardinality(Search!Frontier(Search!AlgRows)) > run.space.maxPareto
  <2>1. stage' = "aborted" /\ todo' = <<>> /\ alg' = alg BY <1>9 DEF Search!ScreenAlgorithms, Search!Abort
  <2> QED BY <1>1, <1>2, <1>4, <2>1, AbortKeeps
<1>10. CASE ~ (Search!CannotRank(Search!BaseAlg) \/ Search!Cardinality(Search!Frontier(Search!AlgRows)) > run.space.maxPareto)
  <2>1. PICK a \in Search!Picks(Search!AlgRows, Search!BaseAlg) :
            alg' = a /\ stage' = "search" /\ todo' = Search!SearchTasks(a, results)
    BY <1>10 DEF Search!ScreenAlgorithms
  <2>2. ASSUME a # Search!BaseAlg
        PROVE  /\ a \in Search!Range(run.algorithms)
               /\ \A u \in Devs(run) : CleanOn(run, u, Find(results, Search!BaseAlg, Search!Base, u), Find(results, a, Search!Base, u))
    <3>1. PICK r \in Search!Frontier(Search!AlgRows) : r.id = a BY <2>1, <2>2, PickedIs
    <3>2. r \in Search!AlgRows /\ r.faults = 0 BY FrontierIs
    <3>3. PICK x \in Search!Range(run.algorithms) :
              r = Search!Row(x, Search!Reports(Search!BaseAlg, Search!Base), Search!Reports(x, Search!Base), FALSE)
      BY <3>2 DEF Search!AlgRows
    <3>4. x = a BY <3>1, <3>3 DEF Search!Row
    <3>5. \A u \in Devs(run) : HasIn(results, Search!BaseAlg, Search!Base, u) /\ HasIn(results, x, Search!Base, u)
      BY <1>7, <1>8
    <3>6. \A u \in Devs(run) : CleanOn(run, u, Find(results, Search!BaseAlg, Search!Base, u), Find(results, x, Search!Base, u))
      BY <1>2, <1>3, <3>2, <3>3, <3>5, RowClean
    <3> QED BY <3>4, <3>6
  <2>3. AlgKept(run, results, a) BY <1>5, <1>6, <1>7, <1>8, <2>2 DEF AlgKept
  <2>4. /\ PoolOK(run, disk, results, todo', {})
        /\ \A t \in Search!Candidates(run.space) : \A u \in Devs(run) : Covered(Live(results, todo', {}) \cup {}, a, t, u)
    BY <1>2, <1>3, <1>5, <2>1, SearchAsks
  <2>5. AskedOK(run, results, Live(results, todo', {}) \cup {}, "search", a, None) BY <1>5, <2>3, <2>4 DEF AskedOK
  <2>6. ChosenOK(run, results, "search", a, None, None) BY DEF ChosenOK
  <2>7. StageOK(run, disk, results, "search", todo', {}, {}, None, None, None) BY DEF StageOK
  <2>8. SearchInvOf(run, disk, results, "search", todo', {}, {}, a, None, None, None)
    BY <1>3, <2>4, <2>5, <2>6, <2>7, NoneIs DEF SearchInvOf
  <2> QED BY <1>1, <1>2, <1>4, <2>1, <2>8 DEF SearchInv
<1> QED BY <1>9, <1>10

LEMMA RankSelects ==
  ASSUME run \in Runs, Search!Admitted(run), run.mode # "iterate",
         \A k \in DOMAIN results : Search!ReportOK(run, results[k]), Searched(run, results, alg),
         \A u \in Devs(run) : \A m \in Search!MetricsFor(run, u) : Find(results, alg, run.space.baseline, u).m[m] # None,
         NEW t \in Search!Picks(Search!TuningRows, Search!Base)
  PROVE  SelectedWell(run, results, alg, t)
<1> DEFINE b == run.space.baseline
<1>1. Search!RunOK(run) /\ SpaceOK(run.space) /\ None \notin Int BY RunsAre, SearchSpace, NoneIs
<1>2. b \in Search!Candidates(run.space) /\ Search!Base = b BY <1>1, BaselineMoves DEF Search!Base
<1>3. CASE t = b BY <1>2, <1>3 DEF SelectedWell
<1>4. CASE t # b
  <2>1. PICK r \in Search!Frontier(Search!TuningRows) : r.id = t BY <1>2, <1>4, PickedIs
  <2>2. r \in Search!TuningRows /\ ~ r.barred /\ r.faults = 0
        /\ \A o \in Search!TuningRows : ~ o.barred /\ o.faults = 0 => ~ Search!Dominates(o, r)
    BY FrontierIs
  <2> DEFINE rowOf(x) == Search!Row(x, Search!Reports(alg, Search!Base), Search!Reports(alg, x),
                                    Search!Terminal(run.registry.terminal, x))
  <2>3. PICK x \in Search!Candidates(run.space) : r = rowOf(x) BY <2>2 DEF Search!TuningRows
  <2>4. x = t BY <2>1, <2>3 DEF Search!Row
  <2>5. t \in Search!Candidates(run.space) /\ r = rowOf(t) BY <2>3, <2>4
  <2>6. \A y \in Search!Candidates(run.space) : rowOf(y) \in Search!TuningRows BY DEF Search!TuningRows
  <2>7. ASSUME NEW y \in Search!Candidates(run.space) PROVE rowOf(y).barred <=> y \in run.registry.terminal
    <3>1. rowOf(y).barred = Search!Terminal(run.registry.terminal, y) BY DEF Search!Row
    <3> QED BY <3>1 DEF Search!Terminal
  <2>8. ASSUME NEW y \in Search!Candidates(run.space)
        PROVE  rowOf(y).faults = 0 <=> \A u \in Devs(run) : CleanOn(run, u, Find(results, alg, b, u), Find(results, alg, y, u))
    <3>1. \A u \in Devs(run) : HasIn(results, alg, Search!Base, u) /\ HasIn(results, alg, y, u) BY <1>2 DEF Searched
    <3> QED BY <1>1, <1>2, <3>1, RowClean
  <2>9. /\ t \notin run.registry.terminal
        /\ \A u \in Devs(run) : CleanOn(run, u, Find(results, alg, b, u), Find(results, alg, t, u))
    <3>1. ~ rowOf(t).barred /\ rowOf(t).faults = 0 BY <2>2, <2>5
    <3> QED BY <2>5, <2>7, <2>8, <3>1
  <2>10. \A u \in Devs(run) : /\ Find(results, alg, t, u).pass
                              /\ \A m \in Search!MetricsFor(run, u) :
                                    /\ Find(results, alg, t, u).m[m] # None
                                    /\ ~ Search!LostOn(run.space, m, Find(results, alg, b, u), Find(results, alg, t, u))
    BY <2>9 DEF CleanOn, Search!Regressed
  <2>11. ASSUME NEW y \in Search!Candidates(run.space), NEW u \in Devs(run), NEW m \in Search!MetricsFor(run, u)
         PROVE  Find(results, alg, y, u).m[m] \in Int \cup {None}
    <3>1. Search!ReportOK(run, Find(results, alg, y, u)) BY FoundOK DEF Searched
    <3>2. m \in DOMAIN run.space.scope BY <1>1, SomeMetrics
    <3> QED BY <3>1, <3>2 DEF Search!ReportOK
  <2>12. ASSUME NEW y \in Search!Candidates(run.space), Outdone(run, results, alg, t, y) PROVE FALSE
    <3> DEFINE base(u) == Find(results, alg, b, u)
               cand(u) == Find(results, alg, t, u)
               rival(u) == Find(results, alg, y, u)
    <3>1. ASSUME NEW u \in Devs(run), NEW m \in Search!MetricsFor(run, u)
          PROVE  /\ base(u).m[m] \in Int /\ cand(u).m[m] \in Int /\ rival(u).m[m] \in Int
                 /\ cand(u).m[m] <= rival(u).m[m] /\ base(u).m[m] - cand(u).m[m] <= run.space.maxRegression
      <4>1. base(u).m[m] \in Int /\ cand(u).m[m] \in Int BY <1>2, <2>5, <2>10, <2>11
      <4>2. rival(u).m[m] # None /\ rival(u).m[m] >= cand(u).m[m] BY <2>12 DEF Outdone
      <4>3. rival(u).m[m] \in Int BY <2>11, <4>2
      <4>4. run.space.maxRegression \in Int BY <1>1 DEF Search!RunOK
      <4>5. ~ (base(u).m[m] - cand(u).m[m] > run.space.maxRegression) BY <2>10 DEF Search!LostOn
      <4> QED BY <4>1, <4>2, <4>3, <4>4, <4>5
    <3>2. ASSUME NEW u \in Devs(run) PROVE CleanOn(run, u, base(u), rival(u))
      <4>1. rival(u).pass /\ ~ Search!CaseBroken(run.space, base(u), rival(u)) BY <2>12 DEF Outdone
      <4>2. ASSUME NEW m \in Search!MetricsFor(run, u)
            PROVE  rival(u).m[m] # None /\ ~ Search!LostOn(run.space, m, base(u), rival(u))
        <5>1. rival(u).m[m] # None BY <2>12 DEF Outdone
        <5>2. run.space.maxRegression \in Int BY <1>1 DEF Search!RunOK
        <5>3. ~ (base(u).m[m] - rival(u).m[m] > run.space.maxRegression) BY <3>1, <5>2
        <5> QED BY <5>1, <5>3 DEF Search!LostOn
      <4> QED BY <4>1, <4>2 DEF CleanOn, Search!Regressed
    <3>3. ~ rowOf(y).barred BY <2>7, <2>12 DEF Outdone
    <3>4. rowOf(y).faults = 0 BY <2>8, <3>2
    <3>5. ~ Search!Dominates(rowOf(y), rowOf(t)) BY <2>2, <2>5, <2>6, <3>3, <3>4
    <3>6. \E u \in Devs(run) : \E m \in Search!MetricsFor(run, u) : rival(u).m[m] > cand(u).m[m] BY <2>12 DEF Outdone
    <3>7. PICK v \in Devs(run) : \E m \in Search!MetricsFor(run, v) : rival(v).m[m] > cand(v).m[m] BY <3>6
    <3>8. PICK n \in Search!MetricsFor(run, v) : rival(v).m[n] > cand(v).m[n] BY <3>7
    <3>9. cand(v).m[n] < rival(v).m[n] BY <3>1, <3>8
    <3> DEFINE B == Search!Reports(alg, Search!Base)
               C == Search!Reports(alg, t)
               D == Search!Reports(alg, y)
    <3>10. /\ Search!Dev = Devs(run)
           /\ \A u \in Devs(run) : B[u] = base(u) /\ C[u] = cand(u) /\ D[u] = rival(u)
      BY <1>2, ReportsAre
    <3> HIDE DEF B, C, D, base, cand, rival
    <3>11. \A u \in Search!Dev : \A m \in Search!MetricsFor(run, u) :
               B[u].m[m] \in Int /\ C[u].m[m] \in Int /\ D[u].m[m] \in Int /\ C[u].m[m] <= D[u].m[m]
      BY <3>1, <3>10
    <3>12. \E u \in Search!Dev : \E m \in Search!MetricsFor(run, u) : C[u].m[m] < D[u].m[m] BY <3>8, <3>9, <3>10
    <3>13. Search!Dominates(Search!Row(y, B, D, Search!Terminal(run.registry.terminal, y)),
                            Search!Row(t, B, C, Search!Terminal(run.registry.terminal, t)))
      BY <1>1, <3>11, <3>12, RivalDominates
    <3> QED BY <3>5, <3>13 DEF B, C, D
  <2>13. \A u \in Devs(run) : Find(results, alg, t, u).pass BY <2>10
  <2>14. \A y \in Search!Candidates(run.space) : ~ Outdone(run, results, alg, t, y) BY <2>12
  <2> QED BY <1>4, <2>5, <2>9, <2>13, <2>14 DEF SelectedWell
<1> QED BY <1>3, <1>4

LEMMA ScoresCompare ==
  ASSUME Search!RunOK(run), None \notin Int, NEW u, NEW base, NEW cand, NEW rival,
         Search!ReportOK(run, base), Search!ReportOK(run, cand), Search!ReportOK(run, rival),
         \A m \in Search!MetricsFor(run, u) :
             base.m[m] # None /\ cand.m[m] # None /\ rival.m[m] # None /\ rival.m[m] >= cand.m[m],
         \E m \in Search!MetricsFor(run, u) : rival.m[m] > cand.m[m]
  PROVE  Search!Score(Search!MetricsFor(run, u), base, cand) < Search!Score(Search!MetricsFor(run, u), base, rival)
<1> DEFINE ms == Search!MetricsFor(run, u)
           f == [m \in ms |-> cand.m[m] - base.m[m]]
           g == [m \in ms |-> rival.m[m] - base.m[m]]
<1>1. ms \subseteq DOMAIN run.space.scope /\ IsFiniteSet(ms) BY SomeMetrics
<1>2. \A m \in ms : base.m[m] \in Int /\ cand.m[m] \in Int /\ rival.m[m] \in Int BY <1>1 DEF Search!ReportOK
<1>3. Search!Score(ms, base, cand) = Search!Total(f) /\ Search!Score(ms, base, rival) = Search!Total(g)
  BY DEF Search!Score
<1>4. DOMAIN f = ms /\ DOMAIN g = ms /\ \A m \in ms : f[m] = cand.m[m] - base.m[m] /\ g[m] = rival.m[m] - base.m[m] OBVIOUS
<1>5. PICK n \in ms : rival.m[n] > cand.m[n] OBVIOUS
<1>6. \A m \in ms : rival.m[m] >= cand.m[m] OBVIOUS
<1> HIDE DEF f, g, ms
<1>7. \A m \in DOMAIN f : f[m] \in Int /\ g[m] \in Int /\ f[m] <= g[m] BY <1>2, <1>4, <1>6
<1>8. f[n] < g[n] BY <1>2, <1>4, <1>5
<1>9. Search!Total(f) < Search!Total(g) BY <1>1, <1>4, <1>7, <1>8, TotalsCompare
<1> QED BY <1>3, <1>9 DEF ms

LEMMA IterationSelects ==
  ASSUME run \in Runs, Search!Admitted(run), run.mode = "iterate", alg = Head(run.algorithms),
         \A k \in DOMAIN results : Search!ReportOK(run, results[k]), Searched(run, results, alg),
         \A u \in Devs(run) : \A m \in Search!MetricsFor(run, u) : Find(results, alg, run.space.baseline, u).m[m] # None,
         NEW t \in Search!IterationPicks
  PROVE  SelectedWell(run, results, alg, t)
<1> DEFINE b == run.space.baseline
           one == CHOOSE u \in Search!Dev : TRUE
           base == Search!DevBase(Search!BaseAlg, one)
           cand(x) == Search!ReportOf(Search!BaseAlg, x, one)
           score(x) == Search!Score(DOMAIN run.space.scope, base, cand(x))
           fit == {x \in Search!Candidates(run.space) : cand(x).pass /\ ~ Search!CaseBroken(run.space, base, cand(x))}
           best == {x \in fit : \A o \in fit : score(o) <= score(x)}
<1>1. Search!RunOK(run) /\ SpaceOK(run.space) /\ None \notin Int BY RunsAre, SearchSpace, NoneIs
<1>2. b \in Search!Candidates(run.space) /\ Search!Base = b /\ Search!BaseAlg = alg BY <1>1, BaselineMoves DEF Search!Base, Search!BaseAlg
<1>3. CASE t = b BY <1>2, <1>3 DEF SelectedWell
<1>4. CASE t # b
  <2>1. t \in IF fit = {} THEN {Search!Base} ELSE {IF score(x) < run.space.minScore THEN Search!Base ELSE x : x \in best}
    BY DEF Search!IterationPicks
  <2>2. t \in best /\ ~ (score(t) < run.space.minScore)
    <3> HIDE DEF fit, best, score
    <3> QED BY <1>2, <1>4, <2>1
  <2>3. t \in fit /\ \A o \in fit : score(o) <= score(t) BY <2>2
  <2>4. Devs(run) = {one}
    <3>1. Search!Cardinality({u \in run.units : u.role = "development"}) = 1 BY <1>1 DEF Search!RunOK
    <3>2. Devs(run) = {u \in run.units : u.role = "development"} /\ Search!Dev = Devs(run)
      BY DEF Devs, Search!Dev, Search!UnitsOf
    <3>3. Cardinality(Devs(run)) = 1 /\ IsFiniteSet(Devs(run)) BY <1>1, <3>1, <3>2, SearchCardinality, SomeMetrics
    <3>4. \E u : Devs(run) = {u} BY <3>3, FS_Singleton
    <3> QED BY <3>2, <3>4
  <2>5. Search!MetricsFor(run, one) = DOMAIN run.space.scope BY DEF Search!MetricsFor
  <2>6. base = Find(results, alg, b, one) /\ \A x : cand(x) = Find(results, alg, x, one)
    BY <1>2, FoundIs DEF Search!DevBase
  <2>7. \A x : score(x) = Search!Score(Search!MetricsFor(run, one), base, cand(x)) BY <2>5
  <2>8. \A x \in Search!Candidates(run.space) : Search!ReportOK(run, cand(x)) BY <2>4, <2>6, FoundOK DEF Searched
  <2>9. Search!ReportOK(run, base) BY <1>2, <2>6, <2>8
  <2>10. \A m \in Search!MetricsFor(run, one) : base.m[m] # None BY <2>4, <2>6
  <2>11. \A x \in fit : x \in Search!Candidates(run.space) /\ cand(x).pass BY DEF fit
  <2>12. \A x \in Search!Candidates(run.space) : x \in fit <=> cand(x).pass /\ ~ Search!CaseBroken(run.space, base, cand(x)) BY DEF fit
  <2>13. run.space.minScore >= 0 /\ run.space.minScore \in Int BY <1>1 DEF Search!Admitted, Search!SpaceValid, Search!RunOK
  <2> HIDE DEF best, fit, score, cand, base, one
  <2>14. ASSUME NEW x \in Search!Candidates(run.space) PROVE score(x) \in Int BY <1>1, <2>7, <2>8, <2>9, <2>10, ScoreTyped
  <2>15. \A m \in Search!MetricsFor(run, one) : cand(t).m[m] # None
    <3> SUFFICES ASSUME NEW m \in Search!MetricsFor(run, one), cand(t).m[m] = None PROVE FALSE OBVIOUS
    <3>1. score(t) = -99 BY <2>7 DEF Search!Score, Search!Penalty
    <3> QED BY <2>2, <2>13, <3>1
  <2>16. ASSUME NEW y \in Search!Candidates(run.space), Outdone(run, results, alg, t, y) PROVE FALSE
    <3>1. /\ cand(y).pass /\ ~ Search!CaseBroken(run.space, base, cand(y))
          /\ \A m \in Search!MetricsFor(run, one) : cand(y).m[m] # None /\ cand(y).m[m] >= cand(t).m[m]
      BY <2>4, <2>6, <2>16 DEF Outdone
    <3>2. \E m \in Search!MetricsFor(run, one) : cand(y).m[m] > cand(t).m[m] BY <2>4, <2>6, <2>16 DEF Outdone
    <3>3. y \in fit BY <2>12, <3>1
    <3>4. t \in Search!Candidates(run.space) BY <2>3, <2>11
    <3>5. score(t) < score(y) BY <1>1, <2>7, <2>8, <2>9, <2>10, <2>15, <3>1, <3>2, <3>4, ScoresCompare
    <3>6. score(y) <= score(t) BY <2>3, <3>3
    <3> QED BY <2>14, <3>4, <3>5, <3>6
  <2>17. \A u \in Devs(run) : Find(results, alg, t, u).pass BY <2>3, <2>4, <2>6, <2>11
  <2>18. t \in Search!Candidates(run.space) BY <2>3, <2>11
  <2> QED BY <2>16, <2>17, <2>18 DEF SelectedWell
<1> QED BY <1>3, <1>4

LEMMA SelectKeeps == ASSUME SearchInv, Search!Select PROVE SearchInv'
<1>1. Search!Idle("search") /\ UNCHANGED <<run, disk, results, running, broken, alg, decision>> BY DEF Search!Select
<1>2. /\ stage = "search" /\ todo = <<>> /\ running = {} /\ broken = {} /\ Live(results, todo, running) \cup broken = DOMAIN results
      /\ Single(DOMAIN results) /\ \A k \in DOMAIN results : Search!ReportOK(run, results[k])
      /\ \A p \in DOMAIN disk : Search!ReportOK(run, disk[p])
  BY <1>1, IdleRead
<1>3. run \in Runs /\ Search!RunOK(run) BY RunsAre DEF SearchInv, SearchInvOf
<1>4. chosen = None /\ adjacent = None /\ decision = None BY <1>2 DEF SearchInv, SearchInvOf, StageOK
<1>5. /\ Search!Admitted(run) /\ AlgKept(run, results, alg)
      /\ \A t \in Search!Candidates(run.space) : \A u \in Devs(run) : Covered(DOMAIN results, alg, t, u)
  BY <1>2 DEF SearchInv, SearchInvOf, AskedOK
<1>6. Searched(run, results, alg) BY <1>5, CoveredRead DEF Searched
<1>7. Search!Base = run.space.baseline /\ Search!Mode = run.mode /\ Search!Dev = Devs(run) BY DEF Search!Base, Search!Mode, Search!Dev, Devs
<1> DEFINE stuck == Search!CannotRank(alg)
                    \/ (Search!Mode # "iterate" /\ Search!Cardinality(Search!Frontier(Search!TuningRows)) > run.space.maxPareto)
<1>8. CASE stuck
  <2>1. stage' = "aborted" /\ todo' = <<>> /\ chosen' = chosen /\ adjacent' = adjacent
    BY <1>8 DEF Search!Select, Search!Abort
  <2> QED BY <1>1, <1>2, <1>4, <2>1, AbortKeeps
<1>9. CASE ~ stuck
  <2>1. PICK t \in IF Search!Mode = "iterate" THEN Search!IterationPicks ELSE Search!Picks(Search!TuningRows, Search!Base) :
            /\ chosen' = t
            /\ stage' = "holdout" /\ todo' = Search!HoldoutTasks(alg, t)
            /\ adjacent' = [seen |-> Search!Neighbours(run.space, t) \cap Search!Candidates(run.space),
                            unseen |-> Search!Neighbours(run.space, t) \ Search!Candidates(run.space)]
    BY <1>9 DEF Search!Select
  <2>2. \A u \in Devs(run) : \A m \in Search!MetricsFor(run, u) : Find(results, alg, run.space.baseline, u).m[m] # None
    <3>1. ~ Search!CannotRank(alg) BY <1>9
    <3>2. \A u \in Search!Dev : ~ Search!Unjudgeable(Search!MetricsFor(run, u), Search!DevBase(alg, u))
      BY <3>1 DEF Search!CannotRank
    <3>3. \A u \in Devs(run) : Search!DevBase(alg, u) = Find(results, alg, run.space.baseline, u)
      BY <1>7, FoundIs DEF Search!DevBase
    <3> QED BY <1>7, <3>2, <3>3 DEF Search!Unjudgeable
  <2>3. SelectedWell(run, results, alg, t)
    <3>1. CASE run.mode = "iterate"
      <4>1. alg = Head(run.algorithms) BY <1>5, <3>1 DEF AlgKept
      <4> QED BY <1>2, <1>3, <1>5, <1>6, <1>7, <2>1, <2>2, <3>1, <4>1, IterationSelects
    <3>2. CASE run.mode # "iterate" BY <1>2, <1>3, <1>5, <1>6, <1>7, <2>1, <2>2, <3>2, RankSelects
    <3> QED BY <3>1, <3>2
  <2>4. /\ PoolOK(run, disk, results, todo', {})
        /\ \A u \in Search!HoldoutUnits(run) :
              /\ Covered(Live(results, todo', {}) \cup {}, Head(run.algorithms), run.space.baseline, u)
              /\ Covered(Live(results, todo', {}) \cup {}, alg, t, u)
    BY <1>2, <1>3, <2>1, HoldoutAsks
  <2>5. AskedOK(run, results, Live(results, todo', {}) \cup {}, "holdout", alg, t) BY <1>5, <2>4 DEF AskedOK
  <2>6. ChosenOK(run, results, "holdout", alg, t, adjacent') BY <1>5, <1>6, <2>1, <2>3 DEF ChosenOK
  <2>7. StageOK(run, disk, results, "holdout", todo', {}, {}, t, adjacent', None) BY DEF StageOK
  <2>8. SearchInvOf(run, disk, results, "holdout", todo', {}, {}, alg, t, adjacent', None)
    BY <1>3, <2>4, <2>5, <2>6, <2>7, NoneIs DEF SearchInvOf
  <2> QED BY <1>1, <1>2, <1>4, <2>1, <2>8 DEF SearchInv
<1> QED BY <1>8, <1>9

LEMMA DecideKeeps == ASSUME SearchInv, Search!Decide PROVE SearchInv'
<1>1. Search!Idle("holdout") /\ UNCHANGED <<run, disk, results, running, broken, alg, chosen, adjacent>> BY DEF Search!Decide
<1>2. /\ stage = "holdout" /\ todo = <<>> /\ running = {} /\ broken = {} /\ Live(results, todo, running) \cup broken = DOMAIN results
      /\ Single(DOMAIN results) /\ \A k \in DOMAIN results : Search!ReportOK(run, results[k])
      /\ \A p \in DOMAIN disk : Search!ReportOK(run, disk[p])
  BY <1>1, IdleRead
<1>3. run \in Runs /\ Search!RunOK(run) /\ None \notin Int BY RunsAre, NoneIs DEF SearchInv, SearchInvOf
<1>4. decision = None BY <1>2 DEF SearchInv, SearchInvOf, StageOK
<1>5. /\ Search!Admitted(run) /\ AlgKept(run, results, alg)
      /\ \A u \in Search!HoldoutUnits(run) :
            Covered(DOMAIN results, Head(run.algorithms), run.space.baseline, u) /\ Covered(DOMAIN results, alg, chosen, u)
  BY <1>2 DEF SearchInv, SearchInvOf, AskedOK
<1>6. /\ Search!Base = run.space.baseline /\ Search!BaseAlg = Head(run.algorithms) /\ Search!Mode = run.mode
  BY DEF Search!Base, Search!BaseAlg, Search!Mode
<1> DEFINE base(u) == Search!ReportOf(Search!BaseAlg, Search!Base, u)
           cand(u) == Search!ReportOf(alg, chosen, u)
           stuck == \E u \in Search!HoldoutUnits(run) :
                       \/ Search!Unjudgeable(Search!MetricsFor(run, u), base(u))
                       \/ Search!ScopedGateFails(run.space, base(u), cand(u))
<1>7. CASE stuck
  <2>1. stage' = "aborted" /\ todo' = <<>> /\ decision' = decision BY <1>7 DEF Search!Decide, Search!Abort
  <2> QED BY <1>1, <1>2, <1>4, <2>1, AbortKeeps
<1>8. CASE ~ stuck
  <2>1. /\ stage' = "done" /\ todo' = todo
        /\ decision' = CASE Search!Kept -> "keep"
                         [] ~ Search!Kept /\ Search!Refused -> "reject"
                         [] OTHER -> "freeze"
    BY <1>8 DEF Search!Decide
  <2>2. ASSUME decision' = "freeze" PROVE Withstood(run, results, alg, chosen)
    <3>1. ~ Search!Kept /\ ~ Search!Refused BY <2>1, <2>2
    <3>2. <<alg, chosen>> # <<Head(run.algorithms), run.space.baseline>> BY <1>6, <3>1 DEF Search!Kept
    <3>3. run.mode = "joint" => <<alg, chosen>> \notin run.registry.terminalJoint
      BY <1>6, <3>1 DEF Search!Refused, Search!Terminal
    <3>4. ASSUME NEW u \in Search!HoldoutUnits(run)
          PROVE  /\ Find(results, alg, chosen, u).pass
                 /\ run.mode # "iterate" => Find(results, Head(run.algorithms), run.space.baseline, u).pass
                 /\ \A m \in DOMAIN run.space.scope :
                       run.mode # "joint" \/ Search!Applies(run.space, m, u) =>
                           /\ Find(results, alg, chosen, u).m[m] # None
                           /\ Find(results, alg, chosen, u).m[m] + run.space.maxRegression
                                 >= Find(results, Head(run.algorithms), run.space.baseline, u).m[m]
      <4>1. ~ Search!HoldoutBroken(u) BY <3>1 DEF Search!Refused
      <4>2. base(u) = Find(results, Head(run.algorithms), run.space.baseline, u) /\ cand(u) = Find(results, alg, chosen, u)
        BY <1>6, FoundIs
      <4>3. /\ ~ Search!Regressed(run.space, Search!MetricsFor(run, u), base(u), cand(u))
            /\ ~ (run.mode # "iterate" /\ ~ base(u).pass)
        BY <1>6, <4>1 DEF Search!HoldoutBroken
      <4>4. ~ Search!Unjudgeable(Search!MetricsFor(run, u), base(u)) BY <1>8
      <4>5. Search!ReportOK(run, base(u)) /\ Search!ReportOK(run, cand(u))
        BY <1>2, <1>5, <4>2, CoveredRead, FoundOK
      <4> HIDE DEF base, cand, stuck
      <4>6. ASSUME NEW m \in DOMAIN run.space.scope, run.mode # "joint" \/ Search!Applies(run.space, m, u)
            PROVE  cand(u).m[m] # None /\ cand(u).m[m] + run.space.maxRegression >= base(u).m[m]
        <5>1. u.role # "development" BY DEF Search!HoldoutUnits
        <5>2. m \in Search!MetricsFor(run, u) BY <1>3, <4>6, <5>1 DEF Search!MetricsFor, Search!RunOK
        <5>3. cand(u).m[m] # None /\ ~ Search!LostOn(run.space, m, base(u), cand(u)) BY <4>3, <5>2 DEF Search!Regressed
        <5>4. base(u).m[m] # None BY <4>4, <5>2 DEF Search!Unjudgeable
        <5>5. base(u).m[m] \in Int /\ cand(u).m[m] \in Int BY <4>5, <5>3, <5>4 DEF Search!ReportOK
        <5>6. run.space.maxRegression \in Int BY <1>3 DEF Search!RunOK
        <5>7. ~ (base(u).m[m] - cand(u).m[m] > run.space.maxRegression) BY <5>3 DEF Search!LostOn
        <5> QED BY <5>3, <5>5, <5>6, <5>7
      <4>7. cand(u).pass BY <4>3 DEF Search!Regressed
      <4> QED BY <4>2, <4>3, <4>6, <4>7
    <3> QED BY <3>2, <3>3, <3>4 DEF Withstood
  <2>3. PoolOK(run, disk, results, <<>>, {}) BY <1>2 DEF SearchInv, SearchInvOf
  <2>4. AskedOK(run, results, Live(results, <<>>, {}) \cup {}, "done", alg, chosen) BY <1>5 DEF AskedOK
  <2>5. ChosenOK(run, results, "done", alg, chosen, adjacent) BY <1>2 DEF SearchInv, SearchInvOf, ChosenOK
  <2>6. StageOK(run, disk, results, "done", <<>>, {}, {}, chosen, adjacent, decision') BY DEF StageOK
  <2>7. SearchInvOf(run, disk, results, "done", <<>>, {}, {}, alg, chosen, adjacent, decision')
    BY <1>3, <2>2, <2>3, <2>4, <2>5, <2>6 DEF SearchInvOf
  <2> QED BY <1>1, <1>2, <2>1, <2>7 DEF SearchInv
<1> QED BY <1>7, <1>8

LEMMA SearchStays == ASSUME SearchInv, UNCHANGED searchVars PROVE SearchInv'
BY DEF SearchInv, searchVars
LEMMA SearchStep == ASSUME SearchInv, Search!Next PROVE SearchInv'
<1>1. CASE Search!Admit BY <1>1, AdmitKeeps
<1>2. CASE Search!StartTask BY <1>2, StartKeeps
<1>3. CASE Search!FinishTask BY <1>3, FinishKeeps
<1>4. CASE Search!CrashTask BY <1>4, CrashKeeps
<1>5. CASE Search!GiveUp BY <1>5, GiveUpKeeps
<1>6. CASE Search!ScreenAlgorithms BY <1>6, ScreenKeeps
<1>7. CASE Search!Select BY <1>7, SelectKeeps
<1>8. CASE Search!Decide BY <1>8, DecideKeeps
<1>9. CASE Search!Ended BY <1>9, SearchStays DEF Search!Ended, Search!vars, searchVars
<1> QED BY <1>1, <1>2, <1>3, <1>4, <1>5, <1>6, <1>7, <1>8, <1>9 DEF Search!Next

(***************************************************************************)
(* What follows                                                            *)
(***************************************************************************)
LEMMA FreezeFollows == ASSUME SearchInv PROVE Search!FreezeEarned
<1> SUFFICES ASSUME decision = "freeze" PROVE Search!FreezeEarned BY DEF Search!FreezeEarned
<1>1. Withstood(run, results, alg, chosen) BY DEF SearchInv, SearchInvOf
<1>2. stage = "done" BY NoneIs DEF SearchInv, SearchInvOf, StageOK
<1>3. Search!Admitted(run) /\ SelectedWell(run, results, alg, chosen) BY <1>2 DEF SearchInv, SearchInvOf, ChosenOK
<1>4. Search!Base = run.space.baseline /\ Search!BaseAlg = Head(run.algorithms) /\ Search!Mode = run.mode
  BY DEF Search!Base, Search!BaseAlg, Search!Mode
<1>5. \A a, t, u : Search!ReportOf(a, t, u) = Find(results, a, t, u) BY FoundIs
<1>6. <<alg, chosen>> # <<Search!BaseAlg, Search!Base>> BY <1>1, <1>4 DEF Withstood
<1>7. ASSUME NEW u \in Search!HoldoutUnits(run)
      PROVE  /\ Search!ReportOf(alg, chosen, u).pass
             /\ Search!Mode # "iterate" => Search!ReportOf(Search!BaseAlg, Search!Base, u).pass
             /\ \A m \in DOMAIN run.space.scope :
                   Search!Mode # "joint" \/ Search!Applies(run.space, m, u) =>
                       /\ Search!ReportOf(alg, chosen, u).m[m] # None
                       /\ Search!ReportOf(alg, chosen, u).m[m] + run.space.maxRegression
                             >= Search!ReportOf(Search!BaseAlg, Search!Base, u).m[m]
  BY <1>1, <1>4, <1>5 DEF Withstood
<1>8. ASSUME run.mode # "iterate", NEW u \in Search!Dev PROVE ~ run.registry.sets[u.dataset].frozen
  <2>1. Search!RegistryValid(run.registry) /\ Search!RunSpecValid(run) BY <1>3, <1>8 DEF Search!Admitted
  <2>2. u \in run.units /\ u.role = "development" BY DEF Search!Dev, Search!UnitsOf
  <2>3. Search!RoleAllowed(run.registry, u) BY <2>1, <2>2 DEF Search!RunSpecValid
  <2>4. u.dataset \in DOMAIN run.registry.sets /\ run.registry.sets[u.dataset].selects BY <2>2, <2>3 DEF Search!RoleAllowed
  <2> QED BY <2>1, <2>4 DEF Search!RegistryValid
<1>9. run.mode # "iterate" /\ chosen # Search!Base => chosen \notin run.registry.terminal BY <1>3, <1>4 DEF SelectedWell
<1>10. run.mode = "joint" => <<alg, chosen>> \notin run.registry.terminalJoint BY <1>1 DEF Withstood
<1> QED BY <1>4, <1>6, <1>7, <1>8, <1>9, <1>10 DEF Search!FreezeEarned

LEMMA SelectionFollows == ASSUME SearchInv PROVE Search!SelectionSound
<1> SUFFICES ASSUME chosen # None, chosen # Search!Base PROVE Search!SelectionSound BY DEF Search!SelectionSound
<1>1. SelectedWell(run, results, alg, chosen) BY DEF SearchInv, SearchInvOf, ChosenOK
<1>2. Search!Base = run.space.baseline /\ Search!Dev = Devs(run) BY DEF Search!Base, Search!Dev, Devs
<1>3. \A a, t, u : Search!ReportOf(a, t, u) = Find(results, a, t, u) BY FoundIs
<1>4. \A u : Search!DevBase(alg, u) = Find(results, alg, run.space.baseline, u) BY <1>2, <1>3 DEF Search!DevBase
<1>5. \A u \in Search!Dev : Search!ReportOf(alg, chosen, u).pass BY <1>1, <1>2, <1>3 DEF SelectedWell
<1>6. \A t \in Search!Candidates(run.space) : ~ Outdone(run, results, alg, chosen, t) BY <1>1, <1>2 DEF SelectedWell
<1> QED BY <1>2, <1>3, <1>4, <1>5, <1>6 DEF Search!SelectionSound, Outdone

LEMMA NeighboursFollow == ASSUME SearchInv PROVE Search!NeighboursAccounted
<1> SUFFICES ASSUME adjacent # None PROVE Search!NeighboursAccounted BY DEF Search!NeighboursAccounted
<1> DEFINE sp == run.space
<1>1. /\ Search!Admitted(run) /\ SelectedWell(run, results, alg, chosen)
      /\ adjacent = [seen |-> Search!Neighbours(sp, chosen) \cap Search!Candidates(sp),
                     unseen |-> Search!Neighbours(sp, chosen) \ Search!Candidates(sp)]
  BY DEF SearchInv, SearchInvOf, ChosenOK
<1>2. SpaceOK(sp) BY <1>1, RunsAre, SearchSpace DEF SearchInv, SearchInvOf
<1>3. chosen \in Search!Candidates(sp) BY <1>1 DEF SelectedWell
<1>4. Search!Base = sp.baseline BY DEF Search!Base
<1> HIDE DEF sp
<1>5. \A n \in Search!Neighbours(sp, chosen) :
          /\ n # chosen /\ Moves(sp, n)
          /\ (/\ sp.strategy = "cartesian"
              /\ \A k \in DOMAIN sp.grid : sp.baseline[k] \in Search!Range(sp.grid[k]))
                => n \in Search!Candidates(sp)
  BY <1>2, <1>3, NeighboursMove
<1>6. adjacent.seen \cup adjacent.unseen = Search!Neighbours(sp, chosen)
      /\ adjacent.unseen = Search!Neighbours(sp, chosen) \ Search!Candidates(sp)
  BY <1>1
<1>7. (/\ sp.strategy = "cartesian" /\ \A k \in DOMAIN sp.grid : Search!Base[k] \in Search!Range(sp.grid[k])) => adjacent.unseen = {}
  BY <1>4, <1>5, <1>6
<1>8. ASSUME NEW t \in adjacent.seen \cup adjacent.unseen
      PROVE  t # chosen /\ \A k \in DOMAIN t \ DOMAIN sp.grid : t[k] = Search!Base[k]
  BY <1>4, <1>5, <1>6 DEF Moves
<1> QED BY <1>7, <1>8 DEF Search!NeighboursAccounted, sp

\* What a summary of rows counts and names.
LEMMA SummaryNames ==
  ASSUME NEW rows, NEW base, NEW x \in Search!StageSummary(rows, base).highest \cup Search!StageSummary(rows, base).closest
  PROVE  \E r \in rows : r.id = x /\ r.id # base /\ ~ Search!Eligible(r)
BY DEF Search!StageSummary
LEMMA SummaryRepairs ==
  ASSUME NEW rows, NEW base, NEW x \in Search!StageSummary(rows, base).closest
  PROVE  \E r \in rows : r.id = x /\ r.id # base /\ r.faults > 0
BY DEF Search!StageSummary
LEMMA SummaryExplores ==
  ASSUME NEW rows, IsFiniteSet(rows), NEW base, NEW r \in rows, r.id # base, Search!Eligible(r)
  PROVE  Search!StageSummary(rows, base).eligible > 0
<1> DEFINE others == {o \in rows : o.id # base}
           refused == {o \in others : ~ Search!Eligible(o)}
           left == others \ refused
<1>1. Search!StageSummary(rows, base).eligible = Search!Cardinality(left) BY DEF Search!StageSummary
<1>2. left \in SUBSET rows /\ r \in left OBVIOUS
<1> HIDE DEF left
<1>3. IsFiniteSet(left) /\ left # {} BY <1>2, FS_Subset
<1>4. Cardinality(left) \in Nat /\ Cardinality(left) # 0 BY <1>3, FS_CardinalityType, FS_EmptySet
<1> QED BY <1>1, <1>4, SearchCardinality
LEMMA SummaryCloses ==
  ASSUME NEW rows, IsFiniteSet(rows), \A r \in rows : r.faults \in Nat /\ r.total \in Int /\ r.worst \in Int,
         NEW base, NEW r \in rows, r.id # base, r.faults > 0
  PROVE  Search!StageSummary(rows, base).closest # {}
<1> DEFINE others == {o \in rows : o.id # base}
           refused == {o \in others : ~ Search!Eligible(o)}
           repairable == {o \in refused : o.faults > 0}
           nearer(a, b) == a.faults < b.faults \/ (a.faults = b.faults /\ Search!Better(a, b))
<1>1. Search!StageSummary(rows, base).closest = {n.id : n \in {n \in repairable : \A o \in repairable : ~ nearer(o, n)}}
  BY DEF Search!StageSummary
<1>2. ~ Search!Eligible(r) BY DEF Search!Eligible
<1>3. repairable \in SUBSET rows /\ r \in repairable BY <1>2
<1> HIDE DEF repairable
<1>4. IsFiniteSet(repairable) /\ repairable # {} BY <1>3, FS_Subset
<1>5. \A n \in repairable : n.faults \in Nat /\ n.total \in Int /\ n.worst \in Int BY <1>3
<1>6. PICK n \in repairable : \A o \in repairable : ~ nearer(o, n) BY <1>4, <1>5, ClosestRow
<1> HIDE DEF nearer
<1>7. n.id \in Search!StageSummary(rows, base).closest BY <1>1, <1>6
<1> QED BY <1>7

LEMMA CurriculumFollows == ASSUME SearchInv PROVE Search!CurriculumSound
<1> SUFFICES ASSUME decision # None, Search!Mode = "joint" PROVE Search!CurriculumSound BY DEF Search!CurriculumSound
<1> DEFINE SA == Search!StageSummary(Search!AlgRows, Search!BaseAlg)
           SP == Search!StageSummary(Search!TuningRows, Search!Base)
           Hurt(x, a, t) == \E u \in Devs(run) : ~ CleanOn(run, u, Find(results, a, Search!Base, u), Find(results, x, t, u))
<1>1. stage = "done" /\ run \in Runs /\ Search!RunOK(run) BY RunsAre DEF SearchInv, SearchInvOf, StageOK
<1>2. /\ Search!Admitted(run) /\ Searched(run, results, alg) /\ SelectedWell(run, results, alg, chosen) /\ AlgKept(run, results, alg)
  BY <1>1 DEF SearchInv, SearchInvOf, ChosenOK, AskedOK
<1>3. \A k \in DOMAIN results : Search!ReportOK(run, results[k]) BY DEF SearchInv, SearchInvOf, PoolOK
<1>4. /\ Search!Base = run.space.baseline /\ Search!BaseAlg = Head(run.algorithms) /\ run.mode = "joint" /\ Search!Dev = Devs(run)
  BY DEF Search!Base, Search!BaseAlg, Search!Mode, Search!Dev, Devs
<1>5. SpaceOK(run.space) /\ Search!Base \in Search!Candidates(run.space) BY <1>1, <1>2, <1>4, SearchSpace, BaselineMoves
<1>6. alg \in Search!Range(run.algorithms) /\ Search!BaseAlg \in Search!Range(run.algorithms)
  BY <1>1, <1>2, <1>4, HeadInRange DEF AlgKept
<1>7. \A x \in Search!Range(run.algorithms) : \A u \in Devs(run) : HasIn(results, x, Search!Base, u)
  BY <1>2, <1>4 DEF AlgKept
<1> DEFINE algRow(x) == Search!Row(x, Search!Reports(Search!BaseAlg, Search!Base), Search!Reports(x, Search!Base), FALSE)
           tuningRow(t) == Search!Row(t, Search!Reports(alg, Search!Base), Search!Reports(alg, t),
                                      Search!Terminal(run.registry.terminal, t))
<1>8. Search!AlgRows = {algRow(x) : x \in Search!Range(run.algorithms)} BY DEF Search!AlgRows
<1>9. Search!TuningRows = {tuningRow(t) : t \in Search!Candidates(run.space)} BY DEF Search!TuningRows
<1>10. ASSUME NEW x \in Search!Range(run.algorithms)
       PROVE  /\ algRow(x).id = x /\ ~ algRow(x).barred /\ algRow(x).faults \in Nat
              /\ algRow(x).faults = 0 <=> ~ Hurt(x, Search!BaseAlg, Search!Base)
  <2>1. algRow(x).id = x BY DEF Search!Row
  <2>2. ~ algRow(x).barred BY DEF Search!Row
  <2>3. \A u \in Devs(run) : HasIn(results, Search!BaseAlg, Search!Base, u) /\ HasIn(results, x, Search!Base, u)
    BY <1>6, <1>7
  <2>4. /\ algRow(x).faults \in Nat
        /\ algRow(x).faults = 0 <=> \A u \in Devs(run) :
              CleanOn(run, u, Find(results, Search!BaseAlg, Search!Base, u), Find(results, x, Search!Base, u))
    BY <1>1, <1>3, <2>3, RowClean
  <2> HIDE DEF algRow
  <2> QED BY <2>1, <2>2, <2>4
<1>11. ASSUME NEW t \in Search!Candidates(run.space)
       PROVE  /\ tuningRow(t).id = t /\ (tuningRow(t).barred <=> t \in run.registry.terminal) /\ tuningRow(t).faults \in Nat
              /\ tuningRow(t).faults = 0 <=> ~ Hurt(alg, alg, t)
  <2>1. tuningRow(t).id = t BY DEF Search!Row
  <2>2. tuningRow(t).barred <=> t \in run.registry.terminal
    <3>1. tuningRow(t).barred = Search!Terminal(run.registry.terminal, t) BY DEF Search!Row
    <3> QED BY <3>1 DEF Search!Terminal
  <2>3. \A u \in Devs(run) : HasIn(results, alg, Search!Base, u) /\ HasIn(results, alg, t, u) BY <1>2, <1>5 DEF Searched
  <2>4. /\ tuningRow(t).faults \in Nat
        /\ tuningRow(t).faults = 0 <=> \A u \in Devs(run) :
              CleanOn(run, u, Find(results, alg, Search!Base, u), Find(results, alg, t, u))
    BY <1>1, <1>3, <2>3, RowClean
  <2> HIDE DEF tuningRow
  <2> QED BY <2>1, <2>2, <2>4
<1>12. ASSUME NEW t \in Search!Candidates(run.space) PROVE tuningRow(t).total \in Int /\ tuningRow(t).worst \in Int
  <2> DEFINE B == Search!Reports(alg, Search!Base)
             C == Search!Reports(alg, t)
  <2>1. \A u \in Devs(run) : B[u] = Find(results, alg, Search!Base, u) /\ C[u] = Find(results, alg, t, u) BY ReportsAre
  <2>2. \A u \in Devs(run) : HasIn(results, alg, Search!Base, u) /\ HasIn(results, alg, t, u) BY <1>2, <1>5 DEF Searched
  <2> HIDE DEF B, C
  <2>3. \A u \in Search!Dev : Search!ReportOK(run, B[u]) /\ Search!ReportOK(run, C[u]) BY <1>3, <1>4, <2>1, <2>2, FoundOK
  <2>4. \A u \in Search!Dev : \A m \in Search!MetricsFor(run, u) : B[u].m[m] # None BY <1>2, <1>4, <2>1 DEF SelectedWell
  <2>5. Search!Dev # {}
    <3> DEFINE seeds == {u.seed : u \in Search!UnitsOf(run, "development")}
    <3>1. Search!Cardinality(seeds) >= 2 BY <1>2, <1>4 DEF Search!Admitted, Search!RunSpecValid
    <3>2. Cardinality({}) = 0 BY FS_EmptySet
    <3>3. seeds # {}
      <4> HIDE DEF seeds
      <4> QED BY <3>1, <3>2, SearchCardinality
    <3> QED BY <3>3 DEF Search!Dev
  <2>6. /\ Search!Row(t, B, C, Search!Terminal(run.registry.terminal, t)).total \in Int
        /\ Search!Row(t, B, C, Search!Terminal(run.registry.terminal, t)).worst \in Int
    BY <1>1, NoneIs, <2>3, <2>4, <2>5, RowTyped
  <2> QED BY <2>6 DEF B, C
<1> HIDE DEF algRow, tuningRow
<1>13. IsFiniteSet(Search!AlgRows)
  <2>1. run.algorithms \in Seq(STRING) BY <1>1 DEF Search!RunOK
  <2>2. IsFiniteSet(Search!Range(run.algorithms)) BY <2>1, RangeIsFinite
  <2> DEFINE h == [x \in Search!Range(run.algorithms) |-> algRow(x)]
  <2>3. h \in Surjection(Search!Range(run.algorithms), Search!AlgRows) BY <1>8 DEF Surjection
  <2> HIDE DEF h
  <2> QED BY <2>2, <2>3, FS_Surjection
<1>14. IsFiniteSet(Search!TuningRows)
  <2>1. IsFiniteSet(Search!Candidates(run.space)) BY <1>5, CandidatesFinite
  <2> DEFINE h == [t \in Search!Candidates(run.space) |-> tuningRow(t)]
  <2>2. h \in Surjection(Search!Candidates(run.space), Search!TuningRows) BY <1>9 DEF Surjection
  <2> HIDE DEF h
  <2> QED BY <2>1, <2>2, FS_Surjection
<1>15. alg # Search!BaseAlg => ~ Hurt(alg, Search!BaseAlg, Search!Base) BY <1>2, <1>4 DEF AlgKept
<1>16. chosen \in Search!Candidates(run.space)
       /\ (chosen # Search!Base => chosen \notin run.registry.terminal /\ ~ Hurt(alg, alg, chosen))
  BY <1>2, <1>4 DEF SelectedWell
<1> HIDE DEF Hurt, SA, SP
<1>17. alg # Search!BaseAlg => Search!Eligible(algRow(alg)) BY <1>6, <1>10, <1>15 DEF Search!Eligible
<1>18. chosen # Search!Base => Search!Eligible(tuningRow(chosen)) BY <1>11, <1>16 DEF Search!Eligible
<1>19. alg # Search!BaseAlg => SA.eligible > 0
  <2>1. algRow(alg) \in Search!AlgRows /\ algRow(alg).id = alg BY <1>6, <1>8, <1>10
  <2> QED BY <1>13, <1>17, <2>1, SummaryExplores DEF SA
<1>20. chosen # Search!Base => SP.eligible > 0
  <2>1. tuningRow(chosen) \in Search!TuningRows /\ tuningRow(chosen).id = chosen BY <1>9, <1>11, <1>16
  <2> QED BY <1>14, <1>18, <2>1, SummaryExplores DEF SP
<1>21. alg \notin SA.highest \cup SA.closest
  <2> SUFFICES ASSUME alg \in SA.highest \cup SA.closest PROVE FALSE OBVIOUS
  <2>1. PICK r \in Search!AlgRows : r.id = alg /\ r.id # Search!BaseAlg /\ ~ Search!Eligible(r) BY SummaryNames DEF SA
  <2>2. PICK x \in Search!Range(run.algorithms) : r = algRow(x) BY <1>8
  <2>3. x = alg BY <1>10, <2>1, <2>2
  <2> QED BY <1>17, <2>1, <2>2, <2>3
<1>22. chosen \notin SP.highest \cup SP.closest
  <2> SUFFICES ASSUME chosen \in SP.highest \cup SP.closest PROVE FALSE OBVIOUS
  <2>1. PICK r \in Search!TuningRows : r.id = chosen /\ r.id # Search!Base /\ ~ Search!Eligible(r) BY SummaryNames DEF SP
  <2>2. PICK t \in Search!Candidates(run.space) : r = tuningRow(t) BY <1>9
  <2>3. t = chosen BY <1>11, <2>1, <2>2
  <2> QED BY <1>18, <2>1, <2>2, <2>3
<1>23. ASSUME NEW x \in SA.closest PROVE Hurt(x, Search!BaseAlg, Search!Base)
  <2>1. PICK r \in Search!AlgRows : r.id = x /\ r.id # Search!BaseAlg /\ r.faults > 0 BY SummaryRepairs DEF SA
  <2>2. PICK y \in Search!Range(run.algorithms) : r = algRow(y) BY <1>8
  <2>3. y = x BY <1>10, <2>1, <2>2
  <2>4. algRow(y).faults # 0 BY <2>1, <2>2
  <2> QED BY <1>10, <2>3, <2>4
<1>24. ASSUME NEW t \in SP.closest PROVE Hurt(alg, alg, t)
  <2>1. PICK r \in Search!TuningRows : r.id = t /\ r.id # Search!Base /\ r.faults > 0 BY SummaryRepairs DEF SP
  <2>2. PICK y \in Search!Candidates(run.space) : r = tuningRow(y) BY <1>9
  <2>3. y = t BY <1>11, <2>1, <2>2
  <2>4. tuningRow(y).faults # 0 BY <2>1, <2>2
  <2> QED BY <1>11, <2>3, <2>4
<1>25. ASSUME NEW t \in Search!Candidates(run.space) \ {Search!Base}, Hurt(alg, alg, t) PROVE SP.closest # {}
  <2>1. tuningRow(t) \in Search!TuningRows /\ tuningRow(t).id # Search!Base BY <1>9, <1>11
  <2>2. tuningRow(t).faults > 0
    <3>1. tuningRow(t).faults \in Nat /\ tuningRow(t).faults # 0 BY <1>11, <1>25
    <3> QED BY <3>1
  <2>3. \A r \in Search!TuningRows : r.faults \in Nat /\ r.total \in Int /\ r.worst \in Int BY <1>9, <1>11, <1>12
  <2> QED BY <1>14, <2>1, <2>2, <2>3, SummaryCloses DEF SP
<1>26. ASSUME NEW x, NEW a, NEW t
       PROVE  Hurt(x, a, t)
              <=> \E u \in Search!Dev :
                    \/ Search!Regressed(run.space, Search!MetricsFor(run, u), Search!ReportOf(a, Search!Base, u), Search!ReportOf(x, t, u))
                    \/ Search!CaseBroken(run.space, Search!ReportOf(a, Search!Base, u), Search!ReportOf(x, t, u))
  BY <1>4, FoundIs DEF Hurt, CleanOn
<1>27. /\ Search!MineSelection["algorithm"].summary = SA /\ Search!MineSelection["parameter"].summary = SP
       /\ (Search!MineSelection["algorithm"].explore <=> SA.eligible > 0)
       /\ (Search!MineSelection["parameter"].explore <=> SP.eligible > 0)
  BY DEF Search!MineSelection, SA, SP
<1> DEFINE worse(x, a, t) ==
      \E u \in Search!Dev :
          \/ Search!Regressed(run.space, Search!MetricsFor(run, u), Search!ReportOf(a, Search!Base, u), Search!ReportOf(x, t, u))
          \/ Search!CaseBroken(run.space, Search!ReportOf(a, Search!Base, u), Search!ReportOf(x, t, u))
           c == Search!MineSelection
<1>28. (alg # Search!BaseAlg => c["algorithm"].explore) /\ (chosen # Search!Base => c["parameter"].explore) BY <1>19, <1>20, <1>27
<1>29. /\ alg \notin c["algorithm"].summary.highest \cup c["algorithm"].summary.closest
       /\ chosen \notin c["parameter"].summary.highest \cup c["parameter"].summary.closest
  BY <1>21, <1>22, <1>27
<1>30. \A x \in c["algorithm"].summary.closest : worse(x, Search!BaseAlg, Search!Base) BY <1>23, <1>26, <1>27
<1>31. \A t \in c["parameter"].summary.closest : worse(alg, alg, t) BY <1>24, <1>26, <1>27
<1>32. c["parameter"].summary.closest = {} =>
          \A t \in Search!Candidates(run.space) \ {Search!Base} : worse(alg, alg, t) => t \in run.registry.terminal
  BY <1>25, <1>26, <1>27
<1> QED BY <1>28, <1>29, <1>30, <1>31, <1>32 DEF Search!CurriculumSound

\* Whatever is searched, what is selected was earned, what is handed on withstood the holdouts, the
\* neighbours are those of the space, and the curriculum agrees with the decision (SearchSound).
THEOREM SearchSoundHolds == SumSpec => []SearchSound
<1> DEFINE Inv == which = "search" => SearchInv
<1>1. SumInit => Inv BY SearchStarts DEF SumInit
<1>2. Inv /\ [SumNext]_sumVars => Inv'
  <2> SUFFICES ASSUME Inv, [SumNext]_sumVars, which' = "search" PROVE SearchInv' OBVIOUS
  <2>1. CASE UNCHANGED sumVars BY <2>1, SearchStays DEF sumVars
  <2>2. CASE SumNext
    <3>1. which = "search" BY <2>2 DEF SumNext
    <3>2. SearchInv /\ Search!Next BY <2>2, <3>1 DEF SumNext
    <3> QED BY <3>2, SearchStep
  <2> QED BY <2>1, <2>2
<1>3. Inv => SearchSound BY FreezeFollows, SelectionFollows, NeighboursFollow, CurriculumFollows DEF SearchSound
<1> QED BY <1>1, <1>2, <1>3, PTL DEF SumSpec
=============================================================================
