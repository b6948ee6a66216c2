------------------------------ MODULE GateProofs ------------------------------
(***************************************************************************)
(* What decides on a commit, for every set of files, contents, paths,      *)
(* pull requests, pushes and plans: the transport of evidence between      *)
(* jobs, the gate of a pull request, the review of pinned actions and the  *)
(* plan of the research program.                                           *)
(***************************************************************************)
EXTENDS MC_Gate, WellFoundedInduction, TLAPS

(***************************************************************************)
(* The transport of evidence                                               *)
(***************************************************************************)
\* What an inventory takes of a file is what the file is; what it had taken stays.
LEMMA TookType ==
    ASSUME NEW inv \in Inventories, NEW f \in Files, tree \in Trees
    PROVE  /\ Took(inv, f) \in Inventories /\ DOMAIN Took(inv, f) = DOMAIN inv \cup {f}
           /\ Took(inv, f)[f] = tree[f]
           /\ \A g \in DOMAIN inv : g # f => Took(inv, f)[g] = inv[g]
<1>1. PICK s \in SUBSET Files : inv \in [s -> Found]
      BY DEF Inventories
<1>2. Took(inv, f) \in [s \cup {f} -> Found]
      BY <1>1 DEF Took, Trees
<1>3. s \cup {f} \in SUBSET Files
      OBVIOUS
<1>4. Took(inv, f) \in Inventories
      BY <1>2, <1>3 DEF Inventories
<1>5. QED
      BY <1>1, <1>4 DEF Took

\* The first step: nothing is taken, published or restored yet.
LEMMA SnapshotInit == Init => Snapshot
<1>1. SUFFICES ASSUME Init PROVE Snapshot
      OBVIOUS
<1>2. Nothing \in Inventories
  <2>1. Nothing \in [{} -> Found]
        BY DEF Nothing
  <2>2. QED
        BY <2>1 DEF Inventories
<1>3. TypeOK
      BY <1>1, <1>2 DEF Init, TypeOK, Trees, Found
<1>4. ~Verified
      BY <1>1 DEF Init, Verified, NoBundle
<1>5. QED
      BY <1>1, <1>3, <1>4 DEF Init, Snapshot, UsedKept, ChangeLasts, PackedIsSnapshot,
         InOrder, BundleGenuine, RestoredIsSnapshot, Trees, Nothing

\* A write gives a file a content it never had: what was read of it stays in the past.
LEMMA SnapshotWrite == ASSUME Snapshot, NEW f \in Files, Write(f) PROVE Snapshot'
<1>1. PICK c \in Found \ used[f] : /\ tree' = [tree EXCEPT ![f] = c]
                                   /\ used' = [used EXCEPT ![f] = @ \cup {c}]
      BY DEF Write
<1>2. UNCHANGED <<phase, first, second, objects, mid, bundle, output, receiver>>
      BY DEF Write, packVars, receiverVars
<1>3. TypeOK'
      BY <1>1, <1>2 DEF Snapshot, TypeOK, Trees
<1>4. UsedKept'
  <2>1. DOMAIN first \subseteq Files
        BY DEF Snapshot, TypeOK, Inventories
  <2>2. QED
        BY <1>1, <1>2, <2>1 DEF Snapshot, TypeOK, UsedKept, Trees
<1>5. ChangeLasts'
  <2>1. SUFFICES ASSUME phase \in {"objects", "second", "packed"},
                        NEW g \in Files, first[g] # mid[g]
                 PROVE  /\ DOMAIN first = Files /\ tree'[g] # first[g]
                        /\ g \in DOMAIN second => second[g] # first[g]
        BY <1>2 DEF ChangeLasts, Snapshot
  <2>2. /\ DOMAIN first = Files /\ tree[g] # first[g] /\ first[g] \in used[g]
        /\ g \in DOMAIN second => second[g] # first[g]
        BY <2>1 DEF Snapshot, ChangeLasts, UsedKept
  <2>3. tree'[g] = tree[g] \/ (g = f /\ tree'[g] = c)
        BY <1>1 DEF Snapshot, TypeOK, Trees
  <2>4. QED
        BY <1>1, <2>2, <2>3
<1>6. InOrder' /\ PackedIsSnapshot' /\ BundleGenuine' /\ RestoredIsSnapshot'
      BY <1>2 DEF Snapshot, InOrder, PackedIsSnapshot, BundleGenuine, RestoredIsSnapshot, Verified
<1>7. QED
      BY <1>3, <1>4, <1>5, <1>6 DEF Snapshot

\* The walks.
LEMMA SnapshotFirst == ASSUME Snapshot, NEW f \in Files, InventoryFirst(f) PROVE Snapshot'
<1>1. /\ phase = "first" /\ f \notin DOMAIN first /\ first' = Took(first, f)
      /\ UNCHANGED <<tree, used, phase, second, objects, mid, bundle, output, receiver>>
      BY DEF InventoryFirst, receiverVars
<1>2. /\ Took(first, f) \in Inventories /\ DOMAIN Took(first, f) = DOMAIN first \cup {f}
      /\ Took(first, f)[f] = tree[f]
      /\ \A g \in DOMAIN first : g # f => Took(first, f)[g] = first[g]
      BY TookType DEF Snapshot, TypeOK
<1>3. TypeOK'
      BY <1>1, <1>2 DEF Snapshot, TypeOK
<1>4. UsedKept'
      BY <1>1, <1>2 DEF Snapshot, UsedKept
<1>5. ChangeLasts' /\ InOrder' /\ PackedIsSnapshot' /\ BundleGenuine' /\ RestoredIsSnapshot'
      BY <1>1 DEF Snapshot, ChangeLasts, InOrder, PackedIsSnapshot, BundleGenuine,
         RestoredIsSnapshot, Verified
<1>6. QED
      BY <1>3, <1>4, <1>5 DEF Snapshot

\* When the first walk ends the tree is remembered: a file that is no longer what was read
\* has changed since.
LEMMA SnapshotFirstDone == ASSUME Snapshot, InventoryDone PROVE Snapshot'
<1>1. /\ phase = "first" /\ DOMAIN first = Files /\ phase' = "objects" /\ mid' = tree
      /\ UNCHANGED <<tree, used, first, second, objects, bundle, output, receiver>>
      BY DEF InventoryDone, receiverVars
<1>2. second = Nothing /\ receiver = "waiting" /\ DOMAIN Nothing = {}
      BY <1>1 DEF Snapshot, InOrder, Nothing
<1>3. TypeOK' /\ UsedKept'
      BY <1>1 DEF Snapshot, TypeOK, UsedKept
<1>4. ChangeLasts'
      BY <1>1, <1>2 DEF ChangeLasts
<1>5. InOrder' /\ PackedIsSnapshot' /\ RestoredIsSnapshot'
      BY <1>1, <1>2 DEF InOrder, PackedIsSnapshot, RestoredIsSnapshot
<1>6. BundleGenuine'
      BY <1>1 DEF Snapshot, BundleGenuine, Verified
<1>7. QED
      BY <1>3, <1>4, <1>5, <1>6 DEF Snapshot

LEMMA SnapshotSecond == ASSUME Snapshot, NEW f \in Files, InventorySecond(f) PROVE Snapshot'
<1>1. /\ phase = "second" /\ f \notin DOMAIN second /\ second' = Took(second, f)
      /\ UNCHANGED <<tree, used, phase, first, objects, mid, bundle, output, receiver>>
      BY DEF InventorySecond, receiverVars
<1>2. /\ Took(second, f) \in Inventories /\ DOMAIN Took(second, f) = DOMAIN second \cup {f}
      /\ Took(second, f)[f] = tree[f]
      /\ \A g \in DOMAIN second : g # f => Took(second, f)[g] = second[g]
      BY TookType DEF Snapshot, TypeOK
<1>3. TypeOK' /\ UsedKept'
      BY <1>1, <1>2 DEF Snapshot, TypeOK, UsedKept
<1>4. ChangeLasts'
      BY <1>1, <1>2 DEF Snapshot, ChangeLasts
<1>5. InOrder' /\ PackedIsSnapshot' /\ BundleGenuine' /\ RestoredIsSnapshot'
      BY <1>1 DEF Snapshot, InOrder, PackedIsSnapshot, BundleGenuine, RestoredIsSnapshot, Verified
<1>6. QED
      BY <1>3, <1>4, <1>5 DEF Snapshot

\* The archive is written between the walks; its objects are addressed by their content.
LEMMA SnapshotObjects ==
    ASSUME Snapshot, (\E f \in Files : WriteObject(f)) \/ ObjectsDone
    PROVE  Snapshot'
<1>1. /\ UNCHANGED <<tree, used, first, second, mid, bundle, output, receiver>>
      /\ phase = "objects" /\ phase' \in {"objects", "second"}
      BY DEF WriteObject, ObjectsDone, receiverVars
<1>2. TypeOK' /\ UsedKept' /\ ChangeLasts' /\ InOrder'
      BY <1>1 DEF Snapshot, TypeOK, UsedKept, ChangeLasts, InOrder
<1>3. PackedIsSnapshot' /\ BundleGenuine' /\ RestoredIsSnapshot'
      BY <1>1 DEF Snapshot, PackedIsSnapshot, BundleGenuine, RestoredIsSnapshot, Verified
<1>4. QED
      BY <1>2, <1>3 DEF Snapshot

\* Two equal walks: no file can have changed between its first reading and the first walk's end.
LEMMA SnapshotPublish == ASSUME Snapshot, Publish PROVE Snapshot'
<1>1. /\ phase = "second" /\ DOMAIN second = Files /\ second = first /\ phase' = "packed"
      /\ bundle' = Bundle(Run, first, objects)
      /\ UNCHANGED <<tree, used, first, second, objects, mid, output, receiver>>
      BY DEF Publish, Unchanged
<1>2. \A f \in Files : first[f] = mid[f]
      BY <1>1 DEF Snapshot, ChangeLasts
<1>3. first = mid
  <2>1. PICK s \in SUBSET Files : first \in [s -> Found]
        BY DEF Snapshot, TypeOK, Inventories
  <2>2. first \in [Files -> Found] /\ mid \in [Files -> Found]
        BY <1>1, <2>1 DEF Snapshot, TypeOK, Trees
  <2>3. QED
        BY <1>2, <2>2
<1>4. receiver = "waiting"
      BY <1>1 DEF Snapshot, InOrder
<1>5. TypeOK' /\ UsedKept' /\ ChangeLasts' /\ InOrder'
      BY <1>1 DEF Snapshot, TypeOK, UsedKept, ChangeLasts, InOrder
<1>6. PackedIsSnapshot' /\ BundleGenuine' /\ RestoredIsSnapshot'
      BY <1>1, <1>3, <1>4 DEF PackedIsSnapshot, BundleGenuine, RestoredIsSnapshot, Bundle
<1>7. QED
      BY <1>5, <1>6 DEF Snapshot

LEMMA SnapshotFail == ASSUME Snapshot, Fail PROVE Snapshot'
<1>1. /\ phase \notin {"packed", "failed"} /\ phase' = "failed"
      /\ bundle' = [NoBundle EXCEPT !.manifest = tree]
      /\ UNCHANGED <<tree, used, first, second, objects, mid, output, receiver>>
      BY DEF Fail
<1>2. receiver = "waiting"
      BY <1>1 DEF Snapshot, InOrder
<1>3. ~Verified'
      BY <1>1 DEF Verified, NoBundle
<1>4. TypeOK' /\ UsedKept' /\ ChangeLasts' /\ InOrder'
      BY <1>1 DEF Snapshot, TypeOK, UsedKept, ChangeLasts, InOrder
<1>5. QED
      BY <1>1, <1>2, <1>3, <1>4 DEF Snapshot, PackedIsSnapshot, BundleGenuine, RestoredIsSnapshot

\* A damaged bundle does not fit its receipt, and a foreign one is another run's.
LEMMA SnapshotDamage == ASSUME Snapshot, Damage PROVE Snapshot'
<1>1. /\ phase = "packed" /\ receiver = "waiting" /\ bundle.receipt = <<first, objects>>
      /\ UNCHANGED <<tree, used, phase, first, second, objects, mid, output, receiver>>
      BY DEF Damage, packVars
<1>2. bundle'.run # Run \/ bundle'.receipt = <<first, objects>>
  <2>1. CASE \E f \in Files, c \in Found : bundle' = [bundle EXCEPT !.manifest[f] = c]
        BY <1>1, <2>1
  <2>2. CASE \E c \in Contents : bundle' = [bundle EXCEPT !.objects = @ \ {c}]
        BY <1>1, <2>2
  <2>3. CASE \E r \in Runs \ {Run}, t \in Trees : bundle' = Bundle(r, t, Present(t))
        BY <2>3 DEF Bundle
  <2>4. QED
        BY <2>1, <2>2, <2>3 DEF Damage
<1>3. BundleGenuine'
      BY <1>1, <1>2 DEF BundleGenuine, Verified
<1>4. TypeOK' /\ UsedKept' /\ ChangeLasts' /\ InOrder' /\ PackedIsSnapshot' /\ RestoredIsSnapshot'
      BY <1>1 DEF Snapshot, TypeOK, UsedKept, ChangeLasts, InOrder, PackedIsSnapshot, RestoredIsSnapshot
<1>5. QED
      BY <1>3, <1>4 DEF Snapshot

LEMMA SnapshotReceiver == ASSUME Snapshot, Download \/ Restore \/ Refuse PROVE Snapshot'
<1>1. /\ UNCHANGED <<tree, used, phase, first, second, objects, mid, bundle>>
      /\ receiver' \in {"downloaded", "restored", "refused"}
      /\ receiver' = "restored" => Verified /\ output' = bundle.manifest
      BY DEF Download, Restore, Refuse, packVars
<1>2. phase \in {"packed", "failed"}
      BY DEF Snapshot, InOrder, Download, Restore, Refuse
<1>3. TypeOK' /\ UsedKept' /\ ChangeLasts' /\ PackedIsSnapshot'
      BY <1>1 DEF Snapshot, TypeOK, UsedKept, ChangeLasts, PackedIsSnapshot
<1>4. InOrder'
      BY <1>1, <1>2 DEF Snapshot, InOrder
<1>5. BundleGenuine' /\ RestoredIsSnapshot'
      BY <1>1 DEF Snapshot, BundleGenuine, PackedIsSnapshot, RestoredIsSnapshot, Verified
<1>6. QED
      BY <1>3, <1>4, <1>5 DEF Snapshot

\* Snapshot is inductive: whatever writes into the tree, and whatever the store hands out.
THEOREM SnapshotInvariant == Spec => []Snapshot
<1>1. Init => Snapshot
      BY SnapshotInit
<1>2. Snapshot /\ [Next]_vars => Snapshot'
  <2>1. SUFFICES ASSUME Snapshot, [Next]_vars PROVE Snapshot'
        OBVIOUS
  <2>2. CASE \E f \in Files : Write(f)
        BY <2>1, <2>2, SnapshotWrite
  <2>3. CASE \E f \in Files : InventoryFirst(f)
        BY <2>1, <2>3, SnapshotFirst
  <2>4. CASE (\E f \in Files : WriteObject(f)) \/ ObjectsDone
        BY <2>1, <2>4, SnapshotObjects
  <2>5. CASE \E f \in Files : InventorySecond(f)
        BY <2>1, <2>5, SnapshotSecond
  <2>6. CASE InventoryDone
        BY <2>1, <2>6, SnapshotFirstDone
  <2>7. CASE Publish
        BY <2>1, <2>7, SnapshotPublish
  <2>8. CASE Fail
        BY <2>1, <2>8, SnapshotFail
  <2>9. CASE Damage
        BY <2>1, <2>9, SnapshotDamage
  <2>10. CASE Download \/ Restore \/ Refuse
        BY <2>1, <2>10, SnapshotReceiver
  <2>11. CASE UNCHANGED vars
        BY <2>1, <2>11 DEF vars, Snapshot, TypeOK, UsedKept, ChangeLasts, InOrder, PackedIsSnapshot,
           BundleGenuine, RestoredIsSnapshot, Verified
  <2>12. QED
        BY <2>1, <2>2, <2>3, <2>4, <2>5, <2>6, <2>7, <2>8, <2>9, <2>10, <2>11 DEF Next
<1>3. QED
      BY <1>1, <1>2, PTL DEF Spec

\* What the validators are given was the evidence as a whole at one moment, for any number of
\* files, contents and runs.
THEOREM RestoredSnapshot == Spec => []RestoredIsSnapshot
<1>1. Snapshot => RestoredIsSnapshot
      BY DEF Snapshot
<1>2. QED
      BY <1>1, SnapshotInvariant, PTL

\* A set of naturals that is not empty has a least element: what stands in for induction.
LEMMA LeastNumber ==
  ASSUME NEW T, T \subseteq Nat, T # {}
  PROVE  \E x \in T : \A y \in T : x <= y
<1> DEFINE R == {ss \in Nat \X Nat : ss[1] < ss[2]}
<1>1. IsWellFoundedOn(R, Nat)
  BY NatLessThanWellFounded DEF OpToRel
<1>2. \E x \in T : \A y \in T : ~ (<<y, x>> \in R)
  <2> HIDE DEF R
  <2> QED BY <1>1, WFMin
<1>3. PICK x \in T : \A y \in T : ~ (<<y, x>> \in R)
  BY <1>2
<1>4. ASSUME NEW y \in T PROVE x <= y
  <2>1. x \in Nat /\ y \in Nat OBVIOUS
  <2>2. ~ (<<y, x>> \in R) BY <1>3
  <2>3. ~ (y < x) BY <2>1, <2>2
  <2> QED BY <2>1, <2>3
<1> QED BY <1>4

(***************************************************************************)
(* The gate of a pull request                                              *)
(***************************************************************************)
\* The last commit of those that edit the registration is one of them.
LEMMA LastIsOne ==
  ASSUME NEW n \in Nat, NEW S, S \subseteq 1 .. n, S # {}
  PROVE  Gate!LastOf(S) \in S
<1> DEFINE T == {i \in 0 .. n : n - i \in S}
<1>1. T # {}
  <2>1. PICK s \in S : TRUE OBVIOUS
  <2>2. n - s \in 0 .. n /\ n - (n - s) = s BY <2>1
  <2>3. n - s \in T BY <2>1, <2>2
  <2> QED BY <2>3
<1>2. PICK x \in T : \A y \in T : x <= y
  <2>1. T \subseteq Nat OBVIOUS
  <2> HIDE DEF T
  <2> QED BY <1>1, <2>1, LeastNumber
<1>3. n - x \in S /\ x \in 0 .. n OBVIOUS
<1>4. ASSUME NEW y \in S PROVE y <= n - x
  <2>1. n - y \in T OBVIOUS
  <2>2. x <= n - y BY <2>1, <1>2
  <2> QED BY <2>2, <1>3
<1> QED BY <1>3, <1>4 DEF Gate!LastOf

Verdicts == {"none", "success", "failure", "skipped"}
Plans == [docs : BOOLEAN, run : SUBSET (Gate!Everything \cup {"tuning"})]
RunRecords == [state : {"none", "impact", "fast", "jobs", "summary", "done"}, base : Int, plan : Plans,
               impact : Verdicts, fast : Verdicts, real : Verdicts, jobs : [Gate!Jobs -> Verdicts],
               gate : Verdicts]
HeadRecords == [state : {"new", "open", "merged"}, fork : Int, paths : SUBSET Gate!Classes, version : Int,
                changelog : Int, registration : Int, content : Int, updates : Int]
MainCommits == [version : Int, paths : SUBSET Gate!Classes, registration : Int]
GateTypes ==
    /\ main \in Seq(MainCommits) /\ prs \in [Prs -> HeadRecords] /\ runs \in [Prs -> RunRecords]
    /\ offers \in [Prs -> SUBSET SUBSET Gate!Classes]
    /\ \A p \in Prs : /\ prs[p].fork \in 1 .. Len(main)
                      /\ runs[p].state # "none" => runs[p].base \in 1 .. Len(main)
\* What a run has said of its head so far, and what its gate stands for.
RunOf(r, h) ==
    /\ r.state \in {"none", "impact"} => r.impact = "none"
    /\ r.state # "done" => r.gate # "success"
    /\ r.impact = "success" => /\ Gate!EnforceReleaseVersion(r.base, h)
                               /\ \E only \in BOOLEAN : r.plan = Gate!Analyze(h.paths, only)
    /\ r.gate = "success" => Gate!Aggregate(r)
    /\ h.state = "merged" => r.gate = "success"
RunSound(p) == RunOf(runs[p], prs[p])
GateInv == GateTypes /\ (\A p \in Prs : RunSound(p)) /\ Gate!VersionsAdvance

\* What the selection of one path names is hosted by a job that the selection of any set with
\* that path runs.
LEMMA SelectionTypes == ASSUME NEW S, NEW only \in BOOLEAN PROVE Gate!Analyze(S, only) \in Plans
<1>1. ASSUME NEW search \in BOOLEAN PROVE Gate!Full(search) \in Plans
  BY DEF Gate!Full, Gate!Plan, Plans
<1>2. ASSUME NEW flags, NEW search \in BOOLEAN PROVE Gate!Plan(FALSE, Gate!Targeted(flags, search)) \in Plans
  <2>1. Gate!Targeted(flags, search) \subseteq Gate!Everything \cup {"tuning"}
    BY DEF Gate!Targeted, Gate!Everything, Gate!Jobs, Gate!InsideCi, Gate!Dsp
  <2> QED BY <2>1 DEF Gate!Plan, Plans
<1>3. Gate!Plan(TRUE, {}) \in Plans /\ Gate!Plan(FALSE, {}) \in Plans BY DEF Gate!Plan, Plans
<1>4. Gate!RequiresTuningSearch(S) \in BOOLEAN BY DEF Gate!RequiresTuningSearch
<1> QED BY <1>1, <1>2, <1>3, <1>4 DEF Gate!Analyze

LEMMA FullHosts ==
  ASSUME NEW f \in Gate!Everything
  PROVE  Gate!Hosts(f) \cap Gate!Jobs # {}
BY DEF Gate!Everything, Gate!Hosts, Gate!Jobs, Gate!InsideCi, Gate!Dsp

LEMMA TargetedHosts ==
  ASSUME NEW flags, NEW search \in BOOLEAN, NEW f \in Gate!Targeted(flags, search) \ {"tuning"}
  PROVE  Gate!Hosts(f) \cap Gate!Jobs \cap Gate!Targeted(flags, search) # {}
BY DEF Gate!Targeted, Gate!Hosts, Gate!Jobs, Gate!InsideCi, Gate!Dsp
LEMMA TargetedGrows ==
  ASSUME NEW few, NEW many, few \subseteq many, NEW s \in BOOLEAN, NEW t \in BOOLEAN, s => t
  PROVE  Gate!Targeted(few, s) \subseteq Gate!Targeted(many, t)
BY DEF Gate!Targeted
LEMMA TargetedAmongAll ==
  ASSUME NEW flags, NEW s \in BOOLEAN
  PROVE  Gate!Targeted(flags, s) \ {"tuning"} \subseteq Gate!Everything
BY DEF Gate!Targeted, Gate!Everything, Gate!Jobs, Gate!InsideCi, Gate!Dsp

LEMMA SelectionCovers ==
  ASSUME NEW S, NEW only \in BOOLEAN, NEW k \in S,
         NEW f \in Gate!Analyze({k}, k = "version").run \ {"tuning"}
  PROVE  /\ ~Gate!Analyze(S, only).docs
         /\ Gate!Hosts(f) \cap Gate!Jobs \cap Gate!Analyze(S, only).run # {}
<1> DEFINE E == IF only THEN S \ {"version"} ELSE S
           e == IF k = "version" THEN {} ELSE {k}
           flags == UNION {Gate!Flags(p) : p \in E}
           search == Gate!RequiresTuningSearch(S)
<1>1. Gate!Analyze({k}, k = "version").run # {} OBVIOUS
<1>2. k # "version"
  <2> SUFFICES ASSUME k = "version" PROVE FALSE OBVIOUS
  <2>1. {k} \ {"version"} = {} OBVIOUS
  <2>2. Gate!Analyze({k}, k = "version") = Gate!Plan(TRUE, {}) BY <2>1 DEF Gate!Analyze
  <2> QED BY <1>1, <2>2 DEF Gate!Plan
<1>3. k \in E BY <1>2
<1>4. Gate!Analyze({k}, k = "version") =
        IF Gate!IsDocs(k) \/ k = "registry" THEN Gate!Plan(TRUE, {})
        ELSE IF k = "governance" THEN Gate!Plan(FALSE, {})
        ELSE IF k = "authority" \/ "unknown" \in Gate!Flags(k) THEN Gate!Full(Gate!RequiresTuningSearch({k}))
        ELSE Gate!Plan(FALSE, Gate!Targeted(Gate!Flags(k), Gate!RequiresTuningSearch({k})))
  <2>1. UNION {Gate!Flags(p) : p \in {k}} = Gate!Flags(k) OBVIOUS
  <2> QED BY <1>2, <2>1 DEF Gate!Analyze
<1>5. ~(Gate!IsDocs(k) \/ k = "registry") /\ k # "governance" BY <1>1, <1>4 DEF Gate!Plan
<1>6. Gate!Analyze(S, only) = IF "authority" \in E \/ "unknown" \in flags THEN Gate!Full(search)
                              ELSE Gate!Plan(FALSE, Gate!Targeted(flags, search))
  BY <1>3, <1>5 DEF Gate!Analyze
<1>7. Gate!Flags(k) \subseteq flags BY <1>3
<1>8. search \in BOOLEAN /\ Gate!RequiresTuningSearch({k}) \in BOOLEAN /\ (Gate!RequiresTuningSearch({k}) => search)
  BY DEF Gate!RequiresTuningSearch
<1> HIDE DEF flags, search
<1>9. f \in Gate!Everything
  BY <1>4, <1>5, <1>8, TargetedAmongAll DEF Gate!Plan, Gate!Full
<1>10. CASE "authority" \in E \/ "unknown" \in flags
  <2>1. Gate!Analyze(S, only).run = Gate!Everything \cup (IF search THEN {"tuning"} ELSE {})
    BY <1>6, <1>10 DEF Gate!Full, Gate!Plan
  <2>2. ~Gate!Analyze(S, only).docs BY <1>6, <1>10 DEF Gate!Full, Gate!Plan
  <2>3. Gate!Jobs \subseteq Gate!Analyze(S, only).run BY <2>1 DEF Gate!Everything
  <2> QED BY <1>9, <2>2, <2>3, FullHosts
<1>11. CASE ~("authority" \in E \/ "unknown" \in flags)
  <2>1. Gate!Analyze(S, only) = Gate!Plan(FALSE, Gate!Targeted(flags, search)) BY <1>6, <1>11
  <2>2. k # "authority" /\ "unknown" \notin Gate!Flags(k) BY <1>3, <1>7, <1>11
  <2>3. f \in Gate!Targeted(Gate!Flags(k), Gate!RequiresTuningSearch({k})) \ {"tuning"}
    BY <1>4, <1>5, <2>2 DEF Gate!Plan
  <2>4. f \in Gate!Targeted(flags, search) \ {"tuning"} BY <1>7, <1>8, <2>3, TargetedGrows
  <2>5. Gate!Hosts(f) \cap Gate!Jobs \cap Gate!Targeted(flags, search) # {} BY <1>8, <2>4, TargetedHosts
  <2> QED BY <2>1, <2>5 DEF Gate!Plan
<1> QED BY <1>10, <1>11

\* A commit of main never changes, so what was said against one stays true.
LEMMA HistoryStays ==
  ASSUME main \in Seq(MainCommits), NEW c \in MainCommits, main' = Append(main, c), NEW n \in 1 .. Len(main)
  PROVE  Gate!Registered(n)' = Gate!Registered(n) /\ Gate!Archived(n)' = Gate!Archived(n) /\ main'[n] = main[n]
<1>1. \A i \in 1 .. n : main'[i] = main[i] OBVIOUS
<1> DEFINE edits == {i \in 1 .. n : "registration" \in main[i].paths}
           later == {i \in 1 .. n : "registration" \in main'[i].paths}
<1>2. later = edits BY <1>1
<1>3. edits # {} => Gate!LastOf(edits) \in 1 .. n
  <2>1. n \in Nat /\ edits \subseteq 1 .. n OBVIOUS
  <2> HIDE DEF edits
  <2> QED BY <2>1, LastIsOne
<1>4. Gate!Registered(n) = IF edits = {} THEN 0 ELSE main[Gate!LastOf(edits)].registration
  BY DEF Gate!Registered
<1>5. Gate!Registered(n)' = IF later = {} THEN 0 ELSE main'[Gate!LastOf(later)].registration
  BY DEF Gate!Registered, Gate!LastOf
<1> HIDE DEF edits, later
<1>6. Gate!Registered(n)' = Gate!Registered(n) BY <1>1, <1>2, <1>3, <1>4, <1>5
<1>7. Gate!Archived(n)' = Gate!Archived(n) BY <1>1 DEF Gate!Archived
<1> QED BY <1>1, <1>6, <1>7
LEMMA RegisteredIsNumber ==
  ASSUME main \in Seq(MainCommits), NEW n \in 1 .. Len(main)
  PROVE  Gate!Registered(n) \in Int
<1> DEFINE edits == {i \in 1 .. n : "registration" \in main[i].paths}
<1>1. edits # {} => Gate!LastOf(edits) \in 1 .. n
  <2>1. n \in Nat /\ edits \subseteq 1 .. n OBVIOUS
  <2> HIDE DEF edits
  <2> QED BY <2>1, LastIsOne
<1>2. Gate!Registered(n) = IF edits = {} THEN 0 ELSE main[Gate!LastOf(edits)].registration
  BY DEF Gate!Registered
<1> HIDE DEF edits
<1>3. ASSUME NEW i \in 1 .. n PROVE main[i].registration \in Int
  <2>1. main[i] \in MainCommits OBVIOUS
  <2> QED BY <2>1 DEF MainCommits
<1> QED BY <1>1, <1>2, <1>3

\* A head and the release check of it, while main grows.
LEMMA ReleaseStays ==
  ASSUME main \in Seq(MainCommits), NEW c \in MainCommits, main' = Append(main, c),
         NEW b \in 1 .. Len(main), NEW h \in HeadRecords, h.fork \in 1 .. Len(main), Gate!EnforceReleaseVersion(b, h)
  PROVE  Gate!EnforceReleaseVersion(b, h)'
<1>1. Gate!Registered(b)' = Gate!Registered(b) /\ Gate!Archived(b)' = Gate!Archived(b) /\ main'[b] = main[b]
  BY HistoryStays
<1>2. Gate!Registered(h.fork)' = Gate!Registered(h.fork) /\ main'[h.fork] = main[h.fork]
  BY HistoryStays
<1>3. Gate!HeadRegistered(h)' = Gate!HeadRegistered(h) BY <1>2 DEF Gate!HeadRegistered
<1>4. Gate!ArchiveRefused(b, h)' = Gate!ArchiveRefused(b, h) BY <1>1, <1>3 DEF Gate!ArchiveRefused
<1>5. Gate!ReleasePaths(b, h)' = Gate!ReleasePaths(b, h)
  BY <1>1 DEF Gate!ReleasePaths, Gate!VerifiedReceipts
<1>6. Gate!HeadVersion(h)' = Gate!HeadVersion(h) BY <1>2 DEF Gate!HeadVersion
<1> QED BY <1>1, <1>4, <1>5, <1>6 DEF Gate!EnforceReleaseVersion

LEMMA ReleaseUnchanged ==
  ASSUME UNCHANGED main, NEW b, NEW h
  PROVE  Gate!EnforceReleaseVersion(b, h)' = Gate!EnforceReleaseVersion(b, h)
<1>1. \A n : Gate!Registered(n)' = Gate!Registered(n) BY DEF Gate!Registered
<1>2. Gate!Archived(b)' = Gate!Archived(b) BY DEF Gate!Archived
<1>3. Gate!HeadVersion(h)' = Gate!HeadVersion(h) BY DEF Gate!HeadVersion
<1>4. Gate!ArchiveRefused(b, h)' = Gate!ArchiveRefused(b, h)
  BY <1>1, <1>2 DEF Gate!ArchiveRefused, Gate!HeadRegistered
<1>5. Gate!ReleasePaths(b, h)' = Gate!ReleasePaths(b, h) BY <1>1 DEF Gate!ReleasePaths, Gate!VerifiedReceipts
<1> QED BY <1>3, <1>4, <1>5 DEF Gate!EnforceReleaseVersion
LEMMA NoRunType == Gate!NoRun \in RunRecords
<1>1. Gate!Plan(FALSE, {}) \in Plans BY DEF Gate!Plan, Plans
<1>2. "none" \in Verdicts /\ [j \in Gate!Jobs |-> "none"] \in [Gate!Jobs -> Verdicts] BY DEF Verdicts
<1>3. \A plan0 \in Plans, z \in Int, none \in Verdicts, jobs \in [Gate!Jobs -> Verdicts] :
        [state |-> "none", base |-> z, plan |-> plan0, impact |-> none, fast |-> none, real |-> none,
         jobs |-> jobs, gate |-> none] \in RunRecords
  BY DEF RunRecords
<1>4. PICK idle \in Plans, jobs \in [Gate!Jobs -> Verdicts] :
        idle = Gate!Plan(FALSE, {}) /\ jobs = [j \in Gate!Jobs |-> "none"]
  BY <1>1, <1>2
<1>5. Gate!NoRun = [state |-> "none", base |-> 0, plan |-> idle, impact |-> "none", fast |-> "none",
                    real |-> "none", jobs |-> jobs, gate |-> "none"]
  BY <1>4 DEF Gate!NoRun
<1>6. [state |-> "none", base |-> 0, plan |-> idle, impact |-> "none", fast |-> "none",
       real |-> "none", jobs |-> jobs, gate |-> "none"] \in RunRecords
  BY <1>2, <1>3
<1> QED BY <1>5, <1>6

LEMMA GateInitially == MaxVersion \in Nat /\ Gate!Init => GateInv
<1> SUFFICES ASSUME MaxVersion \in Nat, Gate!Init PROVE GateInv
  OBVIOUS
<1> USE DEF Gate!Init
<1>1. main \in Seq(MainCommits) /\ Len(main) = 1
  <2>1. [version |-> 1, paths |-> {}, registration |-> 0] \in MainCommits BY DEF MainCommits
  <2> QED BY <2>1
<1>2. prs \in [Prs -> HeadRecords] BY DEF HeadRecords
<1>3. Gate!NoRun \in RunRecords BY NoRunType
<1>4. offers \in [Prs -> SUBSET SUBSET Gate!Classes]
  <2>1. {"doc", "version", "registration", "evidence", "build", "core"} \subseteq Gate!Classes
    BY DEF Gate!Classes
  <2>2. Gate!Lone \in [Prs -> SUBSET SUBSET Gate!Classes] BY <2>1 DEF Gate!Lone
  <2>3. Gate!Colliding \in [Prs -> SUBSET SUBSET Gate!Classes] BY <2>1 DEF Gate!Colliding
  <2> QED BY <2>2, <2>3 DEF Gate!Scenarios
<1>5. GateTypes BY <1>1, <1>2, <1>3, <1>4 DEF GateTypes, Gate!NoRun
<1>6. \A p \in Prs : RunSound(p) BY DEF RunSound, RunOf, Gate!NoRun
<1>7. Gate!VersionsAdvance BY <1>1 DEF Gate!VersionsAdvance
<1> QED BY <1>5, <1>6, <1>7 DEF GateInv

\* What one pull request has shown stays when main, its head and its run do.
LEMMA RunStands ==
  ASSUME NEW q \in Prs, RunSound(q), UNCHANGED main, runs'[q] = runs[q], prs'[q] = prs[q]
  PROVE  RunSound(q)'
<1>1. PICK b, h, r : b = runs[q].base /\ h = prs[q] /\ r = runs[q]
  OBVIOUS
<1>2. Gate!EnforceReleaseVersion(b, h)' = Gate!EnforceReleaseVersion(b, h) BY ReleaseUnchanged
<1>3. b = runs'[q].base /\ h = prs'[q] /\ r = runs'[q] BY <1>1
<1> QED BY <1>1, <1>2, <1>3 DEF RunSound, RunOf

\* A new head starts a run of its own.
LEMMA PushKeepsGate ==
  ASSUME GateInv, MaxVersion \in Nat, NEW p \in Prs, Gate!Push(p)
  PROVE  GateInv'
<1> USE DEF GateInv
<1>1. PICK paths \in offers[p], fork \in {IF prs[p].state = "new" THEN Len(main) ELSE prs[p].fork, Len(main)} :
        \E v \in CASE "version" \in paths -> (1 .. MaxVersion) \ {main[fork].version}
                   [] "build" \in paths -> 1 .. MaxVersion
                   [] OTHER -> {main[fork].version},
           e \in IF "evidence" \in paths THEN 1 .. 2 ELSE {0} :
        \E c \in {v, main[fork].version} :
          prs' = [prs EXCEPT ![p] =
             [state |-> "open", fork |-> fork, paths |-> paths, version |-> v, changelog |-> c,
              registration |-> IF "registration" \in paths THEN 1 + Gate!Registered(fork) ELSE 0,
              content |-> e, updates |-> prs[p].updates + 1]]
  BY DEF Gate!Push
<1>2. PICK v \in CASE "version" \in paths -> (1 .. MaxVersion) \ {main[fork].version}
                   [] "build" \in paths -> 1 .. MaxVersion
                   [] OTHER -> {main[fork].version},
           e \in IF "evidence" \in paths THEN 1 .. 2 ELSE {0} :
        \E c \in {v, main[fork].version} :
          prs' = [prs EXCEPT ![p] =
             [state |-> "open", fork |-> fork, paths |-> paths, version |-> v, changelog |-> c,
              registration |-> IF "registration" \in paths THEN 1 + Gate!Registered(fork) ELSE 0,
              content |-> e, updates |-> prs[p].updates + 1]]
  BY <1>1
<1>3. PICK c \in {v, main[fork].version} :
          prs' = [prs EXCEPT ![p] =
             [state |-> "open", fork |-> fork, paths |-> paths, version |-> v, changelog |-> c,
              registration |-> IF "registration" \in paths THEN 1 + Gate!Registered(fork) ELSE 0,
              content |-> e, updates |-> prs[p].updates + 1]]
  BY <1>2
<1>4. /\ UNCHANGED <<main, offers>> /\ prs[p].state # "merged"
      /\ runs' = [runs EXCEPT ![p] = [Gate!NoRun EXCEPT !.state = "impact", !.base = Len(main)]]
  BY DEF Gate!Push
<1>5. fork \in 1 .. Len(main)
  <2>1. prs[p].fork \in 1 .. Len(main) BY DEF GateTypes
  <2> QED BY <2>1
<1> DEFINE h == [state |-> "open", fork |-> fork, paths |-> paths, version |-> v, changelog |-> c,
                 registration |-> IF "registration" \in paths THEN 1 + Gate!Registered(fork) ELSE 0,
                 content |-> e, updates |-> prs[p].updates + 1]
           r == [Gate!NoRun EXCEPT !.state = "impact", !.base = Len(main)]
<1>6. h \in HeadRecords
  <2>1. main[fork] \in MainCommits /\ Gate!Registered(fork) \in Int BY <1>5, RegisteredIsNumber DEF GateTypes
  <2>2. v \in Int /\ c \in Int /\ e \in Int
    <3>1. main[fork].version \in Int BY <2>1 DEF MainCommits
    <3>2. v \in Int BY <3>1
    <3> QED BY <3>1, <3>2
  <2>3. paths \in SUBSET Gate!Classes BY DEF GateTypes
  <2>4. prs[p].updates + 1 \in Int
    <3>1. prs[p] \in HeadRecords BY DEF GateTypes
    <3> QED BY <3>1 DEF HeadRecords
  <2>5. (IF "registration" \in paths THEN 1 + Gate!Registered(fork) ELSE 0) \in Int BY <2>1
  <2>6. fork \in Int BY <1>5
  <2> QED BY <2>2, <2>3, <2>4, <2>5, <2>6 DEF HeadRecords
<1>7. r \in RunRecords /\ r.state = "impact" /\ r.base = Len(main) /\ r.impact = "none" /\ r.gate = "none"
  <2>1. Gate!Plan(FALSE, {}) \in Plans BY DEF Gate!Plan, Plans
  <2>2. Len(main) \in Int BY DEF GateTypes
  <2> QED BY <2>1, <2>2 DEF Gate!NoRun, RunRecords, Verdicts
<1>8. prs' = [prs EXCEPT ![p] = h] /\ runs' = [runs EXCEPT ![p] = r] BY <1>3, <1>4
<1>9. h.fork = fork /\ h.state = "open" OBVIOUS
<1> HIDE DEF h, r
<1>10. GateTypes'
  <2>1. Len(main) \in 1 .. Len(main)
    <3>1. fork \in 1 .. Len(main) /\ main \in Seq(MainCommits) BY <1>5 DEF GateTypes
    <3> QED BY <3>1
  <2>2. prs' \in [Prs -> HeadRecords] /\ runs' \in [Prs -> RunRecords] BY <1>6, <1>7, <1>8 DEF GateTypes
  <2> QED BY <1>4, <1>5, <1>7, <1>8, <1>9, <2>1, <2>2 DEF GateTypes
<1>11. ASSUME NEW q \in Prs PROVE RunSound(q)'
  <2>1. CASE q = p
    <3>1. runs'[q] = r /\ prs'[q] = h BY <1>8, <2>1 DEF GateTypes
    <3> QED BY <1>7, <1>9, <3>1 DEF RunSound, RunOf
  <2>2. CASE q # p
    <3>1. runs'[q] = runs[q] /\ prs'[q] = prs[q] BY <1>8, <2>2 DEF GateTypes
    <3>2. RunSound(q) OBVIOUS
    <3> QED BY <1>4, <3>1, <3>2, RunStands
  <2> QED BY <2>1, <2>2
<1>12. Gate!VersionsAdvance' BY <1>4 DEF Gate!VersionsAdvance, Gate!Registered, Gate!Archived
<1> QED BY <1>10, <1>11, <1>12

\* A step of one run.
LEMMA RunStep ==
  ASSUME GateInv, NEW p \in Prs, NEW r \in RunRecords, runs' = [runs EXCEPT ![p] = r],
         UNCHANGED <<main, prs, offers>>, r.base = runs[p].base, runs[p].state # "none", RunOf(r, prs[p])
  PROVE  GateInv'
<1> USE DEF GateInv
<1>1. GateTypes' BY DEF GateTypes
<1>2. ASSUME NEW q \in Prs PROVE RunSound(q)'
  <2>1. CASE q = p
    <3>1. PICK h : h = prs[p] OBVIOUS
    <3>2. Gate!EnforceReleaseVersion(r.base, h)' = Gate!EnforceReleaseVersion(r.base, h) BY ReleaseUnchanged
    <3>3. runs'[q] = r /\ prs'[q] = h BY <2>1, <3>1 DEF GateTypes
    <3> QED BY <3>1, <3>2, <3>3 DEF RunSound, RunOf
  <2>2. CASE q # p
    <3>1. runs'[q] = runs[q] /\ prs'[q] = prs[q] BY <2>2 DEF GateTypes
    <3> QED BY <3>1, RunStands
  <2> QED BY <2>1, <2>2
<1>3. Gate!VersionsAdvance' BY DEF Gate!VersionsAdvance, Gate!Registered, Gate!Archived
<1> QED BY <1>1, <1>2, <1>3

LEMMA ImpactKeepsGate ==
  ASSUME GateInv, NEW p \in Prs, Gate!Impact(p)
  PROVE  GateInv'
<1>1. PICK result \in Gate!Results :
        LET ok == result = "success" /\ Gate!EnforceReleaseVersion(runs[p].base, prs[p])
        IN  runs' = [runs EXCEPT ![p].state = "fast", ![p].impact = IF ok THEN result ELSE "failure",
                                 ![p].plan = IF ok THEN Gate!Analyze(prs[p].paths,
                                                             Gate!CmakeVersionOnly(runs[p].base, prs[p]))
                                             ELSE @]
  BY DEF Gate!Impact
<1>2. UNCHANGED <<main, prs, offers>> /\ runs[p].state = "impact" BY DEF Gate!Impact
<1> DEFINE ok == result = "success" /\ Gate!EnforceReleaseVersion(runs[p].base, prs[p])
           only == Gate!CmakeVersionOnly(runs[p].base, prs[p])
           selected == IF ok THEN Gate!Analyze(prs[p].paths, only) ELSE runs[p].plan
           verdict == IF ok THEN result ELSE "failure"
           r == [runs[p] EXCEPT !.state = "fast", !.impact = verdict, !.plan = selected]
<1>3. runs[p] \in RunRecords /\ runs \in [Prs -> RunRecords] /\ RunOf(runs[p], prs[p])
  BY DEF GateInv, GateTypes, RunSound
<1>4. only \in BOOLEAN BY DEF Gate!CmakeVersionOnly
<1>5. selected \in Plans /\ verdict \in Verdicts
  <2>1. Gate!Analyze(prs[p].paths, only) \in Plans BY <1>4, SelectionTypes
  <2>2. runs[p].plan \in Plans BY <1>3 DEF RunRecords
  <2> QED BY <2>1, <2>2 DEF Verdicts, Gate!Results
<1>6. runs' = [runs EXCEPT ![p] = r] BY <1>1, <1>3 DEF RunRecords
<1>7. verdict = "success" => /\ Gate!EnforceReleaseVersion(runs[p].base, prs[p])
                             /\ selected = Gate!Analyze(prs[p].paths, only)
  OBVIOUS
<1> HIDE DEF ok, only, selected, verdict
<1>8. /\ r \in RunRecords /\ r.base = runs[p].base /\ r.state = "fast" /\ r.impact = verdict
      /\ r.plan = selected /\ r.gate = runs[p].gate
  BY <1>3, <1>5 DEF RunRecords
<1> HIDE DEF r
<1>9. RunOf(r, prs[p]) BY <1>2, <1>3, <1>4, <1>7, <1>8 DEF RunOf
<1> QED BY <1>2, <1>6, <1>8, <1>9, RunStep

LEMMA RunKeepsGate ==
  ASSUME GateInv, NEW p \in Prs, Gate!FastGate(p) \/ Gate!RunJobs(p) \/ Gate!Summary(p)
  PROVE  GateInv'
<1>1. UNCHANGED <<main, prs, offers>> /\ runs[p].state \in {"fast", "jobs", "summary"}
  BY DEF Gate!FastGate, Gate!RunJobs, Gate!Summary
<1>2. runs[p] \in RunRecords /\ runs \in [Prs -> RunRecords] /\ RunOf(runs[p], prs[p])
  BY DEF GateInv, GateTypes, RunSound
<1>3. runs[p].gate # "success" /\ prs[p].state # "merged" BY <1>1, <1>2 DEF RunOf
<1>4. CASE Gate!FastGate(p)
  <2>1. PICK v \in Verdicts : runs' = [runs EXCEPT ![p].state = "jobs", ![p].fast = v]
    BY <1>4 DEF Gate!FastGate, Gate!Results, Verdicts
  <2> DEFINE r == [runs[p] EXCEPT !.state = "jobs", !.fast = v]
  <2>2. runs' = [runs EXCEPT ![p] = r] BY <1>2, <2>1 DEF RunRecords
  <2>3. /\ r \in RunRecords /\ r.base = runs[p].base /\ r.state = "jobs" /\ r.impact = runs[p].impact
        /\ r.plan = runs[p].plan /\ r.gate = runs[p].gate
    BY <1>2 DEF RunRecords
  <2> HIDE DEF r
  <2>4. RunOf(r, prs[p]) BY <1>2, <1>3, <2>3 DEF RunOf
  <2> QED BY <1>1, <2>2, <2>3, <2>4, RunStep
<1>5. CASE Gate!RunJobs(p)
  <2>1. PICK v \in Verdicts, jobs \in [Gate!Jobs -> Verdicts] :
          runs' = [runs EXCEPT ![p].state = "summary", ![p].real = v, ![p].jobs = jobs]
    <3>1. {"skipped", "failure", "success"} \subseteq Verdicts BY DEF Verdicts
    <3> DEFINE go == runs[p].fast = "success"
               real == IF go /\ ~runs[p].plan.docs THEN Gate!Results ELSE {"skipped"}
               starts == {j \in Gate!Jobs : go /\ j \in runs[p].plan.run}
    <3>2. PICK bad \in {{}} \cup {{j} : j \in starts}, v \in real :
            runs' = [runs EXCEPT ![p].state = "summary", ![p].real = v,
                       ![p].jobs = [j \in Gate!Jobs |-> IF j \notin starts THEN "skipped"
                                                        ELSE IF j \in bad THEN "failure" ELSE "success"]]
      BY <1>5 DEF Gate!RunJobs
    <3>3. v \in Verdicts BY <3>1 DEF Gate!Results
    <3> HIDE DEF starts
    <3>4. [j \in Gate!Jobs |-> IF j \notin starts THEN "skipped" ELSE IF j \in bad THEN "failure" ELSE "success"]
            \in [Gate!Jobs -> Verdicts]
      BY <3>1
    <3> QED BY <3>2, <3>3, <3>4
  <2> DEFINE r == [runs[p] EXCEPT !.state = "summary", !.real = v, !.jobs = jobs]
  <2>2. runs' = [runs EXCEPT ![p] = r] BY <1>2, <2>1 DEF RunRecords
  <2>3. /\ r \in RunRecords /\ r.base = runs[p].base /\ r.state = "summary" /\ r.impact = runs[p].impact
        /\ r.plan = runs[p].plan /\ r.gate = runs[p].gate
    BY <1>2 DEF RunRecords
  <2> HIDE DEF r
  <2>4. RunOf(r, prs[p]) BY <1>2, <1>3, <2>3 DEF RunOf
  <2> QED BY <1>1, <2>2, <2>3, <2>4, RunStep
<1>6. CASE Gate!Summary(p)
  <2>1. PICK v \in Verdicts : /\ runs' = [runs EXCEPT ![p].state = "done", ![p].gate = v]
                              /\ v = "success" => Gate!Aggregate(runs[p])
    BY <1>6 DEF Gate!Summary, Verdicts
  <2> DEFINE r == [runs[p] EXCEPT !.state = "done", !.gate = v]
  <2>2. runs' = [runs EXCEPT ![p] = r] BY <1>2, <2>1 DEF RunRecords
  <2>3. /\ r \in RunRecords /\ r.base = runs[p].base /\ r.state = "done" /\ r.impact = runs[p].impact
        /\ r.plan = runs[p].plan /\ r.gate = v /\ r.fast = runs[p].fast /\ r.real = runs[p].real
        /\ r.jobs = runs[p].jobs
    BY <1>2 DEF RunRecords
  <2> HIDE DEF r
  <2>4. v = "success" => Gate!Aggregate(r) BY <2>1, <2>3 DEF Gate!Aggregate
  <2>5. RunOf(r, prs[p]) BY <1>2, <1>3, <2>3, <2>4 DEF RunOf
  <2> QED BY <1>1, <2>2, <2>3, <2>5, RunStep
<1> QED BY <1>4, <1>5, <1>6

\* What was delivered came with a version, whatever main was when the check ran: a head that is
\* merged stands on the very commit it was checked against.
LEMMA MergeKeepsGate ==
  ASSUME GateInv, NEW p \in Prs, Gate!Merge(p)
  PROVE  GateInv'
<1> DEFINE n == Len(main)
           h == prs[p]
           c == [version |-> Gate!HeadVersion(h), paths |-> h.paths, registration |-> h.registration]
<1>1. /\ main' = Append(main, c) /\ prs' = [prs EXCEPT ![p].state = "merged"] /\ UNCHANGED <<runs, offers>>
      /\ h.state = "open" /\ runs[p].gate = "success" /\ h.fork = n /\ runs[p].base = n
  BY DEF Gate!Merge, Gate!MayMerge
<1>2. /\ main \in Seq(MainCommits) /\ h \in HeadRecords /\ n \in 1 .. n /\ n \in Nat
      /\ prs \in [Prs -> HeadRecords] /\ main[n] \in MainCommits
  <2>1. h.fork \in 1 .. n BY DEF GateInv, GateTypes
  <2> QED BY <1>1, <2>1 DEF GateInv, GateTypes
<1>3. c \in MainCommits
  <2>1. Gate!HeadVersion(h) \in Int BY <1>1, <1>2 DEF Gate!HeadVersion, HeadRecords, MainCommits
  <2> QED BY <1>2, <2>1 DEF HeadRecords, MainCommits
<1>4. PICK d : d = c OBVIOUS
<1>5. d \in MainCommits /\ main' = Append(main, d) BY <1>1, <1>3, <1>4
<1>6. Len(main') = n + 1 /\ main' \in Seq(MainCommits) /\ main'[n + 1] = d /\ \A i \in 1 .. n : main'[i] = main[i]
  BY <1>2, <1>5
<1>7. GateTypes'
  <2>1. prs' \in [Prs -> HeadRecords] /\ \A q \in Prs : prs'[q].fork = prs[q].fork
    BY <1>1, <1>2 DEF HeadRecords
  <2>2. 1 .. n \subseteq 1 .. Len(main') BY <1>2, <1>6
  <2> QED BY <1>1, <1>6, <2>1, <2>2 DEF GateInv, GateTypes
<1>8. ASSUME NEW q \in Prs PROVE RunSound(q)'
  <2>1. PICK r, g : r = runs[q] /\ g = prs[q] OBVIOUS
  <2>2. RunOf(r, g) /\ g \in HeadRecords /\ g.fork \in 1 .. n /\ (r.state # "none" => r.base \in 1 .. n)
    BY <2>1 DEF GateInv, GateTypes, RunSound
  <2>3. PICK k : k = prs'[q] OBVIOUS
  <2>4. k.fork = g.fork /\ k.paths = g.paths /\ k.version = g.version /\ k.changelog = g.changelog
        /\ k.registration = g.registration /\ k.content = g.content
    BY <1>1, <1>2, <2>1, <2>3 DEF HeadRecords
  <2>5. k.state = "merged" => r.gate = "success"
    BY <1>1, <1>2, <2>1, <2>2, <2>3 DEF RunOf
  <2>6. ASSUME r.impact = "success" PROVE Gate!EnforceReleaseVersion(r.base, k)'
    <3>1. Gate!EnforceReleaseVersion(r.base, g) /\ r.base \in 1 .. n BY <2>2, <2>6 DEF RunOf
    <3>2. Gate!EnforceReleaseVersion(r.base, g)' BY <1>2, <1>5, <2>2, <3>1, ReleaseStays
    <3>3. Gate!HeadRegistered(k)' = Gate!HeadRegistered(g)' BY <2>4 DEF Gate!HeadRegistered
    <3>4. Gate!ArchiveRefused(r.base, k)' = Gate!ArchiveRefused(r.base, g)'
      BY <2>4, <3>3 DEF Gate!ArchiveRefused
    <3>5. Gate!ReleasePaths(r.base, k)' = Gate!ReleasePaths(r.base, g)'
      BY <2>4 DEF Gate!ReleasePaths, Gate!VerifiedReceipts
    <3>6. Gate!HeadVersion(k)' = Gate!HeadVersion(g)' BY <2>4 DEF Gate!HeadVersion
    <3> QED BY <2>4, <3>2, <3>4, <3>5, <3>6 DEF Gate!EnforceReleaseVersion
  <2>7. r = runs'[q] BY <1>1, <2>1
  <2> QED BY <2>2, <2>3, <2>4, <2>5, <2>6, <2>7 DEF RunSound, RunOf
<1>9. Gate!VersionsAdvance'
  <2> SUFFICES ASSUME NEW i \in 2 .. Len(main')
               PROVE  LET delivered == {k \in main'[i].paths : ~Gate!ReleaseNeutral(k)}
                      IN  /\ delivered \ {"evidence"} # {} => main'[i].version > main'[i - 1].version
                          /\ delivered = {"evidence"} => Gate!Registered(i - 1)' # 0 /\ ~Gate!Archived(i - 1)'
    BY DEF Gate!VersionsAdvance
  <2>1. i - 1 \in 1 .. n /\ main'[i - 1] = main[i - 1] BY <1>2, <1>6
  <2>2. Gate!Registered(i - 1)' = Gate!Registered(i - 1) /\ Gate!Archived(i - 1)' = Gate!Archived(i - 1)
    BY <1>2, <1>5, <2>1, HistoryStays
  <2>3. CASE i \in 2 .. n
    BY <1>6, <2>1, <2>2, <2>3 DEF GateInv, Gate!VersionsAdvance
  <2>4. CASE i = n + 1
    <3> DEFINE delivered == {k \in h.paths : ~Gate!ReleaseNeutral(k)}
    <3>1. Gate!EnforceReleaseVersion(n, h)
      BY <1>1 DEF GateInv, RunSound, RunOf, Gate!Aggregate
    <3>2. i - 1 = n /\ main'[i] = c BY <1>2, <1>4, <1>6, <2>4
    <3>3. Gate!ReleasePaths(n, h) = delivered \ Gate!VerifiedReceipts(n, h) BY DEF Gate!ReleasePaths
    <3>4. delivered \ {"evidence"} # {} => Gate!HeadVersion(h) > main[n].version
      BY <3>1, <3>3 DEF Gate!EnforceReleaseVersion, Gate!VerifiedReceipts
    <3>5. ASSUME delivered = {"evidence"} PROVE Gate!Registered(n) # 0 /\ ~Gate!Archived(n)
      <4>1. ~Gate!ReleaseNeutral("build") /\ ~Gate!ReleaseNeutral("version") BY DEF Gate!ReleaseNeutral
      <4>2. "build" \notin h.paths /\ "version" \notin h.paths /\ "evidence" \in h.paths BY <3>5, <4>1
      <4>3. Gate!HeadVersion(h) = main[n].version BY <1>1, <4>2 DEF Gate!HeadVersion
      <4>4. ~(Gate!HeadVersion(h) > main[n].version) BY <1>2, <4>3 DEF MainCommits
      <4>5. Gate!ReleasePaths(n, h) = {} BY <3>1, <4>4 DEF Gate!EnforceReleaseVersion
      <4>6. Gate!Registered(n) # 0 BY <3>3, <3>5, <4>5 DEF Gate!VerifiedReceipts
      <4> QED BY <3>1, <4>2, <4>6 DEF Gate!EnforceReleaseVersion, Gate!ArchiveRefused
    <3> QED BY <2>1, <2>2, <3>2, <3>4, <3>5
  <2> QED BY <1>2, <1>6, <2>3, <2>4
<1> QED BY <1>7, <1>8, <1>9 DEF GateInv

\* What a merged head was given to pass covers what any one of its paths would have needed.
LEMMA PassedWhatOnePathNeeds == GateInv => Gate!NothingWateredDown
<1> SUFFICES ASSUME GateInv, NEW p \in Gate!Merged, NEW k \in prs[p].paths,
                    NEW f \in Gate!Analyze({k}, k = "version").run \ {"tuning"}
             PROVE  Gate!Hosts(f) \cap Gate!Passed(p) # {}
  BY DEF Gate!NothingWateredDown
<1>1. p \in Prs /\ RunOf(runs[p], prs[p]) /\ prs[p].state = "merged" BY DEF GateInv, RunSound, Gate!Merged
<1>2. Gate!Aggregate(runs[p]) /\ runs[p].impact = "success" BY <1>1 DEF RunOf, Gate!Aggregate
<1>3. PICK only \in BOOLEAN : runs[p].plan = Gate!Analyze(prs[p].paths, only) BY <1>1, <1>2 DEF RunOf
<1>4. PICK S : S = prs[p].paths OBVIOUS
<1>5. k \in S /\ runs[p].plan = Gate!Analyze(S, only) BY <1>3, <1>4
<1>6. Gate!Hosts(f) \cap Gate!Jobs \cap Gate!Analyze(S, only).run # {}
  <2> QED BY <1>5, SelectionCovers
<1>7. Gate!Jobs \cap runs[p].plan.run \subseteq Gate!Passed(p) BY <1>2 DEF Gate!Aggregate, Gate!Passed
<1> QED BY <1>5, <1>6, <1>7

\* No mixture of changes waters down what has to pass before a merge, and main's versions advance
\* with whatever is delivered, for any number of pull requests, pushes and versions.
THEOREM MergedOnFullChecksHolds == SumSpec => []MergedOnFullChecks
<1> DEFINE Safe == which = "gate" => GateInv
<1>1. SumInit => Safe
  BY GateInitially, BoundsAssumption DEF SumInit
<1>2. ASSUME Safe, [SumNext]_sumVars PROVE Safe'
  <2> USE <1>2, BoundsAssumption
  <2>1. CASE which = "gate" /\ Gate!Next /\ UNCHANGED which
    BY <2>1, PushKeepsGate, ImpactKeepsGate, RunKeepsGate, MergeKeepsGate DEF Gate!Next
  <2>2. CASE UNCHANGED <<which, gateVars>>
    <3>1. ASSUME GateInv PROVE GateInv'
      <4>1. UNCHANGED <<main, prs, runs, offers>> BY <2>2 DEF gateVars
      <4>2. GateTypes' BY <3>1, <4>1 DEF GateInv, GateTypes
      <4>3. \A q \in Prs : RunSound(q)' BY <3>1, <4>1, RunStands DEF GateInv
      <4>4. Gate!VersionsAdvance'
        BY <3>1, <4>1 DEF GateInv, Gate!VersionsAdvance, Gate!Registered, Gate!Archived
      <4> QED BY <4>2, <4>3, <4>4 DEF GateInv
    <3> QED BY <2>2, <3>1
  <2> QED BY <2>1, <2>2 DEF SumNext, sumVars
<1>3. Safe => MergedOnFullChecks
  BY PassedWhatOnePathNeeds DEF MergedOnFullChecks, GateInv
<1> QED BY <1>1, <1>2, <1>3, PTL DEF SumSpec

(***************************************************************************)
(* The review of pinned actions                                            *)
(***************************************************************************)
Reviews == DOMAIN Pins!Target
PinTrees == [pins : [Sites -> Pins!Pins], review : Reviews, rest : Int]
Pushes == [fork : Int, tree : PinTrees]
Record == [base : Int, head : Int]
\* What is read of a branch exists: the base on main, the head among the pushes.
On(r) == r.base \in 1 .. Len(mains) /\ r.head \in 1 .. Len(heads)
PinTypes ==
    /\ mains \in Seq(PinTrees) /\ mains # <<>>
    /\ heads \in Seq(Pushes) /\ head \in 1 .. Len(heads)
    /\ \A h \in 1 .. Len(heads) : heads[h].fork \in 1 .. Len(mains)
    /\ meta \in Record /\ On(meta) /\ record \in Record /\ seen \in Record
\* The stages at which a run of the consumer has passed each of its questions.
Probed == {"meta", "classify", "meta again", "heads again", "bind", "last heads", "last meta", "skipped"}
Named == Probed \ {"meta"}
Reviewed == Named \ {"classify"}
BoundThere == {"last heads", "last meta", "skipped"}
Running == Probed \cup {"heads", "denied"}
\* The merge commit the event names is of its head into main as main was.
EventMade ==
    pc \in Running =>
        LET h == heads[event.head]
        IN  /\ event.base \in 1 .. Len(mains) /\ event.parent \in 1 .. Len(mains)
            /\ event.head \in 1 .. Len(heads)
            /\ event.tree = Pins!MergeTree(mains[h.fork], mains[event.parent], h.tree)
\* What has been answered stays so: commits do not change.
Answered ==
    /\ pc \in Probed => On(seen)
    /\ pc \in Named => heads[seen.head].tree # mains[seen.base]
    /\ pc \in Reviewed => Pins!Approved(seen.base, seen.head)
    /\ pc \in BoundThere => Pins!Bound
\* While nothing moves, every look finds what the event names.
Good == /\ event.base = Len(mains) /\ heads[event.head].fork = Len(mains)
        /\ heads[event.head].tree = Pins!Complete(mains[Len(mains)])
        /\ heads[event.head].tree # mains[Len(mains)]
Still ==
    steady /\ pc \in Running =>
        /\ event.parent = Len(mains) /\ event.head = head
        /\ meta = [base |-> event.base, head |-> event.head]
        /\ pc \in Probed => seen = [base |-> Len(mains), head |-> head]
        /\ pc = "heads again" => record = meta
        /\ pc = "denied" => ~Good
PinsInv == PinTypes /\ pc \in Running \cup {"idle"} /\ EventMade /\ Answered /\ Still

LEMMA TipIsThere == PinTypes => Len(mains) \in 1 .. Len(mains) /\ head \in 1 .. Len(heads)
<1> SUFFICES ASSUME PinTypes PROVE Len(mains) \in 1 .. Len(mains)
  BY DEF PinTypes
<1>1. mains \in Seq(PinTrees) /\ mains # <<>> BY DEF PinTypes
<1> QED BY <1>1
LEMMA NothingRead == [base |-> 0, head |-> 0] \in Record
BY DEF Record

LEMMA PinsInitially == Pins!Init => PinsInv
<1> SUFFICES ASSUME Pins!Init PROVE PinsInv
  OBVIOUS
<1> USE DEF Pins!Init
<1>1. PICK p \in [Sites -> {"none", "old"}] : mains = <<[pins |-> p, review |-> "previous", rest |-> 0]>>
  OBVIOUS
<1>2. p \in [Sites -> Pins!Pins] BY DEF Pins!Pins
<1>3. mains[1] \in PinTrees BY <1>1, <1>2 DEF PinTrees, Reviews, Pins!Target
<1>4. mains \in Seq(PinTrees) /\ Len(mains) = 1 BY <1>1, <1>3
<1>5. heads \in Seq(Pushes) /\ Len(heads) = 1 BY <1>3 DEF Pushes
<1>6. PinTypes BY <1>4, <1>5 DEF PinTypes, Record, On
<1>7. EventMade /\ Answered /\ Still BY DEF EventMade, Answered, Still, Running, Probed, Named, Reviewed, BoundThere
<1> QED BY <1>6, <1>7 DEF PinsInv

\* The branches only grow, so nothing that was answered about a commit changes.
Grown ==
    /\ mains' \in Seq(PinTrees) /\ heads' \in Seq(Pushes)
    /\ Len(mains') >= Len(mains) /\ Len(heads') >= Len(heads)
    /\ \A i \in 1 .. Len(mains) : mains'[i] = mains[i]
    /\ \A i \in 1 .. Len(heads) : heads'[i] = heads[i]

\* Moves of the two branches and of the record.
LEMMA GrowthKeepsPins ==
  ASSUME PinsInv, Grown, Pins!Moves, head' \in 1 .. Len(heads'),
         \A h \in 1 .. Len(heads') : heads'[h].fork \in 1 .. Len(mains'),
         meta' \in {meta, [base |-> Len(mains), head |-> head]}
  PROVE  PinsInv'
<1> USE DEF PinsInv, Grown, Pins!Moves
<1>1. PinTypes'
  <2>1. Len(mains) \in 1 .. Len(mains) /\ mains' # <<>> BY DEF PinTypes
  <2>2. meta' \in Record /\ On(meta)' BY <2>1 DEF PinTypes, Record, On
  <2> QED BY <2>1, <2>2 DEF PinTypes
<1>2. EventMade'
  <2>1. SUFFICES ASSUME pc \in Running
                 PROVE  /\ event.base \in 1 .. Len(mains') /\ event.parent \in 1 .. Len(mains')
                        /\ event.head \in 1 .. Len(heads')
                        /\ event.tree = Pins!MergeTree(mains'[heads'[event.head].fork], mains'[event.parent],
                                                       heads'[event.head].tree)
    BY DEF EventMade
  <2>2. /\ event.base \in 1 .. Len(mains) /\ event.parent \in 1 .. Len(mains) /\ event.head \in 1 .. Len(heads)
        /\ event.tree = Pins!MergeTree(mains[heads[event.head].fork], mains[event.parent], heads[event.head].tree)
    BY <2>1 DEF EventMade
  <2>3. heads'[event.head] = heads[event.head] /\ mains'[event.parent] = mains[event.parent] BY <2>2
  <2>4. mains'[heads[event.head].fork] = mains[heads[event.head].fork] BY <2>2 DEF PinTypes
  <2> QED BY <2>2, <2>3, <2>4 DEF PinTypes
<1>3. Answered'
  <2>1. Probed \subseteq Running /\ Named \subseteq Probed /\ Reviewed \subseteq Probed /\ BoundThere \subseteq Probed
    BY DEF Running, Named, Reviewed, BoundThere, Probed
  <2>2. ASSUME pc \in Probed
        PROVE  /\ On(seen)' /\ heads'[seen.head] = heads[seen.head] /\ mains'[seen.base] = mains[seen.base]
               /\ event.head \in 1 .. Len(heads) /\ heads'[event.head] = heads[event.head]
    <3>1. On(seen) BY <2>2 DEF Answered
    <3>2. event.head \in 1 .. Len(heads) BY <2>1, <2>2 DEF EventMade
    <3>3. heads'[seen.head] = heads[seen.head] /\ mains'[seen.base] = mains[seen.base] BY <3>1 DEF On
    <3>4. On(seen)' BY <3>1 DEF On, PinTypes
    <3> QED BY <3>2, <3>3, <3>4
  <2>3. pc \in Named => heads'[seen.head].tree # mains'[seen.base] BY <2>1, <2>2 DEF Answered
  <2>4. pc \in Reviewed => Pins!Approved(seen.base, seen.head)'
    BY <2>1, <2>2 DEF Answered, Pins!Approved, Pins!PinOnly, Pins!Policy
  <2>5. pc \in BoundThere => Pins!Bound' BY <2>1, <2>2 DEF Answered, Pins!Bound
  <2> QED BY <2>2, <2>3, <2>4, <2>5 DEF Answered
<1>4. Still' BY DEF Still
<1> QED BY <1>1, <1>2, <1>3, <1>4

LEMMA BranchesKeepPins ==
  ASSUME PinsInv, MaxMain \in Nat,
         Pins!MainMoves \/ Pins!BotPushes \/ (\E h \in 1 .. Len(heads) : Pins!BotReturns(h)) \/ Pins!GithubCatchesUp
  PROVE  PinsInv'
<1> USE DEF PinsInv, PinTypes, Pins!Tip
<1>1. ASSUME NEW t \in PinTrees, Pins!CommitMain(t) PROVE PinsInv'
  <2>1. Grown BY <1>1 DEF Pins!CommitMain, Grown
  <2> QED BY <1>1, <2>1, GrowthKeepsPins DEF Pins!CommitMain, Grown
<1>2. CASE Pins!MainMoves
  <2> DEFINE t == mains[Len(mains)]
  <2>1. t \in PinTrees OBVIOUS
  <2>2. ASSUME NEW s \in Sites, NEW p \in {"none", "old", Pins!Target[t.review]}
        PROVE  [t EXCEPT !.pins[s] = p] \in PinTrees
    <3>1. p \in Pins!Pins BY <2>1 DEF Pins!Pins, Pins!Target, PinTrees, Reviews
    <3> QED BY <2>1, <3>1 DEF PinTrees
  <2>3. [t EXCEPT !.review = "current"] \in PinTrees BY <2>1 DEF PinTrees, Reviews, Pins!Target
  <2>4. [t EXCEPT !.rest = @ + 1] \in PinTrees
    <3> HIDE DEF t
    <3>1. t.rest + 1 \in Int BY <2>1 DEF PinTrees
    <3> QED BY <2>1, <3>1 DEF PinTrees
  <2> QED BY <1>1, <1>2, <2>2, <2>3, <2>4 DEF Pins!MainMoves
<1>3. CASE Pins!BotPushes
  <2>1. PICK fork \in 1 .. Len(mains), moved \in SUBSET Sites, p \in {"prev", "new"}, r \in {0, MaxMain} :
          heads' = Append(heads, [fork |-> fork, tree |->
                     [mains[fork] EXCEPT !.pins = [s \in Sites |-> IF s \in moved /\ @[s] # "none" THEN p ELSE @[s]],
                                         !.rest = IF r = 0 THEN @ ELSE r]])
    BY <1>3 DEF Pins!BotPushes
  <2> DEFINE u == [mains[fork] EXCEPT !.pins = [s \in Sites |-> IF s \in moved /\ @[s] # "none" THEN p ELSE @[s]],
                                      !.rest = IF r = 0 THEN @ ELSE r]
  <2>2. mains[fork] \in PinTrees OBVIOUS
  <2>3. u \in PinTrees
    <3> DEFINE f == mains[fork]
               q == [s \in Sites |-> IF s \in moved /\ f.pins[s] # "none" THEN p ELSE f.pins[s]]
               n == IF r = 0 THEN f.rest ELSE r
    <3>1. q \in [Sites -> Pins!Pins] BY <2>2 DEF PinTrees, Pins!Pins
    <3>2. n \in Int BY <2>2 DEF PinTrees
    <3>3. u = [f EXCEPT !.pins = q, !.rest = n] BY <2>2 DEF PinTrees
    <3> HIDE DEF u, f, q, n
    <3> QED BY <2>2, <3>1, <3>2, <3>3 DEF PinTrees, f
  <2>4. [fork |-> fork, tree |-> u] \in Pushes BY <2>3 DEF Pushes
  <2> HIDE DEF u
  <2>5. heads' = Append(heads, [fork |-> fork, tree |-> u]) BY <2>1 DEF u
  <2>6. UNCHANGED <<mains, meta>> /\ head' = Len(heads') /\ Pins!Moves BY <1>3 DEF Pins!BotPushes
  <2>7. Grown BY <2>4, <2>5, <2>6 DEF Grown
  <2>8. ASSUME NEW h \in 1 .. Len(heads') PROVE heads'[h].fork \in 1 .. Len(mains')
    <3>1. CASE h = Len(heads')
      <4>1. Len(heads') = Len(heads) + 1 /\ heads'[h] = [fork |-> fork, tree |-> u] BY <2>4, <2>5, <3>1
      <4> QED BY <2>6, <4>1
    <3>2. CASE h # Len(heads')
      <4>1. h \in 1 .. Len(heads) /\ heads'[h] = heads[h] BY <2>4, <2>5, <2>8, <3>2
      <4> QED BY <2>6, <4>1
    <3> QED BY <3>1, <3>2
  <2>9. head' \in 1 .. Len(heads')
    <3>1. Len(heads) \in Nat /\ Len(heads') = Len(heads) + 1 BY <2>4, <2>5
    <3> QED BY <2>6, <3>1
  <2> QED BY <2>6, <2>7, <2>8, <2>9, GrowthKeepsPins
<1>4. ASSUME NEW h \in 1 .. Len(heads), Pins!BotReturns(h) PROVE PinsInv'
  <2>1. Grown BY <1>4 DEF Pins!BotReturns, Grown
  <2> QED BY <1>4, <2>1, GrowthKeepsPins DEF Pins!BotReturns
<1>5. CASE Pins!GithubCatchesUp
  <2>1. Grown BY <1>5 DEF Pins!GithubCatchesUp, Grown
  <2> QED BY <1>5, <2>1, GrowthKeepsPins DEF Pins!GithubCatchesUp
<1> QED BY <1>2, <1>3, <1>4, <1>5

\* The workflow starts, or another event finds another runner.
LEMMA EventsKeepPins ==
  ASSUME PinsInv, Pins!Start \/ Pins!NextEvent
  PROVE  PinsInv'
<1> USE DEF PinsInv, Running, Probed, Named, Reviewed, BoundThere
<1>1. CASE Pins!Start
  <2>1. /\ UNCHANGED <<mains, heads, head, meta, seen, record>> /\ pc' = "heads" /\ meta.head = head
        /\ event' = [base |-> meta.base, head |-> head, parent |-> Len(mains),
                     tree |-> Pins!MergeTree(mains[heads[head].fork], mains[Len(mains)], heads[head].tree)]
    BY <1>1 DEF Pins!Start, Pins!repo, Pins!Tip
  <2>2. PinTypes' BY <2>1 DEF PinTypes, On
  <2>3. EventMade'
    <3>0. Len(mains) \in 1 .. Len(mains) BY TipIsThere
    <3>1. meta.base \in 1 .. Len(mains) /\ head \in 1 .. Len(heads)
      BY DEF PinTypes, On
    <3> QED BY <2>1, <3>0, <3>1 DEF EventMade
  <2>4. Answered' BY <2>1 DEF Answered
  <2>5. meta = [base |-> meta.base, head |-> meta.head] BY DEF PinTypes, Record
  <2>6. Still' BY <2>1, <2>5 DEF Still
  <2> QED BY <2>1, <2>2, <2>3, <2>4, <2>6
<1>2. CASE Pins!NextEvent
  <2>1. UNCHANGED <<mains, heads, head, meta>> /\ pc' = "idle" /\ seen' = [base |-> 0, head |-> 0] /\ record' = seen'
    BY <1>2 DEF Pins!NextEvent, Pins!repo
  <2>2. PinTypes'
    <3>1. seen' \in Record BY <2>1, NothingRead
    <3> QED BY <2>1, <3>1 DEF PinTypes, On
  <2> QED BY <2>1, <2>2 DEF EventMade, Answered, Still
<1> QED BY <1>1, <1>2

\* A head that stands on main with all of the reviewed pins moved, and nothing else, is approved;
\* and merging it into main gives it.
LEMMA CompleteIsApproved ==
  ASSUME PinTypes, NEW b \in 1 .. Len(mains), NEW h \in 1 .. Len(heads), heads[h].fork = b,
         heads[h].tree = Pins!Complete(mains[b])
  PROVE  Pins!Approved(b, h)
<1> DEFINE t == mains[b]  u == heads[h].tree
<1>1. t \in PinTrees BY DEF PinTypes
<1>2. /\ u.review = t.review /\ u.rest = t.rest
      /\ u.pins = [s \in Sites |-> IF t.pins[s] = "old" THEN Pins!Target[t.review] ELSE t.pins[s]]
  BY <1>1 DEF Pins!Complete, PinTrees
<1>3. Pins!PinEdits(t.pins, u.pins, t.review) BY <1>2 DEF Pins!PinEdits, Pins!Authorized
<1> QED BY <1>2, <1>3 DEF Pins!Approved, Pins!PinOnly, Pins!Policy
LEMMA ApprovedIsComplete ==
  ASSUME PinTypes, NEW b \in 1 .. Len(mains), NEW h \in 1 .. Len(heads), Pins!Approved(b, h)
  PROVE  heads[h].tree = Pins!Complete(mains[b])
<1> DEFINE t == mains[b]  u == heads[h].tree
<1>1. t \in PinTrees /\ heads[h] \in Pushes BY DEF PinTypes
<1>2. u \in PinTrees BY <1>1 DEF Pushes
<1>3. Pins!Complete(t) \in [pins : {Pins!Complete(t).pins}, review : {t.review}, rest : {t.rest}]
  BY <1>1 DEF Pins!Complete, PinTrees
<1>4. u.review = t.review /\ u.rest = t.rest /\ u.pins = Pins!Complete(t).pins
  BY DEF Pins!Approved, Pins!PinOnly
<1> HIDE DEF u, t
<1> QED BY <1>2, <1>3, <1>4 DEF PinTrees, u, t
LEMMA MergeOntoFork ==
  ASSUME NEW m \in PinTrees, NEW t \in PinTrees
  PROVE  Pins!MergeTree(m, m, t) = t
<1>1. \A x, y : Pins!Merged(x, x, y) = y BY DEF Pins!Merged
<1>2. [s \in Sites |-> t.pins[s]] = t.pins BY DEF PinTrees
<1>3. Pins!MergeTree(m, m, t) = [pins |-> t.pins, review |-> t.review, rest |-> t.rest]
  BY <1>1, <1>2 DEF Pins!MergeTree
<1> QED BY <1>3 DEF PinTrees

\* The questions of the probe and of the consumer, in their order.
LEMMA QuestionsKeepPins ==
  ASSUME PinsInv,
         \/ Pins!ReadHeads \/ Pins!ReadMeta \/ Pins!Classify \/ Pins!ReadMetaAgain \/ Pins!ReadHeadsAgain
         \/ Pins!Bind \/ Pins!ReadLastHeads \/ Pins!Decide
  PROVE  PinsInv'
<1>0. UNCHANGED <<mains, heads, head, meta, event, steady>> /\ pc \in Running
  BY DEF Pins!ReadHeads, Pins!ReadMeta, Pins!Classify, Pins!ReadMetaAgain, Pins!ReadHeadsAgain, Pins!Bind,
         Pins!ReadLastHeads, Pins!Decide, Pins!repo, Running, Probed
<1>1. PinTypes'
  <2>1. Len(mains) \in Int /\ head \in Int BY DEF PinsInv, PinTypes
  <2>2. record' \in {record, meta} /\ seen' \in {seen, [base |-> Len(mains), head |-> head]}
    BY DEF Pins!ReadHeads, Pins!ReadMeta, Pins!Classify, Pins!ReadMetaAgain, Pins!ReadHeadsAgain, Pins!Bind,
         Pins!ReadLastHeads, Pins!Decide, Pins!repo, Pins!Tips, Pins!Tip
  <2> QED BY <1>0, <2>1, <2>2 DEF PinsInv, PinTypes, On, Record
<1>2. pc' \in Running
  BY DEF Pins!ReadHeads, Pins!ReadMeta, Pins!Classify, Pins!ReadMetaAgain, Pins!ReadHeadsAgain, Pins!Bind,
         Pins!ReadLastHeads, Pins!Decide, Pins!Deny, Running, Probed
<1>3. EventMade' BY <1>0, <1>2 DEF PinsInv, EventMade
<1>4. Answered'
  <2> USE <1>0 DEF PinsInv, Answered, Probed, Named, Reviewed, BoundThere, Pins!Deny
  <2>1. CASE Pins!ReadHeads
    <3>1. pc' \in {"meta", "denied"} /\ seen' = [base |-> Len(mains), head |-> head]
      BY <2>1 DEF Pins!ReadHeads, Pins!Tips, Pins!Tip
    <3>2. Len(mains) \in 1 .. Len(mains) /\ head \in 1 .. Len(heads) BY TipIsThere
    <3>3. On(seen)' BY <3>1, <3>2 DEF On
    <3> QED BY <3>1, <3>3
  <2>2. CASE Pins!ReadMeta
    <3>1. On(seen)' BY <2>2 DEF Pins!ReadMeta, On
    <3> QED BY <2>2, <3>1 DEF Pins!ReadMeta, Pins!Snapshot
  <2>3. CASE Pins!Classify
    <3>1. On(seen)' BY <2>3 DEF Pins!Classify, On
    <3>2. Pins!Approved(seen.base, seen.head) => Pins!Approved(seen.base, seen.head)'
      BY <2>3 DEF Pins!Classify, Pins!Approved, Pins!PinOnly, Pins!Policy
    <3> QED BY <2>3, <3>1, <3>2 DEF Pins!Classify
  <2>4. CASE Pins!ReadMetaAgain \/ Pins!ReadHeadsAgain \/ Pins!Bind \/ Pins!ReadLastHeads \/ Pins!Decide
    <3>1. UNCHANGED seen /\ pc \in Reviewed
      BY <2>4 DEF Pins!ReadMetaAgain, Pins!ReadHeadsAgain, Pins!Bind, Pins!ReadLastHeads, Pins!Decide
    <3>2. On(seen)' BY <3>1 DEF On
    <3>3. heads'[seen.head].tree # mains'[seen.base] BY <3>1
    <3>4. Pins!Approved(seen.base, seen.head)' BY <3>1 DEF Pins!Approved, Pins!PinOnly, Pins!Policy
    <3>5. Pins!Bound => Pins!Bound' BY <3>1 DEF Pins!Bound
    <3>6. pc' \in BoundThere => Pins!Bound
      BY <2>4 DEF Pins!ReadMetaAgain, Pins!ReadHeadsAgain, Pins!Bind, Pins!ReadLastHeads, Pins!Decide
    <3> HIDE DEF Pins!Bound
    <3> QED BY <3>1, <3>2, <3>3, <3>4, <3>5, <3>6
  <2> QED BY <2>1, <2>2, <2>3, <2>4
<1>5. Still'
  <2> SUFFICES ASSUME steady PROVE Still'
    BY <1>0 DEF Still
  <2>1. /\ event.parent = Len(mains) /\ event.head = head
        /\ meta = [base |-> event.base, head |-> event.head]
        /\ pc \in Probed => seen = [base |-> Len(mains), head |-> head]
        /\ pc = "heads again" => record = meta
    BY <1>0 DEF PinsInv, Still
  <2>2. pc' \in Probed => seen' = [base |-> Len(mains), head |-> head]
    BY <2>1 DEF Pins!ReadHeads, Pins!ReadMeta, Pins!Classify, Pins!ReadMetaAgain, Pins!ReadHeadsAgain, Pins!Bind,
         Pins!ReadLastHeads, Pins!Decide, Pins!repo, Pins!Tips, Pins!Tip, Probed
  <2>3. pc' = "heads again" => record' = meta
    BY <2>1 DEF Pins!ReadHeads, Pins!ReadMeta, Pins!Classify, Pins!ReadMetaAgain, Pins!ReadHeadsAgain, Pins!Bind,
         Pins!ReadLastHeads, Pins!Decide, Pins!Deny
  <2>4. ASSUME pc' = "denied", Good PROVE FALSE
    <3> DEFINE m == Len(mains)
    <3>1. m \in 1 .. Len(mains) /\ head \in 1 .. Len(heads) /\ mains[m] \in PinTrees /\ heads[head] \in Pushes
      BY DEF PinsInv, PinTypes
    <3>2. heads[head].tree \in PinTrees BY <3>1 DEF Pushes
    <3>3. /\ event.base = m /\ heads[head].fork = m /\ heads[head].tree = Pins!Complete(mains[m])
          /\ heads[head].tree # mains[m] /\ meta = [base |-> m, head |-> head]
      BY <2>1, <2>4 DEF Good
    <3>4. Pins!Approved(m, head) BY <3>1, <3>3, CompleteIsApproved DEF PinsInv
    <3>5. event.tree = heads[head].tree
      BY <1>0, <2>1, <3>1, <3>2, <3>3, MergeOntoFork DEF PinsInv, EventMade
    <3> HIDE DEF m
    <3>6. Pins!Tip = m /\ Pins!Tips = [base |-> m, head |-> head] BY DEF Pins!Tip, Pins!Tips, m
    <3>7. Pins!Snapshot(meta, [base |-> m, head |-> head]) BY <3>3 DEF Pins!Snapshot
    <3>8. CASE Pins!ReadHeads BY <2>4, <3>3, <3>6, <3>8 DEF Pins!ReadHeads, Pins!Checkout
    <3> DEFINE looked == seen = [base |-> m, head |-> head]
    <3>9. ASSUME looked PROVE ~Pins!ReadMeta /\ ~Pins!Classify /\ ~Pins!ReadMetaAgain
      BY <2>4, <3>4, <3>7, <3>9 DEF Pins!ReadMeta, Pins!Classify, Pins!ReadMetaAgain
    <3>10. ASSUME looked PROVE ~Pins!ReadHeadsAgain
      BY <2>1, <2>4, <3>6, <3>7, <3>10 DEF Pins!ReadHeadsAgain, Pins!Unmoved
    <3>11. ASSUME looked PROVE ~Pins!Bind
      BY <2>1, <2>4, <3>3, <3>5, <3>11 DEF Pins!Bind, Pins!Bound, m
    <3>12. ASSUME looked PROVE ~Pins!ReadLastHeads /\ ~Pins!Decide
      BY <2>4, <3>6, <3>7, <3>12 DEF Pins!ReadLastHeads, Pins!Decide
    <3>13. Pins!ReadHeads \/ looked
      BY <2>1 DEF Pins!ReadMeta, Pins!Classify, Pins!ReadMetaAgain, Pins!ReadHeadsAgain, Pins!Bind,
         Pins!ReadLastHeads, Pins!Decide, Probed, m
    <3> QED BY <3>8, <3>9, <3>10, <3>11, <3>12, <3>13
  <2>5. Good' => Good BY <1>0 DEF Good, Pins!Complete
  <2> QED BY <1>0, <2>1, <2>2, <2>3, <2>4, <2>5 DEF Still
<1> QED BY <1>1, <1>2, <1>3, <1>4, <1>5 DEF PinsInv

\* A run that skips the measurements was bound to what it reviewed: the merge is the complete
\* transition of main as it was at the last look; and a good merge nothing moved under is not denied.
THEOREM SkipEarnedHolds == SumSpec => []SkipEarned
<1> DEFINE Safe == which = "pins" => PinsInv
<1>1. SumInit => Safe
  BY PinsInitially DEF SumInit
<1>2. ASSUME Safe, [SumNext]_sumVars PROVE Safe'
  <2> USE <1>2, BoundsAssumption
  <2>1. CASE which = "pins" /\ Pins!Next /\ UNCHANGED which
    BY <2>1, BranchesKeepPins, EventsKeepPins, QuestionsKeepPins DEF Pins!Next
  <2>2. CASE UNCHANGED <<which, pinsVars>>
    BY <2>2 DEF pinsVars, PinsInv, PinTypes, On, EventMade, Answered, Still, Good, Pins!Approved, Pins!PinOnly,
                Pins!Policy, Pins!Bound
  <2> QED BY <2>1, <2>2 DEF SumNext, sumVars
<1>3. Safe => SkipEarned
  <2> SUFFICES ASSUME PinsInv PROVE Pins!SkipEarned /\ Pins!DenialJustified
    BY DEF SkipEarned
  <2>1. ASSUME pc = "skipped"
        PROVE  event.tree = Pins!Complete(mains[seen.base]) /\ event.tree # mains[seen.base] /\ event.parent = seen.base
    <3>1. /\ On(seen) /\ heads[seen.head].tree # mains[seen.base] /\ Pins!Approved(seen.base, seen.head) /\ Pins!Bound
      BY <2>1 DEF PinsInv, Answered, Probed, Named, Reviewed, BoundThere
    <3>2. heads[seen.head].tree = Pins!Complete(mains[seen.base]) BY <3>1, ApprovedIsComplete DEF PinsInv, On
    <3> QED BY <3>1, <3>2 DEF Pins!Bound
  <2>2. ASSUME pc = "denied", steady PROVE ~Good
    BY <2>2 DEF PinsInv, Still, Running
  <2> QED BY <2>1, <2>2 DEF Pins!SkipEarned, Pins!DenialJustified, Good, Pins!Tip
<1> QED BY <1>1, <1>2, <1>3, PTL DEF SumSpec

(***************************************************************************)
(* The plan of the research program                                        *)
(***************************************************************************)
\* What every accepted commit leaves behind, and what was started from it.
PlanChecked == Plan!Validate(plan, exact, baseline) /\ Plan!SelfTest(plan, exact, policy)
PlanInv == PlanChecked /\ Plan!OnlySelectorSearch

\* The first plan is the one that was reviewed: all but the external task are closed.
LEMMA PlanInitially == Plan!Init => PlanInv
<1> SUFFICES ASSUME Plan!Init PROVE PlanInv
  OBVIOUS
<1>1. /\ \A t \in Plan!Tasks : plan[t] = IF t = "E001" THEN [Plan!Closed(t) EXCEPT !.status = "DEFERRED"]
                                         ELSE Plan!Closed(t)
      /\ exact = Plan!Tasks \ {"E001"} /\ baseline = "v2.3.13"
      /\ policy = [searches |-> 2, confirmations |-> 1, observed |-> TRUE, independent |-> FALSE,
                   role |-> "regression"]
      /\ executions = {}
  BY DEF Plan!Init
<1>2. ASSUME NEW t \in Plan!Tasks
      PROVE  /\ plan[t].status = (IF t = "E001" THEN "DEFERRED" ELSE "CLOSED") /\ plan[t].handler = "none"
             /\ plan[t].contract = "closure" /\ plan[t].evidence = Plan!Pointers(t)
  <2>1. CASE t = "E001" BY <1>1, <2>1 DEF Plan!Closed, Plan!Nil
  <2>2. CASE t # "E001"
    <3>1. plan[t] = Plan!Closed(t) BY <1>1, <2>2
    <3>2. plan[t] = [status |-> "CLOSED", handler |-> "none", contract |-> "closure", evidence |-> Plan!Pointers(t)]
      BY <3>1 DEF Plan!Closed, Plan!Nil
    <3> QED BY <2>2, <3>2
  <2> QED BY <2>1, <2>2
<1>3. \A t \in Plan!Tasks : Plan!Pointers(t) \in {1, 4, 5} BY DEF Plan!Pointers
<1>4. Plan!Validate(plan, exact, baseline)
  <2>1. ASSUME NEW t \in Plan!Tasks PROVE Plan!TaskValid(plan, t, exact)
    <3>1. Plan!Lane(t) = "external" => t = "E001" BY DEF Plan!Lane, Plan!Tasks
    <3>2. plan[t].evidence > 0 BY <1>2, <1>3
    <3> QED BY <1>2, <3>1, <3>2 DEF Plan!TaskValid, Plan!Nil
  <2>2. ASSUME NEW t \in Plan!Tasks, t # "E001"
        PROVE  plan[t].status = "CLOSED" /\ Plan!Frozen(t, plan[t]) /\ t \in exact /\ plan[t].evidence > 0
    BY <1>1, <1>2, <1>3, <2>2 DEF Plan!Frozen, Plan!Nil
  <2>3. Plan!I004Closed(plan, exact) BY <1>2, <2>2 DEF Plan!I004Closed, Plan!Tasks, Plan!Nil
  <2>4. Plan!I006ReviewRequired(plan, exact) /\ Plan!I006Closed(plan, exact)
    BY <1>2, <2>2 DEF Plan!I006ReviewRequired, Plan!I006Closed, Plan!Tasks, Plan!Nil
  <2>5. /\ Plan!I009Closed(plan, exact) /\ Plan!I008ReviewRequired(plan, exact, baseline)
        /\ Plan!I008Closed(plan, exact, baseline)
    BY <1>1, <2>2 DEF Plan!I009Closed, Plan!I008ReviewRequired, Plan!I008Closed, Plan!Tasks
  <2>6. Plan!P002Closed(plan, exact) BY <2>2 DEF Plan!P002Closed, Plan!Tasks
  <2> QED BY <2>1, <2>3, <2>4, <2>5, <2>6 DEF Plan!Validate
<1>5. Plan!SelfTest(plan, exact, policy)
  <2>1. Plan!Ready(plan) = {} BY <1>2 DEF Plan!Ready
  <2>2. Plan!NextTask(plan) = "none" BY <2>1 DEF Plan!NextTask, Plan!Nil
  <2>3. Plan!OthersBlocked(plan)
    <3> DEFINE p == [plan EXCEPT !["I003"].status = "READY", !["I004"].status = "REVIEW_REQUIRED"]
               q == [plan EXCEPT !["I003"].status = "DEFERRED", !["I004"].status = "REVIEW_REQUIRED"]
    <3>0. plan = [t \in Plan!Tasks |-> IF t = "E001" THEN [Plan!Closed(t) EXCEPT !.status = "DEFERRED"]
                                       ELSE Plan!Closed(t)]
      BY DEF Plan!Init
    <3>1. ASSUME NEW t \in Plan!Tasks
          PROVE  p[t].status = CASE t = "I003" -> "READY" [] t = "I004" -> "REVIEW_REQUIRED"
                                 [] t = "E001" -> "DEFERRED" [] OTHER -> "CLOSED"
      BY <3>0 DEF Plan!Closed, Plan!Tasks
    <3>2. ASSUME NEW t \in Plan!Tasks
          PROVE  q[t].status = CASE t = "I003" -> "DEFERRED" [] t = "I004" -> "REVIEW_REQUIRED"
                                 [] t = "E001" -> "DEFERRED" [] OTHER -> "CLOSED"
      BY <3>0 DEF Plan!Closed, Plan!Tasks
    <3> HIDE DEF p, q
    <3>3. Plan!Ready(p) = {"I003"}
      <4>1. "I003" \in Plan!Tasks /\ "I002" \in Plan!Tasks /\ "P001" \in Plan!Tasks BY DEF Plan!Tasks
      <4>2. Plan!DependsOn("I003") = {"I002", "P001"} BY DEF Plan!DependsOn
      <4> QED BY <3>1, <4>1, <4>2 DEF Plan!Ready
    <3>4. Plan!NextTask(p) = "I003" BY <3>3 DEF Plan!NextTask, Plan!Priority
    <3>5. Plan!Ready(q) = {} BY <3>2 DEF Plan!Ready
    <3>6. Plan!NextTask(q) = Plan!Nil BY <3>5 DEF Plan!NextTask
    <3> QED BY <3>4, <3>6 DEF Plan!OthersBlocked, p, q
  <2>4. ASSUME NEW t \in Plan!Tasks, t # "E001"
        PROVE  plan[t].status = "CLOSED" /\ plan[t].handler = Plan!Nil /\ Plan!Frozen(t, plan[t]) /\ plan[t].evidence > 0
    BY <1>2, <1>3, <2>4 DEF Plan!Frozen, Plan!Nil
  <2>5. Plan!I003Lifecycle(plan, exact, policy)
    BY <1>1, <2>2, <2>4 DEF Plan!I003Lifecycle, Plan!Nil, Plan!Tasks
  <2> QED BY <2>2, <2>3, <2>4, <2>5 DEF Plan!SelfTest, Plan!PlannedOrSealed, Plan!Tasks, Plan!Nil
<1> QED BY <1>1, <1>4, <1>5 DEF PlanInv, PlanChecked, Plan!OnlySelectorSearch

\* Whatever plan passed the checks, the only task that can be next is the selector search; and it
\* is next only while the task that builds on its result is reopened.
LEMMA OnlySelectorIsNext ==
  ASSUME PlanChecked, Plan!NextTask(plan) # Plan!Nil
  PROVE  /\ Plan!NextTask(plan) = "I003" /\ plan["I003"].handler = "I003"
         /\ \A t \in {"I002", "P001", "I004"} : plan[t].status = "CLOSED"
         /\ plan["I005"].status = "PLANNED"
BY DEF PlanChecked, Plan!SelfTest, Plan!I003Lifecycle, Plan!PlannedOrSealed, Plan!Idle

LEMMA PlanSteps == ASSUME PlanInv, Plan!Next PROVE PlanInv'
<1>1. CASE (\E t \in Plan!Tasks : Plan!EditTask(t) \/ Plan!EditDocuments(t)) \/ Plan!EditPolicy
  <2>1. Plan!Accepted BY <1>1 DEF Plan!EditTask, Plan!EditDocuments, Plan!EditPolicy
  <2>2. PlanChecked' BY <2>1 DEF Plan!Accepted, PlanChecked
  <2> QED BY <2>1, <2>2 DEF PlanInv, Plan!Accepted, Plan!OnlySelectorSearch
<1>2. CASE Plan!RunNext
  <2>1. PICK e : /\ executions' = executions \cup {e}
                 /\ e = [task |-> Plan!NextTask(plan), handler |-> plan[Plan!NextTask(plan)].handler,
                         searches |-> policy.searches, closed |-> {u \in Plan!Tasks : plan[u].status = "CLOSED"}]
    BY <1>2 DEF Plan!RunNext
  <2>2. /\ e.task = "I003" /\ e.handler = "I003"
        /\ {"I002", "P001", "I004"} \subseteq e.closed /\ "I005" \notin e.closed
    <3>1. Plan!NextTask(plan) # Plan!Nil BY <1>2 DEF Plan!RunNext
    <3>2. /\ Plan!NextTask(plan) = "I003" /\ plan["I003"].handler = "I003"
          /\ \A t \in {"I002", "P001", "I004"} : plan[t].status = "CLOSED"
          /\ plan["I005"].status = "PLANNED"
      BY <3>1, OnlySelectorIsNext DEF PlanInv
    <3>3. {"I002", "P001", "I004", "I005"} \subseteq Plan!Tasks BY DEF Plan!Tasks
    <3> QED BY <2>1, <3>2, <3>3
  <2>3. Plan!OnlySelectorSearch' BY <2>1, <2>2 DEF PlanInv, Plan!OnlySelectorSearch
  <2> QED BY <1>2, <2>3 DEF PlanInv, PlanChecked, Plan!RunNext, Plan!planVars
<1>3. CASE Plan!Finish \/ Plan!Interrupt
  BY <1>3 DEF Plan!Finish, Plan!Interrupt, Plan!planVars, PlanInv, PlanChecked, Plan!OnlySelectorSearch
<1> QED BY <1>1, <1>2, <1>3 DEF Plan!Next

\* Nothing but the frozen selector search is started from a plan that passed the checks, and the
\* release moves with the closure that carried it, for any number of commits.
THEOREM PlanKeptHolds == SumSpec => []PlanKept
<1> DEFINE Safe == which = "plan" => PlanInv
<1>1. SumInit => Safe
  BY PlanInitially DEF SumInit
<1>2. ASSUME Safe, [SumNext]_sumVars PROVE Safe'
  <2> USE <1>2
  <2>1. CASE which = "plan" /\ Plan!Next /\ UNCHANGED which
    BY <2>1, PlanSteps
  <2>2. CASE UNCHANGED <<which, planVars>>
    BY <2>2 DEF planVars, PlanInv, PlanChecked, Plan!OnlySelectorSearch
  <2> QED BY <2>1, <2>2 DEF SumNext, sumVars
<1>3. Safe => PlanKept
  <2> SUFFICES ASSUME PlanInv PROVE Plan!BaselineCarried
    BY DEF PlanKept, PlanInv
  <2> QED BY DEF PlanInv, PlanChecked, Plan!Validate, Plan!I008Closed, Plan!P002Closed, Plan!BaselineCarried
<1> QED BY <1>1, <1>2, <1>3, PTL DEF SumSpec
=============================================================================
