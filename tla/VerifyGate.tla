------------------------------ MODULE VerifyGate ------------------------------
(***************************************************************************)
(* The required check of a pull request: ci_impact.py selects jobs from    *)
(* the changed paths and holds the version against the base, verify.yml    *)
(* runs what is selected, ci_failure.py compares expected with actual      *)
(* results.  Pull requests are pushed to, verified, brought up to date and *)
(* squashed into main while main moves.  A path is known by its class; a   *)
(* head holds the commits of main up to fork and its own changes.          *)
(***************************************************************************)
EXTENDS Integers, Sequences

CONSTANTS Prs,         \* pull requests
          MaxVersion,  \* bound: versions
          MaxUpdates   \* bound: pushes to and updates of a pull request

VARIABLES main,        \* commits: version, changed classes, an evidence registration's content
          prs,         \* the head of each pull request
          runs,        \* the Verify run of each
          offers       \* the scenario

vars == <<main, prs, runs, offers>>

(***************************************************************************)
(* ci_impact.py                                                            *)
(***************************************************************************)
Dsp == {"aec", "ns", "resampler", "activity"}
Classes == Dsp \cup
    {"doc", "registry", "governance", "github", "workflow", "registration", "build", "include",
     "tests", "platform", "core", "authority", "validation", "adapter", "evidence",
     "certification", "historical", "pcm", "alsa", "tool", "device", "script",
     "version"}      \* CMakeLists.txt with nothing but its version changed

\* Bound: what each pull request may change.  One of any two classes; or two and three that collide.
Lone == [p \in Prs |-> IF p # 1 THEN {} ELSE {{a, b} : a, b \in Classes} \cup
                                             {{a, "doc", "version"} : a \in Classes}]
Colliding == [p \in Prs |-> CASE p = 1 -> {{"registration"}, {"evidence"}, {"build", "core"}}
                            [] p = 2 -> {{"evidence"}, {"build", "core"}, {"core"}}
                            [] OTHER -> {{"registration"}, {"evidence"}}]
Scenarios == {Lone, Colliding}

IsDocs(p) == p = "doc"
ReleaseNeutral(p) ==
    p \in {"doc", "registry", "governance", "github", "workflow", "registration", "tests",
           "authority", "adapter", "historical", "device"}
RequiresTuningSearch(paths) ==
    paths \cap (Dsp \cup {"build", "version", "include", "platform", "core", "pcm", "authority", "validation",
                          "adapter", "evidence", "workflow"}) # {}
Flags(p) ==
    CASE p \in Dsp \cup {"alsa", "certification"} -> {p}
      [] p = "platform" -> {"runtime"}
      [] p \in {"validation", "adapter", "evidence"} -> {"validation"}
      [] p = "pcm" -> {"bench", "validation"}
      [] p \in {"tool", "device"} -> {"bench"}
      [] p = "doc" -> {}
      [] OTHER -> {"unknown"}

Jobs == {"ci", "quality", "audio", "resource", "codeql", "lab"}
InsideCi == {"perf", "alsa", "aec_backend", "ns_backend", "arm"} \cup Dsp
Everything == Jobs \cup InsideCi \cup {"extended", "abi"}
Plan(docs, run) == [docs |-> docs, run |-> run]
Full(search) == Plan(FALSE, Everything \cup IF search THEN {"tuning"} ELSE {})

\* What a job, or a part of one, is selected by.
Targeted(flags, search) ==
    LET dsp  == flags \cap Dsp # {}
        core == dsp \/ "runtime" \in flags
        code == core \/ flags \cap {"bench", "alsa"} # {}
        when(b, s) == IF b THEN s ELSE {}
    IN  UNION {when(code, {"ci", "codeql"}),
               when(core, {"quality", "resource", "extended", "arm"}),
               when(dsp \/ flags \cap {"validation", "certification"} # {}, {"audio"}),
               when(search, {"tuning"}),
               when(dsp \/ "bench" \in flags, {"perf"}),
               when(flags \cap {"alsa", "runtime"} # {}, {"alsa"}),
               when("aec" \in flags, {"aec_backend"}), when("ns" \in flags, {"ns_backend"}),
               when("runtime" \in flags, {"abi"}), flags \cap Dsp}

\* Mutant of Analyze: registry metadata is enough, whatever else changed.
AnalyzeAnyRegistry(paths, versionOnly) ==
    LET effective == IF versionOnly THEN paths \ {"version"} ELSE paths
        flags == UNION {Flags(p) : p \in effective}
        search == RequiresTuningSearch(paths)
    IN  IF paths = {} THEN Full(TRUE)
        ELSE IF "registry" \in paths \/ effective \subseteq {"doc"} THEN Plan(TRUE, {})
        ELSE IF "unknown" \in flags THEN Full(search) ELSE Plan(FALSE, Targeted(flags, search))
Analyze(paths, versionOnly) ==
    LET effective == IF versionOnly THEN paths \ {"version"} ELSE paths
        flags == UNION {Flags(p) : p \in effective}
        search == RequiresTuningSearch(paths)
    IN  IF paths = {} THEN Full(TRUE)
        ELSE IF \A p \in effective : IsDocs(p) \/ p = "registry" THEN Plan(TRUE, {})
        ELSE IF \A p \in effective : p = "governance" THEN Plan(FALSE, {})
        ELSE IF "authority" \in effective \/ "unknown" \in flags THEN Full(search)
        ELSE Plan(FALSE, Targeted(flags, search))

\* The registration of an archive in the first n commits of main, 0 when there is none,
\* and whether the archive is there.
LastOf(S) == IF S = {} THEN 0 ELSE CHOOSE i \in S : \A j \in S : j <= i
Registered(n) == LET edits == {i \in 1 .. n : "registration" \in main[i].paths}
                 IN  IF edits = {} THEN 0 ELSE main[LastOf(edits)].registration
Archived(n) == \E i \in 1 .. n : "evidence" \in main[i].paths
HeadRegistered(h) == IF "registration" \in h.paths THEN h.registration ELSE Registered(h.fork)

\* verified_archive_paths: only what base registered, unchanged, and only additions to it;
\* otherwise the archive is an ordinary change or the check fails.
ArchiveRefused(base, h) ==
    /\ "evidence" \in h.paths /\ Registered(base) # 0
    /\ HeadRegistered(h) # Registered(base) \/ Archived(base) \/ h.content # Registered(base)
VerifiedReceipts(base, h) == IF Registered(base) # 0 THEN {"evidence"} ELSE {}

\* Mutant of ReleasePaths: receipts are evidence whoever registered them.
ReleasePathsButEvidence(base, h) == {p \in h.paths : ~ReleaseNeutral(p)} \ {"evidence"}
ReleasePaths(base, h) == {p \in h.paths : ~ReleaseNeutral(p)} \ VerifiedReceipts(base, h)
HeadVersion(h) == IF h.paths \cap {"build", "version"} # {} THEN h.version ELSE main[h.fork].version
\* The build file of base and that of the head are the same but for the version.
CmakeVersionOnly(base, h) ==
    "version" \in h.paths /\ \A i \in h.fork + 1 .. base : "build" \notin main[i].paths
EnforceReleaseVersion(base, h) ==
    /\ ~ArchiveRefused(base, h)
    /\ ReleasePaths(base, h) # {} => /\ HeadVersion(h) > main[base].version
                                     /\ h.changelog = HeadVersion(h)

(***************************************************************************)
(* verify.yml and ci_failure.py                                            *)
(***************************************************************************)
NoRun == [state |-> "none", base |-> 0, plan |-> Plan(FALSE, {}), impact |-> "none",
          fast |-> "none", real |-> "none", jobs |-> [j \in Jobs |-> "none"], gate |-> "none"]
Results == {"success", "failure"}

Init ==
    /\ main = <<[version |-> 1, paths |-> {}, registration |-> 0]>>
    /\ prs = [p \in Prs |-> [state |-> "new", fork |-> 1, paths |-> {}, version |-> 1,
                             changelog |-> 1, registration |-> 0, content |-> 0, updates |-> 0]]
    /\ runs = [p \in Prs |-> NoRun] /\ offers \in Scenarios

\* A head is pushed, or a branch brought up to date, which cancels the run there is; base is
\* what main is then.
Push(p) ==
    /\ prs[p].state # "merged" /\ prs[p].updates < MaxUpdates
    /\ \E paths \in offers[p],
          fork \in {IF prs[p].state = "new" THEN Len(main) ELSE prs[p].fork, Len(main)} :
       \E v \in CASE "version" \in paths -> (1 .. MaxVersion) \ {main[fork].version}
                   [] "build" \in paths -> 1 .. MaxVersion
                   [] OTHER -> {main[fork].version},
          e \in IF "evidence" \in paths THEN 1 .. 2 ELSE {0} :
       \E c \in {v, main[fork].version} :
         prs' = [prs EXCEPT ![p] =
             [state |-> "open", fork |-> fork, paths |-> paths, version |-> v, changelog |-> c,
              registration |-> IF "registration" \in paths THEN 1 + Registered(fork) ELSE 0,
              content |-> e, updates |-> prs[p].updates + 1]]
    /\ runs' = [runs EXCEPT ![p] = [NoRun EXCEPT !.state = "impact", !.base = Len(main)]]
    /\ UNCHANGED <<main, offers>>

Impact(p) ==
    /\ runs[p].state = "impact"
    /\ \E r \in Results :
         LET ok == r = "success" /\ EnforceReleaseVersion(runs[p].base, prs[p])
         IN  runs' = [runs EXCEPT ![p].state = "fast", ![p].impact = IF ok THEN r ELSE "failure",
                                  ![p].plan = 
                                     IF ok THEN Analyze(prs[p].paths,
                                                        CmakeVersionOnly(runs[p].base, prs[p]))
                                     ELSE @]
    /\ UNCHANGED <<main, prs, offers>>
\* fast-docs or fast-code, as docs_only says, and the gate over them.
FastGate(p) ==
    /\ runs[p].state = "fast"
    /\ \E r \in Results :
         runs' = [runs EXCEPT ![p].state = "jobs",
                              ![p].fast = IF runs[p].impact = "success" THEN r ELSE "failure"]
    /\ UNCHANGED <<main, prs, offers>>
\* Every selected job starts when the gate is passed, and any of them may fail.
RunJobs(p) ==
    LET go == runs[p].fast = "success"
        real == IF go /\ ~runs[p].plan.docs THEN Results ELSE {"skipped"}
        starts == {j \in Jobs : go /\ j \in runs[p].plan.run}
    IN  /\ runs[p].state = "jobs"
        /\ \E bad \in {{}} \cup {{j} : j \in starts}, r \in real :
             runs' = [runs EXCEPT ![p].state = "summary", ![p].real = r,
                        ![p].jobs = [j \in Jobs |-> IF j \notin starts THEN "skipped"
                                                    ELSE IF j \in bad THEN "failure" ELSE "success"]]
        /\ UNCHANGED <<main, prs, offers>>

\* aggregate: the exact matrix.  A failed impact job leaves no outputs to select by.
Aggregate(run) ==
    /\ run.impact = "success" /\ run.fast = "success"
    /\ run.real = IF run.plan.docs THEN "skipped" ELSE "success"
    /\ \A j \in Jobs : run.jobs[j] = IF j \in run.plan.run THEN "success" ELSE "skipped"
Summary(p) ==
    /\ runs[p].state = "summary"
    /\ runs' = [runs EXCEPT ![p].state = "done",
                            ![p].gate = IF Aggregate(runs[p]) THEN "success" ELSE "failure"]
    /\ UNCHANGED <<main, prs, offers>>

\* The ruleset: the check has passed on a head that is up to date with main.
\* Mutant of MayMerge: the check alone is required.
MergeBehind(p) == runs[p].gate = "success"
MayMerge(p) == runs[p].gate = "success" /\ prs[p].fork = Len(main) /\ runs[p].base = Len(main)
Merge(p) ==
    /\ prs[p].state = "open" /\ MayMerge(p)
    /\ main' = Append(main, [version |-> HeadVersion(prs[p]), paths |-> prs[p].paths,
                             registration |-> prs[p].registration])
    /\ prs' = [prs EXCEPT ![p].state = "merged"]
    /\ UNCHANGED <<runs, offers>>

Next == \E p \in Prs : Push(p) \/ Impact(p) \/ FastGate(p) \/ RunJobs(p) \/ Summary(p) \/ Merge(p)
Spec == Init /\ [][Next]_vars

(***************************************************************************)
(* Properties                                                              *)
(***************************************************************************)
\* Where a feature runs: a job of its own, or a part of a called workflow.
Hosts(f) == CASE f \in Jobs -> {f} [] f \in InsideCi -> {"ci"} [] f = "abi" -> {"quality"}
              [] f = "extended" -> {"ci", "quality", "audio"} [] f = "tuning" -> {"audio"}
Merged == {p \in Prs : prs[p].state = "merged"}
Passed(p) == {j \in Jobs : runs[p].jobs[j] = "success"}

\* A change is merged only after every job that any one of its paths would have needed alone
\* has passed on it: no mixture of classes, however it is classified, waters down the
\* selection (analyze, the job conditions and the aggregate together).
NothingWateredDown ==
    \A p \in Merged : \A k \in prs[p].paths :
        \A f \in Analyze({k}, k = "version").run \ {"tuning"} : Hosts(f) \cap Passed(p) # {}

\* Along main, a change of anything that is delivered carries a higher version than the commit
\* before it, and evidence came without one only where an earlier commit registered exactly
\* what was added, once (enforce_release_version against a base that moves).
VersionsAdvance ==
    \A i \in 2 .. Len(main) :
        LET delivered == {k \in main[i].paths : ~ReleaseNeutral(k)}
        IN  /\ delivered \ {"evidence"} # {} => main[i].version > main[i - 1].version
            /\ delivered = {"evidence"} => Registered(i - 1) # 0 /\ ~Archived(i - 1)

\* docs/TUNING.md:138: "Pull requests always execute canonical acoustic regression in `Audio
\* Quality Gates -> validation-smoke`", at least those that change what is delivered.
AlwaysRegressed ==
    \A p \in Merged : (\E k \in prs[p].paths : ~ReleaseNeutral(k)) => "audio" \in Passed(p)
=============================================================================
