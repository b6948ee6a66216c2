--------------------------- MODULE WorkflowRetirement ---------------------------
(***************************************************************************)
(* What stops a consumed study from running again: the retirement manifest *)
(* (terminal_workflow_retirement.py), the maintenance contract of the      *)
(* workflows that stay (maintenance_workflow_contract.py) and the registry *)
(* of rejected acoustic candidates (acoustic_terminal_registry.py).  All   *)
(* three are checked on every commit of main; then main's workflows run by *)
(* their triggers.  One path stands for each collection of the manifest    *)
(* and for each set of the contract; an evidence document is as its        *)
(* collection demands or lacks one thing.                                  *)
(***************************************************************************)
EXTENDS FiniteSets, Integers

CONSTANT MaxCommits       \* bound: accepted commits

VARIABLES file,           \* the workflow at each path
          record,         \* the manifest: the blob recorded for a retired path
          evidence,       \* the document(s) a record names
          task,           \* the plan's tasks that have workflows
          motion,         \* I002's contract has no candidate, confirmation or promotion left
          watched,        \* Program Archive: paths of its push and of its pull_request list
          registered, archived,  \* acoustic candidates: rows of the registry, terminal.json on file
          commits, last   \* last: what ran since the last commit

tree == <<file, record, evidence, task, motion, watched, registered, archived>>
vars == <<tree, commits, last>>

NoPath == "none"
NoWorkflow == [on |-> {}, jobs |-> NoPath]                  \* no workflow at a path
Unrecorded == [of |-> NoPath, on |-> {}, jobs |-> NoPath] \* no record of a path
Nothing == [what |-> NoPath, event |-> NoPath, search |-> FALSE]
Retirable == {"program", "research", "consumed", "candidate", "selection", "round", "lane", "replay"}
Standing == {"tuner", "prmanual", "selector", "contractonly", "preflight", "hosted", "motion", "hil"}
\* I003 is closed and has no record; transient-branch-gc is retired by its own contract.
Unlisted == {"i003", "transient", "fresh"}
Paths == Retirable \cup Standing \cup Unlisted
TaskOf(p) == CASE p = "program" -> "I004" [] p = "i003" -> "I003" [] OTHER -> NoPath
Candidates == {"c1", "c2"}

\* A workflow: what triggers it, and its jobs. "split" is a contract job on every event and the
\* search on a dispatch only; "guarded" fails where its runner is not available.
Workflow(on, jobs) == [on |-> on, jobs |-> jobs]
Workflows == {Workflow({"pull_request"}, "contract"), Workflow({"pull_request"}, "full"),
              Workflow({"pull_request", "push"}, "full"),
              Workflow({"pull_request", "workflow_dispatch"}, "full"),
              Workflow({"pull_request", "workflow_dispatch"}, "split"),
              Workflow({"workflow_dispatch"}, "full"), Workflow({"workflow_dispatch"}, "guarded"),
              Workflow({"workflow_call"}, "full"),
              Workflow({"pull_request", "schedule", "workflow_dispatch"}, "full"),
              Workflow({"pull_request", "push", "schedule", "workflow_dispatch"}, "full")}
\* A blob: the path whose history it belongs to (NoPath: git has no such object) and its content.
Blob(p, w) == [of |-> p, on |-> w.on, jobs |-> w.jobs]
Was(p) == CASE p = "program" -> Workflow({"pull_request"}, "full")
            [] p = "research" -> Workflow({"pull_request", "push"}, "full")
            [] p = "consumed" -> Workflow({"pull_request"}, "contract")
            [] OTHER -> Workflow({"pull_request", "workflow_dispatch"}, "full")
Is(p) == CASE p \in {"tuner"} -> Workflow({"workflow_dispatch"}, "full")
           [] p = "prmanual" -> Workflow({"pull_request", "workflow_dispatch"}, "full")
           [] p = "selector" -> Workflow({"pull_request", "workflow_dispatch"}, "split")
           [] p = "contractonly" -> Workflow({"pull_request"}, "contract")
           [] p = "preflight" -> Workflow({"workflow_call"}, "full")
           [] p = "hosted" -> Workflow({"pull_request", "push", "schedule", "workflow_dispatch"}, "full")
           [] p = "motion" -> Workflow({"pull_request", "schedule", "workflow_dispatch"}, "full")
           [] p = "hil" -> Workflow({"workflow_dispatch"}, "guarded")

(***************************************************************************)
(* terminal_workflow_retirement.py                                         *)
(***************************************************************************)
\* validate_manifest: the program's own records are fixed; no path and no blob is retired twice.
ManifestValid ==
    /\ record'["program"] # Unrecorded
    /\ \A p, q \in Retirable : p # q /\ record'[p] # Unrecorded => record'[p] # record'[q]
\* The historical blob is in git, and its "on" block has some triggers and none of others.
Lineage(p, some, never) == /\ record'[p].of # NoPath /\ some \subseteq record'[p].on
                           /\ record'[p].on \cap never = {}
Uncalled == {"push", "schedule", "workflow_call"}
ByHand(p) == Lineage(p, {"pull_request", "workflow_dispatch"}, Uncalled)

ProgramRetired == /\ file'["program"] = NoWorkflow /\ task'["I004"] = "CLOSED"
                  /\ evidence'["program"] # "missing" /\ Lineage("program", {"pull_request"}, Uncalled)
\* Mutant of ResearchRetired: that the workflow is gone is not looked at.
ResearchStillThere ==
    record'["research"] # Unrecorded =>
        /\ evidence'["research"] \in {"loose", "terminal"}
        /\ Lineage("research", {"pull_request", "push"}, {"workflow_call", "schedule", "workflow_dispatch"})
ResearchRetired ==
    record'["research"] # Unrecorded =>
        /\ file'["research"] = NoWorkflow /\ evidence'["research"] \in {"loose", "terminal"}
        /\ Lineage("research", {"pull_request", "push"}, {"workflow_call", "schedule", "workflow_dispatch"})
ConsumedRetired ==
    record'["consumed"] # Unrecorded =>
        /\ file'["consumed"] = NoWorkflow /\ evidence'["consumed"] \in {"loose", "terminal"}
        /\ Lineage("consumed", {"pull_request"}, Uncalled) /\ record'["consumed"].jobs = "contract"
CandidateRetired ==
    record'["candidate"] # Unrecorded =>
        /\ file'["candidate"] = NoWorkflow /\ evidence'["candidate"] \in {"loose", "terminal"}
        /\ ByHand("candidate")
\* The selection, its successor and the terminal evidence name one run, artifact and variant.
SelectionRetired ==
    record'["selection"] # Unrecorded =>
        /\ file'["selection"] = NoWorkflow /\ evidence'["selection"] = "terminal" /\ ByHand("selection")
\* Evaluation, confirmation, public confirmation, round closure and the candidates' own
\* contracts and closures: each names the run before it.
RoundRetired == record'["round"] # Unrecorded => /\ file'["round"] = NoWorkflow /\ ByHand("round")
                                           /\ evidence'["round"] = "terminal"
LaneRetired == record'["lane"] # Unrecorded => /\ file'["lane"] = NoWorkflow /\ ByHand("lane")
                                         /\ evidence'["lane"] = "terminal"
\* The replay's evidence names the blob, and the blob the base that was replayed.
ReplayRetired ==
    record'["replay"] # Unrecorded =>
        /\ file'["replay"] = NoWorkflow /\ ByHand("replay") /\ evidence'["replay"] = "terminal"
        /\ record'["replay"] = Blob("replay", Was("replay"))
\* No closed task has a live workflow under its prefix.
ClosedTasksIdle == \A p \in Paths : TaskOf(p) # NoPath /\ task'[TaskOf(p)] = "CLOSED" => file'[p] = NoWorkflow

(***************************************************************************)
(* maintenance_workflow_contract.py                                        *)
(***************************************************************************)
Required == {p \in Retirable : record'[p] # Unrecorded} \cup {"tuner", "prmanual", "preflight", "hosted", "motion"}
\* validate_program_archive_trigger_boundaries: both lists agree and cover what is required.
ArchiveWatches == watched'.push = watched'.pull /\ Required \subseteq watched'.push
StandingValid ==
    /\ \A p \in Standing : file'[p] # NoWorkflow
    /\ "workflow_dispatch" \in file'["tuner"].on
    /\ file'["tuner"].on \cap {"schedule", "push", "pull_request"} = {}
    /\ {"pull_request", "workflow_dispatch"} \subseteq file'["prmanual"].on
    /\ {"pull_request", "workflow_dispatch"} \subseteq file'["selector"].on
    /\ \A p \in {"prmanual", "selector", "contractonly"} : file'[p].on \cap {"schedule", "push"} = {}
    /\ "pull_request" \in file'["contractonly"].on
    /\ file'["selector"].jobs = "split"
    /\ file'["contractonly"].jobs = "contract" /\ evidence'["contractonly"] # "missing"
    /\ file'["preflight"].on = {"workflow_call"}
HostedValid == {"pull_request", "push", "workflow_dispatch"} \subseteq file'["hosted"].on
HilValid == /\ file'["hil"].jobs = "guarded" /\ "workflow_dispatch" \in file'["hil"].on
            /\ "schedule" \notin file'["hil"].on
\* Mutant of MotionIsMaintenance: I002's task is not looked up in the plan.
MotionByContract == motion'
MotionIsMaintenance == motion' /\ task'["I002"] = "CLOSED"
\* The workflows with a schedule are exactly the approved ones.
ScheduledExactly == {p \in Paths : file'[p] # NoWorkflow /\ "schedule" \in file'[p].on} = {"hosted", "motion"}

TransientRetired == file'["transient"] = NoWorkflow

\* Mutant of RegistryValid: only the rows of the registry are checked.
RegistryRowsValid == registered' \subseteq archived' /\ registered' # {}
\* acoustic_terminal_registry.py: every row has its terminal evidence, and every archived
\* terminal its row.
RegistryValid == registered' = archived' /\ registered' # {}

Accepted ==
    /\ ManifestValid /\ ProgramRetired /\ ResearchRetired /\ ConsumedRetired /\ CandidateRetired
    /\ SelectionRetired /\ RoundRetired /\ LaneRetired /\ ReplayRetired /\ ClosedTasksIdle
    /\ ArchiveWatches /\ StandingValid /\ HostedValid /\ HilValid /\ MotionIsMaintenance
    /\ ScheduledExactly /\ TransientRetired /\ RegistryValid
    /\ commits' = commits + 1 /\ last' = Nothing

Init ==
    /\ file = [p \in Paths |-> IF p \in Standing THEN Is(p) ELSE NoWorkflow]
    /\ record = [p \in Retirable |-> Blob(p, Was(p))] /\ evidence = [p \in Retirable \cup {"contractonly"} |-> "terminal"]
    /\ task = [t \in {"I002", "I003", "I004"} |-> "CLOSED"] /\ motion = TRUE
    /\ watched = [push |-> Retirable \cup Standing, pull |-> Retirable \cup Standing]
    /\ registered = {"c1"} /\ archived = {"c1"} /\ commits = 0 /\ last = Nothing

(***************************************************************************)
(* Commits, each with one or two edits, and what main then runs            *)
(***************************************************************************)
EditWorkflow(p) ==
    /\ file' \in {[file EXCEPT ![p] = w] : w \in Workflows \cup {NoWorkflow}} /\ file' # file
    /\ record' \in {record} \cup IF p \in Retirable THEN {[record EXCEPT ![p] = Unrecorded]} ELSE {}
    /\ task' \in {task} \cup IF TaskOf(p) = NoPath THEN {} ELSE {[task EXCEPT ![TaskOf(p)] = "READY"]}
    /\ UNCHANGED <<evidence, motion, watched, registered, archived>> /\ Accepted
Retire(p) ==
    /\ record' \in {[record EXCEPT ![p] = Blob(q, w)] : q \in {p, "program", NoPath}, w \in Workflows}
    /\ file' = [file EXCEPT ![p] = NoWorkflow] /\ evidence' \in {evidence, [evidence EXCEPT ![p] = "terminal"]}
    /\ UNCHANGED <<task, motion, watched, registered, archived>> /\ Accepted
\* Evidence is missing, has some budget or authority left ("open"), or does not name the run
\* before it ("loose"); where nothing is to be named loose is as good as terminal.
EditEvidence(p) ==
    /\ evidence' \in {[evidence EXCEPT ![p] = e] : e \in {"missing", "open", "loose", "terminal"}}
    /\ evidence' # evidence
    /\ UNCHANGED <<file, record, task, motion, watched, registered, archived>> /\ Accepted
EditPlan ==
    /\ \/ /\ task' \in [DOMAIN task -> {"CLOSED", "READY"}] /\ task' # task /\ UNCHANGED <<motion, watched>>
       \/ motion' = ~motion /\ UNCHANGED <<task, watched>>
       \/ /\ \E p \in Retirable \cup Standing :
                watched' \in {[watched EXCEPT !.push = @ \ {p}],
                              [push |-> watched.push \ {p}, pull |-> watched.pull \ {p}]}
          /\ watched' # watched /\ UNCHANGED <<task, motion>>
    /\ UNCHANGED <<file, record, evidence, registered, archived>> /\ Accepted
EditRegistry == /\ registered' \in SUBSET Candidates /\ archived' \in SUBSET Candidates
                /\ UNCHANGED <<file, record, evidence, task, motion, watched>> /\ Accepted

\* A workflow of main runs by one of its triggers; bound: one run is looked at after a commit.
Trigger(p, event) ==
    /\ last = Nothing /\ file[p] # NoWorkflow /\ event \in file[p].on
    /\ last' = [what |-> p, event |-> event,
                search |-> file[p].jobs = "full" \/ (file[p].jobs = "split" /\ event = "workflow_dispatch")]
    /\ UNCHANGED <<tree, commits>>
\* validation-grade.yml admits a candidate that find_terminal does not find.
Grade(c) == /\ last = Nothing /\ c \notin registered /\ last' = [what |-> "grade", event |-> c, search |-> TRUE]
            /\ UNCHANGED <<tree, commits>>

Commit == \/ \E p \in Paths : EditWorkflow(p)
          \/ \E p \in Retirable : Retire(p)
          \/ \E p \in Retirable \cup {"contractonly"} : EditEvidence(p)
          \/ EditPlan \/ EditRegistry
\* A run changes nothing a commit looks at: commits are taken from before it.
Next == \/ last = Nothing /\ commits < MaxCommits /\ Commit
        \/ \E p \in Paths, e \in {"pull_request", "push", "schedule", "workflow_dispatch", "workflow_call"} : Trigger(p, e)
        \/ \E c \in Candidates : Grade(c)
Spec == Init /\ [][Next]_vars

\* Whatever commits pass, no consumed study runs on main again: a recorded path is not run; a
\* task's workflow runs only while the task is open; a search runs by itself only where a
\* schedule is approved, and the motion study's only with I002 closed and without budget; and a
\* rejected candidate whose terminal evidence is on file is not graded a second time.
NothingConsumedRuns ==
    last # Nothing =>
        /\ last.what \in Retirable => record[last.what] = Unrecorded
        /\ TaskOf(last.what) # NoPath => task[TaskOf(last.what)] # "CLOSED"
        /\ last.event = "schedule" => last.what \in {"hosted", "motion"}
        /\ last.what = "motion" => motion /\ task["I002"] = "CLOSED"
        /\ last.what \in {"prmanual", "selector", "tuner"} /\ last.search => last.event # "push"
        /\ last.what \in {"contractonly"} => ~last.search
        /\ last.what = "grade" => last.event \notin archived

\* docs/program/terminal-workflow-retirement.json: "reintroduction_allowed": false, which
\* validate_manifest requires: what was retired stays retired.
RetiredStaysRetired == [][\A p \in Retirable : file[p] = NoWorkflow => file'[p] = NoWorkflow]_vars
=============================================================================
