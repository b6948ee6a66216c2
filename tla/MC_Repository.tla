---------------------------- MODULE MC_Repository ----------------------------
(***************************************************************************)
(* What the automation does to the repository, in one run: the             *)
(* finalization of archived evidence, the collection of finished branches, *)
(* and the retirement of consumed workflows.  The components share         *)
(* nothing: a behaviour is one of a single component, chosen at the start. *)
(***************************************************************************)
EXTENDS Integers, Sequences, FiniteSets

CONSTANTS MaxMain, MaxMeddling, MaxFailures, Branches, None, MaxPushes, MaxEdits, MaxPrs, MaxCrashes,
          MaxCommits

VARIABLES which,   \* the component this behaviour is of
          tip, verify, archivedAt, heads, ref, pr, gates, expired, receipts, pc, event, checkout, main,
          head, marked, meddling, failures, green, merge, live, pushes, edits, prs, crashes, openPr, kept,
          pinned, depends, gcPc, cur, copy, depCopy, seen, todo, deletable, blocked, late, lost, cut,
          file, record, evidence, task, motion, watched, registered, archived, commits, last

Archive == INSTANCE EvidenceFinalization
Branch == INSTANCE BranchGc WITH pc <- gcPc
Workflows == INSTANCE WorkflowRetirement

archiveVars == <<tip, verify, archivedAt, heads, ref, pr, gates, expired, receipts, pc, event, checkout, main,
                 head, marked, meddling, failures, green, merge>>
branchesVars == <<live, pushes, edits, prs, crashes, openPr, kept, pinned, depends, gcPc, cur, copy, depCopy,
                  seen, todo, deletable, blocked, late, lost, cut>>
workflowsVars == <<file, record, evidence, task, motion, watched, registered, archived, commits, last>>

sumVars == <<which, archiveVars, branchesVars, workflowsVars>>

\* A component that is not the chosen one stays as it is.
SumInit ==
    /\ which \in {"archive", "branches", "workflows"}
    /\ Archive!Init
    /\ Branch!Init
    /\ \/ which = "workflows" /\ Workflows!Init
       \/ /\ which # "workflows"
          /\ file = 0 /\ record = 0 /\ evidence = 0 /\ task = 0 /\ motion = 0 /\ watched = 0
          /\ registered = 0 /\ archived = 0 /\ commits = 0 /\ last = 0

SumNext ==
    \/ which = "archive" /\ Archive!Next /\ UNCHANGED <<which, branchesVars, workflowsVars>>
    \/ which = "branches" /\ Branch!Next /\ UNCHANGED <<which, archiveVars, workflowsVars>>
    \/ which = "workflows" /\ Workflows!Next /\ UNCHANGED <<which, archiveVars, branchesVars>>

SumSpec ==
    /\ SumInit /\ [][SumNext]_sumVars
    /\ WF_archiveVars(which = "archive" /\ Archive!Work)
    /\ WF_archiveVars(which = "archive" /\ \E r \in {"success", "failure"} : Archive!VerifyReports(r) \/ Archive!GatesReport(r))
    /\ WF_branchesVars(which = "branches" /\ Branch!TerminalWork)
    /\ WF_branchesVars(which = "branches" /\ Branch!ResearchWork)

ASSUME BoundsAssumption == Archive!BoundAssumption /\ Branch!BoundAssumption

\* What main took in is the archive byte for byte, with its checks passed on top of the very commit it
\* landed on, however branch and main moved while the job read; and however often the job died or was
\* started again there is one receipt, which names verified commits (pr_ready, finalize_main).
MergedAsVerified == which = "archive" => Archive!TypeOK /\ Archive!MergedAsVerified /\ Archive!ReceiptTruthful
\* What the registry's collector takes with a ref and main does not have was pushed after its own last
\* look at that ref, and no branch another one depends on is deleted (delete_branch, plan).
OnlyLateLost == which = "branches" => Branch!TypeOK /\ Branch!OnlyLateLost /\ Branch!DependencySafe
\* No job leaves behind what would keep the later ones from their end, through crashes, half-done runs
\* and each other's deletions.  As long as people keep starting them: unless something is left that
\* only people can settle the receipt is written, and when people leave the listed branches alone each
\* of them is collected (finalize_main, execute_plan, delete_branch).
JobsEnd == (which = "archive" => Archive!Closes) /\ (which = "branches" => Branch!Collects)
\* Whatever commits pass, no consumed study runs on main again, and no rejected candidate is graded
\* a second time (terminal_workflow_retirement, acoustic_terminal_registry).
NothingConsumedRuns == which = "workflows" => Workflows!NothingConsumedRuns
=============================================================================
