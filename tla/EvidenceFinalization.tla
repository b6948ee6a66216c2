------------------------ MODULE EvidenceFinalization ------------------------
(***************************************************************************)
(* The unattended archiving of a consumed diagnostic run:                  *)
(* i015_archive_recovery.py first, then i015_finalize.py in the same job.  *)
(* One job runs at a time (the workflow's concurrency group), may die      *)
(* between any two requests, and finds at its next start what the last one *)
(* left on the server.  Meanwhile main moves, CI reports, and people push  *)
(* to the archive branch, hold its pull request or close it.               *)
(*                                                                         *)
(* main is linear (the ruleset allows squash merges only), so a commit of  *)
(* main is its index and an ancestor a smaller index.  A head of the       *)
(* archive branch is an index into heads.  Every request is a step.        *)
(***************************************************************************)
EXTENDS Integers, Sequences

CONSTANTS MaxMain,    \* bound: commits on main
          MaxMeddling, \* bound: pushes of others to the archive branch, holds they put on it
          MaxFailures  \* bound: jobs that die or are refused a request, checks that fail

BoundAssumption == MaxMain \in Nat \ {0} /\ MaxMeddling \in Nat /\ MaxFailures \in Nat

VARIABLES tip, verify,        \* live main, and the Verify run of each of its commits
          archivedAt,         \* the commit of main that holds the archive, 0 when none does
          heads, ref,         \* commits of the archive branch; its head, 0 when there is no ref
          pr, gates,          \* the archive pull request; the checks of each head
          expired,            \* the original artifact is gone, or was never the archive
          receipts,           \* marked comments on the tracking pull request
          pc, event,          \* the job: where it is, what started it
          checkout, main, head, marked, \* and what it has read
          meddling, failures,    \* bound counters
          green, merge        \* history: commits ever verified; how the merge was made

serverVars == <<tip, verify, archivedAt, heads, ref, pr, gates, receipts>>
jobVars == <<pc, event, checkout, main, head, marked>>
historyVars == <<green, merge>>
vars == <<serverVars, expired, jobVars, meddling, failures, historyVars>>

Results == {"running", "success", "failure"}
Events == [kind : {"push", "workflow_dispatch"}, at : {0}]
            \cup [kind : {"workflow_run"}, at : 1 .. MaxMain + 1]
NoMerge == [head |-> 0, base |-> 0, onto |-> 0, exact |-> FALSE, gate |-> "running"]

Init ==
    /\ tip = 1 /\ verify = <<"running">> /\ archivedAt = 0
    /\ heads = <<>> /\ ref = 0 /\ gates = <<>>
    /\ pr = [state |-> "none", draft |-> FALSE, threads |-> FALSE]
    /\ expired \in BOOLEAN /\ receipts = <<>>
    /\ pc = "idle" /\ event = [kind |-> "push", at |-> 0]
    /\ checkout = 0 /\ main = 0 /\ head = 0 /\ marked = FALSE
    /\ meddling = 0 /\ failures = 0 /\ green = {} /\ merge = NoMerge

(***************************************************************************)
(* The server and the people on it                                         *)
(***************************************************************************)
others == <<expired, jobVars, failures>>

\* A commit reaches main by another pull request.
MainMoves ==
    /\ tip < MaxMain
    /\ tip' = tip + 1 /\ verify' = Append(verify, "running")
    /\ UNCHANGED <<archivedAt, heads, ref, pr, gates, receipts, others, meddling, historyVars>>

\* CI reports on a commit of main or on a head, and a failed run is started again.
Before(r) == IF r = "running" THEN "failure" ELSE "running"
CountFailure(r) ==
    IF r = "failure" THEN failures < MaxFailures /\ failures' = failures + 1
    ELSE UNCHANGED failures
VerifyReports(r) ==
    \E c \in 1 .. tip :
        /\ verify[c] = Before(r) /\ verify' = [verify EXCEPT ![c] = r] /\ CountFailure(r)
        /\ green' = IF r = "success" THEN green \cup {c} ELSE green
        /\ UNCHANGED <<tip, archivedAt, heads, ref, pr, gates, receipts, expired, jobVars, meddling,
                       merge>>
GatesReport(r) ==
    \E h \in 1 .. Len(heads) :
        /\ pr.state = "open" /\ gates[h] = Before(r) /\ gates' = [gates EXCEPT ![h] = r]
        /\ CountFailure(r)
        /\ UNCHANGED <<tip, verify, archivedAt, heads, ref, pr, receipts, expired, jobVars, meddling,
                       historyVars>>

NewHead(b, exact, direct) ==
    /\ heads' = Append(heads, [base |-> b, exact |-> exact, direct |-> direct])
    /\ gates' = Append(gates, "running")
    /\ ref' = Len(heads) + 1

\* Someone else pushes to the archive branch: the files are no longer the archive's.
ForeignPush ==
    /\ ref # 0 /\ archivedAt = 0 /\ meddling < MaxMeddling /\ meddling' = meddling + 1
    /\ NewHead(heads[ref].base, FALSE, FALSE)
    /\ UNCHANGED <<tip, verify, archivedAt, pr, receipts, others, historyVars>>

\* A maintainer holds the pull request, lets it go, or closes it for good.
Maintainer ==
    /\ pr.state = "open"
    /\ \/ /\ meddling < MaxMeddling /\ meddling' = meddling + 1
          /\ \/ pr' = [pr EXCEPT !.draft = TRUE]
             \/ pr' = [pr EXCEPT !.threads = TRUE]
             \/ pr' = [pr EXCEPT !.state = "closed"]
       \/ pr' = [pr EXCEPT !.draft = FALSE, !.threads = FALSE] /\ UNCHANGED meddling
    /\ UNCHANGED <<tip, verify, archivedAt, heads, ref, gates, receipts, others, historyVars>>

ArtifactExpires ==
    /\ ~expired /\ expired' = TRUE
    /\ UNCHANGED <<serverVars, jobVars, meddling, failures, historyVars>>

\* Mutant of RulesetAllows: the required checks need not be strict.
RulesetNotStrict(h) == gates[h] = "success" /\ ~pr.threads

\* The ruleset of main: strict, so a head that is not on top of main is refused.
RulesetAllows(h) == gates[h] = "success" /\ heads[h].base = tip /\ ~pr.threads

(***************************************************************************)
(* The job                                                                 *)
(***************************************************************************)
readOnly == <<serverVars, expired, meddling, failures, historyVars>>
Goto(here, there) == pc = here /\ pc' = there
End(here) == Goto(here, "idle")

ChecksReady(c) == verify[c] = "success"
ClosureExists == archivedAt # 0 /\ archivedAt <= checkout

\* The job starts on the tip of main, whatever happens to main from here on.  The script
\* takes three kinds of events; of the workflow only the manual one is left.
Start(e) ==
    /\ pc = "idle" /\ event' = e
    /\ pc' = "r_main" /\ checkout' = tip /\ main' = 0 /\ head' = 0 /\ marked' = FALSE
    /\ UNCHANGED readOnly

\* api.main(), once for the refresh and once for the finalizer; the checkout must be it.
ReadMain(here, there) ==
    /\ pc = here /\ main' = tip
    /\ pc' = IF checkout = tip THEN there ELSE "idle"
    /\ UNCHANGED <<readOnly, event, checkout, head, marked>>
\* api.main() = main, asked again just before a write.
RecheckMain(here, there) ==
    /\ pc = here /\ pc' = IF tip = main THEN there ELSE "idle"
    /\ UNCHANGED <<readOnly, event, checkout, main, head, marked>>
Keep == UNCHANGED <<readOnly, event, checkout, main, head, marked>>

\* collect: an artifact of the frozen digest, with the members of the frozen digests, counts that
\* add up and no authority of its own.  The bytes being fixed, that holds from the start or never.
Collected == ~expired

(* attempt_refresh and refresh_archive: bring an exact but stale archive up to main. *)
RefreshGates ==
    /\ pc = "r_gates" /\ Keep
    /\ pc' = IF ~ChecksReady(main) THEN "idle" ELSE IF ClosureExists THEN "f_main" ELSE "r_pr"
\* Mutant of RefreshPr: without a pull request to refresh the job has nothing to do.
RefreshNeedsPr ==
    /\ pc = "r_pr"
    /\ head' = IF pr.state = "open" THEN ref ELSE 0
    /\ pc' = CASE pr.state # "open" \/ pr.draft -> "idle"
               [] OTHER -> IF heads[ref].base = main THEN "f_main" ELSE "r_files"
    /\ UNCHANGED <<readOnly, event, checkout, main, marked>>
RefreshPr ==
    /\ pc = "r_pr"
    /\ head' = IF pr.state = "open" THEN ref ELSE 0
    /\ pc' = CASE pr.state # "open" -> "f_main"
               [] pr.state = "open" /\ pr.draft -> "idle"
               [] OTHER -> IF heads[ref].base = main THEN "f_main" ELSE "r_files"
    /\ UNCHANGED <<readOnly, event, checkout, main, marked>>
\* The files listed are those of the pull request now.  New files never conflict with
\* main; while the server has not worked that out the job ends (Abort).
RefreshFiles ==
    /\ pc = "r_files" /\ Keep
    /\ pc' = IF heads[ref].exact /\ Collected THEN "r_recheck" ELSE "idle"
UpdateBranch ==
    /\ End("r_update")
    /\ IF pr.state = "open" /\ ref = head
       THEN NewHead(tip, heads[ref].exact, FALSE)
       ELSE UNCHANGED <<heads, gates, ref>>
    /\ UNCHANGED <<tip, verify, archivedAt, pr, receipts, expired, event, checkout, main, head,
                   marked, meddling, failures, historyVars>>

(* reconcile, up to its two outcomes. *)
ReconcileGates ==
    /\ pc = "f_gates" /\ Keep
    /\ pc' = CASE ~ChecksReady(main) -> "idle"
               [] ChecksReady(main) /\ ClosureExists -> "f_closed"
               [] OTHER -> IF Collected THEN "f_prs" ELSE "idle"
\* Mutant of Marked: the comments are not searched for the marker.
NeverMarked == FALSE
Marked == receipts # <<>>
ReconcileClosed ==
    /\ pc = "f_closed" /\ Keep
    /\ pc' = IF \/ event.kind = "workflow_run" /\ event.at # main
                \/ Marked
             THEN "idle" ELSE "f_lineage"

(* publish_or_merge: the archive pull request, made once and merged once. *)
ListPrs ==
    /\ pc = "f_prs"
    /\ head' = IF pr.state = "open" THEN ref ELSE 0
    /\ pc' = CASE pr.state = "none" -> "f_create"
               [] pr.state = "open" -> "f_ready"
               [] OTHER -> "idle"
    /\ UNCHANGED <<readOnly, event, checkout, main, marked>>
\* pr_ready: base, files, ancestry, then what may still be waited for.
PrReadyExact ==
    /\ pc = "f_ready" /\ Keep
    /\ pc' = IF heads[head].base = main /\ heads[ref].exact /\ ~pr.draft THEN "f_checks" ELSE "idle"
PrReadyChecks ==
    /\ pc = "f_checks" /\ Keep
    /\ pc' = IF gates[head] = "success" /\ ref = head /\ ~pr.draft /\ ~pr.threads
             THEN "f_recheck" ELSE "idle"
MergeArchive ==
    /\ End("f_merge")
    /\ IF pr.state = "open" /\ ~pr.draft /\ ref = head /\ RulesetAllows(head)
       THEN /\ tip' = tip + 1 /\ verify' = Append(verify, "running") /\ archivedAt' = tip + 1
            /\ pr' = [pr EXCEPT !.state = "merged"]
            /\ merge' = [head |-> ref, base |-> heads[ref].base, onto |-> tip,
                         exact |-> heads[ref].exact, gate |-> gates[ref]]
       ELSE UNCHANGED <<tip, verify, archivedAt, pr, merge>>
    /\ UNCHANGED <<heads, ref, gates, receipts, expired, event, checkout, main, head, marked,
                   meddling, failures, green>>
\* An archive branch without a pull request is taken up only if it is this very commit.
CreateRef ==
    /\ pc = "f_ref"
    /\ IF ref = 0
       THEN NewHead(main, TRUE, TRUE) /\ pc' = "f_open"
       ELSE /\ pc' = IF heads[ref].direct /\ heads[ref].exact /\ heads[ref].base = main
                     THEN "f_open" ELSE "idle"
            /\ UNCHANGED <<heads, gates, ref>>
    /\ UNCHANGED <<tip, verify, archivedAt, pr, receipts, expired, event, checkout, main, head,
                   marked, meddling, failures, historyVars>>
OpenPr ==
    /\ End("f_open")
    /\ pr' = IF pr.state = "none" THEN [pr EXCEPT !.state = "open"] ELSE pr
    /\ UNCHANGED <<tip, verify, archivedAt, heads, ref, gates, receipts, expired, event, checkout,
                   main, head, marked, meddling, failures, historyVars>>

(* finalize_main: the receipt on the tracking pull request. *)
Lineage ==
    /\ pc = "f_lineage" /\ Keep
    /\ pc' = IF /\ pr.state = "merged" /\ heads[ref].exact /\ archivedAt <= main
                /\ ChecksReady(archivedAt) /\ ChecksReady(main)
             THEN "f_comments" ELSE "idle"
ReadComments ==
    /\ Goto("f_comments", "f_settle") /\ marked' = Marked
    /\ UNCHANGED <<readOnly, event, checkout, main, head>>
PostReceipt ==
    /\ End("f_post")
    /\ receipts' = IF marked THEN receipts
                   ELSE Append(receipts, [archive |-> archivedAt, main |-> main])
    /\ UNCHANGED <<tip, verify, archivedAt, heads, ref, pr, gates, expired, event, checkout, main,
                   head, marked, meddling, failures, historyVars>>

\* The runner dies, the eight minutes are over, or a request is refused.
Abort ==
    /\ pc # "idle" /\ failures < MaxFailures
    /\ pc' = "idle" /\ failures' = failures + 1
    /\ UNCHANGED <<serverVars, expired, event, checkout, main, head, marked, meddling, historyVars>>

Work ==
    \/ ReadMain("r_main", "r_gates") \/ RefreshGates \/ RefreshPr \/ RefreshFiles
    \/ RecheckMain("r_recheck", "r_update") \/ UpdateBranch
    \/ ReadMain("f_main", "f_gates") \/ ReconcileGates \/ ReconcileClosed
    \/ ListPrs \/ PrReadyExact \/ PrReadyChecks \/ RecheckMain("f_recheck", "f_merge")
    \/ MergeArchive \/ RecheckMain("f_create", "f_ref") \/ CreateRef \/ OpenPr
    \/ Lineage \/ ReadComments \/ RecheckMain("f_settle", "f_post") \/ PostReceipt

Next ==
    \/ MainMoves \/ (\E r \in Results : VerifyReports(r) \/ GatesReport(r))
    \/ ForeignPush \/ Maintainer \/ ArtifactExpires
    \/ (\E e \in Events : e.at <= tip /\ Start(e)) \/ Work \/ Abort

\* A job that runs goes on and CI answers, one way or the other.  Nobody has to start the
\* job, or a check that failed, again.
Fairness ==
    /\ WF_vars(Work)
    /\ WF_vars(\E r \in {"success", "failure"} : VerifyReports(r) \/ GatesReport(r))

Spec == Init /\ [][Next]_vars /\ Fairness

(***************************************************************************)
(* Properties                                                              *)
(***************************************************************************)
TypeOK ==
    /\ tip \in 1 .. MaxMain + 1 /\ Len(verify) = tip /\ archivedAt \in 0 .. tip
    /\ Len(gates) = Len(heads) /\ ref \in 0 .. Len(heads) /\ head \in 0 .. Len(heads)
    /\ checkout \in 0 .. tip /\ main \in 0 .. tip

\* What main took in is the archive byte for byte, with its checks passed on top of the
\* very commit it landed on, however the branch and main moved while the job was reading
\* (pr_ready, the sha of the merge request, and the strict ruleset of main).
MergedAsVerified ==
    archivedAt # 0 => merge.exact /\ merge.gate = "success" /\ merge.base = merge.onto

\* However often the job died or was started again, one receipt, which names the commit the
\* archive was merged by and a later main, both of them verified (finalize_main).
ReceiptTruthful ==
    /\ Len(receipts) <= 1
    /\ \A i \in DOMAIN receipts :
          /\ receipts[i].archive = archivedAt /\ archivedAt # 0
          /\ receipts[i].main >= archivedAt /\ {archivedAt, receipts[i].main} \subseteq green

\* What the job leaves to a person: a check that failed; and, until the archive is merged, a
\* closed or held pull request, files that are not the archive's, an artifact that expired,
\* and a branch it made without reaching the pull request before main moved (existing
\* archive branch drift).
LeftToPeople ==
    \/ verify[tip] = "failure"
    \/ archivedAt # 0 /\ verify[archivedAt] = "failure"
    \/ /\ archivedAt = 0
       /\ \/ pr.state = "closed" \/ pr.draft \/ pr.threads \/ expired
          \/ ref # 0 /\ (~heads[ref].exact \/ gates[ref] = "failure")
          \/ pr.state = "none" /\ ref # 0 /\ heads[ref].base # tip

\* If a person keeps starting the job by hand, which is the workflow's only entry, either the
\* receipt is written in the end, whatever was lost on the way, or something is left for
\* good that only people can settle: the job never waits for what nobody will do.
StartedByHand == pc = "r_main" /\ event.kind = "workflow_dispatch"
Closes == []<>StartedByHand => <>(receipts # <<>> \/ []LeftToPeople)
=============================================================================
