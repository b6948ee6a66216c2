------------------------------ MODULE BranchGc ------------------------------
(***************************************************************************)
(* The two collectors of finished branches.  terminal_branch_gc.py works   *)
(* from a list of pinned heads and asks whether each is preserved;         *)
(* research_registry.py works from the lifecycle registry and asks for     *)
(* sealed evidence and no active dependency.  Each is one job at a time,   *)
(* but the two have concurrency groups of their own and may run together,  *)
(* on the checkout they started from, while people push, open and merge    *)
(* pull requests and edit list and registry.  Every request is a step; a   *)
(* job may die after any of them.  A run that deletes starts with a push   *)
(* of certain files to main, the registry's also by hand; the nightly      *)
(* schedule and the manual run of the list are dry, delete nothing and are *)
(* left out.  A head is the number of its push.                            *)
(***************************************************************************)
EXTENDS Integers, FiniteSets

CONSTANTS Branches, None, \* None: no branch
          MaxPushes, \* bound: pushes
          MaxEdits,  \* bound: edits of list, registry and dependencies
          MaxPrs,    \* bound: pull requests opened
          MaxCrashes \* bound: jobs that die

BoundAssumption ==
    /\ IsFiniteSet(Branches) /\ None \notin Branches
    /\ MaxPushes \in Nat \ {0} /\ MaxEdits \in Nat /\ MaxPrs \in Nat /\ MaxCrashes \in Nat

VARIABLES live,           \* head of each branch, 0 when the ref is absent
          pushes, edits, prs, crashes, \* bound counters
          openPr,         \* branches with an open pull request
          kept,           \* heads preserved on main: history, merged PR, evidence, same content
          pinned,         \* per collector, the head each branch is listed with, 0 when it is not
          depends,        \* active_dependencies of the registry
          pc, cur,        \* each job: where it is and the branch at hand
          copy,           \* list or registry in its checkout
          depCopy, seen,  \* research: dependencies in its checkout, and its inventory
          todo, deletable, blocked, \* branches to look at and to delete; some BLOCK_ action
          late, lost, cut \* history

Jobs == {"terminal", "research"}
repoVars == <<live, openPr, kept, pinned, depends>>
boundVars == <<pushes, edits, prs, crashes>>
jobVars == <<pc, cur, copy, depCopy, seen, todo, deletable, blocked>>
historyVars == <<late, lost, cut>>
vars == <<repoVars, boundVars, jobVars, historyVars>>

Init ==
    /\ live = [b \in Branches |-> 1] /\ pushes = 1 /\ edits = 0 /\ prs = 0 /\ crashes = 0
    /\ openPr = {} /\ kept = {} /\ depends = {}
    /\ pinned = [j \in Jobs |-> [b \in Branches |-> 0]]
    /\ pc = [j \in Jobs |-> "idle"] /\ cur = [j \in Jobs |-> None]
    /\ copy = [j \in Jobs |-> [b \in Branches |-> 0]]
    /\ depCopy = {} /\ seen = [b \in Branches |-> 0]
    /\ todo = [j \in Jobs |-> {}] /\ deletable = [j \in Jobs |-> {}]
    /\ blocked = [j \in Jobs |-> FALSE]
    /\ late = {} /\ lost = [j \in Jobs |-> {}] /\ cut = {}

(***************************************************************************)
(* People                                                                  *)
(***************************************************************************)
\* The registry's job is between its last look at b and the end of its delete.
InWindow(b) == cur["research"] = b /\ pc["research"] \in {"recheck_pr", "delete"}

Push(b) ==
    /\ pushes < MaxPushes /\ pushes' = pushes + 1
    /\ live' = [live EXCEPT ![b] = pushes + 1]
    /\ late' = IF InWindow(b) THEN late \cup {pushes + 1} ELSE late
    /\ UNCHANGED <<openPr, kept, pinned, depends, edits, prs, crashes, jobVars, lost, cut>>

PullRequest(b) ==
    /\ live[b] # 0
    /\ \/ /\ b \notin openPr /\ prs < MaxPrs /\ prs' = prs + 1
          /\ openPr' = openPr \cup {b} /\ UNCHANGED <<live, kept>>
       \/ /\ b \in openPr /\ openPr' = openPr \ {b} /\ UNCHANGED prs
          /\ \/ UNCHANGED <<live, kept>>
             \/ /\ kept' = kept \cup {live[b]} \* merged, and the branch deleted on merge or not
                /\ live' \in {live, [live EXCEPT ![b] = 0]}
    /\ UNCHANGED <<pinned, depends, pushes, edits, crashes, jobVars, historyVars>>

\* A branch comes to its end: its head is pinned in list or registry, for the registry
\* with sealed evidence; or evidence that names the head is committed.
Seal(b) ==
    /\ live[b] # 0 /\ edits < MaxEdits /\ edits' = edits + 1
    /\ \/ pinned' = [pinned EXCEPT !["terminal"][b] = live[b]] /\ UNCHANGED kept
       \/ pinned' = [pinned EXCEPT !["research"][b] = live[b]] /\ kept' = kept \cup {live[b]}
       \/ kept' = kept \cup {live[b]} /\ UNCHANGED pinned
    /\ UNCHANGED <<live, openPr, depends, pushes, prs, crashes, jobVars, historyVars>>

\* validate_registry: a dependency names a record of the registry.
Depend(b) ==
    /\ \/ b \in depends /\ depends' = depends \ {b} /\ UNCHANGED edits
       \/ /\ b \notin depends /\ pinned["research"][b] # 0
          /\ edits < MaxEdits /\ edits' = edits + 1 /\ depends' = depends \cup {b}
    /\ UNCHANGED <<live, openPr, kept, pinned, pushes, prs, crashes, jobVars, historyVars>>

(***************************************************************************)
(* What the two jobs have in common                                        *)
(***************************************************************************)
Listed(j) == {b \in Branches : copy[j][b] # 0}
Set(f, j, x) == [f EXCEPT ![j] = x]
env == <<repoVars, boundVars, historyVars>>

Start(j) ==
    /\ pc[j] = "idle" /\ pinned[j] # [b \in Branches |-> 0]
    /\ pc' = Set(pc, j, "scan")
    /\ copy' = Set(copy, j, pinned[j])
    /\ todo' = Set(todo, j, {b \in Branches : pinned[j][b] # 0})
    /\ deletable' = Set(deletable, j, {}) /\ blocked' = Set(blocked, j, FALSE)
    /\ depCopy' = IF j = "research" THEN depends ELSE depCopy
    /\ UNCHANGED <<env, cur, seen>>

\* The verdict on one branch: skip it, block the whole run, or mark it deletable.
Verdict(j, b, v) ==
    /\ todo' = Set(todo, j, todo[j] \ {b})
    /\ blocked' = Set(blocked, j, blocked[j] \/ v = "block")
    /\ deletable' = Set(deletable, j, deletable[j] \cup (IF v = "delete" THEN {b} ELSE {}))

jobMemory == <<cur, copy, depCopy, seen, todo, deletable, blocked>>
\* A job that is over has nothing of what it read left.
Ends(j) ==
    /\ pc' = Set(pc, j, "idle") /\ cur' = Set(cur, j, None)
    /\ copy' = Set(copy, j, [b \in Branches |-> 0])
    /\ todo' = Set(todo, j, {}) /\ deletable' = Set(deletable, j, {}) /\ blocked' = Set(blocked, j, FALSE)
    /\ depCopy' = (IF j = "research" THEN {} ELSE depCopy)
    /\ seen' = (IF j = "research" THEN [b \in Branches |-> 0] ELSE seen)

\* All looked at: one blocked branch stops every deletion of the run.
Decide(j) ==
    /\ pc[j] = "scan" /\ todo[j] = {} /\ UNCHANGED env
    /\ \/ blocked[j] /\ Ends(j)
       \/ ~blocked[j] /\ pc' = Set(pc, j, "apply") /\ UNCHANGED jobMemory
Finish(j) == pc[j] = "apply" /\ deletable[j] = {} /\ Ends(j) /\ UNCHANGED env

\* DELETE of the ref, whatever its head is by now; a pull request on it is closed with it.
Delete(j, b) ==
    /\ IF live[b] = 0
       THEN Ends(j) /\ UNCHANGED <<live, openPr, historyVars>>
       ELSE /\ live' = [live EXCEPT ![b] = 0] /\ openPr' = openPr \ {b}
            /\ lost' = [lost EXCEPT ![j] = @ \cup ({live[b]} \ kept)]
            /\ cut' = IF j = "research" /\ b \in depends \cap depCopy THEN cut \cup {b} ELSE cut
            /\ UNCHANGED <<late, copy, depCopy, seen, todo, blocked>>
    /\ UNCHANGED <<kept, pinned, depends, boundVars>>

Crash(j) ==
    /\ pc[j] # "idle" /\ crashes < MaxCrashes /\ crashes' = crashes + 1 /\ Ends(j)
    /\ UNCHANGED <<repoVars, pushes, edits, prs, historyVars>>

(***************************************************************************)
(* evaluate of terminal_branch_gc.py                                       *)
(***************************************************************************)
jobRest == <<copy, depCopy, seen>>

TerminalHead(b) ==
    /\ pc["terminal"] = "scan" /\ b \in todo["terminal"]
    /\ cur' = Set(cur, "terminal", b)
    /\ IF live[b] = copy["terminal"][b]
       THEN pc' = Set(pc, "terminal", "custody") /\ UNCHANGED <<todo, blocked, deletable>>
       ELSE /\ UNCHANGED pc
            /\ Verdict("terminal", b, IF live[b] = 0 THEN "skip" ELSE "block")
    /\ UNCHANGED <<env, jobRest>>
TerminalCustody ==
    /\ pc["terminal"] = "custody" /\ pc' = Set(pc, "terminal", "scan")
    /\ LET b == cur["terminal"]
       IN  Verdict("terminal", b,
                   IF b \notin openPr /\ copy["terminal"][b] \in kept THEN "delete" ELSE "block")
    /\ UNCHANGED <<env, jobRest, cur>>
TerminalDelete(b) ==
    /\ pc["terminal"] = "apply" /\ b \in deletable["terminal"] /\ Delete("terminal", b)
    /\ live[b] # 0 => /\ pc' = Set(pc, "terminal", "confirm") /\ cur' = Set(cur, "terminal", b)
                      /\ UNCHANGED deletable
\* The ref is asked for once more: if someone has made it again, the run stops here.
TerminalConfirm ==
    /\ pc["terminal"] = "confirm" /\ UNCHANGED env
    /\ IF live[cur["terminal"]] # 0 THEN Ends("terminal")
       ELSE /\ pc' = Set(pc, "terminal", "apply")
            /\ deletable' = Set(deletable, "terminal", deletable["terminal"] \ {cur["terminal"]})
            /\ UNCHANGED <<jobRest, cur, todo, blocked>>

(***************************************************************************)
(* plan and delete_branch of research_registry.py                          *)
(***************************************************************************)
ResearchInventory ==
    /\ pc["research"] = "scan" /\ pc' = Set(pc, "research", "plan") /\ seen' = live
    /\ UNCHANGED <<env, cur, copy, depCopy, todo, deletable, blocked>>
ResearchPlan(b) ==
    /\ pc["research"] = "plan" /\ b \in todo["research"]
    /\ Verdict("research", b,
               IF seen[b] = 0 THEN "skip"
               ELSE IF seen[b] = copy["research"][b] /\ b \notin depCopy /\ b \notin openPr
               THEN "delete" ELSE "block")
    /\ UNCHANGED <<env, jobRest, pc, cur>>
ResearchDecide ==
    /\ pc["research"] = "plan" /\ todo["research"] = {} /\ UNCHANGED env
    /\ \/ blocked["research"] /\ Ends("research")
       \/ ~blocked["research"] /\ pc' = Set(pc, "research", "apply") /\ UNCHANGED jobMemory
\* The branch is looked at once more: its head, then its pull requests.
LookAgain(b, same) ==
    /\ pc["research"] = "apply" /\ b \in deletable["research"] /\ UNCHANGED env
    /\ \/ ~same /\ Ends("research")
       \/ /\ same /\ pc' = Set(pc, "research", "recheck_pr") /\ cur' = Set(cur, "research", b)
          /\ UNCHANGED <<jobRest, todo, deletable, blocked>>
\* Mutant of ResearchRecheck: the head of the inventory is the head.
InventorySuffices(b) == LookAgain(b, seen[b] = copy["research"][b])
ResearchRecheck(b) == LookAgain(b, live[b] = copy["research"][b])
ResearchRecheckPr ==
    /\ pc["research"] = "recheck_pr" /\ UNCHANGED env
    /\ IF cur["research"] \in openPr THEN Ends("research")
       ELSE pc' = Set(pc, "research", "delete") /\ UNCHANGED jobMemory
ResearchDelete ==
    /\ pc["research"] = "delete" /\ Delete("research", cur["research"])
    /\ live[cur["research"]] # 0 =>
          /\ pc' = Set(pc, "research", "apply") /\ UNCHANGED cur
          /\ deletable' = Set(deletable, "research", deletable["research"] \ {cur["research"]})

TerminalWork ==
    \/ (\E b \in Branches : TerminalHead(b) \/ TerminalDelete(b))
    \/ TerminalCustody \/ TerminalConfirm \/ Decide("terminal") \/ Finish("terminal")
ResearchWork ==
    \/ (\E b \in Branches : ResearchPlan(b) \/ ResearchRecheck(b))
    \/ ResearchInventory \/ ResearchDecide \/ ResearchRecheckPr \/ ResearchDelete
    \/ Finish("research")

Next ==
    \/ \E b \in Branches : Push(b) \/ PullRequest(b) \/ Seal(b) \/ Depend(b)
    \/ \E j \in Jobs : Start(j) \/ Crash(j)
    \/ TerminalWork \/ ResearchWork

\* A job that has started goes on; nothing but people starts another one.
Spec ==
    /\ Init /\ [][Next]_vars
    /\ WF_vars(TerminalWork) /\ WF_vars(ResearchWork)

(***************************************************************************)
(* Properties                                                              *)
(***************************************************************************)
TypeOK ==
    /\ live \in [Branches -> 0 .. MaxPushes] /\ openPr \subseteq Branches
    /\ \A b \in openPr : live[b] # 0
    /\ kept \subseteq 1 .. MaxPushes /\ depends \subseteq Branches
    /\ \A j \in Jobs : deletable[j] \subseteq Listed(j) /\ todo[j] \subseteq Listed(j)

\* What the registry's collector takes with a ref and main does not have was pushed after
\* its own last look at that ref: the inventory, minutes old by then, never suffices
\* (delete_branch reads the head and the pull requests again).
OnlyLateLost == lost["research"] \subseteq late

\* A branch whose dependency was there when the run started, and still is, is never deleted
\* by the registry's collector.
DependencySafe == cut = {}

\* terminal_branch_gc.py:4: "A branch may be deleted only when its live SHA is exactly
\* pinned ... and its terminal state is preserved": nothing unpreserved goes.  Not kept: all
\* heads are looked at first, and each DELETE then takes what has been pushed since.
TerminalPreserves == lost["terminal"] = {}

\* When people leave the listed branches alone but keep starting runs that delete (pushes to
\* the files the workflows name, or a dispatch), each branch is collected in the end, through
\* crashes, half-done runs and the two jobs deleting each other's branches: no run leaves
\* behind what would stop all the later ones.
Clear(j) ==
    \A b \in Branches : pinned[j][b] # 0 =>
        live[b] = 0 \/ (live[b] = pinned[j][b] /\ b \notin openPr /\ live[b] \in kept
                        /\ (j = "research" => b \notin depends))
Collected(j) == \A b \in Branches : pinned[j][b] # 0 => live[b] = 0
Restarted(j) == []<>(pc[j] = "scan")
Collects == \A j \in Jobs : <>[]Clear(j) /\ Restarted(j) => []<>Collected(j)
=============================================================================
