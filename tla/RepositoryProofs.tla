--------------------------- MODULE RepositoryProofs ---------------------------
(***************************************************************************)
(* What the unattended jobs do to the repository, for every number of      *)
(* branches, pushes, edits and crashes.                                    *)
(***************************************************************************)
EXTENDS MC_Repository, TLAPS

(***************************************************************************)
(* The branch collectors                                                   *)
(***************************************************************************)
Heads == 0 .. pushes
Window == gcPc["research"] \in {"recheck_pr", "delete"}

Places == {"idle", "scan", "custody", "plan", "apply", "confirm", "recheck_pr", "delete"}
RepoTypes ==
    /\ pushes \in 1 .. MaxPushes /\ prs \in Nat /\ edits \in Nat /\ crashes \in Nat
    /\ live \in [Branches -> Heads] /\ openPr \subseteq Branches
    /\ kept \subseteq 1 .. pushes /\ depends \subseteq Branches
    /\ pinned \in [Branch!Jobs -> [Branches -> Heads]]
    /\ copy \in [Branch!Jobs -> [Branches -> Heads]]
JobTypes ==
    /\ gcPc \in [Branch!Jobs -> Places] /\ cur \in [Branch!Jobs -> Branches \cup {None}]
    /\ todo \in [Branch!Jobs -> SUBSET Branches] /\ deletable \in [Branch!Jobs -> SUBSET Branches]
    /\ lost \in [Branch!Jobs -> SUBSET (1 .. pushes)] /\ late \subseteq 1 .. pushes
BranchTypes == RepoTypes /\ JobTypes
\* A pull request is on a branch that exists, and a job only looks at what its checkout lists.
Listing ==
    /\ \A b \in openPr : live[b] # 0
    /\ \A j \in Branch!Jobs : deletable[j] \subseteq Branch!Listed(j) /\ todo[j] \subseteq Branch!Listed(j)
    /\ gcPc["terminal"] = "custody" => cur["terminal"] \in Branch!Listed("terminal")
\* Sealed evidence comes with every head the registry lists.
ListedIsKept == \A b \in Branches : /\ pinned["research"][b] \in kept \cup {0}
                                    /\ copy["research"][b] \in kept \cup {0}
\* Between the last look and the delete a head is the one that was looked at, or is known to be late.
LookedAt == Window => /\ cur["research"] \in Branches
                      /\ live[cur["research"]] \in {0, copy["research"][cur["research"]]} \cup late
NothingDepends == /\ deletable["research"] \cap depCopy = {}
                  /\ Window => cur["research"] \notin depCopy
BranchInv == /\ BranchTypes /\ Listing /\ ListedIsKept /\ LookedAt /\ NothingDepends
             /\ Branch!OnlyLateLost /\ Branch!DependencySafe

LEMMA BranchInitially == Branch!BoundAssumption /\ Branch!Init => BranchInv
<1> SUFFICES ASSUME Branch!BoundAssumption, Branch!Init PROVE BranchInv
  OBVIOUS
<1> USE DEF Branch!Init, Branch!Jobs
<1>1. RepoTypes BY DEF RepoTypes, Heads, Branch!BoundAssumption
<1>2. JobTypes BY DEF JobTypes, Places
<1>3. Listing BY DEF Listing, Branch!Listed
<1>4. ListedIsKept BY DEF ListedIsKept
<1>5. LookedAt /\ NothingDepends BY DEF LookedAt, NothingDepends, Window
<1>6. Branch!OnlyLateLost /\ Branch!DependencySafe BY DEF Branch!OnlyLateLost, Branch!DependencySafe
<1> QED BY <1>1, <1>2, <1>3, <1>4, <1>5, <1>6 DEF BranchInv, BranchTypes

\* People push, open, merge and close pull requests, seal evidence and record dependencies.
LEMMA PeopleKeepBranchInv ==
  ASSUME BranchInv, Branch!BoundAssumption, NEW b \in Branches,
         Branch!Push(b) \/ Branch!PullRequest(b) \/ Branch!Seal(b) \/ Branch!Depend(b)
  PROVE  BranchInv'
<1> USE DEF BranchInv, Branch!Jobs, Branch!jobVars
<1>1. CASE Branch!Push(b)
  <2> USE <1>1 DEF Branch!Push, Branch!historyVars
  <2>1. BranchTypes'
    <3>1. RepoTypes' BY DEF BranchTypes, RepoTypes, Heads, Branch!BoundAssumption, LookedAt, Window
    <3>2. JobTypes' BY DEF BranchTypes, JobTypes, Places, RepoTypes, Heads, LookedAt, Window, Listing, Branch!Listed
    <3> QED BY <3>1, <3>2 DEF BranchTypes
  <2>2. Listing' BY DEF BranchTypes, RepoTypes, JobTypes, Listing, Heads, Branch!Listed
  <2>3. ListedIsKept' BY DEF ListedIsKept
  <2>4. LookedAt' BY DEF BranchTypes, RepoTypes, JobTypes, LookedAt, Branch!InWindow, Window, Heads
  <2>5. NothingDepends' BY DEF NothingDepends, Window
  <2>6. Branch!OnlyLateLost' /\ Branch!DependencySafe' BY DEF Branch!OnlyLateLost, Branch!DependencySafe
  <2> QED BY <2>1, <2>2, <2>3, <2>4, <2>5, <2>6
<1>2. CASE Branch!PullRequest(b)
  <2> USE <1>2 DEF Branch!PullRequest, Branch!historyVars
  <2>1. BranchTypes'
    <3>a. live[b] \in 1 .. pushes BY DEF BranchTypes, RepoTypes, Heads
    <3>b. kept' \subseteq 1 .. pushes /\ openPr' \subseteq Branches /\ depends' \subseteq Branches
      BY <3>a DEF BranchTypes, RepoTypes
    <3>c. live' \in [Branches -> Heads] BY <3>a DEF BranchTypes, RepoTypes, Heads
    <3>d. pinned' \in [Branch!Jobs -> [Branches -> Heads]] BY <3>a DEF BranchTypes, RepoTypes, Heads
    <3>1. RepoTypes' BY <3>b, <3>c, <3>d DEF BranchTypes, RepoTypes, Heads
    <3>2. JobTypes' BY DEF BranchTypes, JobTypes, Places, RepoTypes, Heads, LookedAt, Window, Listing, Branch!Listed
    <3> QED BY <3>1, <3>2 DEF BranchTypes
  <2>2. Listing' BY DEF BranchTypes, RepoTypes, JobTypes, Listing, Heads, Branch!Listed
  <2>3. ListedIsKept' BY DEF ListedIsKept
  <2>4. LookedAt' BY DEF BranchTypes, RepoTypes, JobTypes, LookedAt, Window, Heads
  <2>5. NothingDepends' BY DEF NothingDepends, Window
  <2>6. Branch!OnlyLateLost' /\ Branch!DependencySafe' BY DEF Branch!OnlyLateLost, Branch!DependencySafe
  <2> QED BY <2>1, <2>2, <2>3, <2>4, <2>5, <2>6
<1>3. CASE Branch!Seal(b)
  <2> USE <1>3 DEF Branch!Seal, Branch!historyVars
  <2>1. BranchTypes'
    <3>a. live[b] \in 1 .. pushes BY DEF BranchTypes, RepoTypes, Heads
    <3>b. kept' \subseteq 1 .. pushes /\ openPr' \subseteq Branches /\ depends' \subseteq Branches
      BY <3>a DEF BranchTypes, RepoTypes
    <3>c. live' \in [Branches -> Heads] BY <3>a DEF BranchTypes, RepoTypes, Heads
    <3>d. pinned' \in [Branch!Jobs -> [Branches -> Heads]] BY <3>a DEF BranchTypes, RepoTypes, Heads
    <3>1. RepoTypes' BY <3>b, <3>c, <3>d DEF BranchTypes, RepoTypes, Heads
    <3>2. JobTypes' BY DEF BranchTypes, JobTypes, Places, RepoTypes, Heads, LookedAt, Window, Listing, Branch!Listed
    <3> QED BY <3>1, <3>2 DEF BranchTypes
  <2>2. Listing' BY DEF BranchTypes, RepoTypes, JobTypes, Listing, Heads, Branch!Listed
  <2>3. ListedIsKept' BY DEF ListedIsKept, BranchTypes, RepoTypes, JobTypes
  <2>4. LookedAt' BY DEF BranchTypes, RepoTypes, JobTypes, LookedAt, Window, Heads
  <2>5. NothingDepends' BY DEF NothingDepends, Window
  <2>6. Branch!OnlyLateLost' /\ Branch!DependencySafe' BY DEF Branch!OnlyLateLost, Branch!DependencySafe
  <2> QED BY <2>1, <2>2, <2>3, <2>4, <2>5, <2>6
<1>4. CASE Branch!Depend(b)
  BY <1>4 DEF Branch!Depend, Branch!historyVars, BranchTypes, RepoTypes, JobTypes, Listing, ListedIsKept, LookedAt, NothingDepends,
              Branch!OnlyLateLost, Branch!DependencySafe, Heads, Window, Branch!Listed, Branch!BoundAssumption
<1> QED BY <1>1, <1>2, <1>3, <1>4

\* A job starts from a fresh checkout, or dies.
LEMMA StartAndCrashKeepBranchInv ==
  ASSUME BranchInv, Branch!BoundAssumption, NEW j \in Branch!Jobs, Branch!Start(j) \/ Branch!Crash(j)
  PROVE  BranchInv'
<1> USE DEF BranchInv, Branch!Jobs, Branch!env, Branch!repoVars, Branch!boundVars, Branch!historyVars, Branch!Set,
            Branch!Ends
<1>1. CASE Branch!Start(j)
  <2> USE <1>1 DEF Branch!Start
  <2>1. BranchTypes'
    <3>1. RepoTypes' BY DEF BranchTypes, RepoTypes, Heads, LookedAt, Window
    <3>2. JobTypes' BY DEF BranchTypes, JobTypes, Places, RepoTypes, Heads, LookedAt, Window, Listing, Branch!Listed
    <3> QED BY <3>1, <3>2 DEF BranchTypes
  <2>2. Listing' BY DEF BranchTypes, RepoTypes, JobTypes, Listing, Branch!Listed
  <2>3. ListedIsKept' BY DEF ListedIsKept, BranchTypes, RepoTypes, JobTypes
  <2>4. LookedAt' BY DEF BranchTypes, RepoTypes, JobTypes, LookedAt, Window
  <2>5. NothingDepends' BY DEF BranchTypes, RepoTypes, JobTypes, NothingDepends, Window
  <2>6. Branch!OnlyLateLost' /\ Branch!DependencySafe' BY DEF Branch!OnlyLateLost, Branch!DependencySafe
  <2> QED BY <2>1, <2>2, <2>3, <2>4, <2>5, <2>6
<1>2. CASE Branch!Crash(j)
  <2> USE <1>2 DEF Branch!Crash
  <2>1. BranchTypes'
    <3>1. RepoTypes' BY DEF BranchTypes, RepoTypes, Heads, LookedAt, Window
    <3>2. JobTypes' BY DEF BranchTypes, JobTypes, Places, RepoTypes, Heads, LookedAt, Window, Listing, Branch!Listed
    <3> QED BY <3>1, <3>2 DEF BranchTypes
  <2>2. Listing' BY DEF BranchTypes, RepoTypes, JobTypes, Listing, Branch!Listed
  <2>3. ListedIsKept' BY DEF ListedIsKept, BranchTypes, RepoTypes
  <2>4. LookedAt' BY DEF BranchTypes, RepoTypes, JobTypes, LookedAt, Window
  <2>5. NothingDepends' BY DEF BranchTypes, JobTypes, NothingDepends, Window
  <2>6. Branch!OnlyLateLost' /\ Branch!DependencySafe' BY DEF Branch!OnlyLateLost, Branch!DependencySafe
  <2> QED BY <2>1, <2>2, <2>3, <2>4, <2>5, <2>6
<1> QED BY <1>1, <1>2

\* What a job notes of its own - where it is, what is left to look at and to delete - keeps the rest.
LEMMA NotesKeepBranchInv ==
  ASSUME BranchInv, NEW j \in Branch!Jobs, Branch!Decide(j) \/ Branch!Finish(j)
  PROVE  BranchInv'
<1> USE DEF BranchInv, Branch!Jobs, Branch!env, Branch!repoVars, Branch!boundVars, Branch!historyVars, Branch!Set,
            Branch!Ends, Branch!jobMemory
<1>1. CASE Branch!Decide(j)
  <2> USE <1>1 DEF Branch!Decide
  <2>1. BranchTypes'
    <3>1. RepoTypes' BY DEF BranchTypes, RepoTypes, Heads, LookedAt, Window
    <3>2. JobTypes' BY DEF BranchTypes, JobTypes, Places, RepoTypes, Heads, LookedAt, Window, Listing, Branch!Listed
    <3> QED BY <3>1, <3>2 DEF BranchTypes
  <2>2. Listing' BY DEF BranchTypes, RepoTypes, JobTypes, Listing, Branch!Listed
  <2>3. ListedIsKept' BY DEF ListedIsKept, BranchTypes, RepoTypes
  <2>4. LookedAt' BY DEF BranchTypes, RepoTypes, JobTypes, LookedAt, Window
  <2>5. NothingDepends' BY DEF BranchTypes, JobTypes, NothingDepends, Window
  <2>6. Branch!OnlyLateLost' /\ Branch!DependencySafe' BY DEF Branch!OnlyLateLost, Branch!DependencySafe
  <2> QED BY <2>1, <2>2, <2>3, <2>4, <2>5, <2>6
<1>2. CASE Branch!Finish(j)
  <2> USE <1>2 DEF Branch!Finish
  <2>1. BranchTypes'
    <3>1. RepoTypes' BY DEF BranchTypes, RepoTypes, Heads, LookedAt, Window
    <3>2. JobTypes' BY DEF BranchTypes, JobTypes, Places, RepoTypes, Heads, LookedAt, Window, Listing, Branch!Listed
    <3> QED BY <3>1, <3>2 DEF BranchTypes
  <2>2. Listing' BY DEF BranchTypes, RepoTypes, JobTypes, Listing, Branch!Listed
  <2>3. ListedIsKept' BY DEF ListedIsKept, BranchTypes, RepoTypes
  <2>4. LookedAt' BY DEF BranchTypes, RepoTypes, JobTypes, LookedAt, Window
  <2>5. NothingDepends' BY DEF BranchTypes, JobTypes, NothingDepends, Window
  <2>6. Branch!OnlyLateLost' /\ Branch!DependencySafe' BY DEF Branch!OnlyLateLost, Branch!DependencySafe
  <2> QED BY <2>1, <2>2, <2>3, <2>4, <2>5, <2>6
<1> QED BY <1>1, <1>2

\* The list's collector looks at a branch, deletes it and asks for it once more.
LEMMA TerminalKeepsBranchInv ==
  ASSUME BranchInv, Branch!TerminalWork
  PROVE  BranchInv'
<1> USE DEF BranchInv, Branch!Jobs, Branch!env, Branch!repoVars, Branch!boundVars, Branch!historyVars,
            Branch!Set, Branch!Verdict, Branch!Ends, Branch!jobRest, Branch!jobMemory
<1>1. ASSUME NEW b \in Branches, Branch!TerminalHead(b) PROVE BranchInv'
  <2> USE <1>1 DEF Branch!TerminalHead
  <2>1. BranchTypes'
    <3>1. RepoTypes' BY DEF BranchTypes, RepoTypes, Heads, LookedAt, Window
    <3>2. JobTypes' BY DEF BranchTypes, JobTypes, Places, RepoTypes, Heads, LookedAt, Window, Listing, Branch!Listed
    <3> QED BY <3>1, <3>2 DEF BranchTypes
  <2>2. Listing' BY DEF BranchTypes, RepoTypes, JobTypes, Listing, Branch!Listed
  <2>3. ListedIsKept' BY DEF ListedIsKept, BranchTypes, RepoTypes, JobTypes
  <2>4. LookedAt' BY DEF BranchTypes, RepoTypes, JobTypes, LookedAt, Window
  <2>5. NothingDepends' BY DEF BranchTypes, RepoTypes, JobTypes, NothingDepends, Window
  <2>6. Branch!OnlyLateLost' /\ Branch!DependencySafe'
    BY DEF Branch!OnlyLateLost, Branch!DependencySafe, BranchTypes, RepoTypes, JobTypes, LookedAt, NothingDepends, ListedIsKept, Window
  <2> QED BY <2>1, <2>2, <2>3, <2>4, <2>5, <2>6
<1>2. ASSUME NEW b \in Branches, Branch!TerminalDelete(b) PROVE BranchInv'
  <2> USE <1>2 DEF Branch!TerminalDelete, Branch!Delete
  <2>1. BranchTypes'
    <3>1. RepoTypes' BY DEF BranchTypes, RepoTypes, Heads, LookedAt, Window
    <3>a. b \in Branches /\ live[b] \in 0 .. pushes
      BY DEF BranchTypes, RepoTypes, Heads, LookedAt, Window
    <3>b. lost' \in [Branch!Jobs -> SUBSET (1 .. pushes)] BY <3>a DEF BranchTypes, RepoTypes, JobTypes
    <3>c. late' \subseteq 1 .. pushes' BY DEF BranchTypes, JobTypes
    <3>d. gcPc' \in [Branch!Jobs -> Places] BY DEF BranchTypes, JobTypes, Places
    <3>e. deletable' \in [Branch!Jobs -> SUBSET Branches] BY DEF BranchTypes, JobTypes
    <3>2. JobTypes' BY <3>a, <3>b, <3>c, <3>d, <3>e DEF BranchTypes, JobTypes
    <3> QED BY <3>1, <3>2 DEF BranchTypes
  <2>2. Listing' BY DEF BranchTypes, RepoTypes, JobTypes, Listing, Branch!Listed
  <2>3. ListedIsKept' BY DEF ListedIsKept, BranchTypes, RepoTypes, JobTypes
  <2>4. LookedAt' BY DEF BranchTypes, RepoTypes, JobTypes, LookedAt, Window
  <2>5. NothingDepends' BY DEF BranchTypes, RepoTypes, JobTypes, NothingDepends, Window
  <2>6. Branch!OnlyLateLost' /\ Branch!DependencySafe'
    BY DEF Branch!OnlyLateLost, Branch!DependencySafe, BranchTypes, RepoTypes, JobTypes, LookedAt, NothingDepends, ListedIsKept, Window
  <2> QED BY <2>1, <2>2, <2>3, <2>4, <2>5, <2>6
<1>3. CASE Branch!TerminalCustody
  <2> USE <1>3 DEF Branch!TerminalCustody
  <2>1. BranchTypes'
    <3>1. RepoTypes' BY DEF BranchTypes, RepoTypes, Heads, LookedAt, Window
    <3>2. JobTypes' BY DEF BranchTypes, JobTypes, Places, RepoTypes, Heads, LookedAt, Window, Listing, Branch!Listed
    <3> QED BY <3>1, <3>2 DEF BranchTypes
  <2>2. Listing' BY DEF BranchTypes, RepoTypes, JobTypes, Listing, Branch!Listed
  <2>3. ListedIsKept' BY DEF ListedIsKept, BranchTypes, RepoTypes, JobTypes
  <2>4. LookedAt' BY DEF BranchTypes, RepoTypes, JobTypes, LookedAt, Window
  <2>5. NothingDepends' BY DEF BranchTypes, RepoTypes, JobTypes, NothingDepends, Window
  <2>6. Branch!OnlyLateLost' /\ Branch!DependencySafe'
    BY DEF Branch!OnlyLateLost, Branch!DependencySafe, BranchTypes, RepoTypes, JobTypes, LookedAt, NothingDepends, ListedIsKept, Window
  <2> QED BY <2>1, <2>2, <2>3, <2>4, <2>5, <2>6
<1>4. CASE Branch!TerminalConfirm
  <2> USE <1>4 DEF Branch!TerminalConfirm
  <2>1. BranchTypes'
    <3>1. RepoTypes' BY DEF BranchTypes, RepoTypes, Heads, LookedAt, Window
    <3>2. JobTypes' BY DEF BranchTypes, JobTypes, Places, RepoTypes, Heads, LookedAt, Window, Listing, Branch!Listed
    <3> QED BY <3>1, <3>2 DEF BranchTypes
  <2>2. Listing' BY DEF BranchTypes, RepoTypes, JobTypes, Listing, Branch!Listed
  <2>3. ListedIsKept' BY DEF ListedIsKept, BranchTypes, RepoTypes, JobTypes
  <2>4. LookedAt' BY DEF BranchTypes, RepoTypes, JobTypes, LookedAt, Window
  <2>5. NothingDepends' BY DEF BranchTypes, RepoTypes, JobTypes, NothingDepends, Window
  <2>6. Branch!OnlyLateLost' /\ Branch!DependencySafe'
    BY DEF Branch!OnlyLateLost, Branch!DependencySafe, BranchTypes, RepoTypes, JobTypes, LookedAt, NothingDepends, ListedIsKept, Window
  <2> QED BY <2>1, <2>2, <2>3, <2>4, <2>5, <2>6
<1>9. CASE Branch!Decide("terminal") \/ Branch!Finish("terminal")
  BY <1>9, NotesKeepBranchInv
<1> QED BY <1>1, <1>2, <1>3, <1>4, <1>9 DEF Branch!TerminalWork

\* The registry's collector takes its inventory, plans, looks again and deletes.
LEMMA ResearchKeepsBranchInv ==
  ASSUME BranchInv, Branch!ResearchWork
  PROVE  BranchInv'
<1> USE DEF BranchInv, Branch!Jobs, Branch!env, Branch!repoVars, Branch!boundVars, Branch!historyVars,
            Branch!Set, Branch!Verdict, Branch!Ends, Branch!jobRest, Branch!jobMemory
<1>1. CASE Branch!ResearchInventory
  <2> USE <1>1 DEF Branch!ResearchInventory
  <2>1. BranchTypes'
    <3>1. RepoTypes' BY DEF BranchTypes, RepoTypes, Heads, LookedAt, Window
    <3>2. JobTypes' BY DEF BranchTypes, JobTypes, Places, RepoTypes, Heads, LookedAt, Window, Listing, Branch!Listed
    <3> QED BY <3>1, <3>2 DEF BranchTypes
  <2>2. Listing' BY DEF BranchTypes, RepoTypes, JobTypes, Listing, Branch!Listed
  <2>3. ListedIsKept' BY DEF ListedIsKept, BranchTypes, RepoTypes, JobTypes
  <2>4. LookedAt' BY DEF BranchTypes, RepoTypes, JobTypes, LookedAt, Window
  <2>5. NothingDepends' BY DEF BranchTypes, RepoTypes, JobTypes, NothingDepends, Window
  <2>6. Branch!OnlyLateLost' /\ Branch!DependencySafe'
    BY DEF Branch!OnlyLateLost, Branch!DependencySafe, BranchTypes, RepoTypes, JobTypes, LookedAt, NothingDepends, ListedIsKept, Window
  <2> QED BY <2>1, <2>2, <2>3, <2>4, <2>5, <2>6
<1>2. ASSUME NEW b \in Branches, Branch!ResearchPlan(b) PROVE BranchInv'
  <2> USE <1>2 DEF Branch!ResearchPlan
  <2>1. BranchTypes'
    <3>1. RepoTypes' BY DEF BranchTypes, RepoTypes, Heads, LookedAt, Window
    <3>2. JobTypes' BY DEF BranchTypes, JobTypes, Places, RepoTypes, Heads, LookedAt, Window, Listing, Branch!Listed
    <3> QED BY <3>1, <3>2 DEF BranchTypes
  <2>2. Listing' BY DEF BranchTypes, RepoTypes, JobTypes, Listing, Branch!Listed
  <2>3. ListedIsKept' BY DEF ListedIsKept, BranchTypes, RepoTypes, JobTypes
  <2>4. LookedAt' BY DEF BranchTypes, RepoTypes, JobTypes, LookedAt, Window
  <2>5. NothingDepends' BY DEF BranchTypes, RepoTypes, JobTypes, NothingDepends, Window
  <2>6. Branch!OnlyLateLost' /\ Branch!DependencySafe'
    BY DEF Branch!OnlyLateLost, Branch!DependencySafe, BranchTypes, RepoTypes, JobTypes, LookedAt, NothingDepends, ListedIsKept, Window
  <2> QED BY <2>1, <2>2, <2>3, <2>4, <2>5, <2>6
<1>3. CASE Branch!ResearchDecide
  <2> USE <1>3 DEF Branch!ResearchDecide
  <2>1. BranchTypes'
    <3>1. RepoTypes' BY DEF BranchTypes, RepoTypes, Heads, LookedAt, Window
    <3>2. JobTypes' BY DEF BranchTypes, JobTypes, Places, RepoTypes, Heads, LookedAt, Window, Listing, Branch!Listed
    <3> QED BY <3>1, <3>2 DEF BranchTypes
  <2>2. Listing' BY DEF BranchTypes, RepoTypes, JobTypes, Listing, Branch!Listed
  <2>3. ListedIsKept' BY DEF ListedIsKept, BranchTypes, RepoTypes, JobTypes
  <2>4. LookedAt' BY DEF BranchTypes, RepoTypes, JobTypes, LookedAt, Window
  <2>5. NothingDepends' BY DEF BranchTypes, RepoTypes, JobTypes, NothingDepends, Window
  <2>6. Branch!OnlyLateLost' /\ Branch!DependencySafe'
    BY DEF Branch!OnlyLateLost, Branch!DependencySafe, BranchTypes, RepoTypes, JobTypes, LookedAt, NothingDepends, ListedIsKept, Window
  <2> QED BY <2>1, <2>2, <2>3, <2>4, <2>5, <2>6
<1>4. ASSUME NEW b \in Branches, Branch!ResearchRecheck(b) PROVE BranchInv'
  <2> USE <1>4 DEF Branch!ResearchRecheck, Branch!LookAgain
  <2>1. BranchTypes'
    <3>1. RepoTypes' BY DEF BranchTypes, RepoTypes, Heads, LookedAt, Window
    <3>2. JobTypes' BY DEF BranchTypes, JobTypes, Places, RepoTypes, Heads, LookedAt, Window, Listing, Branch!Listed
    <3> QED BY <3>1, <3>2 DEF BranchTypes
  <2>2. Listing' BY DEF BranchTypes, RepoTypes, JobTypes, Listing, Branch!Listed
  <2>3. ListedIsKept' BY DEF ListedIsKept, BranchTypes, RepoTypes, JobTypes
  <2>4. LookedAt' BY DEF BranchTypes, RepoTypes, JobTypes, LookedAt, Window
  <2>5. NothingDepends' BY DEF BranchTypes, RepoTypes, JobTypes, NothingDepends, Window
  <2>6. Branch!OnlyLateLost' /\ Branch!DependencySafe'
    BY DEF Branch!OnlyLateLost, Branch!DependencySafe, BranchTypes, RepoTypes, JobTypes, LookedAt, NothingDepends, ListedIsKept, Window
  <2> QED BY <2>1, <2>2, <2>3, <2>4, <2>5, <2>6
<1>5. CASE Branch!ResearchRecheckPr
  <2> USE <1>5 DEF Branch!ResearchRecheckPr
  <2>1. BranchTypes'
    <3>1. RepoTypes' BY DEF BranchTypes, RepoTypes, Heads, LookedAt, Window
    <3>2. JobTypes' BY DEF BranchTypes, JobTypes, Places, RepoTypes, Heads, LookedAt, Window, Listing, Branch!Listed
    <3> QED BY <3>1, <3>2 DEF BranchTypes
  <2>2. Listing' BY DEF BranchTypes, RepoTypes, JobTypes, Listing, Branch!Listed
  <2>3. ListedIsKept' BY DEF ListedIsKept, BranchTypes, RepoTypes, JobTypes
  <2>4. LookedAt' BY DEF BranchTypes, RepoTypes, JobTypes, LookedAt, Window
  <2>5. NothingDepends' BY DEF BranchTypes, RepoTypes, JobTypes, NothingDepends, Window
  <2>6. Branch!OnlyLateLost' /\ Branch!DependencySafe'
    BY DEF Branch!OnlyLateLost, Branch!DependencySafe, BranchTypes, RepoTypes, JobTypes, LookedAt, NothingDepends, ListedIsKept, Window
  <2> QED BY <2>1, <2>2, <2>3, <2>4, <2>5, <2>6
<1>6. CASE Branch!ResearchDelete
  <2> USE <1>6 DEF Branch!ResearchDelete, Branch!Delete
  <2>1. BranchTypes'
    <3>1. RepoTypes' BY DEF BranchTypes, RepoTypes, Heads, LookedAt, Window
    <3>a. cur["research"] \in Branches /\ live[cur["research"]] \in 0 .. pushes
      BY DEF BranchTypes, RepoTypes, Heads, LookedAt, Window
    <3>b. lost' \in [Branch!Jobs -> SUBSET (1 .. pushes)] BY <3>a DEF BranchTypes, RepoTypes, JobTypes
    <3>c. late' \subseteq 1 .. pushes' BY DEF BranchTypes, JobTypes
    <3>d. gcPc' \in [Branch!Jobs -> Places] BY DEF BranchTypes, JobTypes, Places
    <3>e. deletable' \in [Branch!Jobs -> SUBSET Branches] BY DEF BranchTypes, JobTypes
    <3>2. JobTypes' BY <3>a, <3>b, <3>c, <3>d, <3>e DEF BranchTypes, JobTypes
    <3> QED BY <3>1, <3>2 DEF BranchTypes
  <2>2. Listing' BY DEF BranchTypes, RepoTypes, JobTypes, Listing, Branch!Listed
  <2>3. ListedIsKept' BY DEF ListedIsKept, BranchTypes, RepoTypes, JobTypes
  <2>4. LookedAt' BY DEF BranchTypes, RepoTypes, JobTypes, LookedAt, Window
  <2>5. NothingDepends' BY DEF BranchTypes, RepoTypes, JobTypes, NothingDepends, Window
  <2>6. Branch!OnlyLateLost' /\ Branch!DependencySafe'
    BY DEF Branch!OnlyLateLost, Branch!DependencySafe, BranchTypes, RepoTypes, JobTypes, LookedAt, NothingDepends, ListedIsKept, Window
  <2> QED BY <2>1, <2>2, <2>3, <2>4, <2>5, <2>6
<1>9. CASE Branch!Finish("research")
  BY <1>9, NotesKeepBranchInv
<1> QED BY <1>1, <1>2, <1>3, <1>4, <1>5, <1>6, <1>9 DEF Branch!ResearchWork

\* What the registry's collector takes with a ref and main does not have was pushed after its own
\* last look, and it deletes no branch another one depends on: for any number of branches and pushes.
THEOREM OnlyLateLostHolds == SumSpec => []OnlyLateLost
<1> DEFINE Safe == which = "branches" => BranchInv
<1>1. SumInit => Safe
  BY BranchInitially, BoundsAssumption DEF SumInit
<1>2. ASSUME Safe, [SumNext]_sumVars PROVE Safe'
  <2> USE <1>2, BoundsAssumption
  <2>1. CASE which = "branches" /\ Branch!Next /\ UNCHANGED which
    <3>1. BranchInv /\ Branch!BoundAssumption BY <2>1 DEF BoundsAssumption
    <3>2. ASSUME NEW b \in Branches, Branch!Push(b) \/ Branch!PullRequest(b) \/ Branch!Seal(b) \/ Branch!Depend(b)
          PROVE  BranchInv'
      BY <3>1, <3>2, PeopleKeepBranchInv
    <3>3. ASSUME NEW j \in Branch!Jobs, Branch!Start(j) \/ Branch!Crash(j) PROVE BranchInv'
      BY <3>1, <3>3, StartAndCrashKeepBranchInv
    <3>4. CASE Branch!TerminalWork
      BY <3>1, <3>4, TerminalKeepsBranchInv
    <3>5. CASE Branch!ResearchWork
      BY <3>1, <3>5, ResearchKeepsBranchInv
    <3> QED BY <2>1, <3>2, <3>3, <3>4, <3>5 DEF Branch!Next
  <2>2. CASE UNCHANGED <<which, branchesVars>>
    BY <2>2 DEF branchesVars, BranchInv, BranchTypes, RepoTypes, JobTypes, Listing, ListedIsKept, LookedAt, NothingDepends,
       Branch!OnlyLateLost, Branch!DependencySafe, Heads, Window, Branch!Listed
  <2> QED BY <2>1, <2>2 DEF SumNext, sumVars
<1>3. Safe => OnlyLateLost
  <2> SUFFICES ASSUME BranchInv PROVE Branch!TypeOK /\ Branch!OnlyLateLost /\ Branch!DependencySafe
    BY DEF OnlyLateLost
  <2> USE DEF BranchInv, BranchTypes, RepoTypes
  <2>1. Heads \subseteq 0 .. MaxPushes /\ 1 .. pushes \subseteq 1 .. MaxPushes
    BY BoundsAssumption DEF Heads, Branch!BoundAssumption
  <2>2. live \in [Branches -> 0 .. MaxPushes] /\ kept \subseteq 1 .. MaxPushes BY <2>1
  <2> QED BY <2>2 DEF Listing, Branch!TypeOK
<1> QED BY <1>1, <1>2, <1>3, PTL DEF SumSpec

(***************************************************************************)
(* The finalization of archived evidence                                   *)
(***************************************************************************)
PrStates == {"none", "open", "closed", "merged"}
MainTypes ==
    /\ tip \in 1 .. MaxMain + 1 /\ (archivedAt = 0 => tip <= MaxMain)
    /\ verify \in Seq(Archive!Results) /\ Len(verify) = tip /\ archivedAt \in 0 .. tip
    /\ \A c \in 1 .. tip : verify[c] = "success" => c \in green
Commits == [base : Int, exact : BOOLEAN, direct : BOOLEAN]
HeadTypes ==
    /\ heads \in Seq(Commits)
    /\ gates \in Seq(Archive!Results) /\ Len(gates) = Len(heads)
    /\ ref \in 0 .. Len(heads)
PrTypes ==
    /\ pr \in [state : PrStates, draft : BOOLEAN, threads : BOOLEAN]
    /\ archivedAt # 0 <=> pr.state = "merged"
    /\ pr.state = "open" => ref # 0
ReadTypes ==
    /\ checkout \in 0 .. tip /\ main \in 0 .. tip /\ head \in 0 .. ref
\* The head about to be merged is the one whose files were compared: a push moves ref past head for good.
Compared ==
    /\ pc \in {"f_ready", "f_checks", "f_recheck", "f_merge"} => head # 0
    /\ pc = "f_checks" /\ ref = head => heads[head].exact
    /\ pc \in {"f_recheck", "f_merge"} => heads[head].exact
    /\ pc = "f_open" => ref # 0
\* On the way to the receipt the archive is in main and both commits were verified, and unless
\* the marker was found there is no receipt.
Closing ==
    /\ pc \in {"f_comments", "f_settle", "f_post"} =>
          archivedAt \in 1 .. main /\ {archivedAt, main} \subseteq green
    /\ pc \in {"f_settle", "f_post"} /\ ~marked => receipts = <<>>
Named == [archive : Nat, main : Nat]
ReceiptTypes == receipts \in Seq(Named)
ArchiveInv == /\ MainTypes /\ HeadTypes /\ PrTypes /\ ReadTypes /\ Compared /\ Closing /\ ReceiptTypes
              /\ Archive!MergedAsVerified /\ Archive!ReceiptTruthful

LEMMA ArchiveInitially == Archive!BoundAssumption /\ Archive!Init => ArchiveInv
<1> SUFFICES ASSUME Archive!BoundAssumption, Archive!Init PROVE ArchiveInv
  OBVIOUS
<1> USE DEF Archive!Init
<1>1. MainTypes BY DEF MainTypes, Archive!BoundAssumption, Archive!Results
<1>2. HeadTypes /\ PrTypes /\ ReadTypes BY DEF HeadTypes, PrTypes, ReadTypes, PrStates
<1>3. Compared /\ Closing /\ ReceiptTypes BY DEF Compared, Closing, ReceiptTypes
<1>4. Archive!MergedAsVerified /\ Archive!ReceiptTruthful
  BY DEF Archive!MergedAsVerified, Archive!ReceiptTruthful
<1> QED BY <1>1, <1>2, <1>3, <1>4 DEF ArchiveInv

\* While main moves, CI reports and people meddle, what the job has read stays true of what it read.
LEMMA ServerKeepsArchiveInv ==
  ASSUME ArchiveInv, Archive!BoundAssumption,
         \/ Archive!MainMoves \/ Archive!ForeignPush \/ Archive!Maintainer \/ Archive!ArtifactExpires
         \/ \E r \in Archive!Results : Archive!VerifyReports(r) \/ Archive!GatesReport(r)
  PROVE  ArchiveInv'
<1> USE DEF ArchiveInv, Archive!others, Archive!jobVars, Archive!historyVars, Archive!serverVars
<1>1. CASE Archive!MainMoves
  <2> USE <1>1 DEF Archive!MainMoves
  <2>1. MainTypes' BY DEF MainTypes, Archive!Results, Archive!BoundAssumption
  <2>2. HeadTypes' BY DEF HeadTypes, Archive!Results
  <2>3. PrTypes' BY DEF PrTypes, PrStates, HeadTypes
  <2>4. ReadTypes' BY DEF ReadTypes, MainTypes, HeadTypes
  <2>5. Compared' BY DEF Compared, ReadTypes, HeadTypes
  <2>6. Closing' /\ ReceiptTypes' BY DEF Closing, ReceiptTypes, MainTypes
  <2>7. Archive!MergedAsVerified' /\ Archive!ReceiptTruthful'
    BY DEF Archive!MergedAsVerified, Archive!ReceiptTruthful, MainTypes
  <2> QED BY <2>1, <2>2, <2>3, <2>4, <2>5, <2>6, <2>7
<1>2. ASSUME NEW r \in Archive!Results, Archive!VerifyReports(r) PROVE ArchiveInv'
  <2> USE <1>2 DEF Archive!VerifyReports, Archive!CountFailure, Archive!Before
  <2>1. MainTypes' BY DEF MainTypes, Archive!Results, Archive!BoundAssumption
  <2>2. HeadTypes' BY DEF HeadTypes, Archive!Results
  <2>3. PrTypes' BY DEF PrTypes, PrStates, HeadTypes
  <2>4. ReadTypes' BY DEF ReadTypes, MainTypes, HeadTypes
  <2>5. Compared' BY DEF Compared, ReadTypes, HeadTypes
  <2>6. Closing' /\ ReceiptTypes' BY DEF Closing, ReceiptTypes, MainTypes
  <2>7. Archive!MergedAsVerified' /\ Archive!ReceiptTruthful'
    BY DEF Archive!MergedAsVerified, Archive!ReceiptTruthful, MainTypes
  <2> QED BY <2>1, <2>2, <2>3, <2>4, <2>5, <2>6, <2>7
<1>3. ASSUME NEW r \in Archive!Results, Archive!GatesReport(r) PROVE ArchiveInv'
  <2> USE <1>3 DEF Archive!GatesReport, Archive!CountFailure, Archive!Before
  <2>1. MainTypes' BY DEF MainTypes, Archive!Results, Archive!BoundAssumption
  <2>2. HeadTypes' BY DEF HeadTypes, Archive!Results
  <2>3. PrTypes' BY DEF PrTypes, PrStates, HeadTypes
  <2>4. ReadTypes' BY DEF ReadTypes, MainTypes, HeadTypes
  <2>5. Compared' BY DEF Compared, ReadTypes, HeadTypes
  <2>6. Closing' /\ ReceiptTypes' BY DEF Closing, ReceiptTypes, MainTypes
  <2>7. Archive!MergedAsVerified' /\ Archive!ReceiptTruthful'
    BY DEF Archive!MergedAsVerified, Archive!ReceiptTruthful, MainTypes
  <2> QED BY <2>1, <2>2, <2>3, <2>4, <2>5, <2>6, <2>7
<1>4. CASE Archive!ForeignPush
  <2> USE <1>4 DEF Archive!ForeignPush, Archive!NewHead
  <2>1. MainTypes' BY DEF MainTypes, Archive!Results, Archive!BoundAssumption
  <2>2. HeadTypes'
    <3>a. heads[ref] \in Commits BY DEF HeadTypes
    <3>1. [base |-> heads[ref].base, exact |-> FALSE, direct |-> FALSE] \in Commits BY <3>a DEF Commits
    <3>2. heads' \in Seq(Commits) /\ gates' \in Seq(Archive!Results)
      BY <3>1 DEF HeadTypes, Archive!Results
    <3>3. Len(gates') = Len(heads') /\ ref' \in 0 .. Len(heads') BY <3>1 DEF HeadTypes
    <3> QED BY <3>2, <3>3 DEF HeadTypes
  <2>3. PrTypes' BY DEF PrTypes, PrStates, HeadTypes
  <2>4. ReadTypes' BY DEF ReadTypes, MainTypes, HeadTypes
  <2>5. Compared' BY DEF Compared, ReadTypes, HeadTypes
  <2>6. Closing' /\ ReceiptTypes' BY DEF Closing, ReceiptTypes, MainTypes
  <2>7. Archive!MergedAsVerified' /\ Archive!ReceiptTruthful'
    BY DEF Archive!MergedAsVerified, Archive!ReceiptTruthful, MainTypes
  <2> QED BY <2>1, <2>2, <2>3, <2>4, <2>5, <2>6, <2>7
<1>5. CASE Archive!Maintainer
  <2> USE <1>5 DEF Archive!Maintainer
  <2>1. MainTypes' BY DEF MainTypes, Archive!Results, Archive!BoundAssumption
  <2>2. HeadTypes' BY DEF HeadTypes, Archive!Results
  <2>3. PrTypes' BY DEF PrTypes, PrStates, HeadTypes
  <2>4. ReadTypes' BY DEF ReadTypes, MainTypes, HeadTypes
  <2>5. Compared' BY DEF Compared, ReadTypes, HeadTypes
  <2>6. Closing' /\ ReceiptTypes' BY DEF Closing, ReceiptTypes, MainTypes
  <2>7. Archive!MergedAsVerified' /\ Archive!ReceiptTruthful'
    BY DEF Archive!MergedAsVerified, Archive!ReceiptTruthful, MainTypes
  <2> QED BY <2>1, <2>2, <2>3, <2>4, <2>5, <2>6, <2>7
<1>6. CASE Archive!ArtifactExpires
  <2> USE <1>6 DEF Archive!ArtifactExpires
  <2>1. MainTypes' BY DEF MainTypes, Archive!Results, Archive!BoundAssumption
  <2>2. HeadTypes' BY DEF HeadTypes, Archive!Results
  <2>3. PrTypes' BY DEF PrTypes, PrStates, HeadTypes
  <2>4. ReadTypes' BY DEF ReadTypes, MainTypes, HeadTypes
  <2>5. Compared' BY DEF Compared, ReadTypes, HeadTypes
  <2>6. Closing' /\ ReceiptTypes' BY DEF Closing, ReceiptTypes, MainTypes
  <2>7. Archive!MergedAsVerified' /\ Archive!ReceiptTruthful'
    BY DEF Archive!MergedAsVerified, Archive!ReceiptTruthful, MainTypes
  <2> QED BY <2>1, <2>2, <2>3, <2>4, <2>5, <2>6, <2>7
<1> QED BY <1>1, <1>2, <1>3, <1>4, <1>5, <1>6

\* A step that only reads, or ends the job, leaves the server as it is.
LEMMA ReadingKeepsServer ==
  ASSUME ArchiveInv, UNCHANGED Archive!serverVars, UNCHANGED Archive!historyVars
  PROVE  MainTypes' /\ HeadTypes' /\ PrTypes' /\ ReceiptTypes' /\ Archive!MergedAsVerified' /\ Archive!ReceiptTruthful'
  BY DEF ArchiveInv, Archive!serverVars, Archive!historyVars, MainTypes, HeadTypes, PrTypes, ReceiptTypes,
         Archive!MergedAsVerified, Archive!ReceiptTruthful

\* The job's own places: what it has read is as old as main, the head it reads is the ref's or an
\* older one, and each place follows from the one before.
Reads ==
    \/ \E e \in Archive!Events : Archive!Start(e)
    \/ Archive!ReadMain("r_main", "r_gates") \/ Archive!RefreshGates \/ Archive!RefreshPr
    \/ Archive!RefreshFiles \/ Archive!RecheckMain("r_recheck", "r_update")
    \/ Archive!ReadMain("f_main", "f_gates") \/ Archive!ReconcileGates \/ Archive!ReconcileClosed
    \/ Archive!ListPrs \/ Archive!PrReadyExact \/ Archive!PrReadyChecks
    \/ Archive!RecheckMain("f_recheck", "f_merge") \/ Archive!RecheckMain("f_create", "f_ref")
    \/ Archive!Lineage \/ Archive!ReadComments \/ Archive!RecheckMain("f_settle", "f_post") \/ Archive!Abort
LEMMA ReadsKeepArchiveInv ==
  ASSUME ArchiveInv, Reads
  PROVE  ArchiveInv'
<1> USE DEF ArchiveInv, Archive!Keep, Archive!readOnly, Archive!serverVars, Archive!historyVars
<1>a. UNCHANGED Archive!serverVars /\ UNCHANGED Archive!historyVars
  BY DEF Reads, Archive!Start, Archive!ReadMain, Archive!RefreshGates, Archive!RefreshPr, Archive!RefreshFiles,
         Archive!RecheckMain, Archive!ReconcileGates, Archive!ReconcileClosed, Archive!ListPrs,
         Archive!PrReadyExact, Archive!PrReadyChecks, Archive!Lineage, Archive!ReadComments, Archive!Abort
<1>b. MainTypes' /\ HeadTypes' /\ PrTypes' /\ ReceiptTypes' /\ Archive!MergedAsVerified' /\ Archive!ReceiptTruthful'
  BY <1>a, ReadingKeepsServer
<1>1. CASE \E e \in Archive!Events : Archive!Start(e)
  <2>1. ReadTypes' BY <1>1 DEF Archive!Start, ReadTypes, HeadTypes, MainTypes
  <2>2. Compared' BY <1>1 DEF Archive!Start, Compared, ReadTypes, HeadTypes, PrTypes
  <2>3. Closing' BY <1>1 DEF Archive!Start, Closing, Archive!ChecksReady, MainTypes, ReadTypes, PrTypes
  <2> QED BY <2>1, <2>2, <2>3, <1>b
<1>2. CASE Archive!ReadMain("r_main", "r_gates")
  <2>1. ReadTypes' BY <1>2 DEF Archive!ReadMain, ReadTypes, HeadTypes, MainTypes
  <2>2. Compared' BY <1>2 DEF Archive!ReadMain, Compared, ReadTypes, HeadTypes, PrTypes
  <2>3. Closing' BY <1>2 DEF Archive!ReadMain, Closing, Archive!ChecksReady, MainTypes, ReadTypes, PrTypes
  <2> QED BY <2>1, <2>2, <2>3, <1>b
<1>3. CASE Archive!RefreshGates
  <2>1. ReadTypes' BY <1>3 DEF Archive!RefreshGates, ReadTypes, HeadTypes, MainTypes
  <2>2. Compared' BY <1>3 DEF Archive!RefreshGates, Compared, ReadTypes, HeadTypes, PrTypes
  <2>3. Closing' BY <1>3 DEF Archive!RefreshGates, Closing, Archive!ChecksReady, MainTypes, ReadTypes, PrTypes
  <2> QED BY <2>1, <2>2, <2>3, <1>b
<1>4. CASE Archive!RefreshPr
  <2>1. ReadTypes' BY <1>4 DEF Archive!RefreshPr, ReadTypes, HeadTypes, MainTypes
  <2>2. Compared' BY <1>4 DEF Archive!RefreshPr, Compared, ReadTypes, HeadTypes, PrTypes
  <2>3. Closing' BY <1>4 DEF Archive!RefreshPr, Closing, Archive!ChecksReady, MainTypes, ReadTypes, PrTypes
  <2> QED BY <2>1, <2>2, <2>3, <1>b
<1>5. CASE Archive!RefreshFiles
  <2>1. ReadTypes' BY <1>5 DEF Archive!RefreshFiles, ReadTypes, HeadTypes, MainTypes
  <2>2. Compared' BY <1>5 DEF Archive!RefreshFiles, Compared, ReadTypes, HeadTypes, PrTypes
  <2>3. Closing' BY <1>5 DEF Archive!RefreshFiles, Closing, Archive!ChecksReady, MainTypes, ReadTypes, PrTypes
  <2> QED BY <2>1, <2>2, <2>3, <1>b
<1>6. CASE Archive!RecheckMain("r_recheck", "r_update")
  <2>1. ReadTypes' BY <1>6 DEF Archive!RecheckMain, ReadTypes, HeadTypes, MainTypes
  <2>2. Compared' BY <1>6 DEF Archive!RecheckMain, Compared, ReadTypes, HeadTypes, PrTypes
  <2>3. Closing' BY <1>6 DEF Archive!RecheckMain, Closing, Archive!ChecksReady, MainTypes, ReadTypes, PrTypes
  <2> QED BY <2>1, <2>2, <2>3, <1>b
<1>7. CASE Archive!ReadMain("f_main", "f_gates")
  <2>1. ReadTypes' BY <1>7 DEF Archive!ReadMain, ReadTypes, HeadTypes, MainTypes
  <2>2. Compared' BY <1>7 DEF Archive!ReadMain, Compared, ReadTypes, HeadTypes, PrTypes
  <2>3. Closing' BY <1>7 DEF Archive!ReadMain, Closing, Archive!ChecksReady, MainTypes, ReadTypes, PrTypes
  <2> QED BY <2>1, <2>2, <2>3, <1>b
<1>8. CASE Archive!ReconcileGates
  <2>1. ReadTypes' BY <1>8 DEF Archive!ReconcileGates, ReadTypes, HeadTypes, MainTypes
  <2>2. Compared' BY <1>8 DEF Archive!ReconcileGates, Compared, ReadTypes, HeadTypes, PrTypes
  <2>3. Closing' BY <1>8 DEF Archive!ReconcileGates, Closing, Archive!ChecksReady, MainTypes, ReadTypes, PrTypes
  <2> QED BY <2>1, <2>2, <2>3, <1>b
<1>9. CASE Archive!ReconcileClosed
  <2>1. ReadTypes' BY <1>9 DEF Archive!ReconcileClosed, ReadTypes, HeadTypes, MainTypes
  <2>2. Compared' BY <1>9 DEF Archive!ReconcileClosed, Compared, ReadTypes, HeadTypes, PrTypes
  <2>3. Closing' BY <1>9 DEF Archive!ReconcileClosed, Closing, Archive!ChecksReady, MainTypes, ReadTypes, PrTypes
  <2> QED BY <2>1, <2>2, <2>3, <1>b
<1>10. CASE Archive!ListPrs
  <2>1. ReadTypes' BY <1>10 DEF Archive!ListPrs, ReadTypes, HeadTypes, MainTypes
  <2>2. Compared' BY <1>10 DEF Archive!ListPrs, Compared, ReadTypes, HeadTypes, PrTypes
  <2>3. Closing' BY <1>10 DEF Archive!ListPrs, Closing, Archive!ChecksReady, MainTypes, ReadTypes, PrTypes
  <2> QED BY <2>1, <2>2, <2>3, <1>b
<1>11. CASE Archive!PrReadyExact
  <2>1. ReadTypes' BY <1>11 DEF Archive!PrReadyExact, ReadTypes, HeadTypes, MainTypes
  <2>2. Compared' BY <1>11 DEF Archive!PrReadyExact, Compared, ReadTypes, HeadTypes, PrTypes
  <2>3. Closing' BY <1>11 DEF Archive!PrReadyExact, Closing, Archive!ChecksReady, MainTypes, ReadTypes, PrTypes
  <2> QED BY <2>1, <2>2, <2>3, <1>b
<1>12. CASE Archive!PrReadyChecks
  <2>1. ReadTypes' BY <1>12 DEF Archive!PrReadyChecks, ReadTypes, HeadTypes, MainTypes
  <2>2. Compared' BY <1>12 DEF Archive!PrReadyChecks, Compared, ReadTypes, HeadTypes, PrTypes
  <2>3. Closing' BY <1>12 DEF Archive!PrReadyChecks, Closing, Archive!ChecksReady, MainTypes, ReadTypes, PrTypes
  <2> QED BY <2>1, <2>2, <2>3, <1>b
<1>13. CASE Archive!RecheckMain("f_recheck", "f_merge")
  <2>1. ReadTypes' BY <1>13 DEF Archive!RecheckMain, ReadTypes, HeadTypes, MainTypes
  <2>2. Compared' BY <1>13 DEF Archive!RecheckMain, Compared, ReadTypes, HeadTypes, PrTypes
  <2>3. Closing' BY <1>13 DEF Archive!RecheckMain, Closing, Archive!ChecksReady, MainTypes, ReadTypes, PrTypes
  <2> QED BY <2>1, <2>2, <2>3, <1>b
<1>14. CASE Archive!RecheckMain("f_create", "f_ref")
  <2>1. ReadTypes' BY <1>14 DEF Archive!RecheckMain, ReadTypes, HeadTypes, MainTypes
  <2>2. Compared' BY <1>14 DEF Archive!RecheckMain, Compared, ReadTypes, HeadTypes, PrTypes
  <2>3. Closing' BY <1>14 DEF Archive!RecheckMain, Closing, Archive!ChecksReady, MainTypes, ReadTypes, PrTypes
  <2> QED BY <2>1, <2>2, <2>3, <1>b
<1>15. CASE Archive!Lineage
  <2>1. ReadTypes' BY <1>15 DEF Archive!Lineage, ReadTypes, HeadTypes, MainTypes
  <2>2. Compared' BY <1>15 DEF Archive!Lineage, Compared, ReadTypes, HeadTypes, PrTypes
  <2>3. Closing' BY <1>15 DEF Archive!Lineage, Closing, Archive!ChecksReady, MainTypes, ReadTypes, PrTypes
  <2> QED BY <2>1, <2>2, <2>3, <1>b
<1>16. CASE Archive!ReadComments
  <2>1. ReadTypes' BY <1>16 DEF Archive!ReadComments, Archive!Goto, Archive!Marked, ReadTypes, HeadTypes, MainTypes
  <2>2. Compared' BY <1>16 DEF Archive!ReadComments, Archive!Goto, Archive!Marked, Compared, ReadTypes, HeadTypes, PrTypes
  <2>3. Closing' BY <1>16 DEF Archive!ReadComments, Archive!Goto, Archive!Marked, Closing, Archive!ChecksReady, MainTypes, ReadTypes, PrTypes
  <2> QED BY <2>1, <2>2, <2>3, <1>b
<1>17. CASE Archive!RecheckMain("f_settle", "f_post")
  <2>1. ReadTypes' BY <1>17 DEF Archive!RecheckMain, ReadTypes, HeadTypes, MainTypes
  <2>2. Compared' BY <1>17 DEF Archive!RecheckMain, Compared, ReadTypes, HeadTypes, PrTypes
  <2>3. Closing' BY <1>17 DEF Archive!RecheckMain, Closing, Archive!ChecksReady, MainTypes, ReadTypes, PrTypes
  <2> QED BY <2>1, <2>2, <2>3, <1>b
<1>18. CASE Archive!Abort
  <2>1. ReadTypes' BY <1>18 DEF Archive!Abort, ReadTypes, HeadTypes, MainTypes
  <2>2. Compared' BY <1>18 DEF Archive!Abort, Compared, ReadTypes, HeadTypes, PrTypes
  <2>3. Closing' BY <1>18 DEF Archive!Abort, Closing, Archive!ChecksReady, MainTypes, ReadTypes, PrTypes
  <2> QED BY <2>1, <2>2, <2>3, <1>b
<1> QED BY <1>1, <1>2, <1>3, <1>4, <1>5, <1>6, <1>7, <1>8, <1>9, <1>10, <1>11, <1>12, <1>13, <1>14, <1>15, <1>16, <1>17, <1>18 DEF Reads

\* The five writes: a branch brought up to main, a merge, a branch and a pull request made, a receipt.
LEMMA WritesKeepArchiveInv ==
  ASSUME ArchiveInv, Archive!BoundAssumption,
         \/ Archive!UpdateBranch \/ Archive!MergeArchive \/ Archive!CreateRef \/ Archive!OpenPr
         \/ Archive!PostReceipt
  PROVE  ArchiveInv'
<1> USE DEF ArchiveInv, Archive!End, Archive!Goto, Archive!historyVars
<1>1. CASE Archive!UpdateBranch
  <2> USE <1>1 DEF Archive!UpdateBranch, Archive!NewHead
  <2>1. MainTypes' BY DEF MainTypes, PrTypes, Archive!Results, Archive!BoundAssumption
  <2>2. HeadTypes'
    <3>0. CASE UNCHANGED <<heads, gates, ref>> BY <3>0 DEF HeadTypes
    <3>a. CASE pr.state = "open" /\ Archive!NewHead(tip, heads[ref].exact, FALSE)
      <4>1. ref \in 1 .. Len(heads) /\ tip \in Int BY <3>a DEF HeadTypes, PrTypes, MainTypes
      <4>a. heads[ref] \in Commits BY <4>1 DEF HeadTypes
      <4>2. [base |-> tip, exact |-> heads[ref].exact, direct |-> FALSE] \in Commits
        BY <4>1, <4>a DEF Commits
      <4>3. heads' \in Seq(Commits) /\ gates' \in Seq(Archive!Results)
        BY <3>a, <4>2 DEF HeadTypes, Archive!Results
      <4> QED BY <3>a, <4>3 DEF HeadTypes
    <3> QED BY <3>0, <3>a
  <2>3. PrTypes' BY DEF PrTypes, PrStates, HeadTypes, Compared, MainTypes
  <2>4. ReadTypes' BY DEF ReadTypes, MainTypes, HeadTypes
  <2>5. Compared' BY DEF Compared, HeadTypes
  <2>6. Closing' BY DEF Closing
  <2>7. ReceiptTypes' BY DEF ReceiptTypes, MainTypes, ReadTypes
  <2>8. Archive!MergedAsVerified'
    BY DEF Archive!MergedAsVerified, MainTypes, HeadTypes, PrTypes, Compared
  <2>9. Archive!ReceiptTruthful'
    BY DEF Archive!ReceiptTruthful, MainTypes, PrTypes, Closing, ReceiptTypes, ReadTypes
  <2> QED BY <2>1, <2>2, <2>3, <2>4, <2>5, <2>6, <2>7, <2>8, <2>9
<1>2. CASE Archive!MergeArchive
  <2> USE <1>2 DEF Archive!MergeArchive, Archive!RulesetAllows
  <2>1. MainTypes'
    <3>0. CASE UNCHANGED <<tip, verify, archivedAt>> BY <3>0 DEF MainTypes
    <3>a. CASE pr.state = "open" /\ tip' = tip + 1 /\ verify' = Append(verify, "running") /\ archivedAt' = tip + 1
      <4>1. tip \in 1 .. MaxMain BY <3>a DEF PrTypes, MainTypes
      <4>2. verify' \in Seq(Archive!Results) /\ Len(verify') = tip' BY <3>a DEF MainTypes, Archive!Results
      <4>3. \A c \in 1 .. tip' : verify'[c] = "success" => c \in green' BY <3>a DEF MainTypes
      <4> QED BY <3>a, <4>1, <4>2, <4>3 DEF MainTypes, Archive!BoundAssumption
    <3> QED BY <3>0, <3>a
  <2>2. HeadTypes' BY DEF HeadTypes, Archive!Results, MainTypes, ReadTypes
  <2>3. PrTypes'
    <3>0. CASE UNCHANGED <<pr, archivedAt>> BY <3>0 DEF PrTypes
    <3>a. CASE pr' = [pr EXCEPT !.state = "merged"] /\ archivedAt' = tip + 1
      <4>1. pr' \in [state : PrStates, draft : BOOLEAN, threads : BOOLEAN] /\ pr'.state = "merged"
        BY <3>a DEF PrTypes, PrStates
      <4>2. archivedAt' # 0 BY <3>a DEF MainTypes
      <4> QED BY <4>1, <4>2 DEF PrTypes
    <3> QED BY <3>0, <3>a
  <2>4. ReadTypes' BY DEF ReadTypes, MainTypes, HeadTypes
  <2>5. Compared' BY DEF Compared, HeadTypes
  <2>6. Closing' BY DEF Closing
  <2>7. ReceiptTypes' BY DEF ReceiptTypes, MainTypes, ReadTypes
  <2>8. Archive!MergedAsVerified'
    BY DEF Archive!MergedAsVerified, MainTypes, HeadTypes, PrTypes, Compared
  <2>9. Archive!ReceiptTruthful'
    BY DEF Archive!ReceiptTruthful, MainTypes, PrTypes, Closing, ReceiptTypes, ReadTypes
  <2> QED BY <2>1, <2>2, <2>3, <2>4, <2>5, <2>6, <2>7, <2>8, <2>9
<1>3. CASE Archive!CreateRef
  <2> USE <1>3 DEF Archive!CreateRef, Archive!NewHead
  <2>1. MainTypes' BY DEF MainTypes, PrTypes, Archive!Results, Archive!BoundAssumption
  <2>2. HeadTypes'
    <3>0. CASE UNCHANGED <<heads, gates, ref>> BY <3>0 DEF HeadTypes
    <3>a. CASE Archive!NewHead(main, TRUE, TRUE)
      <4>1. [base |-> main, exact |-> TRUE, direct |-> TRUE] \in Commits BY DEF ReadTypes, Commits
      <4>2. heads' \in Seq(Commits) /\ gates' \in Seq(Archive!Results)
        BY <3>a, <4>1 DEF HeadTypes, Archive!Results
      <4> QED BY <3>a, <4>2 DEF HeadTypes
    <3> QED BY <3>0, <3>a
  <2>3. PrTypes' BY DEF PrTypes, PrStates, HeadTypes, Compared, MainTypes
  <2>4. ReadTypes' BY DEF ReadTypes, MainTypes, HeadTypes
  <2>5. Compared' BY DEF Compared, HeadTypes
  <2>6. Closing' BY DEF Closing
  <2>7. ReceiptTypes' BY DEF ReceiptTypes, MainTypes, ReadTypes
  <2>8. Archive!MergedAsVerified'
    BY DEF Archive!MergedAsVerified, MainTypes, HeadTypes, PrTypes, Compared
  <2>9. Archive!ReceiptTruthful'
    BY DEF Archive!ReceiptTruthful, MainTypes, PrTypes, Closing, ReceiptTypes, ReadTypes
  <2> QED BY <2>1, <2>2, <2>3, <2>4, <2>5, <2>6, <2>7, <2>8, <2>9
<1>4. CASE Archive!OpenPr
  <2> USE <1>4 DEF Archive!OpenPr
  <2>1. MainTypes' BY DEF MainTypes, PrTypes, Archive!Results, Archive!BoundAssumption
  <2>2. HeadTypes' BY DEF HeadTypes, Archive!Results, MainTypes, ReadTypes
  <2>3. PrTypes' BY DEF PrTypes, PrStates, HeadTypes, Compared, MainTypes
  <2>4. ReadTypes' BY DEF ReadTypes, MainTypes, HeadTypes
  <2>5. Compared' BY DEF Compared, HeadTypes
  <2>6. Closing' BY DEF Closing
  <2>7. ReceiptTypes' BY DEF ReceiptTypes, MainTypes, ReadTypes
  <2>8. Archive!MergedAsVerified'
    BY DEF Archive!MergedAsVerified, MainTypes, HeadTypes, PrTypes, Compared
  <2>9. Archive!ReceiptTruthful'
    BY DEF Archive!ReceiptTruthful, MainTypes, PrTypes, Closing, ReceiptTypes, ReadTypes
  <2> QED BY <2>1, <2>2, <2>3, <2>4, <2>5, <2>6, <2>7, <2>8, <2>9
<1>5. CASE Archive!PostReceipt
  <2> USE <1>5 DEF Archive!PostReceipt
  <2>1. MainTypes' BY DEF MainTypes, PrTypes, Archive!Results, Archive!BoundAssumption
  <2>2. HeadTypes' BY DEF HeadTypes, Archive!Results, MainTypes, ReadTypes
  <2>3. PrTypes' BY DEF PrTypes, PrStates, HeadTypes, Compared, MainTypes
  <2>4. ReadTypes' BY DEF ReadTypes, MainTypes, HeadTypes
  <2>5. Compared' BY DEF Compared, HeadTypes
  <2>6. Closing' BY DEF Closing
  <2>7. ReceiptTypes'
    <3>1. [archive |-> archivedAt, main |-> main] \in Named BY DEF Named, MainTypes, ReadTypes
    <3> QED BY <3>1 DEF ReceiptTypes
  <2>8. Archive!MergedAsVerified'
    BY DEF Archive!MergedAsVerified, MainTypes, HeadTypes, PrTypes, Compared
  <2>9. Archive!ReceiptTruthful'
    BY DEF Archive!ReceiptTruthful, MainTypes, PrTypes, Closing, ReceiptTypes, ReadTypes
  <2> QED BY <2>1, <2>2, <2>3, <2>4, <2>5, <2>6, <2>7, <2>8, <2>9
<1> QED BY <1>1, <1>2, <1>3, <1>4, <1>5

\* What main took in is the archive byte for byte, verified on the very commit it landed on, and there
\* is one receipt, which names verified commits: for every number of commits, pushes and deaths.
THEOREM MergedAsVerifiedHolds == SumSpec => []MergedAsVerified
<1> DEFINE Safe == which = "archive" => ArchiveInv
<1>1. SumInit => Safe
  BY ArchiveInitially, BoundsAssumption DEF SumInit
<1>2. ASSUME Safe, [SumNext]_sumVars PROVE Safe'
  <2> USE <1>2, BoundsAssumption
  <2>1. CASE which = "archive" /\ Archive!Next /\ UNCHANGED which
    BY <2>1, ServerKeepsArchiveInv, ReadsKeepArchiveInv, WritesKeepArchiveInv
       DEF Archive!Next, Archive!Work, Reads
  <2>2. CASE UNCHANGED <<which, archiveVars>>
    BY <2>2 DEF archiveVars, ArchiveInv, MainTypes, HeadTypes, PrTypes, ReadTypes, Compared, Closing,
                ReceiptTypes, Archive!MergedAsVerified, Archive!ReceiptTruthful
  <2> QED BY <2>1, <2>2 DEF SumNext, sumVars
<1>3. Safe => MergedAsVerified
  BY DEF MergedAsVerified, ArchiveInv, MainTypes, HeadTypes, ReadTypes, Archive!TypeOK
<1> QED BY <1>1, <1>2, <1>3, PTL DEF SumSpec

(***************************************************************************)
(* The retirement of consumed workflows                                    *)
(***************************************************************************)
\* What every accepted commit leaves behind: nothing consumed can be triggered.
Consumed ==
    /\ \A p \in Workflows!Retirable : record[p] # Workflows!Unrecorded => file[p] = Workflows!NoWorkflow
    /\ \A p \in Workflows!Paths : Workflows!TaskOf(p) # Workflows!NoPath /\ task[Workflows!TaskOf(p)] = "CLOSED"
                                     => file[p] = Workflows!NoWorkflow
Hands ==
    /\ \A p \in Workflows!Paths : file[p] # Workflows!NoWorkflow /\ "schedule" \in file[p].on
                                     => p \in {"hosted", "motion"}
    /\ \A p \in {"prmanual", "selector", "tuner"} : "push" \notin file[p].on
    /\ file["contractonly"].jobs = "contract"
Closed == motion /\ task["I002"] = "CLOSED" /\ registered = archived
Retired == Consumed /\ Hands /\ Closed /\ Workflows!NothingConsumedRuns

LEMMA RetiredInitially == Workflows!Init => Retired
<1> SUFFICES ASSUME Workflows!Init PROVE Retired
  OBVIOUS
<1> USE DEF Workflows!Init, Workflows!Paths, Workflows!Standing, Workflows!Retirable, Workflows!Unlisted
<1>1. Consumed BY DEF Consumed, Workflows!TaskOf, Workflows!NoPath
<1>2. Hands BY DEF Hands, Workflows!Is, Workflows!Workflow, Workflows!NoWorkflow
<1>3. Closed /\ Workflows!NothingConsumedRuns BY DEF Closed, Workflows!NothingConsumedRuns
<1> QED BY <1>1, <1>2, <1>3 DEF Retired

\* Every commit is checked: the manifest, the contract of the workflows that stay, and the registry.
LEMMA CommitsLeaveRetired ==
  ASSUME Workflows!Commit
  PROVE  Retired'
<1>1. Workflows!Accepted
  BY DEF Workflows!Commit, Workflows!EditWorkflow, Workflows!Retire, Workflows!EditEvidence, Workflows!EditPlan,
         Workflows!EditRegistry
<1> USE <1>1 DEF Workflows!Accepted
<1>2. Consumed'
  <2>1. ASSUME NEW p \in Workflows!Retirable, record'[p] # Workflows!Unrecorded PROVE file'[p] = Workflows!NoWorkflow
    BY <2>1 DEF Workflows!Retirable, Workflows!ProgramRetired, Workflows!ResearchRetired, Workflows!ConsumedRetired,
       Workflows!CandidateRetired, Workflows!SelectionRetired, Workflows!RoundRetired, Workflows!LaneRetired,
       Workflows!ReplayRetired
  <2> QED BY <2>1 DEF Consumed, Workflows!ClosedTasksIdle
<1>3. Hands'
  BY DEF Hands, Workflows!ScheduledExactly, Workflows!StandingValid
<1>4. Closed' BY DEF Closed, Workflows!MotionIsMaintenance, Workflows!RegistryValid
<1>5. Workflows!NothingConsumedRuns' BY DEF Workflows!NothingConsumedRuns
<1> QED BY <1>2, <1>3, <1>4, <1>5 DEF Retired

\* What main then runs by a trigger, or admits to a grade, is nothing consumed.
LEMMA RunsAreNotConsumed ==
  ASSUME Retired, \/ \E p \in Workflows!Paths, e \in {"pull_request", "push", "schedule", "workflow_dispatch",
                                                        "workflow_call"} : Workflows!Trigger(p, e)
                  \/ \E c \in Workflows!Candidates : Workflows!Grade(c)
  PROVE  Retired'
<1> USE DEF Workflows!tree
<1>1. Consumed' /\ Hands' /\ Closed'
  BY DEF Retired, Consumed, Hands, Closed, Workflows!Trigger, Workflows!Grade
<1>2. ASSUME NEW p \in Workflows!Paths, NEW e \in {"pull_request", "push", "schedule", "workflow_dispatch",
                                                   "workflow_call"}, Workflows!Trigger(p, e)
      PROVE  Workflows!NothingConsumedRuns'
  <2>1. last'.what = p /\ last'.event = e /\ file[p] # Workflows!NoWorkflow /\ e \in file[p].on
        /\ (last'.search => file[p].jobs = "full" \/ (file[p].jobs = "split" /\ e = "workflow_dispatch"))
        /\ UNCHANGED <<file, record, task, motion, archived>>
    BY <1>2 DEF Workflows!Trigger
  <2>2. p # "grade" BY DEF Workflows!Paths, Workflows!Retirable, Workflows!Standing, Workflows!Unlisted
  <2>3. p = "contractonly" => ~last'.search BY <2>1 DEF Retired, Hands
  <2> QED BY <2>1, <2>2, <2>3 DEF Retired, Consumed, Hands, Closed, Workflows!NothingConsumedRuns
<1>3. ASSUME NEW c \in Workflows!Candidates, Workflows!Grade(c) PROVE Workflows!NothingConsumedRuns'
  <2>1. last'.what = "grade" /\ last'.event = c /\ c \notin archived' /\ c # "schedule"
    BY <1>3 DEF Workflows!Grade, Retired, Closed, Workflows!Candidates
  <2> QED BY <2>1 DEF Workflows!NothingConsumedRuns, Workflows!Retirable, Workflows!TaskOf
<1> QED BY <1>1, <1>2, <1>3 DEF Retired

\* However many commits pass, no consumed study runs on main and no rejected candidate is graded again.
THEOREM NothingConsumedRunsHolds == SumSpec => []NothingConsumedRuns
<1> DEFINE Safe == which = "workflows" => Retired
<1>1. SumInit => Safe
  BY RetiredInitially DEF SumInit
<1>2. ASSUME Safe, [SumNext]_sumVars PROVE Safe'
  <2> USE <1>2
  <2>1. CASE which = "workflows" /\ Workflows!Next /\ UNCHANGED which
    BY <2>1, CommitsLeaveRetired, RunsAreNotConsumed DEF Workflows!Next
  <2>2. CASE UNCHANGED <<which, workflowsVars>>
    BY <2>2 DEF workflowsVars, Retired, Consumed, Hands, Closed, Workflows!NothingConsumedRuns
  <2> QED BY <2>1, <2>2 DEF SumNext, sumVars
<1>3. Safe => NothingConsumedRuns
  BY DEF NothingConsumedRuns, Retired
<1> QED BY <1>1, <1>2, <1>3, PTL DEF SumSpec

==============================================================================
