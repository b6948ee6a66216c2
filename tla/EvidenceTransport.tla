---------------------------- MODULE EvidenceTransport ----------------------------
(***************************************************************************)
(* ci_evidence_transport.py: one job packs an evidence tree into a bundle  *)
(* addressed by content, later jobs of the run unpack it.  pack walks the  *)
(* tree twice, with the writing of the objects in between; whatever still  *)
(* writes into the tree may do so at any point.  An inventory reads a file *)
(* between two looks at its metadata, so one read is one step.             *)
(***************************************************************************)
EXTENDS FiniteSets

CONSTANTS Files, Contents, Absent,  \* Absent: there is no such file
          Runs, Run                 \* the runs whose bundles the artifact store may hold
ASSUME Constants == Absent \notin Contents /\ Run \in Runs

VARIABLES tree, used,      \* the evidence, and what each file has been so far
          phase,           \* of pack
          first, second,   \* the two inventories, as far as they got
          objects,         \* the contents written into the archive
          mid,             \* history: the tree when the first inventory was complete
          bundle,          \* what the store holds for the run
          output, receiver \* the receiver's tree, and where unpack stands

vars == <<tree, used, phase, first, second, objects, mid, bundle, output, receiver>>

Found == Contents \cup {Absent}
Trees == [Files -> Found]
Inventories == UNION {[s -> Found] : s \in SUBSET Files}
Nothing == [f \in {} |-> Absent]
Present(t) == {t[f] : f \in DOMAIN t} \ {Absent}
\* The receipt binds the archive: its manifest and its objects.
Bundle(run, t, o) == [run |-> run, manifest |-> t, objects |-> o, receipt |-> <<t, o>>]
NoBundle == [run |-> Run, manifest |-> Nothing, objects |-> {}, receipt |-> <<>>]

Init == /\ tree \in Trees /\ used = [f \in Files |-> {tree[f]}]
        /\ phase = "first" /\ first = Nothing /\ second = Nothing /\ objects = {} /\ mid = tree
        /\ bundle = NoBundle /\ output = Nothing /\ receiver = "waiting"

receiverVars == <<bundle, output, receiver>>
packVars == <<phase, first, second, objects, mid>>

\* A step of the job leaves something running: it writes, adds or removes a file.  Assumed: no
\* file is put back to what it was.
Write(f) == /\ phase \notin {"packed", "failed"}
            /\ \E c \in Found \ used[f] : /\ tree' = [tree EXCEPT ![f] = c]
                                          /\ used' = [used EXCEPT ![f] = @ \cup {c}]
            /\ UNCHANGED <<packVars, receiverVars>>

(***************************************************************************)
(* pack                                                                    *)
(***************************************************************************)
Took(inventory, f) == [g \in DOMAIN inventory \cup {f} |-> IF g = f THEN tree[f] ELSE inventory[g]]
InventoryFirst(f) == /\ phase = "first" /\ f \notin DOMAIN first /\ first' = Took(first, f)
                     /\ UNCHANGED <<tree, used, phase, second, objects, mid, receiverVars>>
\* EMPTY_EVIDENCE_TREE otherwise.
InventoryDone == /\ phase = "first" /\ DOMAIN first = Files /\ Present(first) # {}
                 /\ phase' = "objects" /\ mid' = tree
                 /\ UNCHANGED <<tree, used, first, second, objects, receiverVars>>
\* One file stands for its digest; it must still have it.
WriteObject(f) == /\ phase = "objects" /\ first[f] \notin objects \cup {Absent} /\ tree[f] = first[f]
                  /\ objects' = objects \cup {first[f]}
                  /\ UNCHANGED <<tree, used, phase, first, second, mid, receiverVars>>
ObjectsDone == /\ phase = "objects" /\ objects = Present(first) /\ phase' = "second"
               /\ UNCHANGED <<tree, used, first, second, objects, mid, receiverVars>>
InventorySecond(f) == /\ phase = "second" /\ f \notin DOMAIN second /\ second' = Took(second, f)
                      /\ UNCHANGED <<tree, used, phase, first, objects, mid, receiverVars>>
\* Mutant of Unchanged: only that the files of the manifest are still there.
StillThere == \A f \in Files : first[f] # Absent => second[f] # Absent
\* "Detect changed/added/deleted files, including a nonrepresentative copy."
Unchanged == second = first
\* The bundle is renamed into place; the step's success uploads it.
Publish == /\ phase = "second" /\ DOMAIN second = Files /\ Unchanged
           /\ phase' = "packed" /\ bundle' = Bundle(Run, first, objects)
           /\ UNCHANGED <<tree, used, first, second, objects, mid, output, receiver>>
\* A check, the wall deadline or the memory limit; the raw tree is uploaded in its place, which
\* has neither member of a bundle.  The deadline may also strike after the rename.
Fail == /\ phase \notin {"packed", "failed"} /\ phase' = "failed"
        /\ bundle' = [NoBundle EXCEPT !.manifest = tree]
        /\ UNCHANGED <<tree, used, first, second, objects, mid, output, receiver>>

(***************************************************************************)
(* What the store hands out, and unpack                                    *)
(***************************************************************************)
\* A member is damaged, or the store holds the bundle of another run.
Damage == /\ phase = "packed" /\ receiver = "waiting" /\ bundle.receipt = <<first, objects>>
          /\ \/ \E f \in Files, c \in Found : bundle' = [bundle EXCEPT !.manifest[f] = c]
             \/ \E c \in Contents : bundle' = [bundle EXCEPT !.objects = @ \ {c}]
             \/ \E r \in Runs \ {Run}, t \in Trees : bundle' = Bundle(r, t, Present(t))
          /\ bundle' # bundle /\ UNCHANGED <<tree, used, packVars, output, receiver>>
Download == /\ phase \in {"packed", "failed"} /\ receiver = "waiting" /\ receiver' = "downloaded"
            /\ UNCHANGED <<tree, used, packVars, bundle, output>>
\* Mutant of Verified: the receipt's digests are right, whoever's bundle it is.
VerifiedForAnyRun == /\ bundle.receipt = <<bundle.manifest, bundle.objects>>
                     /\ bundle.objects = Present(bundle.manifest)
\* The receipt is this run's and its digests are the archive's; the objects are exactly the manifest's.
Verified == /\ bundle.run = Run /\ bundle.receipt = <<bundle.manifest, bundle.objects>>
            /\ bundle.objects = Present(bundle.manifest)
\* The restored tree is read back against the manifest before it is renamed into place.
Restore == /\ receiver = "downloaded" /\ Verified
           /\ output' = bundle.manifest /\ receiver' = "restored"
           /\ UNCHANGED <<tree, used, packVars, bundle>>
Refuse == /\ receiver = "downloaded" /\ receiver' = "refused"
          /\ UNCHANGED <<tree, used, packVars, bundle, output>>

Next == \/ \E f \in Files : Write(f) \/ InventoryFirst(f) \/ WriteObject(f) \/ InventorySecond(f)
        \/ InventoryDone \/ ObjectsDone \/ Publish \/ Fail
        \/ Damage \/ Download \/ Restore \/ Refuse
Spec == Init /\ [][Next]_vars

\* What the scientific validators are given is a tree the evidence directory held as a whole,
\* at the moment the first inventory was complete: two walks and the objects' own reads rule out
\* a mixture of before and after a write, and no damaged or foreign bundle gets through.
RestoredIsSnapshot == receiver = "restored" => output = mid

(***************************************************************************)
(* The inductive invariant                                                 *)
(***************************************************************************)
TypeOK == /\ tree \in Trees /\ used \in [Files -> SUBSET Found] /\ mid \in Trees
          /\ phase \in {"first", "objects", "second", "packed", "failed"}
          /\ first \in Inventories /\ second \in Inventories
          /\ receiver \in {"waiting", "downloaded", "restored", "refused"}
\* What a file is and what was taken of it is something it has been.
UsedKept == /\ \A f \in Files : tree[f] \in used[f]
            /\ \A f \in DOMAIN first : first[f] \in used[f]
\* A file that changed between its first reading and the end of the first walk never again is
\* what was read then, in the tree or in the second walk.
ChangeLasts == phase \in {"objects", "second", "packed"} =>
    /\ DOMAIN first = Files
    /\ \A f \in Files : first[f] # mid[f] =>
           tree[f] # first[f] /\ (f \in DOMAIN second => second[f] # first[f])
PackedIsSnapshot == phase = "packed" => first = mid
InOrder == /\ phase \in {"first", "objects"} => second = Nothing
           /\ phase \notin {"packed", "failed"} => receiver = "waiting"
\* A bundle whose receipt fits it and is this run's is the one that was packed.
BundleGenuine == Verified => phase = "packed" /\ bundle.manifest = first
Snapshot == TypeOK /\ UsedKept /\ ChangeLasts /\ InOrder /\ PackedIsSnapshot /\ BundleGenuine
            /\ RestoredIsSnapshot
=============================================================================
