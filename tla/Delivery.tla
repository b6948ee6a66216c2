------------------------------- MODULE Delivery -------------------------------
(***************************************************************************)
(* The delivery of the SDK for the small board and the endurance evidence  *)
(* beside it: scripts/ssc305_delivery.py under the two jobs of             *)
(* resource-gates.yml, or by hand.  Everything lands in one output         *)
(* directory that is made once, sealed last and uploaded whatever          *)
(* happened; between the commands the build tree is configured or built.   *)
(* A build is what its probe tells of it: the commit and the configuration *)
(* compiled in.  A file stands for what it was made from.                  *)
(***************************************************************************)
EXTENDS Naturals

CONSTANTS None,
          Sources, Configs,   \* commits; configurations the presets give
          Replays,            \* seeds of the acoustic replay
          MaxAgain            \* bound on the commands run once more by hand

VARIABLES class,    \* of the delivery: the reference SDK or the endurance evidence
          configured, \* the build directory: the header the last configuration generated,
          tree,     \* and what was last built of it
          measured, \* qualification.json of the resource profiles
          out,      \* the output directory, None before it is made
          manifest, \* delivery-manifest.json in it
          at, arg,  \* where the command is; its --source-revision
          again     \* commands run once more by hand

vars == <<class, configured, tree, measured, out, manifest, at, arg, again>>

Builds == [source : Sources, config : Configs]
Empty == [qualification |-> None, probe |-> None, elf |-> None, sdk |-> None,
          report |-> [c \in Replays |-> None], snapshot |-> None,
          result |-> None, log |-> None, header |-> None]
Init ==
    /\ class \in {"reference", "endurance"} /\ tree \in Builds /\ configured = tree
    /\ measured = None /\ out = None /\ manifest = None /\ at = "idle" /\ arg = None /\ again = 0

\* By hand the directory is configured anew or built, apart from each other.
Configure == /\ at = "idle" /\ configured' \in Builds
             /\ UNCHANGED <<class, tree, measured, out, manifest, at, arg, again>>
\* cmake --build, by hand or as the endurance job's second command.
Build == /\ at \in {"idle", "build"} /\ at' = IF at = "build" THEN "soak" ELSE at
         /\ tree' = configured
         /\ UNCHANGED <<class, configured, measured, out, manifest, arg, again>>
\* The profiles are measured on the tree; the commit is what the command is told.  The
\* qualification is read once, when the directory is made.
Measure(s, pass) ==
    /\ at = "idle" /\ class = "reference" /\ out = None
    /\ measured' = [source |-> s, pass |-> pass, probe |-> tree]
    /\ UNCHANGED <<class, configured, tree, out, manifest, at, arg, again>>

\* Any command may end here, with what it has written left behind.
Stop == at' = "idle" /\ UNCHANGED <<class, configured, tree, measured, out, manifest, arg, again>>
Dies == at \notin {"idle", "shipped", "damaged"} /\ Stop

(***************************************************************************)
(* reference                                                               *)
(***************************************************************************)
\* The directory is made before the qualification is looked at.
Reference(s) ==
    /\ at = "idle" /\ class = "reference" /\ out = None /\ measured # None
    /\ arg' = s
    /\ IF measured.pass /\ measured.source = s
       THEN out' = [Empty EXCEPT !.qualification = measured] /\ at' = "install"
       ELSE out' = Empty /\ at' = "idle"
    /\ UNCHANGED <<class, configured, tree, measured, manifest, again>>
\* Installed once, the libraries and the header; a consumer holds the one against the other, and
\* the processor and the probe are linked with what was installed.
Install ==
    /\ at = "install"
    /\ IF tree = configured
       THEN /\ out' = [out EXCEPT !.header = configured, !.probe = tree, !.elf = tree]
            /\ at' = IF tree = out.qualification.probe THEN "package" ELSE "idle"
       ELSE out' = [out EXCEPT !.header = configured] /\ at' = "idle"
    /\ UNCHANGED <<class, configured, tree, measured, manifest, arg, again>>
\* pack: twice from the same files, with times and owners taken out, gives the same bytes.
Package ==
    /\ at = "package" /\ out' = [out EXCEPT !.sdk = out.elf] /\ at' = "acoustic"
    /\ UNCHANGED <<class, configured, tree, measured, manifest, arg, again>>
\* acoustic: a corpus of each seed through the processor beside the launcher.
Replay(c, pass) ==
    /\ at = "acoustic" /\ out.report[c] = None
    /\ out' = [out EXCEPT !.report[c] = [source |-> arg, by |-> out.elf, pass |-> pass]]
    /\ at' = IF pass THEN at ELSE "idle"
    /\ UNCHANGED <<class, configured, tree, measured, manifest, arg, again>>
Snapshot ==
    /\ at = "acoustic" /\ \A c \in Replays : out.report[c] # None
    /\ out' = [out EXCEPT !.snapshot = [source |-> arg, launcher |-> "own"]] /\ at' = "seal"
    /\ UNCHANGED <<class, configured, tree, measured, manifest, arg, again>>
\* seal: the digest of every file; PASS is written before anything is verified.
Seal ==
    /\ at = "seal" /\ at' = "idle"
    /\ manifest' = [source |-> arg, config |-> out.probe.config, elf |-> out.elf, libraries |-> out.sdk,
                    files |-> out]
    /\ UNCHANGED <<class, configured, tree, measured, out, arg, again>>

\* The acoustic command by hand over the same directory, with the processor of the tree; it may
\* stop before it comes to the snapshot.
AcousticAgain(s, C) ==
    /\ at = "idle" /\ class = "reference" /\ out # None /\ again < MaxAgain /\ again' = again + 1
    /\ out' = [out EXCEPT !.report = [c \in Replays |-> IF c \in C THEN [source |-> s, by |-> tree, pass |-> TRUE]
                                                        ELSE @[c]],
                          !.snapshot = IF C = Replays THEN [source |-> s, launcher |-> "other"] ELSE @]
    /\ UNCHANGED <<class, configured, tree, measured, manifest, at, arg>>

(***************************************************************************)
(* The endurance job                                                       *)
(***************************************************************************)
\* The tree is configured even when the directory is already there and the command fails; what
\* was built of it stays as it was.
ConfigureEndurance(s, c) ==
    /\ at = "idle" /\ class = "endurance"
    /\ configured' = [source |-> s, config |-> c] /\ arg' = s
    /\ IF out = None THEN out' = Empty /\ at' = "build" ELSE UNCHANGED <<out, at>>
    /\ UNCHANGED <<class, tree, measured, manifest, again>>
\* Two million frames under the sanitizers; what fails the program ends the step.
Soak(pass, clean) ==
    /\ at = "soak"
    /\ out' = [out EXCEPT !.result = [of |-> tree, pass |-> pass], !.log = IF clean THEN "empty" ELSE "report"]
    /\ at' \in {"copy", "idle"}
    /\ UNCHANGED <<class, configured, tree, measured, manifest, arg, again>>
\* The program that was built and the header that was generated are two files.
Copy ==
    /\ at = "copy" /\ out' = [out EXCEPT !.elf = tree] /\ at' = "copy header"
    /\ UNCHANGED <<class, configured, tree, measured, manifest, arg, again>>
CopyHeader ==
    /\ at = "copy header" /\ out' = [out EXCEPT !.header = configured] /\ at' = "seal-endurance"
    /\ UNCHANGED <<class, configured, tree, measured, manifest, arg, again>>
\* By hand the job is taken up again at one of its commands, with a revision of its own.
Resume(s) == /\ at = "idle" /\ class = "endurance" /\ out # None
             /\ again < MaxAgain /\ again' = again + 1 /\ arg' = s
             /\ \/ at' \in {"build", "soak"}
                \/ at' = "copy" /\ out.result # None
                \/ at' = "copy header" /\ out.elf # None
                \/ at' = "seal-endurance" /\ out.header # None
             /\ UNCHANGED <<class, configured, tree, measured, out, manifest>>
\* Mutant of SealEndurance: the header copied is not held against the result.
SealEnduranceHeaderUnread ==
    /\ at = "seal-endurance" /\ at' = "idle"
    /\ IF out.result.of.source = arg /\ out.log = "empty" /\ out.elf # None
       THEN manifest' = [source |-> arg, config |-> out.result.of.config, elf |-> None, libraries |-> None,
                         files |-> out]
       ELSE UNCHANGED manifest
    /\ UNCHANGED <<class, configured, tree, measured, out, arg, again>>
SealEndurance ==
    /\ at = "seal-endurance" /\ at' = "idle"
    /\ IF /\ out.result.of.source = arg /\ out.log = "empty" /\ out.elf # None
          /\ out.header = [source |-> arg, config |-> out.result.of.config]
       THEN manifest' = [source |-> arg, config |-> out.result.of.config, elf |-> None, libraries |-> None,
                         files |-> out]
       ELSE UNCHANGED manifest
    /\ UNCHANGED <<class, configured, tree, measured, out, arg, again>>

(***************************************************************************)
(* The artifact                                                            *)
(***************************************************************************)
\* Uploaded always: who receives it has the directory and nothing else.  On its way a file is
\* lost or replaced by that of another run.
Ship == /\ at = "idle" /\ out # None /\ at' = "shipped"
        /\ configured' = None /\ tree' = None /\ measured' = None /\ arg' = None
        /\ UNCHANGED <<class, out, manifest, again>>
Damage ==
    /\ at = "shipped" /\ manifest # None /\ at' = "damaged"
    /\ \E b \in Builds :
          \/ \E f \in {"probe", "elf", "sdk", "header"} : out' = [out EXCEPT ![f] = b]
          \/ out' = [out EXCEPT !.qualification = [source |-> manifest.source, pass |-> TRUE, probe |-> b]]
          \/ \E c \in Replays :
                out' = [out EXCEPT !.report[c] = [source |-> manifest.source, by |-> b, pass |-> TRUE]]
          \/ out' = [out EXCEPT !.result = [of |-> b, pass |-> TRUE]]
          \/ out' = [out EXCEPT !.report = [c \in Replays |-> None]]
    /\ UNCHANGED <<class, configured, tree, measured, manifest, arg, again>>

Next ==
    \/ Configure \/ Build \/ (\E s \in Sources : Reference(s) \/ \E p \in BOOLEAN : Measure(s, p)) \/ Install \/ Package
    \/ (\E c \in Replays, p \in BOOLEAN : Replay(c, p)) \/ Snapshot \/ Seal \/ Dies
    \/ (\E s \in Sources, C \in SUBSET Replays : AcousticAgain(s, C))
    \/ (\E s \in Sources, c \in Configs : ConfigureEndurance(s, c)) \/ (\E s \in Sources : Resume(s))
    \/ (\E p, clean \in BOOLEAN : Soak(p, clean)) \/ Copy \/ CopyHeader \/ SealEndurance \/ Ship \/ Damage
Spec == Init /\ [][Next]_vars

(***************************************************************************)
(* verify, by the command that sealed it or by who receives it             *)
(***************************************************************************)
Intact == out = manifest.files
ReferenceVerified(s) ==
    /\ out.probe = [source |-> s, config |-> manifest.config] /\ out.elf = manifest.elf
    /\ out.snapshot = [source |-> s, launcher |-> "own"]
    /\ out.qualification = [source |-> s, pass |-> TRUE, probe |-> out.probe]
    /\ \A c \in Replays : out.report[c] # None /\ out.report[c].source = s /\ out.report[c].pass
    /\ out.sdk = manifest.libraries
EnduranceVerified(s) ==
    out.result.of = [source |-> s, config |-> manifest.config] /\ out.result.pass
Verified(s) ==
    /\ out # None /\ manifest # None /\ manifest.source = s /\ Intact
    /\ IF class = "reference" THEN ReferenceVerified(s) ELSE EnduranceVerified(s)

\* A delivery that verifies is of one build of one commit, whatever was measured, configured,
\* rebuilt or lost between its steps.  Of the reference the libraries, their header, the processor
\* and the probe are that build's, its resources were measured, and every replay passed on that
\* very processor.  Of the endurance the header is that of the program soaked, and the sanitizers
\* had nothing to say; the program in the artifact is the one soaked where the job's commands ran
\* once, one after another: nothing holds it against the result, and a job taken up by hand over
\* another build may seal that build's.
DeliveryTraced ==
    \A s \in Sources : Verified(s) =>
        /\ class = "reference" =>
              /\ out.elf.source = s
              /\ out.sdk = out.elf /\ out.probe = out.elf /\ out.header = out.elf
              /\ out.qualification.pass /\ out.qualification.probe = out.elf
              /\ \A c \in Replays : out.report[c].pass /\ out.report[c].by = out.elf
        /\ class = "endurance" =>
              /\ out.header = out.result.of /\ out.log = "empty"
              /\ again = 0 => out.elf = out.result.of
=============================================================================
