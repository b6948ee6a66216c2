------------------------------ MODULE HilEvidence ------------------------------
(***************************************************************************)
(* A soak of a commit on a physical board: the job of hil-soak.yml, with   *)
(* the tools it calls, on a runner that is not wiped between jobs.  The    *)
(* board's file is read four times, by different steps; the evidence is    *)
(* left in one directory under /tmp, and after a step has failed those     *)
(* that run `always` classify, seal and upload what they find there.       *)
(* Steps fail at every point, somebody edits the board's file, and the     *)
(* machine may go down.                                                    *)
(***************************************************************************)
EXTENDS Integers, FiniteSets

CONSTANTS None,
          Boards, Valid,      \* contents of a board's file; those load_board accepts
          RouteOf,            \* [Boards -> [device, playback]]
          Counts,             \* what a counter of a soak may say: {0, 1, more than MaxFaults}
          MaxFaults,          \* --max-xruns and --max-overruns of the accelerated tier
          MaxJobs, MaxEdits   \* bounds

VARIABLES pc, job,            \* the job: a number, its tier; the number stands for the commit
          failed,             \* some step of it failed
          board,              \* the board's file
          tmp,                \* /tmp: what was read of the board, the authority, the revision
          out,                \* steps.route.outputs
          dir,                \* /tmp/ap-hil-evidence
          sums,               \* SHA256SUMS in it: the files it was made of
          uploaded,           \* the artifact of the job that ended last
          edits,
          kept                \* history: the directory held files when the job began
\* What the files of the evidence may say, and that none of it is taken for a file that is missing.
Reports == [ready : BOOLEAN, of : Nat]
Routes == {RouteOf[b] : b \in Boards}
Authorities == [digest : Boards, route : Routes]
Soaks == [of : Nat, route : Routes, passed : BOOLEAN, xruns : BOOLEAN, lost : BOOLEAN]
HilAssumption == Valid \subseteq Boards /\ None \notin Reports \cup Authorities \cup Soaks
jobVars == <<pc, job, failed, out, kept>>
vars == <<jobVars, board, tmp, dir, sums, uploaded, edits>>

Tiers == {"accelerated", "research"}
Empty == [runner |-> None, preflight |-> None, board |-> None, authority |-> None,
          build |-> None, soak |-> None, class |-> None]
Init ==
    /\ pc = "idle" /\ job = [n |-> 0, tier |-> "research"] /\ failed = FALSE
    /\ board \in Boards /\ tmp = [board |-> None, authority |-> None, revision |-> None]
    /\ out = None /\ dir = Empty /\ sums = None /\ uploaded = None /\ edits = 0 /\ kept = FALSE

Goto(p) == pc' = p /\ UNCHANGED <<job, failed, out, kept>>
\* What fails is told, and the steps that run always follow.
Fails == pc' = "classify" /\ failed' = TRUE /\ UNCHANGED <<job, out, kept>>
Outside == UNCHANGED <<board, edits, uploaded>>

\* The availability job lets nothing through but a 40 character commit, with HIL_ENABLED.
Dispatch(tier, enabled) ==
    /\ pc = "idle" /\ job.n < MaxJobs /\ enabled
    /\ job' = [n |-> job.n + 1, tier |-> tier] /\ pc' = "checkout" /\ failed' = FALSE /\ out' = None
    /\ kept' = (dir # Empty)
    /\ Outside /\ UNCHANGED <<tmp, dir, sums>>
\* Any step may fail before it has written anything: the network, a limit, a cancel.
Steps == {"checkout", "metadata", "authority", "runner", "preflight", "copy", "build", "soak"}
StepFails == pc \in Steps /\ Fails /\ Outside /\ UNCHANGED <<tmp, dir, sums>>

Checkout == pc = "checkout" /\ Goto("metadata") /\ Outside /\ UNCHANGED <<tmp, dir, sums>>
\* load_board: what it refuses leaves the copy empty.
Metadata ==
    /\ pc = "metadata" /\ Outside /\ UNCHANGED <<dir, sums>>
    /\ IF board \in Valid THEN tmp' = [tmp EXCEPT !.board = board] /\ Goto("authority")
       ELSE tmp' = [tmp EXCEPT !.board = None] /\ Fails
\* The digest is of the file as it is now, the route from the copy; the revision is written last, and
\* then the checkout must still be clean.
Authority ==
    /\ pc = "authority" /\ Outside /\ UNCHANGED <<dir, sums>>
    /\ LET a == [digest |-> board, route |-> RouteOf[tmp.board]] IN
       \/ tmp' = [tmp EXCEPT !.authority = a, !.revision = job.n]
          /\ out' = [route |-> a.route, tier |-> job.tier] /\ pc' = "runner" /\ UNCHANGED <<job, failed, kept>>
       \/ tmp' \in {[tmp EXCEPT !.authority = a], [tmp EXCEPT !.authority = a, !.revision = job.n]} /\ Fails

\* runner_preflight.py: the report is written in either case; a runner that is not READY ends the job.
RunnerPreflight(ready) ==
    /\ pc = "runner" /\ dir' = [dir EXCEPT !.runner = [ready |-> ready, of |-> job.n]]
    /\ (IF ready THEN Goto("preflight") ELSE Fails)
    /\ Outside /\ UNCHANGED <<tmp, sums>>
\* hil_board.py preflight: power cycle, temperature, disk, inventories, far end, power sensor.
Failures == {"hook", "hot", "sensor", "disk", "capture", "playback", "farend"}
BoardPreflight(failures) ==
    /\ pc = "preflight" /\ Outside /\ UNCHANGED <<tmp, sums>>
    /\ failures \ {"playback"} # failures => RouteOf[board].playback
    /\ IF board \in Valid
       THEN /\ dir' = [dir EXCEPT !.preflight = [ready |-> failures = {}, of |-> job.n]]
            /\ IF failures = {} THEN Goto("copy") ELSE Fails
       ELSE Fails /\ UNCHANGED dir
Copy ==
    /\ pc = "copy" /\ dir' = [dir EXCEPT !.board = board, !.authority = tmp.authority]
    /\ Goto("build") /\ Outside /\ UNCHANGED <<tmp, sums>>
Build ==
    /\ pc = "build" /\ dir' = [dir EXCEPT !.build = job.n] /\ Goto("soak")
    /\ Outside /\ UNCHANGED <<tmp, sums>>

\* target_evidence.py route-soak: the limits of the tier, and whether what was to be injected was.
Limit(tier) == IF tier = "accelerated" THEN MaxFaults ELSE 0
Injected(tier, playback, seen) ==
    tier = "accelerated" => {"restart", "stall"} \subseteq seen /\ (playback => "gap" \in seen)
\* Mutant of Passed: frames that were produced and not received are no failure.
PassedAny(tier, playback, r) ==
    /\ r.exit = 0 /\ Injected(tier, playback, r.seen)
    /\ r.xruns <= Limit(tier) /\ r.overruns <= Limit(tier) /\ r.dropped = 0
Passed(tier, playback, r) ==
    /\ r.exit = 0 /\ r.lost = 0 /\ Injected(tier, playback, r.seen)
    /\ r.xruns <= Limit(tier) /\ r.overruns <= Limit(tier) /\ r.dropped = 0
Results == [exit : {0, 1}, lost : {0, 1}, xruns : Counts, overruns : Counts, dropped : {0, 1},
            seen : {{}, {"restart", "stall"}, {"restart", "stall", "gap"}}]
\* Mutant of ExitCode: a soak that ran is a step that succeeded.
ExitCodeRan(passed) == 0
ExitCode(passed) == IF passed THEN 0 ELSE 1
\* Counters that are missing from the output, or a sensor that cannot be read, leave no file: StepFails.
Soak(r) ==
    /\ pc = "soak"
    /\ LET passed == Passed(out.tier, out.route.playback, r) IN
       /\ dir' = [dir EXCEPT !.soak = [of |-> job.n, route |-> out.route, passed |-> passed,
                                       xruns |-> r.xruns > 0, lost |-> r.lost > 0]]
       /\ IF ExitCode(passed) = 0 THEN Goto("classify") ELSE Fails
    /\ Outside /\ UNCHANGED <<tmp, sums>>

\* The step `Classify HIL evidence`.
RouteMatches(d) == d.authority # None /\ d.soak # None /\ d.soak.route = d.authority.route
Unready(report) == report = None \/ ~report.ready
Category(d) ==
    IF Unready(d.runner) \/ Unready(d.preflight) \/ d.authority = None THEN "INFRA_FAILURE"
    ELSE IF d.soak = None THEN "HARDWARE_FAILURE"
    ELSE IF ~RouteMatches(d) THEN "INFRA_FAILURE"
    ELSE IF ~d.soak.passed THEN IF d.soak.xruns THEN "XRUN_FAILURE" ELSE "HARDWARE_FAILURE"
    ELSE "NONE"
Classify ==
    /\ pc = "classify"
    /\ dir' = [dir EXCEPT !.class = [category |-> Category(dir), revision |-> tmp.revision,
                                     digest |-> IF dir.authority = None THEN None ELSE dir.authority.digest]]
    /\ Goto("cleanup") /\ Outside /\ UNCHANGED <<tmp, sums>>
\* hil_board.py cleanup: its outcome decides nothing.
Cleanup == pc = "cleanup" /\ Goto("seal") /\ Outside /\ UNCHANGED <<tmp, dir, sums>>
Seal == pc = "seal" /\ sums' = dir /\ Goto("upload") /\ Outside /\ UNCHANGED <<tmp, dir>>
Upload ==
    /\ pc = "upload" /\ uploaded' = [of |-> job.n, tier |-> job.tier, failed |-> failed, kept |-> kept,
                                     dir |-> dir, sums |-> sums]
    /\ pc' = "idle" /\ UNCHANGED <<job, failed, out, kept, board, edits, tmp, dir, sums>>

\* The machine goes down: no step runs any more; /tmp stays, or is emptied when it comes up.
PowerLoss ==
    /\ pc # "idle" /\ pc' = "idle" /\ UNCHANGED <<job, failed, out, kept>>
    /\ \/ UNCHANGED <<tmp, dir, sums>>
       \/ tmp' = [board |-> None, authority |-> None, revision |-> None] /\ dir' = Empty /\ sums' = None
    /\ Outside
EditBoard ==
    /\ edits < MaxEdits /\ edits' = edits + 1 /\ board' \in Boards \ {board}
    /\ UNCHANGED <<jobVars, tmp, dir, sums, uploaded>>

Next ==
    \/ \E tier \in Tiers, enabled \in BOOLEAN : Dispatch(tier, enabled)
    \/ StepFails \/ Checkout \/ Metadata \/ Authority
    \/ \E ready \in BOOLEAN : RunnerPreflight(ready)
    \/ \E failures \in SUBSET Failures : BoardPreflight(failures)
    \/ Copy \/ Build \/ \E r \in Results : Soak(r)
    \/ Classify \/ Cleanup \/ Seal \/ Upload \/ PowerLoss \/ EditBoard
Spec == Init /\ [][Next]_vars

(***************************************************************************)
(* Properties                                                              *)
(***************************************************************************)
\* The evidence of a job that did not fail is its own from the first file to the last, on the route it
\* names, also in a directory other jobs have left theirs in: the soak passed, for this revision.
GreenIsOwn ==
    uploaded # None /\ ~uploaded.failed =>
        LET d == uploaded.dir IN
        /\ d.class.category = "NONE" /\ d.class.revision = uploaded.of /\ uploaded.sums = d
        /\ d.runner = [ready |-> TRUE, of |-> uploaded.of] /\ d.preflight = [ready |-> TRUE, of |-> uploaded.of]
        /\ d.build = uploaded.of /\ d.soak.of = uploaded.of /\ d.soak.passed /\ ~d.soak.lost
        /\ d.soak.route = d.authority.route
\* In a directory that was empty when the job began, no failure of the laboratory is put down to the
\* program: hil_board.py is there "so product regressions are not conflated with broken lab equipment".
LabNotConflated ==
    uploaded # None /\ ~uploaded.kept =>
        LET d == uploaded.dir IN
        d.class.category # "INFRA_FAILURE" =>
            d.runner.ready /\ d.preflight.ready /\ (d.class.category = "NONE" <=> ~uploaded.failed)
HilSound == GreenIsOwn /\ LabNotConflated
\* TESTING.md: "Real HIL evidence remains exact-source SHA-bound".
ExactSource ==
    uploaded # None /\ uploaded.dir.class.category = "NONE" => uploaded.dir.soak.of = uploaded.of
=============================================================================
