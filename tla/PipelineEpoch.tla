--------------------------- MODULE PipelineEpoch ---------------------------
(***************************************************************************)
(* What the worker tells of the pipeline's faults.  The counters of faults *)
(* live in the pipeline's metrics and start over at RESET, and at any time *)
(* while the runtime is stopped and its pipeline is the application's; the *)
(* values the worker compares them with live in the runtime.  AEC and SYNC *)
(* are built and configured.                                               *)
(***************************************************************************)
EXTENDS Integers

CONSTANTS ConvergedFrames,  \* AP_AEC_CONVERGED_FRAMES
          MaxCount          \* bound: faults of one kind in an epoch

ASSUME EpochAssumption ==
    /\ ConvergedFrames \in Nat /\ ConvergedFrames > 1
    /\ MaxCount \in Nat

\* Decibels on both sides of the thresholds of ERLE_COLLAPSE.
ErleLevels == {0, 16}
NoErle == -1
Faults == {"underruns", "jumps", "resets"}

VARIABLES running,  \* the worker runs; else the pipeline is the application's
          metrics,  \* the pipeline's: fault counters, aec_convergence_frames,
                    \* erle_valid, erle_db
          base,     \* the worker's: last_render_underruns, last_delay_jumps,
                    \* last_aec_resets, last_aec_converged, last_valid_erle
          \* history, for the properties only:
          untold,   \* faults of each kind under the worker since its last event
                    \* of the kind or rebase
          told,     \* AEC_CONVERGED events in this convergence epoch
          given,    \* the worker started into a converged epoch
          heard     \* the worker has had a valid ERLE since it started or was
                    \* reset: a frame of its own, or the one it was handed

epochVars == <<running, metrics, base, untold, told, given, heard>>

None == [f \in Faults |-> 0]
Zero == [faults |-> None, frames |-> 0, valid |-> FALSE, erle |-> 0]
Converged(m) == m.frames >= ConvergedFrames

EpochInit ==
    /\ running = FALSE
    /\ metrics = Zero
    /\ base = [faults |-> None, converged |-> FALSE, erle |-> 0]
    /\ untold = None /\ told = 0 /\ given = FALSE /\ heard = FALSE

-----------------------------------------------------------------------------
\* The pipeline.  A boundary is what happens to the stream before the AEC sees
\* a frame: nothing, a gap, a jump of the route by a timestamp, both, a jump
\* found by a search (which starts over at a gap or a timestamp), or an echo
\* path change.
Boundaries == {"none", "gap", "stamp", "both", "search", "path"}
Jumps(b) == IF b \in {"stamp", "both", "search"} THEN 1 ELSE 0
Resets(b) == IF b = "none" THEN 0 ELSE IF b = "both" THEN 2 ELSE 1

\* Mutant of NewEpoch: the convergence survives.
NewEpochKeepsFrames(m) == [m EXCEPT !.valid = FALSE, !.erle = 0]

\* ap_pipeline_reset_aec_epoch
NewEpoch(m) == [m EXCEPT !.frames = 0, !.valid = FALSE, !.erle = 0]

Happened(b, missing) ==
    [f \in Faults |-> IF f = "jumps" THEN Jumps(b)
                      ELSE IF f = "resets" THEN Resets(b) ELSE missing]
Counted(faults, b, missing) == [f \in Faults |-> faults[f] + Happened(b, missing)[f]]

\* ap_pipeline_notify_stream_discontinuity, ap_pipeline_notify_echo_path_change,
\* ap_pipeline_update_sync_metrics
Crossed(m, b) ==
    IF b = "none" THEN m
    ELSE [NewEpoch(m) EXCEPT !.faults = Counted(m.faults, b, 0)]

\* ap_pipeline_process_capture: underruns, and an ERLE if there was far end alone.
Processed(m, missing, erle) ==
    LET n == [m EXCEPT !.faults = Counted(@, "none", missing), !.valid = FALSE]
    IN  IF erle = NoErle THEN n
        ELSE [n EXCEPT !.frames = IF Converged(m) THEN @ ELSE @ + 1,
                       !.valid = TRUE, !.erle = erle]

Bounded(m) == \A f \in Faults : m.faults[f] <= MaxCount

\* What the history remembers of a boundary.
Begins(b) ==
    /\ told' = IF b = "none" THEN told ELSE 0
    /\ given' = (given /\ b = "none")

-----------------------------------------------------------------------------
\* The worker.
Rebased(m) == [faults |-> m.faults, converged |-> Converged(m),
               erle |-> IF m.valid THEN m.erle ELSE 0]

Announced(m) == {f \in Faults : m.faults[f] > base.faults[f]}
Announces(m) == Converged(m) /\ ~base.converged

\* runtime_note_pipeline_events
Noted(m) ==
    [faults |-> [f \in Faults |-> IF f \in Announced(m) THEN m.faults[f] ELSE base.faults[f]],
     converged |-> Converged(m),
     erle |-> IF m.valid THEN m.erle ELSE base.erle]

\* A frame with its metadata, processed and reported.
GoodFrame(b, missing, erle) ==
    LET m == Processed(Crossed(metrics, b), missing, erle)
    IN  /\ running /\ b # "path" /\ Bounded(m)
        /\ metrics' = m
        /\ base' = Noted(m)
        /\ untold' = [f \in Faults |-> IF f \in Announced(m) THEN 0
                                       ELSE Counted(untold, b, missing)[f]]
        /\ told' = (IF b = "none" THEN told ELSE 0) + (IF Announces(m) THEN 1 ELSE 0)
        /\ given' = (given /\ b = "none")
        /\ heard' = (heard \/ m.valid)
        /\ UNCHANGED running

\* A frame that fails has its metadata applied and nothing reported.
BadFrame(b) ==
    LET m == Crossed(metrics, b)
    IN  /\ running /\ b \in {"none", "gap", "stamp", "both"} /\ Bounded(m)
        /\ metrics' = m
        /\ untold' = Counted(untold, b, 0)
        /\ Begins(b)
        /\ UNCHANGED <<running, base, heard>>

\* The commands STREAM_DISCONTINUITY and ECHO_PATH_CHANGE.
CommandBoundary(b) ==
    LET m == Crossed(metrics, b)
    IN  /\ running /\ b \in {"gap", "path"} /\ Bounded(m)
        /\ metrics' = m
        /\ untold' = Counted(untold, b, 0)
        /\ Begins(b)
        /\ UNCHANGED <<running, base, heard>>

\* Mutants of CommandReset: the comparators are left as they are; only the
\* counters are rebased.
CommandResetOnly ==
    /\ running
    /\ metrics' = Zero
    /\ untold' = None /\ told' = 0 /\ given' = FALSE /\ heard' = FALSE
    /\ UNCHANGED <<running, base>>
CommandResetCounters ==
    /\ running
    /\ metrics' = Zero
    /\ base' = [Rebased(Zero) EXCEPT !.erle = base.erle]
    /\ untold' = None /\ told' = 0 /\ given' = FALSE /\ heard' = FALSE
    /\ UNCHANGED running

\* RESET: ap_pipeline_reset and runtime_resync_event_baselines.
CommandReset ==
    /\ running
    /\ metrics' = Zero
    /\ base' = Rebased(Zero)
    /\ untold' = None /\ told' = 0 /\ given' = FALSE /\ heard' = FALSE
    /\ UNCHANGED running

StopWorker ==
    /\ running /\ running' = FALSE
    /\ untold' = None
    /\ UNCHANGED <<metrics, base, told, given, heard>>

\* ap_runtime_start, once it has rebased: on an ERLE too, if the pipeline still
\* reports one as valid.
StartWorker ==
    /\ ~running /\ running' = TRUE
    /\ base' = Rebased(metrics)
    /\ untold' = None
    /\ given' = (Converged(metrics) /\ told = 0)
    /\ heard' = metrics.valid
    /\ UNCHANGED <<metrics, told>>

-----------------------------------------------------------------------------
\* The application on the pipeline of a stopped runtime: a frame, for which it
\* may not have pushed any render, a boundary, a reset.
DirectFrame(b, missing, erle) ==
    LET m == Processed(Crossed(metrics, b), missing, erle)
    IN  /\ ~running /\ Bounded(m)
        /\ metrics' = m
        /\ Begins(b)
        /\ UNCHANGED <<running, base, untold, heard>>

DirectReset ==
    /\ ~running
    /\ metrics' = Zero
    /\ told' = 0 /\ given' = FALSE
    /\ UNCHANGED <<running, base, untold, heard>>

Measured == ErleLevels \cup {NoErle}
EpochNext ==
    \/ \E b \in Boundaries, erle \in Measured, missing \in 0 .. 1 : GoodFrame(b, missing, erle)
    \/ \E b \in Boundaries : BadFrame(b) \/ CommandBoundary(b)
    \/ CommandReset \/ StopWorker \/ StartWorker
    \/ \E b \in Boundaries, erle \in Measured, missing \in 0 .. 2 : DirectFrame(b, missing, erle)
    \/ DirectReset

EpochSpec == EpochInit /\ [][EpochNext]_epochVars

-----------------------------------------------------------------------------
EpochTypeOK ==
    /\ running \in BOOLEAN
    /\ metrics \in [faults : [Faults -> 0 .. MaxCount], frames : 0 .. ConvergedFrames,
                    valid : BOOLEAN, erle : ErleLevels]
    /\ base \in [faults : [Faults -> 0 .. MaxCount], converged : BOOLEAN, erle : ErleLevels]
    /\ untold \in [Faults -> 0 .. MaxCount]
    /\ told \in 0 .. 1 /\ given \in BOOLEAN /\ heard \in BOOLEAN

\* CHANGELOG.md 2.3.57: "the first new-epoch AEC fault is observable".  While the
\* worker runs, what it would announce next is exactly the faults that have
\* happened since it last announced or rebased, of each kind: none is hidden
\* behind the counters of another epoch, none is announced twice, and those of
\* failed frames and of commands wait for the next good frame.
FaultsTold ==
    running => \A f \in Faults : metrics.faults[f] - base.faults[f] = untold[f]

\* "aec_converged describes the current convergence epoch": AEC_CONVERGED is
\* announced exactly once in each epoch the worker sees converge, whatever began
\* the epoch, and never in one that has not converged or was handed over
\* converged.
ConvergedToldOnce ==
    running => IF Converged(metrics) THEN told = IF given THEN 0 ELSE 1
               ELSE told = 0

\* What a collapse is announced against is an ERLE the worker has had since it
\* started or was reset, if it has had one, and nothing otherwise.  An ERLE of
\* before a RESET is never held against the pipeline; one of before a start only
\* if the pipeline still reports it at the start, that is if its last frame
\* measured it and no boundary has followed: that one the start takes over, and
\* the first collapse may be told against it.  What an earlier run of the worker
\* had heard is gone.
CollapseWithinReset == running /\ ~heard => base.erle = 0
\* What the worker would announce next is exactly what has happened since it last announced or
\* rebased, each convergence is announced once, and a collapse is measured against no ERLE older than
\* the last RESET, nor older than the start but for the one the pipeline still reported as valid when
\* the worker was started: the three together.
ToldExactly == FaultsTold /\ ConvergedToldOnce /\ CollapseWithinReset
=============================================================================
