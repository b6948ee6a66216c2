-------------------------- MODULE OverloadQuality --------------------------
(***************************************************************************)
(* The runtime's overload controller (adjust_quality), together with the   *)
(* two commands that move the same quality behind its back: SET_QUALITY    *)
(* and RESET.  A frame is over or within its deadline, or it failed, in    *)
(* which case the controller does not see it.                              *)
(***************************************************************************)
EXTENDS Integers

CONSTANT RecoverFrames  \* cfg.recover_frames: healthy frames before a step up

ASSUME RecoverAssumption == RecoverFrames \in Nat \ {0}

SAFE == 0
LITE == 1
FULL == 2
Qualities == SAFE .. FULL

VARIABLES quality,        \* the pipeline's quality
          overloadStreak, \* overload_streak
          healthyStreak,  \* healthy_streak
          \* history, for the properties only:
          last,           \* what the last step was: "over", "healthy", "failed", "command"
          auto,           \* did the last step move the quality: "no", "down", "up"
          alike           \* the frames the controller last saw, while all were alike
                          \* and none of them had moved the quality: kind and count

vars == <<quality, overloadStreak, healthyStreak, last, auto, alike>>

Init ==
    /\ quality = FULL /\ overloadStreak = 0 /\ healthyStreak = 0
    /\ last = "command" /\ auto = "no"
    /\ alike = [kind |-> "over", count |-> 0]

\* More frames alike than either streak needs are not told apart.
Keep == IF RecoverFrames > 3 THEN RecoverFrames ELSE 3

\* What the history keeps of a step and adds of a frame the controller saw.
Kept == IF auto = "no" THEN alike ELSE [alike EXCEPT !.count = 0]
Observe(kind) ==
    /\ last' = kind
    /\ alike' = [kind |-> kind,
                 count |-> IF Kept.kind # kind THEN 1
                           ELSE IF Kept.count < Keep THEN Kept.count + 1 ELSE Keep]
    /\ auto' = IF quality' < quality THEN "down"
               ELSE IF quality' > quality THEN "up" ELSE "no"

-----------------------------------------------------------------------------
\* Mutant of OverFrame: the controller stops at LITE.
OverFrameStopsAtLite ==
    /\ healthyStreak' = 0
    /\ IF overloadStreak + 1 >= 3
       THEN overloadStreak' = 0 /\ quality' = (IF quality = FULL THEN LITE ELSE quality)
       ELSE overloadStreak' = overloadStreak + 1 /\ UNCHANGED quality
    /\ Observe("over")

\* A frame past its deadline: three in a row step the quality down.
OverFrame ==
    /\ healthyStreak' = 0
    /\ IF overloadStreak + 1 >= 3
       THEN overloadStreak' = 0 /\ quality' = (IF quality = FULL THEN LITE ELSE SAFE)
       ELSE overloadStreak' = overloadStreak + 1 /\ UNCHANGED quality
    /\ Observe("over")

\* Mutants of HealthyFrame: a miss is forgiven only by a recovery; recovery
\* waits for LITE to be commanded.
HealthyFrameForgivesNothing ==
    /\ UNCHANGED overloadStreak
    /\ IF healthyStreak + 1 >= RecoverFrames
       THEN healthyStreak' = 0 /\ quality' = (IF quality = SAFE THEN LITE ELSE FULL)
       ELSE healthyStreak' = healthyStreak + 1 /\ UNCHANGED quality
    /\ Observe("healthy")
HealthyFrameStuckInSafe ==
    /\ overloadStreak' = 0
    /\ IF healthyStreak + 1 >= RecoverFrames
       THEN healthyStreak' = 0 /\ quality' = (IF quality = SAFE THEN SAFE ELSE FULL)
       ELSE healthyStreak' = healthyStreak + 1 /\ UNCHANGED quality
    /\ Observe("healthy")

\* A frame in time: recover_frames of them in a row step the quality up.
HealthyFrame ==
    /\ overloadStreak' = 0
    /\ IF healthyStreak + 1 >= RecoverFrames
       THEN healthyStreak' = 0 /\ quality' = (IF quality = SAFE THEN LITE ELSE FULL)
       ELSE healthyStreak' = healthyStreak + 1 /\ UNCHANGED quality
    /\ Observe("healthy")

\* publish_failure: the frame has no elapsed time and leaves the streaks alone.
FailedFrame ==
    /\ last' = "failed" /\ auto' = "no"
    /\ alike' = Kept
    /\ UNCHANGED <<quality, overloadStreak, healthyStreak>>

Commanded ==
    /\ last' = "command" /\ auto' = "no"
    /\ alike' = Kept
    /\ UNCHANGED <<overloadStreak, healthyStreak>>

\* apply_quality_transition on the application's wish.
SetQuality(q) == quality' = q /\ Commanded

\* ap_pipeline_reset puts the quality back to FULL.
Reset == quality' = FULL /\ Commanded

Frame == OverFrame \/ HealthyFrame \/ FailedFrame
Command == Reset \/ \E q \in Qualities : SetQuality(q)
Next == Frame \/ Command

Spec == Init /\ [][Next]_vars
FairSpec == Spec /\ WF_vars(OverFrame \/ HealthyFrame)

-----------------------------------------------------------------------------
\* The streaks never reach the thresholds between two frames.
TypeOK ==
    /\ quality \in Qualities
    /\ overloadStreak \in 0 .. 2 /\ healthyStreak \in 0 .. RecoverFrames - 1
    /\ last \in {"over", "healthy", "failed", "command"}
    /\ auto \in {"no", "down", "up"}
    /\ alike \in [kind : {"over", "healthy"}, count : 0 .. Keep]

\* Hysteresis: the controller moves down only after three consecutive misses
\* and up only after recover_frames consecutive healthy frames, none of which
\* has already been spent on an earlier move, whatever is commanded or fails
\* in between.  So it can never flap faster than its thresholds.
MovesEarned ==
    /\ auto = "down" => alike.kind = "over" /\ alike.count >= 3
    /\ auto = "up" => alike.kind = "healthy" /\ alike.count >= RecoverFrames

\* Every frame over its deadline from some point on, and no more commands:
\* the quality ends at SAFE and stays there.
SheddingCompletes == <>[](last = "over") => <>[](quality = SAFE)

\* Every frame in time from some point on, and no more commands: the full
\* quality comes back and stays.
RecoveryCompletes == <>[](last = "healthy") => <>[](quality = FULL)
\* Under lasting overload the controller ends in SAFE, under lasting health in FULL, and stays there.
QualitySettles == SheddingCompletes /\ RecoveryCompletes
=============================================================================
