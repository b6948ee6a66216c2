-------------------------- MODULE TuningProjection --------------------------
(***************************************************************************)
(* Admission of SET_TUNING commands.  ap_runtime_command must decide       *)
(* without touching the worker's pipeline whether the worker will accept a *)
(* tuning it applies later, after everything queued before it.  The        *)
(* runtime keeps a projection of the AGC pair (target, limiter): while the *)
(* worker runs or is stopping the projection alone decides; once stopped   *)
(* it is rebuilt from the pipeline and the pending commands.               *)
(*                                                                         *)
(* The control producer may be inside ap_runtime_command while stop runs   *)
(* and completes, and while the owner then tunes the pipeline directly;    *)
(* the contract does not let it overlap with start, which writes the same  *)
(* projection.                                                             *)
(***************************************************************************)
EXTENDS Integers, Sequences, FiniteSetsExt

CONSTANTS CmdDepth,      \* depth of the command ring
          Levels,        \* dBFS values, as integers
          TargetLevels,  \* those in the range of ap_tuning_agc_target_ok
          LimiterLevels, \* those in the range of ap_tuning_limiter_ok
          HasAgc         \* AP_STAGE_AGC is configured: init validates the pair

LevelAssumption ==
    /\ CmdDepth \in Nat \ {0} /\ Levels \subseteq Int
    /\ TargetLevels \subseteq Levels /\ LimiterLevels \subseteq Levels
    /\ HasAgc \in BOOLEAN

VARIABLES workerState,  \* worker_state
          wpc,          \* worker: "none", "wait", "drain", "applied", "done"
          left,         \* commands left of the head snapshot of this drain
          tuning,       \* the AGC pair in the pipeline's configuration
          pending,      \* the command ring
          projected,    \* projected_agc_target_dbfs and projected_limiter_dbfs
          cpc,          \* control producer: "idle" or "push"
          cmd,          \* the command it is pushing
          opc,          \* owner: "idle", "resynced" in start, "join" in stop
          rejected,     \* the worker has emitted COMMAND_REJECTED
          refusal       \* the last start: "none", or did the worker agree with
                        \* its refusal: "justified", "unjustified"

vars == <<workerState, wpc, left, tuning, pending, projected, cpc, cmd, opc,
          rejected, refusal>>

Pairs == [target : Levels, limiter : Levels]

\* ap_tuning_agc_pair_ok
PairOk(p) ==
    /\ p.target \in TargetLevels
    /\ p.limiter \in LimiterLevels
    /\ p.target < p.limiter

\* A tuning: the fields its mask names, and the values for them.  Fields other
\* than the pair are validated alone, by the same predicates at both ends;
\* AEC_MU stands for them.
Masks == {{"AEC_MU"}, {"AGC_TARGET"}, {"LIMITER"}, {"AGC_TARGET", "LIMITER"}}
Tunings == [mask : Masks, target : Levels, limiter : Levels]
TouchesPair(c) == c.mask \cap {"AGC_TARGET", "LIMITER"} # {}

\* RESET, SET_QUALITY and the others, which keep the tuning.
OtherCommand == [mask |-> {}, target |-> 0, limiter |-> 0]

\* The pair after a tuning has replaced the fields it names.
Merged(p, c) ==
    [target  |-> IF "AGC_TARGET" \in c.mask THEN c.target ELSE p.target,
     limiter |-> IF "LIMITER" \in c.mask THEN c.limiter ELSE p.limiter]

\* ap_pipeline_apply_tuning: what the worker accepts on pair p.
Accepts(p, c) == TouchesPair(c) => PairOk(Merged(p, c))

\* Mutant of Admits: target and limiter are only checked one by one.
AdmitsAlone(p, c) ==
    /\ "AGC_TARGET" \in c.mask => c.target \in TargetLevels
    /\ "LIMITER" \in c.mask => c.limiter \in LimiterLevels

\* runtime_validate_command after the resync: what is let into the ring.
Admits(p, c) ==
    /\ "AGC_TARGET" \in c.mask => c.target \in TargetLevels
    /\ "LIMITER" \in c.mask => c.limiter \in LimiterLevels
    /\ TouchesPair(c) => PairOk(Merged(p, c))

\* The pair after all of cs, one after the other: the last command to name a field has set it.
Naming(cs, f) == {i \in DOMAIN cs : f \in cs[i].mask}
Replay(p, cs) ==
    [target  |-> IF Naming(cs, "AGC_TARGET") = {} THEN p.target ELSE cs[Max(Naming(cs, "AGC_TARGET"))].target,
     limiter |-> IF Naming(cs, "LIMITER") = {} THEN p.limiter ELSE cs[Max(Naming(cs, "LIMITER"))].limiter]

\* The worker, starting at pair p, would accept every command of cs.
WorkerAccepts(p, cs) ==
    \A i \in DOMAIN cs : Accepts(Replay(p, SubSeq(cs, 1, i - 1)), cs[i])

\* Mutant of ResyncOk: replays on the producer's projection, which a direct
\* change of the pipeline has left behind.
ResyncStale ==
    \A i \in DOMAIN pending :
        pending[i].mask # {} => PairOk(Replay(projected, SubSeq(pending, 1, i)))

\* resync_tuning_projection checks the pair after every pending SET_TUNING,
\* also after one whose mask leaves the pair alone.
ResyncOk ==
    \A i \in DOMAIN pending :
        pending[i].mask # {} => PairOk(Replay(tuning, SubSeq(pending, 1, i)))

Init ==
    /\ workerState = "STOPPED" /\ wpc = "none" /\ left = 0
    /\ tuning \in {p \in Pairs : HasAgc => PairOk(p)}
    /\ pending = <<>> /\ projected = tuning
    /\ cpc = "idle" /\ cmd = OtherCommand
    /\ opc = "idle" /\ rejected = FALSE /\ refusal = "none"

-----------------------------------------------------------------------------
(* The control producer: ap_runtime_command.                               *)

\* Mutant of Validate: full only beyond the depth.
ValidateOffByOne(c) ==
    /\ cpc = "idle"
    /\ IF workerState = "STOPPED" /\ c.mask # {}
       THEN ResyncOk /\ projected' = Replay(tuning, pending)
       ELSE UNCHANGED projected
    /\ IF Admits(projected', c) /\ Len(pending) <= CmdDepth
       THEN cpc' = "push" /\ cmd' = c
       ELSE UNCHANGED <<cpc, cmd>>
    /\ UNCHANGED <<workerState, wpc, left, tuning, pending, opc, rejected, refusal>>

\* runtime_validate_command.  Stopped, the projection is rebuilt first and a
\* pending sequence that no longer fits refuses the call (AP_ESTATE); the
\* projection changes even if the command itself is then refused (AP_EINVAL).
Validate(c) ==
    /\ cpc = "idle"
    /\ IF workerState = "STOPPED" /\ c.mask # {}
       THEN ResyncOk /\ projected' = Replay(tuning, pending)
       ELSE UNCHANGED projected
    /\ IF Admits(projected', c) /\ Len(pending) < CmdDepth
       THEN cpc' = "push" /\ cmd' = c
       ELSE UNCHANGED <<cpc, cmd>>
    /\ UNCHANGED <<workerState, wpc, left, tuning, pending, opc, rejected, refusal>>

\* Mutant of PushCommand: the projection is not advanced.
PushOnly ==
    /\ cpc = "push"
    /\ pending' = Append(pending, cmd)
    /\ cpc' = "idle" /\ cmd' = OtherCommand
    /\ UNCHANGED <<workerState, wpc, left, tuning, projected, opc, rejected, refusal>>

\* The slot is filled, the projection advanced and command_head stored.
PushCommand ==
    /\ cpc = "push"
    /\ projected' = Merged(projected, cmd)
    /\ pending' = Append(pending, cmd)
    /\ cpc' = "idle" /\ cmd' = OtherCommand
    /\ UNCHANGED <<workerState, wpc, left, tuning, opc, rejected, refusal>>

-----------------------------------------------------------------------------
(* The worker: drain_commands and apply_command.                           *)

BeginDrain ==
    /\ wpc = "wait" /\ workerState = "RUNNING"
    /\ wpc' = "drain" /\ left' = Len(pending)
    /\ UNCHANGED <<workerState, tuning, pending, projected, cpc, cmd, opc, rejected, refusal>>

ApplyCommand ==
    /\ wpc = "drain" /\ left > 0
    /\ IF Accepts(tuning, Head(pending))
       THEN tuning' = Merged(tuning, Head(pending)) /\ UNCHANGED rejected
       ELSE rejected' = TRUE /\ UNCHANGED tuning
    /\ wpc' = "applied"
    /\ UNCHANGED <<workerState, left, pending, projected, cpc, cmd, opc, refusal>>

\* command_tail is stored after the command has been applied.
ReleaseCommand ==
    /\ wpc = "applied"
    /\ pending' = Tail(pending) /\ left' = left - 1
    /\ wpc' = "drain"
    /\ UNCHANGED <<workerState, tuning, projected, cpc, cmd, opc, rejected, refusal>>

EndDrain ==
    /\ wpc = "drain" /\ left = 0
    /\ wpc' = "wait"
    /\ UNCHANGED <<workerState, left, tuning, pending, projected, cpc, cmd, opc,
                   rejected, refusal>>

Leave ==
    /\ wpc = "wait" /\ workerState = "STOPPING"
    /\ wpc' = "done"
    /\ UNCHANGED <<workerState, left, tuning, pending, projected, cpc, cmd, opc,
                   rejected, refusal>>

-----------------------------------------------------------------------------
(* The owner: start, stop, and direct tuning while stopped.                *)

\* Mutant of StartResync: start trusts the producer's projection.
StartUnchecked ==
    /\ opc = "idle" /\ workerState = "STOPPED" /\ cpc = "idle"
    /\ opc' = "resynced" /\ refusal' = "none"
    /\ UNCHANGED <<workerState, wpc, left, tuning, pending, projected, cpc, cmd, rejected>>

\* The resync of start; the control producer is not inside a call.
StartResync ==
    /\ opc = "idle" /\ workerState = "STOPPED" /\ cpc = "idle"
    /\ ResyncOk
    /\ projected' = Replay(tuning, pending)
    /\ opc' = "resynced" /\ refusal' = "none"
    /\ UNCHANGED <<workerState, wpc, left, tuning, pending, cpc, cmd, rejected>>

StartRefuse ==
    /\ opc = "idle" /\ workerState = "STOPPED" /\ cpc = "idle"
    /\ ~ResyncOk
    /\ refusal' = IF WorkerAccepts(tuning, pending) THEN "unjustified" ELSE "justified"
    /\ UNCHANGED <<workerState, wpc, left, tuning, pending, projected, cpc, cmd, opc,
                   rejected>>

StartWorker ==
    /\ opc = "resynced"
    /\ workerState' = "RUNNING" /\ wpc' = "wait" /\ opc' = "idle"
    /\ UNCHANGED <<left, tuning, pending, projected, cpc, cmd, rejected, refusal>>

StopClaim ==
    /\ opc = "idle" /\ workerState = "RUNNING"
    /\ workerState' = "STOPPING" /\ opc' = "join"
    /\ UNCHANGED <<wpc, left, tuning, pending, projected, cpc, cmd, rejected, refusal>>

StopDone ==
    /\ opc = "join" /\ wpc = "done"
    /\ workerState' = "STOPPED" /\ wpc' = "none" /\ opc' = "idle"
    /\ UNCHANGED <<left, tuning, pending, projected, cpc, cmd, rejected, refusal>>

DirectTuning(c) ==
    /\ opc = "idle" /\ workerState = "STOPPED"
    /\ Accepts(tuning, c)
    /\ tuning' = Merged(tuning, c)
    /\ UNCHANGED <<workerState, wpc, left, pending, projected, cpc, cmd, opc,
                   rejected, refusal>>

Control == PushCommand \/ \E c \in Tunings \cup {OtherCommand} : Validate(c)
Worker == BeginDrain \/ ApplyCommand \/ ReleaseCommand \/ EndDrain \/ Leave
Owner == \/ StartResync \/ StartRefuse \/ StartWorker \/ StopClaim \/ StopDone
         \/ \E c \in Tunings : DirectTuning(c)

Next == Control \/ Worker \/ Owner
Spec == Init /\ [][Next]_vars

-----------------------------------------------------------------------------
\* The ring is within its depth, and the drain within the ring.
TypeOK ==
    /\ workerState \in {"STOPPED", "RUNNING", "STOPPING"}
    /\ wpc \in {"none", "wait", "drain", "applied", "done"}
    /\ tuning \in Pairs /\ projected \in Pairs
    /\ pending \in Seq(Tunings \cup {OtherCommand}) /\ Len(pending) <= CmdDepth
    /\ left \in 0 .. Len(pending)
    /\ cpc = "push" => Len(pending) < CmdDepth
    /\ refusal \in {"none", "justified", "unjustified"}

\* audio_runtime.h: "AP_OK means the queued sequence remains valid at worker
\* hand-off".  The worker never meets a tuning it must reject, although it was
\* admitted earlier, against other commands, or before a stop and a direct
\* change of the pipeline by its owner.
HandOffValid == ~rejected

\* While a worker exists, the projection is what the pipeline will be when all
\* that was accepted has been applied, also while a command is half applied:
\* the control producer never reads the pipeline and still knows, so that its
\* verdict on a command is the one the worker will give.
ProjectionExact ==
    workerState # "STOPPED" => projected = Replay(tuning, pending)

\* A direct change can invalidate the pending sequence only while stopped, and
\* then start refuses: a running worker always faces a sequence it accepts.
RunningSequenceValid ==
    workerState # "STOPPED" /\ wpc # "applied" => WorkerAccepts(tuning, pending)

\* audio_runtime.h: "AP_ESTATE means a caller-owned direct change made that
\* pending sequence invalid".  Start refuses only what the worker would reject.
StartRefusalJustified == refusal # "unjustified"
=============================================================================
