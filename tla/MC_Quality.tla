------------------------------ MODULE MC_Quality ------------------------------
(***************************************************************************)
(* What adapts to load and to the room, in one run: the overload           *)
(* controller, the route health of the beamformer and the tracking of the  *)
(* delay.  The components share nothing: a behaviour is one of a single    *)
(* component, chosen at the start.                                         *)
(***************************************************************************)
EXTENDS OverloadQuality, Sequences

CONSTANTS TrackingBuilt, MaxDelay, InitialDelay, Delays, JumpLimit, Tolerance, MaxSlew, SearchPeriod,
          RenderNeeded, RolloverAt

VARIABLES which,   \* the component this behaviour is of
          routeQuality, active, hard, trusted, armed, recovering, tick, phase, mode, against, blames,
          clears, delay, rendered, captured, counter, candidate, confirmed, basis, basisAt, event,
          integrated, owed, epochs, evidence, age, heard

Route == INSTANCE BeamformerHealth WITH quality <- routeQuality
Delay == INSTANCE SyncDelay

overloadVars == <<quality, overloadStreak, healthyStreak, last, auto, alike>>
routeVars == <<routeQuality, active, hard, trusted, armed, recovering, tick, phase, mode, against, blames,
               clears>>
delayVars == <<delay, rendered, captured, counter, candidate, confirmed, basis, basisAt, event, integrated,
               owed, epochs, evidence, age, heard>>

sumVars == <<which, overloadVars, routeVars, delayVars>>

\* A component that is not the chosen one stays as it is.
SumInit ==
    /\ which \in {"overload", "route", "delay"}
    /\ Init
    /\ Route!Init
    /\ Delay!Init

SumNext ==
    \/ which = "overload" /\ Next /\ UNCHANGED <<which, routeVars, delayVars>>
    \/ which = "route" /\ Route!Next /\ UNCHANGED <<which, overloadVars, delayVars>>
    \/ which = "delay" /\ Delay!Next /\ UNCHANGED <<which, overloadVars, routeVars>>

SumSpec ==
    /\ SumInit /\ [][SumNext]_sumVars
    /\ WF_overloadVars(which = "overload" /\ (OverFrame \/ HealthyFrame))
    /\ WF_delayVars(which = "delay" /\ Delay!PushRender)
    /\ WF_delayVars(which = "delay" /\ \E newRate, drift \in BOOLEAN : Delay!Track(newRate, TRUE, drift))

ASSUME BuildAndSync == Route!BuildAssumption /\ Delay!SyncAssumption

\* A hard route is taken after two contaminated observations in a row that blame the other channel,
\* kept until eight recovered ones in a row, whatever mode changes come between, and the fixed
\* direction has authority only over a hard route (ap_beamformer_update_fallback).
RouteEarnedAndKept ==
    /\ Route!HardRouteEarned /\ Route!HardRouteKept
    /\ [](which = "route" => Route!FixedRouteAuthority)
\* The delay never leaves the envelope the reference ring was sized for; it jumps only after three
\* agreeing searches with nothing between them; drift is integrated over exactly the samples captured
\* since the last usable lag (ap_pipeline_process_capture, ap_pipeline_observe_io_timestamps).
DelayTrusted == which = "delay" => Delay!TypeOK /\ Delay!RouteJumpEarned /\ Delay!DriftTimeExact
\* Both come to rest: a controller that keeps missing, or keeps being healthy, ends at its last mode;
\* with one peak heard for ever and no drift compensation the delay ends up at the peak, or less than
\* the eight samples under it that the integer division cannot close.
AdaptationSettles == QualitySettles /\ (which = "delay" => Delay!TrackingConverges)
=============================================================================
