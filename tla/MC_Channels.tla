----------------------------- MODULE MC_Channels -----------------------------
(***************************************************************************)
(* What the worker shares with its callers, in one run: the ring every     *)
(* queue is made of, the admission of tuning commands that wait in one,    *)
(* the faults and convergences the worker announces, the 64-bit counters   *)
(* it is read through, the flight recorder, and the event plane with its   *)
(* critical latch.  The components share nothing: a behaviour is one of a  *)
(* single component, chosen at the start.                                  *)
(***************************************************************************)
EXTENDS SpscRing, PipelineEpoch, Counter64, Sequences, FiniteSets

CONSTANTS CmdDepth, Levels, TargetLevels, LimiterLevels, HasAgc, PreRoll, PostRoll, Kinds, NoKind,
          MaxFrames, EventDepth, Severities, TriggerSeverity, CriticalMax, MaxEvents

VARIABLES which,   \* the component this behaviour is of
          workerState, wpc, left, tuning, pending, projected, tuningCpc, cmd, opc, rejected, refusal,
          frozen, triggered, postRemaining, triggerEvent, recorderHead, count, recorderSlots, frame, pc,
          kind, copied, winner, armedAt, epochStart, eventHead, eventTail, events, criticalEvents,
          criticalSeq, critical, eventTriggered, dropped, emitted, severe, loud, eventWpc, tailSeen,
          eventStores, epc, received, rpc, eventSeq0, got, eventLoads, snapshot, total, latchedThen

Admission == INSTANCE TuningProjection WITH cpc <- tuningCpc
Recorder == INSTANCE FlightRecorder WITH head <- recorderHead, slots <- recorderSlots
Events == INSTANCE EventPlane WITH triggered <- eventTriggered, wpc <- eventWpc, stores <- eventStores, seq0 <- eventSeq0, loads <-
        eventLoads

ringVars == <<head, tail, slots, ppc, ptail, pval, cpc, chead, cval, delivered>>
tuningVars == <<workerState, wpc, left, tuning, pending, projected, tuningCpc, cmd, opc, rejected, refusal>>
ownVars == <<seq, lo, hi, adding, stores, newLo, newHi, reading, loads, seq0, gotLo, gotHi, result, value,
             valueThen, answered, moves>>
recorderVars == <<frozen, triggered, postRemaining, triggerEvent, recorderHead, count, recorderSlots, frame, pc,
                  kind, copied, winner, armedAt, epochStart>>
eventsVars == <<eventHead, eventTail, events, criticalEvents, criticalSeq, critical, eventTriggered, dropped,
                emitted, severe, loud, eventWpc, tailSeen, eventStores, epc, received, rpc, eventSeq0, got,
                eventLoads, snapshot, total, latchedThen>>

sumVars == <<which, ringVars, tuningVars, epochVars, ownVars, recorderVars, eventsVars>>

\* A component that is not the chosen one stays as it is.
SumInit ==
    /\ which \in {"ring", "tuning", "epoch", "counter", "recorder", "events"}
    /\ Init
    /\ Admission!Init /\ (which # "tuning" => tuning = CHOOSE p \in Admission!Pairs : HasAgc => Admission!PairOk(p))
    /\ EpochInit
    /\ CounterInit
    /\ Recorder!Init
    /\ Events!Init

SumNext ==
    \/ which = "ring" /\ Next /\ UNCHANGED <<which, tuningVars, epochVars, ownVars, recorderVars, eventsVars>>
    \/ which = "tuning" /\ Admission!Next /\ UNCHANGED <<which, ringVars, epochVars, ownVars, recorderVars, eventsVars>>
    \/ which = "epoch" /\ EpochNext /\ UNCHANGED <<which, ringVars, tuningVars, ownVars, recorderVars, eventsVars>>
    \/ which = "counter" /\ CounterNext /\ UNCHANGED <<which, ringVars, tuningVars, epochVars, recorderVars, eventsVars>>
    \/ which = "recorder" /\ Recorder!Next /\ UNCHANGED <<which, ringVars, tuningVars, epochVars, ownVars, eventsVars>>
    \/ which = "events" /\ Events!Next /\ UNCHANGED <<which, ringVars, tuningVars, epochVars, ownVars, recorderVars>>

SumSpec == SumInit /\ [][SumNext]_sumVars

ASSUME ChannelAssumption == Admission!LevelAssumption /\ Recorder!RollAssumption /\ Events!BoundAssumption

\* audio_runtime.h: "AP_OK means the queued sequence remains valid at worker hand-off".  The worker
\* never meets a tuning it must reject, although it was admitted earlier, against other commands, or
\* before a stop and a direct change by the owner: while a worker exists the projection is what the
\* pipeline will be when all that was accepted has been applied, and the sequence is one it accepts.
\* "AP_ESTATE means a caller-owned direct change made that pending sequence invalid": start refuses
\* only what the worker would reject.
AdmissionSound ==
    which = "tuning" => Admission!TypeOK /\ Admission!HandOffValid
                        /\ Admission!ProjectionExact /\ Admission!RunningSequenceValid
                        /\ Admission!StartRefusalJustified
\* A frozen dump is one unbroken stretch of whole frames that ends post_roll frames after the first
\* trigger armed, and names it, while triggers, records, exports and resets race; what an export
\* returns is that dump.
DumpFaithful ==
    which = "recorder" => /\ Recorder!TypeOK /\ Recorder!FrozenDumpCoherent /\ Recorder!FirstTriggerNamed
                          /\ Recorder!BufferExclusive /\ Recorder!ExportFaithful
\* No incident is lost: an armed recorder freezes within post_roll + 1 frames, and a reset never
\* leaves one claimed by an incident of the past.
FreezesInTime == which = "recorder" => Recorder!NeverStuck /\ Recorder!FreezesInTime
\* "event_drop_events is authoritative for notification loss" (API_CONTRACT.md): what the consumer
\* gets is in order, and what it is not given is counted; severe events reach latch and recorder
\* whether or not the ring had room; a snapshot of the latch is of one event.
EventsAccounted ==
    which = "events" => /\ Events!TypeOK /\ Events!LossAccounted /\ Events!SevereNeverLost
                        /\ Events!CriticalStateCoherent
=============================================================================
