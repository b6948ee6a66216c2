--------------------------- MODULE FlightRecorder ---------------------------
(***************************************************************************)
(* The flight recorder of ap_runtime.c: a circular buffer of frame         *)
(* records, written by the worker without a lock, that freezes post_roll   *)
(* frames after a trigger.  The worker triggers it through its own events; *)
(* a control thread may trigger it too, exports it once frozen and resets  *)
(* it for the next incident.  The control thread is assumed to reset only  *)
(* a frozen recorder, as it may export only a frozen one.                  *)
(***************************************************************************)
EXTENDS Integers, Sequences

CONSTANTS PreRoll, PostRoll,  \* pre_roll_frames, post_roll_frames
          Kinds,              \* event kinds at or above trigger_severity
          NoKind,             \* trigger_event of a recorder not triggered
          MaxFrames           \* bound: frames the worker offers to the recorder

RollAssumption ==
    /\ PreRoll \in Nat /\ PostRoll \in Nat /\ MaxFrames \in Nat
    /\ NoKind \notin Kinds

Capacity == PreRoll + PostRoll + 1
Unwritten == 0  \* content of a slot being written; frames are numbered from 1

Actors == {"worker", "control"}

VARIABLES frozen, triggered, postRemaining, triggerEvent,  \* the atomics
          head, count, slots,    \* the buffer, plain memory
          frame,                 \* the last frame offered to the recorder
          pc,                    \* where each actor is
          kind,                  \* the event an actor triggers with
          copied,                \* what an export has copied so far
          \* history, for the properties only:
          winner,                \* the event whose compare-and-swap succeeded
          armedAt,               \* the frame offered when post_remaining was set
          epochStart             \* the first frame since init or reset

atomics == <<frozen, triggered, postRemaining, triggerEvent>>
buffer == <<head, count, slots>>
history == <<winner, armedAt, epochStart>>
vars == <<atomics, buffer, frame, pc, kind, copied, history>>

Goto(a, l) == pc' = [pc EXCEPT ![a] = l]

Init ==
    /\ frozen = FALSE /\ triggered = FALSE /\ postRemaining = 0 /\ triggerEvent = NoKind
    /\ head = 0 /\ count = 0 /\ slots = [i \in 0 .. Capacity - 1 |-> Unwritten]
    /\ frame = 0
    /\ pc = [a \in Actors |-> "idle"] /\ kind = [a \in Actors |-> NoKind]
    /\ copied = <<>>
    /\ winner = NoKind /\ armedAt = 0 /\ epochStart = 1

-----------------------------------------------------------------------------
(* ap_flight_recorder_trigger, by either actor.                            *)

\* Looks at frozen first; an event below the severity has no effect at all.
TriggerCall(a, k) ==
    /\ pc[a] = "idle"
    /\ ~frozen
    /\ kind' = [kind EXCEPT ![a] = k]
    /\ Goto(a, "claim")
    /\ UNCHANGED <<atomics, buffer, frame, copied, history>>

\* Mutant of TriggerClaim: a later event takes the recorder over.
TriggerOverride(a) ==
    /\ pc[a] = "claim"
    /\ triggered' = TRUE
    /\ winner' = IF triggered THEN winner ELSE kind[a]
    /\ Goto(a, "name")
    /\ UNCHANGED <<frozen, postRemaining, triggerEvent, buffer, frame, kind,
                   copied, armedAt, epochStart>>

TriggerClaim(a) ==
    /\ pc[a] = "claim"
    /\ IF triggered
       THEN Goto(a, "idle") /\ UNCHANGED <<triggered, winner>>
       ELSE Goto(a, "name") /\ triggered' = TRUE /\ winner' = kind[a]
    /\ UNCHANGED <<frozen, postRemaining, triggerEvent, buffer, frame, kind,
                   copied, armedAt, epochStart>>

TriggerName(a) ==
    /\ pc[a] = "name"
    /\ triggerEvent' = kind[a]
    /\ Goto(a, "arm")
    /\ UNCHANGED <<frozen, triggered, postRemaining, buffer, frame, kind,
                   copied, history>>

\* Mutant of TriggerArm: the frame of the event itself is not counted.
TriggerArmShort(a) ==
    /\ pc[a] = "arm"
    /\ postRemaining' = PostRoll
    /\ armedAt' = frame
    /\ Goto(a, "idle")
    /\ UNCHANGED <<frozen, triggered, triggerEvent, buffer, frame, kind,
                   copied, winner, epochStart>>

TriggerArm(a) ==
    /\ pc[a] = "arm"
    /\ postRemaining' = PostRoll + 1
    /\ armedAt' = frame
    /\ Goto(a, "idle")
    /\ UNCHANGED <<frozen, triggered, triggerEvent, buffer, frame, kind,
                   copied, winner, epochStart>>

-----------------------------------------------------------------------------
(* ap_flight_recorder_record, by the worker, once for every frame.         *)

\* A frozen recorder takes no frame; otherwise the slot is cleared and filled.
RecordBegin ==
    /\ pc["worker"] = "idle" /\ frame < MaxFrames
    /\ frame' = frame + 1
    /\ IF frozen
       THEN UNCHANGED <<slots, pc>>
       ELSE slots' = [slots EXCEPT ![head] = Unwritten] /\ Goto("worker", "fill")
    /\ UNCHANGED <<atomics, head, count, kind, copied, history>>

\* Mutant of RecordFill: the count goes on past the capacity.
RecordFillUncapped ==
    /\ pc["worker"] = "fill"
    /\ slots' = [slots EXCEPT ![head] = frame]
    /\ head' = (head + 1) % Capacity
    /\ count' = count + 1
    /\ Goto("worker", "count")
    /\ UNCHANGED <<atomics, frame, kind, copied, history>>

RecordFill ==
    /\ pc["worker"] = "fill"
    /\ slots' = [slots EXCEPT ![head] = frame]
    /\ head' = (head + 1) % Capacity
    /\ count' = IF count < Capacity THEN count + 1 ELSE count
    /\ Goto("worker", "count")
    /\ UNCHANGED <<atomics, frame, kind, copied, history>>

\* Mutant of RecordCount: the count runs to zero before the recorder freezes.
RecordCountToZero ==
    /\ pc["worker"] = "count"
    /\ IF triggered
       THEN /\ postRemaining' = IF postRemaining > 0 THEN postRemaining - 1 ELSE 0
            /\ Goto("worker", IF postRemaining = 0 THEN "freeze" ELSE "idle")
       ELSE UNCHANGED postRemaining /\ Goto("worker", "idle")
    /\ UNCHANGED <<frozen, triggered, triggerEvent, buffer, frame, kind, copied, history>>

\* post_remaining is only counted down when it is armed: claimed but not yet
\* armed it is still zero.
RecordCount ==
    /\ pc["worker"] = "count"
    /\ IF triggered /\ postRemaining > 0
       THEN /\ postRemaining' = postRemaining - 1
            /\ Goto("worker", IF postRemaining = 1 THEN "freeze" ELSE "idle")
       ELSE UNCHANGED postRemaining /\ Goto("worker", "idle")
    /\ UNCHANGED <<frozen, triggered, triggerEvent, buffer, frame, kind, copied, history>>

RecordFreeze ==
    /\ pc["worker"] = "freeze"
    /\ frozen' = TRUE
    /\ Goto("worker", "idle")
    /\ UNCHANGED <<triggered, postRemaining, triggerEvent, buffer, frame, kind,
                   copied, history>>

-----------------------------------------------------------------------------
(* ap_flight_recorder_export and ap_flight_recorder_reset, by control.     *)

ExportBegin ==
    /\ pc["control"] = "idle" /\ frozen
    /\ copied' = <<>>
    /\ Goto("control", "copy")
    /\ UNCHANGED <<atomics, buffer, frame, kind, history>>

\* Mutant of ExportSlot: the export starts at the first slot of the array.
ExportFromZero ==
    /\ pc["control"] = "copy" /\ Len(copied) < count
    /\ copied' = Append(copied, slots[Len(copied)])
    /\ UNCHANGED <<atomics, buffer, frame, pc, kind, history>>

Oldest == (head + Capacity - count) % Capacity

ExportSlot ==
    /\ pc["control"] = "copy" /\ Len(copied) < count
    /\ copied' = Append(copied, slots[(Oldest + Len(copied)) % Capacity])
    /\ UNCHANGED <<atomics, buffer, frame, pc, kind, history>>

ExportEnd ==
    /\ pc["control"] = "copy" /\ Len(copied) = count
    /\ Goto("control", "exported")
    /\ UNCHANGED <<atomics, buffer, frame, kind, copied, history>>

\* The control thread keeps the dump, or resets the recorder.
KeepDump ==
    /\ pc["control"] = "exported"
    /\ Goto("control", "idle") /\ copied' = <<>>
    /\ UNCHANGED <<atomics, buffer, frame, kind, history>>

\* Mutant of ResetBegin: frozen is cleared together with the buffer, first.
ResetThawFirst ==
    /\ pc["control"] \in {"idle", "exported"} /\ frozen
    /\ head' = 0 /\ count' = 0
    /\ frozen' = FALSE
    /\ copied' = <<>>
    /\ Goto("control", "resetPost")
    /\ UNCHANGED <<triggered, postRemaining, triggerEvent, slots, frame, kind, history>>

ResetBegin ==
    /\ pc["control"] \in {"idle", "exported"} /\ frozen
    /\ head' = 0 /\ count' = 0
    /\ copied' = <<>>
    /\ Goto("control", "resetPost")
    /\ UNCHANGED <<atomics, slots, frame, kind, history>>

ResetTrigger ==
    /\ pc["control"] = "resetPost"
    /\ postRemaining' = 0 /\ triggerEvent' = NoKind
    /\ Goto("control", "resetTriggered")
    /\ UNCHANGED <<frozen, triggered, buffer, frame, kind, copied, history>>

\* Mutant of ResetTriggered: the old incident stays claimed.
ResetKeepsTriggered ==
    /\ pc["control"] = "resetTriggered"
    /\ winner' = NoKind
    /\ Goto("control", "thaw")
    /\ UNCHANGED <<atomics, buffer, frame, kind, copied, armedAt, epochStart>>

ResetTriggered ==
    /\ pc["control"] = "resetTriggered"
    /\ triggered' = FALSE
    /\ winner' = NoKind
    /\ Goto("control", "thaw")
    /\ UNCHANGED <<frozen, postRemaining, triggerEvent, buffer, frame, kind,
                   copied, armedAt, epochStart>>

ResetThaw ==
    /\ pc["control"] = "thaw"
    /\ frozen' = FALSE
    /\ epochStart' = frame + 1
    /\ Goto("control", "idle")
    /\ UNCHANGED <<triggered, postRemaining, triggerEvent, buffer, frame, kind,
                   copied, winner, armedAt>>

-----------------------------------------------------------------------------
Trigger(a) == TriggerClaim(a) \/ TriggerName(a) \/ TriggerArm(a)
Record == RecordBegin \/ RecordFill \/ RecordCount \/ RecordFreeze
Export == ExportBegin \/ ExportSlot \/ ExportEnd \/ KeepDump
Reset == ResetBegin \/ ResetTrigger \/ ResetTriggered \/ ResetThaw

Next ==
    \/ Record \/ Export \/ Reset
    \/ \E a \in Actors : Trigger(a) \/ \E k \in Kinds : TriggerCall(a, k)

Spec == Init /\ [][Next]_vars

-----------------------------------------------------------------------------
\* Counts and indices stay in the buffer.
TypeOK ==
    /\ frozen \in BOOLEAN /\ triggered \in BOOLEAN
    /\ postRemaining \in 0 .. PostRoll + 1 /\ triggerEvent \in Kinds \cup {NoKind}
    /\ head \in 0 .. Capacity - 1 /\ count \in 0 .. Capacity
    /\ slots \in [0 .. Capacity - 1 -> 0 .. MaxFrames]
    /\ frame \in 0 .. MaxFrames /\ Len(copied) <= Capacity

Resetting == pc["control"] \in {"resetPost", "resetTriggered", "thaw"}

\* The records in the buffer, oldest first.
Dump == [i \in 1 .. count |-> slots[(Oldest + i - 1) % Capacity]]

\* A frozen dump is one unbroken stretch of frames of this epoch, none of them
\* half written; it ends exactly post_roll frames after the one in which the
\* trigger was armed, and is as long as the buffer or the epoch allows, so the
\* pre-roll is there.
FrozenDumpCoherent ==
    frozen /\ ~Resetting =>
        LET recorded == Dump[count] - epochStart + 1
        IN  /\ Dump[count] \in {armedAt + PostRoll, armedAt + PostRoll + 1}
            /\ count = IF recorded < Capacity THEN recorded ELSE Capacity
            /\ \A i \in 1 .. count : Dump[i] = Dump[count] - count + i

\* The dump names the event that claimed the recorder first, although other
\* events of the worker and of the control thread race with it.
FirstTriggerNamed == frozen /\ ~Resetting => triggerEvent = winner /\ winner \in Kinds

\* The worker never touches the buffer while control exports or resets it:
\* the one shared plain-memory region has one owner at every moment.
BufferExclusive ==
    pc["control"] \in {"copy", "exported"} \/ Resetting =>
        pc["worker"] \notin {"fill", "count", "freeze"}

\* So what an export returns is the frozen dump.
ExportFaithful == pc["control"] = "exported" => copied = Dump

\* A recorder that an event has claimed is on its way to freezing: a reset
\* never leaves it claimed by an incident of the past, deaf to every new one.
Arming == \E a \in Actors : pc[a] \in {"name", "arm"}
NeverStuck ==
    triggered /\ ~frozen /\ ~Arming =>
        postRemaining > 0 \/ pc["worker"] = "freeze"

\* No incident is lost: once a trigger is armed the recorder takes at most
\* post_roll + 1 further frames before it is frozen.
FreezesInTime == triggerEvent # NoKind /\ ~Arming /\ ~frozen /\ ~Resetting => frame <= armedAt + PostRoll + 1
=============================================================================
