----------------------------- MODULE EventPlane -----------------------------
(***************************************************************************)
(* The three ways out of runtime_emit_event: the critical-event latch, the *)
(* trigger of the flight recorder and the lossy event ring.  The worker    *)
(* emits; one control thread takes events from the ring                    *)
(* (ap_runtime_receive_event) and any thread reads the latch               *)
(* (ap_runtime_get_critical_state).                                        *)
(*                                                                         *)
(* Events are numbered in the order they are emitted.  The fields of the   *)
(* latch are of two kinds, the frame and what happened in it; between the  *)
(* fences each is stored and loaded in any order.  The sequence number of  *)
(* the latch does not come round here: Counter64 is about that.            *)
(***************************************************************************)
EXTENDS Integers, Sequences, FiniteSets

CONSTANTS EventDepth,  \* AP_RUNTIME_EVENT_QUEUE_DEPTH
          Severities,  \* of the events: 1 INFO, 2 WARN, 3 ERROR, 4 FATAL
          TriggerSeverity, \* of the attached recorder's configuration
          CriticalMax, \* UINT32_MAX, where critical_events saturates
          MaxEvents    \* bound: events emitted

BoundAssumption ==
    /\ Severities \subseteq 1 .. 4 /\ TriggerSeverity \in 1 .. 4
    /\ EventDepth \in Nat \ {0} /\ CriticalMax \in Nat \ {0} /\ MaxEvents \in Nat

VARIABLES eventHead, eventTail, events,  \* the ring
          criticalEvents,                \* critical_events
          criticalSeq, critical,         \* the latch
          triggered,                     \* the event the recorder was triggered by, or 0
          dropped,                       \* event_drop_events
          emitted,                       \* events emitted; the last is at work while wpc # "idle"
          severe, loud,                  \* events at or above ERROR, at or above TriggerSeverity
          wpc, tailSeen, stores,         \* worker, inside runtime_emit_event
          epc, received,                 \* the consumer of the ring and what it got
          rpc, seq0, got, loads,         \* reader of the latch
          snapshot, total,               \* what its last call returned
          latchedThen                    \* history: the latched event when it loaded seq0

ringVars == <<eventHead, eventTail, events, dropped>>
latchVars == <<criticalEvents, criticalSeq, critical>>
emitVars == <<emitted, severe, loud, wpc, tailSeen, stores>>
consumerVars == <<epc, received>>
readerVars == <<rpc, seq0, got, loads, snapshot, total, latchedThen>>
vars == <<ringVars, latchVars, triggered, emitVars, consumerVars, readerVars>>

Fields == {"frame", "what"}
Same(n) == [f \in Fields |-> n]
AP_EVENT_ERROR == 3

\* The last event whose latching is complete, 0 when there is none.
Latched ==
    LET done == {n \in severe : n < emitted \/ wpc \notin {"latch", "store"}}
    IN  IF done = {} THEN 0 ELSE CHOOSE n \in done : \A m \in done : m <= n

Init ==
    /\ eventHead = 0 /\ eventTail = 0 /\ events = [i \in 0 .. EventDepth - 1 |-> 0]
    /\ dropped = 0 /\ triggered = 0
    /\ criticalEvents = 0 /\ criticalSeq = 0 /\ critical = Same(0)
    /\ emitted = 0 /\ severe = {} /\ loud = {} /\ wpc = "idle" /\ tailSeen = 0 /\ stores = {}
    /\ epc = "idle" /\ received = <<>>
    /\ rpc = "idle" /\ seq0 = 0 /\ got = Same(0) /\ loads = {}
    /\ snapshot = Same(0) /\ total = 0 /\ latchedThen = 0

-----------------------------------------------------------------------------
(* runtime_emit_event, with runtime_latch_critical.                        *)

\* Head and tail are loaded before anything else is done.
EmitBegin(severity) ==
    /\ wpc = "idle" /\ emitted < MaxEvents
    /\ emitted' = emitted + 1
    /\ severe' = IF severity >= AP_EVENT_ERROR THEN severe \cup {emitted + 1} ELSE severe
    /\ loud' = IF severity >= TriggerSeverity THEN loud \cup {emitted + 1} ELSE loud
    /\ tailSeen' = eventTail
    /\ wpc' = IF severity >= AP_EVENT_ERROR THEN "latch" ELSE "trigger"
    /\ UNCHANGED <<ringVars, latchVars, triggered, stores, consumerVars, readerVars>>

\* Mutant of LatchBegin: a count that wraps to zero.
LatchWraps ==
    /\ wpc = "latch"
    /\ criticalEvents' = (criticalEvents + 1) % (CriticalMax + 1)
    /\ criticalSeq' = criticalSeq + 1
    /\ stores' = Fields /\ wpc' = "store"
    /\ UNCHANGED <<ringVars, critical, triggered, emitted, severe, loud, tailSeen,
                   consumerVars, readerVars>>

\* The saturating count, then the odd mark.
LatchBegin ==
    /\ wpc = "latch"
    /\ criticalEvents' = IF criticalEvents < CriticalMax THEN criticalEvents + 1
                         ELSE criticalEvents
    /\ criticalSeq' = criticalSeq + 1
    /\ stores' = Fields /\ wpc' = "store"
    /\ UNCHANGED <<ringVars, critical, triggered, emitted, severe, loud, tailSeen,
                   consumerVars, readerVars>>

LatchField(f) ==
    /\ wpc = "store" /\ f \in stores
    /\ stores' = stores \ {f}
    /\ critical' = [critical EXCEPT ![f] = emitted]
    /\ UNCHANGED <<ringVars, criticalEvents, criticalSeq, triggered, emitted, severe, loud,
                   wpc, tailSeen, consumerVars, readerVars>>

LatchEnd ==
    /\ wpc = "store" /\ stores = {}
    /\ criticalSeq' = criticalSeq + 1
    /\ wpc' = "trigger"
    /\ UNCHANGED <<ringVars, criticalEvents, critical, triggered, emitted, severe, loud,
                   tailSeen, stores, consumerVars, readerVars>>

\* Mutant of TriggerRecorder: an event the full ring loses triggers nothing.
TriggerIfQueued ==
    /\ wpc = "trigger"
    /\ triggered' = IF triggered = 0 /\ emitted \in loud /\ eventHead - tailSeen < EventDepth
                    THEN emitted ELSE triggered
    /\ wpc' = "ring"
    /\ UNCHANGED <<ringVars, latchVars, emitted, severe, loud, tailSeen, stores,
                   consumerVars, readerVars>>

\* ap_flight_recorder_trigger: the first event loud enough wins (FlightRecorder).
TriggerRecorder ==
    /\ wpc = "trigger"
    /\ triggered' = IF triggered = 0 /\ emitted \in loud THEN emitted ELSE triggered
    /\ wpc' = "ring"
    /\ UNCHANGED <<ringVars, latchVars, emitted, severe, loud, tailSeen, stores,
                   consumerVars, readerVars>>

\* Full as the ring looked at the start of the call: the event is lost.
DropEvent ==
    /\ wpc = "ring" /\ eventHead - tailSeen >= EventDepth
    /\ dropped' = dropped + 1
    /\ wpc' = "idle"
    /\ UNCHANGED <<eventHead, eventTail, events, latchVars, triggered, emitted, severe, loud,
                   tailSeen, stores, consumerVars, readerVars>>

FillEvent ==
    /\ wpc = "ring" /\ eventHead - tailSeen < EventDepth
    /\ events' = [events EXCEPT ![eventHead % EventDepth] = emitted]
    /\ wpc' = "publish"
    /\ UNCHANGED <<eventHead, eventTail, dropped, latchVars, triggered, emitted, severe, loud,
                   tailSeen, stores, consumerVars, readerVars>>

PublishEvent ==
    /\ wpc = "publish"
    /\ eventHead' = eventHead + 1
    /\ wpc' = "idle"
    /\ UNCHANGED <<eventTail, events, dropped, latchVars, triggered, emitted, severe, loud,
                   tailSeen, stores, consumerVars, readerVars>>

-----------------------------------------------------------------------------
(* ap_runtime_receive_event.                                               *)

\* Mutant of TakeEvent: the slot is given back before it is copied.
TakeReleased ==
    /\ epc = "idle" /\ eventTail < eventHead
    /\ eventTail' = eventTail + 1
    /\ epc' = "copy"
    /\ UNCHANGED <<eventHead, events, dropped, latchVars, triggered, emitVars, received,
                   readerVars>>

\* An empty ring answers AP_EEMPTY.
TakeEvent ==
    /\ epc = "idle" /\ eventTail < eventHead
    /\ epc' = "copy"
    /\ UNCHANGED <<ringVars, latchVars, triggered, emitVars, received, readerVars>>

CopyEvent ==
    /\ epc = "copy"
    /\ received' = Append(received, events[Len(received) % EventDepth])
    /\ epc' = "release"
    /\ UNCHANGED <<ringVars, latchVars, triggered, emitVars, readerVars>>

ReleaseEvent ==
    /\ epc = "release"
    /\ eventTail' = Len(received)
    /\ epc' = "idle"
    /\ UNCHANGED <<eventHead, events, dropped, latchVars, triggered, emitVars, received,
                   readerVars>>

-----------------------------------------------------------------------------
(* ap_runtime_get_critical_state.                                          *)

readerFrame == UNCHANGED <<ringVars, latchVars, triggered, emitVars, consumerVars>>

\* An odd sequence number is loaded again.
ReadBegin ==
    /\ rpc = "idle" /\ criticalSeq % 2 = 0
    /\ seq0' = criticalSeq /\ loads' = Fields /\ latchedThen' = Latched
    /\ rpc' = "load"
    /\ UNCHANGED <<got, snapshot, total>> /\ readerFrame

LoadField(f) ==
    /\ rpc = "load" /\ f \in loads
    /\ loads' = loads \ {f}
    /\ got' = [got EXCEPT ![f] = critical[f]]
    /\ UNCHANGED <<rpc, seq0, snapshot, total, latchedThen>> /\ readerFrame

\* The sequence number moved: all of it again.
ReadRetry ==
    /\ rpc = "load" /\ loads = {} /\ criticalSeq # seq0
    /\ rpc' = "idle"
    /\ UNCHANGED <<seq0, got, loads, snapshot, total, latchedThen>> /\ readerFrame

ReadEnd ==
    /\ rpc = "load" /\ loads = {} /\ criticalSeq = seq0
    /\ rpc' = "total"
    /\ UNCHANGED <<seq0, got, loads, snapshot, total, latchedThen>> /\ readerFrame

\* total_events is sampled after the fields, on its own.
ReadTotal ==
    /\ rpc = "total"
    /\ snapshot' = got /\ total' = criticalEvents
    /\ rpc' = "idle"
    /\ UNCHANGED <<seq0, got, loads, latchedThen>> /\ readerFrame

-----------------------------------------------------------------------------
Emit == \/ \E s \in Severities : EmitBegin(s)
        \/ \E f \in Fields : LatchField(f)
        \/ LatchBegin \/ LatchEnd \/ TriggerRecorder
        \/ DropEvent \/ FillEvent \/ PublishEvent
Consume == TakeEvent \/ CopyEvent \/ ReleaseEvent
Read == ReadBegin \/ ReadRetry \/ ReadEnd \/ ReadTotal \/ \E f \in Fields : LoadField(f)

Next == Emit \/ Consume \/ Read

Spec == Init /\ [][Next]_vars

-----------------------------------------------------------------------------
\* Type invariant: the ring indices are in order and the count is a 32-bit word.
TypeOK ==
    /\ eventHead \in 0 .. MaxEvents /\ eventTail \in 0 .. eventHead
    /\ events \in [0 .. EventDepth - 1 -> 0 .. MaxEvents]
    /\ criticalEvents \in 0 .. CriticalMax /\ criticalSeq \in 0 .. 2 * MaxEvents
    /\ critical \in [Fields -> 0 .. MaxEvents] /\ got \in [Fields -> 0 .. MaxEvents]
    /\ snapshot \in [Fields -> 0 .. MaxEvents] /\ total \in 0 .. CriticalMax
    /\ triggered \in 0 .. emitted /\ dropped \in 0 .. emitted
    /\ severe \cup loud \subseteq 1 .. emitted /\ stores \subseteq Fields /\ loads \subseteq Fields

\* API_CONTRACT.md: "event_drop_events is authoritative for notification loss".
\* What the consumer receives is in order and whole, and the events it is not
\* given are, at every pause of the worker, exactly as many as were counted.
LossAccounted ==
    /\ \A i \in 1 .. Len(received) - 1 : received[i] < received[i + 1]
    /\ \A i \in 1 .. Len(received) : received[i] - i \in 0 .. dropped
    /\ wpc = "idle" => emitted = eventHead + dropped

\* DIAGNOSTICS.md: latch and recorder are independent of event delivery.  The
\* latch holds the last event at or above ERROR and the recorder was triggered
\* by the first at or above its own threshold, whether or not the ring had room.
SevereNeverLost ==
    wpc \in {"idle", "ring", "publish"} =>
        /\ critical = Same(Latched)
        /\ loud # {} => triggered \in loud /\ \A n \in loud : triggered <= n

\* API_CONTRACT.md: get_critical_state "returns fields from one completed
\* event", and one at least as recent as the one latched when the read began;
\* total_events, though sampled separately, never falls behind the snapshot it
\* is returned with: it counts that event and every one before it.
SnapshotCoherent ==
    rpc = "total" => got = Same(latchedThen) /\ latchedThen \in severe \cup {0}
TotalCoversSnapshot ==
    total = CriticalMax \/ total >= Cardinality({n \in severe : n <= snapshot["frame"]})
CriticalStateCoherent == SnapshotCoherent /\ TotalCoversSnapshot
=============================================================================
