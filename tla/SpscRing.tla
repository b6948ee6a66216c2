------------------------------ MODULE SpscRing ------------------------------
(***************************************************************************)
(* The single-producer single-consumer ring that ap_runtime.c uses four    *)
(* times: for input frames (submit_frame -> worker), output frames (worker *)
(* -> receive), commands (command -> worker) and events (emit_event ->     *)
(* receive_event).  head and tail are free-running 32-bit counters; a slot *)
(* is an index masked with the power-of-two depth; the ring is full when   *)
(* head - tail, computed modulo 2^32, reaches the depth.                   *)
(*                                                                         *)
(* Each side loads the other side's index once, at the start of a call,    *)
(* and works on with that copy, which may be stale by the time it is used. *)
(* Copying a slot is not atomic: a slot under construction holds Torn, and *)
(* a copy that was overtaken by a writer is delivered as Torn.             *)
(***************************************************************************)
EXTENDS Integers, Sequences

CONSTANTS Depth,      \* AP_RT_DEPTH, or the depth of the command or event ring
          IndexSpan,  \* number of values of an index: 2^32 in the code
          Values,     \* what may be put into a slot
          Torn        \* content of a slot while it is being written

ASSUME DepthAssumption ==
    /\ Depth \in Nat \ {0}
    /\ IndexSpan \in Nat
    /\ Depth < IndexSpan
    /\ IndexSpan % Depth = 0
ASSUME TornAssumption == Torn \notin Values

VARIABLES head,       \* next index to publish, stored by the producer only
          tail,       \* next index to consume, stored by the consumer only
          slots,      \* the shared array
          ppc,        \* producer: "idle", "loaded" its copy of tail, "writing"
          ptail,      \* the producer's copy of tail
          pval,       \* the value the producer was called with
          cpc,        \* consumer: "idle", "loaded" its copy of head, "reading"
          chead,      \* the consumer's copy of head
          cval,       \* what the consumer saw when it began to copy the slot
          delivered   \* result of the last successful receive: <<>> or <<value>>

producerVars == <<head, ppc, ptail, pval>>
consumerVars == <<tail, cpc, chead, cval, delivered>>
vars == <<head, tail, slots, ppc, ptail, pval, cpc, chead, cval, delivered>>

Index == 0 .. IndexSpan - 1

\* Unsigned increment and unsigned difference of two free-running indices.
Succ(i) == IF i = IndexSpan - 1 THEN 0 ELSE i + 1
Dist(h, t) == IF h >= t THEN h - t ELSE h - t + IndexSpan

\* The index k places after i, and index & MASK for a power-of-two depth.
Plus(i, k) == IF i + k < IndexSpan THEN i + k ELSE i + k - IndexSpan
Slot(i) == i % Depth

\* Mutant of RingFull: one slot too many.
RingOverfull(h, t) == Dist(h, t) > Depth

RingFull(h, t) == Dist(h, t) >= Depth

-----------------------------------------------------------------------------
Init ==
    /\ head = 0 /\ tail = 0
    /\ slots \in [0 .. Depth - 1 -> {Torn}]
    /\ ppc = "idle" /\ ptail = 0 /\ pval = Torn
    /\ cpc = "idle" /\ chead = 0 /\ cval = Torn
    /\ delivered = <<>>

\* The producer is called with v and loads tail (acquire).
LoadTail(v) ==
    /\ ppc = "idle"
    /\ ppc' = "loaded" /\ ptail' = tail /\ pval' = v
    /\ UNCHANGED <<head, slots, consumerVars>>

\* AP_EFULL: nothing but the caller's counters changes.
Refuse ==
    /\ ppc = "loaded" /\ RingFull(head, ptail)
    /\ ppc' = "idle"
    /\ UNCHANGED <<head, ptail, pval, slots, consumerVars>>

\* The producer starts to fill the slot of the unpublished index.
BeginWrite ==
    /\ ppc = "loaded" /\ ~RingFull(head, ptail)
    /\ ppc' = "writing"
    /\ slots' = [slots EXCEPT ![Slot(head)] = Torn]
    /\ UNCHANGED <<head, ptail, pval, consumerVars>>

\* Mutant of Publish: head is stored before the slot is filled.
PublishEarly ==
    /\ ppc = "writing"
    /\ head' = Succ(head)
    /\ ppc' = "idle"
    /\ UNCHANGED <<slots, ptail, pval, consumerVars>>

\* The slot is complete; the release store of head publishes it.
Publish ==
    /\ ppc = "writing"
    /\ slots' = [slots EXCEPT ![Slot(head)] = pval]
    /\ head' = Succ(head)
    /\ ppc' = "idle"
    /\ UNCHANGED <<ptail, pval, consumerVars>>

\* The consumer is called and loads head (acquire).
LoadHead ==
    /\ cpc = "idle"
    /\ cpc' = "loaded" /\ chead' = head
    /\ UNCHANGED <<producerVars, tail, cval, delivered, slots>>

\* AP_EEMPTY, or the worker going back to sleep.
Empty ==
    /\ cpc = "loaded" /\ tail = chead
    /\ cpc' = "idle"
    /\ UNCHANGED <<producerVars, tail, chead, cval, delivered, slots>>

BeginRead ==
    /\ cpc = "loaded" /\ tail # chead
    /\ cpc' = "reading" /\ cval' = slots[Slot(tail)]
    /\ UNCHANGED <<producerVars, tail, chead, delivered, slots>>

\* Mutant of Release: the newest item instead of the oldest.
ReleaseNewest ==
    /\ cpc = "reading"
    /\ delivered' = <<slots[Slot(Plus(tail, Dist(chead, tail) - 1))]>>
    /\ tail' = Succ(tail)
    /\ cpc' = "idle"
    /\ UNCHANGED <<producerVars, chead, cval, slots>>

\* The copy is complete; the release store of tail returns the slot.
Release ==
    /\ cpc = "reading"
    /\ delivered' = <<IF slots[Slot(tail)] = cval THEN cval ELSE Torn>>
    /\ tail' = Succ(tail)
    /\ cpc' = "idle"
    /\ UNCHANGED <<producerVars, chead, cval, slots>>

Producer == Refuse \/ BeginWrite \/ Publish \/ \E v \in Values : LoadTail(v)
Consumer == LoadHead \/ Empty \/ BeginRead \/ Release

Next == Producer \/ Consumer

Spec == Init /\ [][Next]_vars

-----------------------------------------------------------------------------
\* Indices are 32-bit, copies are indices, slots hold values or are torn.
TypeOK ==
    /\ head \in Index /\ tail \in Index
    /\ slots \in [0 .. Depth - 1 -> Values \cup {Torn}]
    /\ ppc \in {"idle", "loaded", "writing"}
    /\ ptail \in Index /\ pval \in Values \cup {Torn}
    /\ ppc # "idle" => pval \in Values
    /\ cpc \in {"idle", "loaded", "reading"}
    /\ chead \in Index /\ cval \in Values \cup {Torn}
    /\ delivered \in {<<>>} \cup {<<v>> : v \in Values \cup {Torn}}

\* The items published and not yet released, oldest first.
Queue == [k \in 1 .. Dist(head, tail) |-> slots[Slot(Plus(tail, k - 1))]]

\* No data race on a slot: while the consumer copies one slot the producer is
\* never writing the same one, however stale either side's copy of the other
\* index is and wherever the 32-bit indices have wrapped.
SlotExclusive ==
    ppc = "writing" /\ cpc = "reading" => Slot(head) # Slot(tail)

\* No receive returns a slot that was half written or overwritten in flight.
NothingTorn == delivered # <<Torn>>

\* The inductive strengthening of the two properties above.
\* A stale copy of tail can only make the ring look fuller than it is, ...
StaleTail == ppc = "loaded" => Dist(head, tail) <= Dist(head, ptail)
\* ... so that a slot being written is not one of the published ones, ...
RoomToWrite ==
    /\ Dist(head, tail) <= Depth
    /\ ppc = "writing" => Dist(head, tail) < Depth
\* ... and a stale copy of head can only make it look emptier.
StaleHead ==
    /\ cpc = "loaded" /\ chead # tail => head # tail
    /\ cpc = "reading" => head # tail
\* Every published slot is whole, and the one being read has not changed.
PublishedWhole ==
    /\ \A k \in 0 .. Depth - 1 :
          k < Dist(head, tail) => slots[Slot(Plus(tail, k))] \in Values
    /\ cpc = "reading" => cval = slots[Slot(tail)]


\* Together they are inductive: what each side believes about the other's index
\* errs on the safe side only, and the published slots are whole.
RingInv ==
    /\ TypeOK
    /\ StaleTail /\ RoomToWrite /\ StaleHead /\ PublishedWhole
    /\ NothingTorn

Fifo == INSTANCE BoundedFifo WITH
            Capacity <- Depth, Items <- Values, queue <- Queue
\* The ring implements the bounded queue: publishing is Accept, releasing is
\* Consume, every other step leaves the queue as it is.
FifoRefined == Fifo!FifoSpec
=============================================================================
