----------------------------- MODULE BoundedFifo -----------------------------
(***************************************************************************)
(* What each of the four runtime rings (input, output, command, event)     *)
(* promises its single producer and its single consumer: a first-in        *)
(* first-out queue that holds at most Capacity items, never loses or       *)
(* invents one, and hands each item over intact.  SpscRing implements it.  *)
(***************************************************************************)
EXTENDS Naturals, Sequences

CONSTANTS Capacity,   \* the number of slots of the ring
          Items       \* the frames, commands or events that travel through it

VARIABLES queue,      \* accepted and not yet consumed, oldest first
          delivered   \* what the last consume returned: <<>> or <<item>>

fifoVars == <<queue, delivered>>

FifoInit == queue = <<>> /\ delivered = <<>>

Accept(i) ==
    /\ Len(queue) < Capacity
    /\ queue' = Append(queue, i)
    /\ UNCHANGED delivered

Consume ==
    /\ queue # <<>>
    /\ delivered' = <<Head(queue)>>
    /\ queue' = Tail(queue)

FifoNext == Consume \/ \E i \in Items : Accept(i)

FifoSpec == FifoInit /\ [][FifoNext]_fifoVars
=============================================================================
