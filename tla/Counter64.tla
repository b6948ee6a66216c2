----------------------------- MODULE Counter64 -----------------------------
(***************************************************************************)
(* The split 64-bit counter of ap_runtime.c: counter64_add by the one      *)
(* thread that owns the counter, counter64_read by any diagnostics thread. *)
(* Two 32-bit halves are guarded by a sequence number that is odd while an *)
(* add is under way.  Between the fences the two stores of an add may      *)
(* become visible in either order, and the two loads of a read may be made *)
(* in either order.                                                        *)
(***************************************************************************)
EXTENDS Integers

CONSTANTS WordSpan,  \* number of values of a half: 2^32
          SeqSpan,   \* number of values of seq: 2^32
          Deltas     \* what may be added at a time

ASSUME SpanAssumption ==
    /\ WordSpan \in Nat \ {0}
    /\ SeqSpan \in Nat /\ SeqSpan % 2 = 0 /\ 2 < SeqSpan
    /\ Deltas \subseteq 0 .. WordSpan * WordSpan - 1

VARIABLES seq, lo, hi,         \* the counter
          adding,              \* an add is between its two increments of seq
          stores,              \* the halves it has still to store
          newLo, newHi,        \* what it stores
          reading,             \* a read is between its two loads of seq
          loads,               \* the halves it has still to load
          seq0, gotLo, gotHi,  \* what it has loaded
          result,              \* of the last read that returned
          \* history, for the properties only:
          value,               \* the count after the last complete add
          valueThen,           \* its value when seq0 was loaded
          answered,            \* the reader's last step returned a result
          moves                \* increments of seq since seq0 was loaded

writerVars == <<seq, lo, hi, adding, stores, newLo, newHi, value>>
readerVars == <<reading, loads, seq0, gotLo, gotHi, result, valueThen, answered>>
counterVars == <<writerVars, readerVars, moves>>

Halves == {"lo", "hi"}
Word == 0 .. WordSpan - 1
Long == 0 .. WordSpan * WordSpan - 1

SeqSucc(s) == IF s = SeqSpan - 1 THEN 0 ELSE s + 1
Joined(h, l) == h * WordSpan + l

CounterInit ==
    /\ seq = 0 /\ lo = 0 /\ hi = 0
    /\ adding = FALSE /\ stores = {} /\ newLo = 0 /\ newHi = 0
    /\ reading = FALSE /\ loads = {} /\ seq0 = 0 /\ gotLo = 0 /\ gotHi = 0
    /\ result = 0 /\ value = 0 /\ valueThen = 0 /\ answered = FALSE /\ moves = 0

-----------------------------------------------------------------------------
\* SumHigh is hi + (delta >> 32), plus the carry that "new_lo < lo" detects.
SumLow(l, d) == (l + (d % WordSpan)) % WordSpan

\* Mutant of SumHigh: the carry is lost when the low half wraps to itself.
SumHighNoCarry(h, l, d) == (h + (d \div WordSpan)) % WordSpan

SumHigh(h, l, d) ==
    (h + (d \div WordSpan) + (IF SumLow(l, d) < l THEN 1 ELSE 0)) % WordSpan

\* Mutant of AddBegin: seq is not made odd before the halves change.
AddBeginUnmarked(d) ==
    /\ ~adding
    /\ adding' = TRUE /\ stores' = Halves
    /\ newLo' = SumLow(lo, d) /\ newHi' = SumHigh(hi, lo, d)
    /\ value' = (value + d) % (WordSpan * WordSpan)
    /\ UNCHANGED <<seq, lo, hi, readerVars, moves>>

\* Bound: seq does not come round while one read looks at it.
AddBegin(d) ==
    /\ ~adding /\ moves < SeqSpan - 2
    /\ adding' = TRUE /\ stores' = Halves
    /\ seq' = SeqSucc(seq) /\ moves' = moves + 1
    /\ newLo' = SumLow(lo, d) /\ newHi' = SumHigh(hi, lo, d)
    /\ value' = (value + d) % (WordSpan * WordSpan)
    /\ UNCHANGED <<lo, hi, readerVars>>

StoreHalf(f) ==
    /\ adding /\ f \in stores
    /\ stores' = stores \ {f}
    /\ IF f = "lo" THEN lo' = newLo /\ UNCHANGED hi ELSE hi' = newHi /\ UNCHANGED lo
    /\ UNCHANGED <<seq, adding, newLo, newHi, value, readerVars, moves>>

AddEnd ==
    /\ adding /\ stores = {}
    /\ adding' = FALSE
    /\ seq' = SeqSucc(seq) /\ moves' = moves + 1
    /\ UNCHANGED <<lo, hi, stores, newLo, newHi, value, readerVars>>

-----------------------------------------------------------------------------
\* An odd seq is read again: nothing is kept of that look.
ReadBegin ==
    /\ ~reading /\ seq % 2 = 0
    /\ reading' = TRUE /\ loads' = Halves
    /\ seq0' = seq /\ valueThen' = value /\ moves' = 0
    /\ answered' = FALSE
    /\ UNCHANGED <<writerVars, gotLo, gotHi, result>>

LoadHalf(f) ==
    /\ reading /\ f \in loads
    /\ loads' = loads \ {f}
    /\ IF f = "lo" THEN gotLo' = lo /\ UNCHANGED gotHi ELSE gotHi' = hi /\ UNCHANGED gotLo
    /\ UNCHANGED <<writerVars, reading, seq0, result, valueThen, answered, moves>>

\* The second load of seq: the same value returns the result, another retries.
ReadEnd ==
    /\ reading /\ loads = {}
    /\ reading' = FALSE
    /\ IF seq = seq0
       THEN result' = Joined(gotHi, gotLo) /\ answered' = TRUE
       ELSE UNCHANGED <<result, answered>>
    /\ moves' = 0
    /\ UNCHANGED <<writerVars, loads, seq0, gotLo, gotHi, valueThen>>

CounterNext ==
    \/ \E d \in Deltas : AddBegin(d)
    \/ \E f \in Halves : StoreHalf(f) \/ LoadHalf(f)
    \/ AddEnd \/ ReadBegin \/ ReadEnd

CounterSpec == CounterInit /\ [][CounterNext]_counterVars

-----------------------------------------------------------------------------
\* Type invariant: a half stays a 32-bit word and seq a 32-bit sequence number
\* (counter64_add adds with wrap-around).
CounterTypeOK ==
    /\ seq \in 0 .. SeqSpan - 1 /\ seq0 \in 0 .. SeqSpan - 1
    /\ adding \in BOOLEAN /\ reading \in BOOLEAN /\ answered \in BOOLEAN
    /\ stores \subseteq Halves /\ loads \subseteq Halves
    /\ lo \in Word /\ hi \in Word /\ newLo \in Word /\ newHi \in Word
    /\ gotLo \in Word /\ gotHi \in Word
    /\ value \in Long /\ valueThen \in Long /\ result \in Long
    /\ moves \in 0 .. SeqSpan - 1

\* API_CONTRACT.md: "Each split 64-bit counter is read as a coherent value".
\* A read returns the count as it was at the moment of its first load of seq,
\* never a mix of two adds, with or without a carry between the halves.
ReadCoherent == answered => result = valueThen

\* The halves make up the true count whenever no add is under way: the carry
\* of the 32-bit halves is the carry of the 64-bit sum.
SplitExact ==
    /\ ~adding => Joined(hi, lo) = value
    /\ adding => Joined(newHi, newLo) = value
=============================================================================
