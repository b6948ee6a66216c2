----------------------------- MODULE ChannelProofs -----------------------------
(***************************************************************************)
(* What the worker shares with its callers, for every depth, word size,    *)
(* width and number of levels: the ring never tears a value, the halves    *)
(* of a counter add up, what is admitted stays valid, every event is       *)
(* delivered or counted, and a frozen dump is what led to its trigger.     *)
(***************************************************************************)
EXTENDS MC_Channels, FiniteSetTheorems, SequenceTheorems, WellFoundedInduction, TLAPS

(***************************************************************************)
(* Arithmetic of wrapping words: the provers know the division by a        *)
(* numeral, not the division by a constant of a module.                    *)
(***************************************************************************)
\* Quotient and remainder are the unique ones.
LEMMA RemainderUnique ==
    ASSUME NEW d \in Nat \ {0}, NEW q \in Int, NEW r \in 0 .. d - 1
    PROVE  (d * q + r) % d = r
<1>1. d * q + r \in Int
  OBVIOUS
<1>. DEFINE x == d * q + r
           p == x \div d
           s == x % d
<1>2. p \in Int /\ s \in 0 .. d - 1 /\ x = d * p + s
  BY <1>1, Z3T(30)
<1>3. CASE q >= p + 1
  <2>1. d * q >= d * (p + 1)
    BY <1>2, <1>3, Z3T(30)
  <2>. QED
    BY <1>2, <2>1, Z3T(30)
<1>4. CASE p >= q + 1
  <2>1. d * p >= d * (q + 1)
    BY <1>2, <1>4, Z3T(30)
  <2>. QED
    BY <1>2, <2>1, Z3T(30)
<1>5. CASE p = q
  BY <1>2, <1>5, Z3T(30)
<1>. QED
  BY <1>2, <1>3, <1>4, <1>5

\* Division with remainder, by any positive number.
LEMMA Division ==
    ASSUME NEW d \in Nat \ {0}, NEW x \in Int
    PROVE  x \div d \in Int /\ x % d \in 0 .. d - 1 /\ x = d * (x \div d) + (x % d)
BY Z3T(30)

(***************************************************************************)
(* The 64-bit counters: for every word size and every even number of       *)
(* sequence values the two halves add up to the true count, carries        *)
(* included, and a read that returns has read one value, not a mix.        *)
(***************************************************************************)
\* The halves, and what an add has stored of them.
HalvesInv ==
    /\ seq % 2 = IF adding THEN 1 ELSE 0
    /\ ~adding => stores = {} /\ Joined(hi, lo) = value
    /\ adding => /\ Joined(newHi, newLo) = value
                 /\ "lo" \notin stores => lo = newLo
                 /\ "hi" \notin stores => hi = newHi

\* seq is as many steps from what the reader saw as it has moved, and it has
\* not come round.
SeqInv ==
    /\ moves <= SeqSpan - 1 /\ (adding => moves <= SeqSpan - 2)
    /\ reading => \/ seq = seq0 + moves
                  \/ seq = seq0 + moves - SeqSpan /\ SeqSpan <= seq0 + moves

\* While seq has not moved, what the reader has loaded is what is there.
LoadedInv ==
    reading /\ moves = 0 =>
        /\ ~adding /\ value = valueThen
        /\ "lo" \notin loads => gotLo = lo
        /\ "hi" \notin loads => gotHi = hi

CounterInv == CounterTypeOK /\ HalvesInv /\ SeqInv /\ LoadedInv /\ ReadCoherent

-----------------------------------------------------------------------------
\* counter64_add: what it stores in the halves are the two digits of the sum.
\* "new_lo < lo" is the carry, for every delta.
LEMMA SumExact ==
    ASSUME NEW h \in Word, NEW l \in Word,
           NEW d \in Long
    PROVE  /\ SumLow(l, d) \in Word
           /\ SumHigh(h, l, d) \in Word
           /\ Joined(SumHigh(h, l, d), SumLow(l, d))
                = (Joined(h, l) + d) % (WordSpan * WordSpan)
<1>. DEFINE W == WordSpan
           dh == d \div W
           dl == d % W
           carry == IF l + dl >= W THEN 1 ELSE 0
           nl == SumLow(l, d)
           top == h + dh + carry
           wrap == top \div W
           nh == top % W
<1>1. W \in Nat \ {0} /\ W * W \in Nat \ {0} /\ h \in Int /\ l \in Int /\ d \in Int
      /\ l \in 0 .. W - 1
  BY SpanAssumption, Z3T(30) DEF Word, Long
<1>2. dh \in Int /\ dl \in 0 .. W - 1 /\ d = W * dh + dl
  BY <1>1, Division
<1>3. nl = l + dl - W * carry /\ nl \in 0 .. W - 1 /\ carry = (IF nl < l THEN 1 ELSE 0)
  <2>1. CASE l + dl < W
    <3>1. (W * 0 + (l + dl)) % W = l + dl
      <4>1. l + dl \in 0 .. W - 1
        BY <1>1, <1>2, <2>1
      <4>. QED
        BY <1>1, <4>1, RemainderUnique
    <3>2. nl = l + dl /\ carry = 0
      BY <1>1, <1>2, <2>1, <3>1 DEF SumLow
    <3>. QED
      BY <1>1, <1>2, <2>1, <3>2
  <2>2. CASE l + dl >= W
    <3>1. (W * 1 + (l + dl - W)) % W = l + dl - W
      <4>1. l + dl - W \in 0 .. W - 1
        BY <1>1, <1>2, <2>2
      <4>. QED
        BY <1>1, <4>1, RemainderUnique
    <3>2. nl = l + dl - W /\ carry = 1
      BY <1>1, <1>2, <2>2, <3>1 DEF SumLow
    <3>. QED
      BY <1>1, <1>2, <2>2, <3>2
  <2>. QED
    BY <1>1, <1>2, <2>1, <2>2
<1>4. wrap \in Int /\ nh \in 0 .. W - 1 /\ top = W * wrap + nh /\ top \in Int
  <2>1. top \in Int
    BY <1>1, <1>2
  <2>. HIDE DEF top
  <2>. QED
    BY <1>1, <2>1, Division
<1>5. SumHigh(h, l, d) = nh
  BY <1>3 DEF SumHigh
<1>6. /\ nh * W + nl \in 0 .. W * W - 1
      /\ (h * W + l) + d = (W * W) * wrap + (nh * W + nl)
  <2>. HIDE DEF dh, dl, carry, nl, top, wrap, nh
  <2>1. nh * W <= (W - 1) * W
    BY <1>1, <1>4, Z3T(30)
  <2>2. (W - 1) * W = W * W - W /\ nh * W \in Int /\ nh * W >= 0
    BY <1>1, <1>4, Z3T(30)
  <2>3. nh * W + nl \in 0 .. W * W - 1
    BY <1>1, <1>3, <2>1, <2>2
  <2>4. carry \in Int
    BY DEF carry
  <2>5. top = h + dh + carry
    BY DEF top
  <2>6. (h + dh + carry) * W = (W * wrap + nh) * W
    BY <1>4, <2>5
  <2>7. (h + dh + carry) * W = h * W + W * dh + W * carry
    BY <1>1, <1>2, <2>4, Z3T(30)
  <2>8. (W * wrap + nh) * W = (W * W) * wrap + nh * W
    BY <1>1, <1>4, Z3T(30)
  <2>. QED
    BY <1>1, <1>2, <1>3, <1>4, <2>3, <2>4, <2>6, <2>7, <2>8, Z3T(30)
<1>7. (h * W + l + d) % (W * W) = nh * W + nl
  <2>. HIDE DEF dh, dl, carry, nl, top, wrap, nh
  <2>. QED
    BY <1>1, <1>4, <1>6, RemainderUnique
<1>. QED
  BY <1>3, <1>4, <1>5, <1>7 DEF Joined, Word

-----------------------------------------------------------------------------
\* The part of the assumption that has no product in it.
LEMMA SeqSpanEven == SeqSpan \in Nat /\ SeqSpan % 2 = 0 /\ 2 < SeqSpan
BY SpanAssumption

\* The step of the owner that needs the arithmetic.
LEMMA AddBeginStep ==
    ASSUME CounterInv, NEW d \in Deltas, AddBegin(d)
    PROVE  CounterInv'
<1>. USE SeqSpanEven
<1>1. /\ lo \in Word /\ hi \in Word
      /\ d \in Long
      /\ value = Joined(hi, lo)
  BY SpanAssumption DEF Long, CounterInv, CounterTypeOK, HalvesInv, AddBegin
<1>2. /\ newLo' \in Word /\ newHi' \in Word
      /\ Joined(newHi', newLo') = value'
  BY <1>1, SumExact DEF AddBegin
<1>3. value' \in Long
  <2>1. WordSpan * WordSpan \in Nat \ {0} /\ value + d \in Int
    BY <1>1, SpanAssumption, Z3T(30) DEF Joined, Word, Long
  <2>. QED
    BY <2>1, Division DEF AddBegin, Long
<1>4. /\ seq \in 0 .. SeqSpan - 1 /\ seq % 2 = 0 /\ SeqSpan % 2 = 0
      /\ moves \in Nat /\ moves < SeqSpan - 2
  BY DEF CounterInv, CounterTypeOK, HalvesInv, AddBegin
<1>5. seq' = seq + 1 /\ seq' \in 0 .. SeqSpan - 1 /\ seq' % 2 = 1 /\ moves' = moves + 1
  BY <1>4 DEF AddBegin, SeqSucc
<1>6. CounterTypeOK'
  BY <1>2, <1>3, <1>4, <1>5 DEF CounterInv, CounterTypeOK, AddBegin, readerVars, Halves
<1>7. HalvesInv'
  BY <1>2, <1>5 DEF HalvesInv, AddBegin, Halves
<1>8. SeqInv'
  BY <1>4, <1>5 DEF CounterInv, CounterTypeOK, SeqInv, AddBegin, readerVars
<1>9. LoadedInv'
  BY <1>4, <1>5 DEF LoadedInv
<1>10. ReadCoherent'
  BY DEF CounterInv, ReadCoherent, AddBegin, readerVars
<1>. QED
  BY <1>6, <1>7, <1>8, <1>9, <1>10 DEF CounterInv

\* The other steps of the owner.
LEMMA OwnerStep ==
    ASSUME CounterInv, AddEnd \/ \E f \in Halves : StoreHalf(f)
    PROVE  CounterInv'
<1>. USE SeqSpanEven
<1>1. ASSUME NEW f \in Halves, StoreHalf(f) PROVE CounterInv'
  <2>. USE <1>1 DEF StoreHalf, readerVars, Halves
  <2>1. CounterTypeOK'
    BY DEF CounterInv, CounterTypeOK
  <2>2. HalvesInv'
    BY DEF CounterInv, HalvesInv
  <2>3. SeqInv' /\ LoadedInv' /\ ReadCoherent'
    BY DEF CounterInv, SeqInv, LoadedInv, ReadCoherent
  <2>. QED
    BY <2>1, <2>2, <2>3 DEF CounterInv
<1>2. CASE AddEnd
  <2>. USE <1>2 DEF AddEnd, readerVars
  <2>1. /\ seq \in 0 .. SeqSpan - 1 /\ seq % 2 = 1 /\ SeqSpan % 2 = 0
        /\ moves \in Nat /\ moves <= SeqSpan - 2 /\ moves' = moves + 1
    BY DEF CounterInv, CounterTypeOK, HalvesInv, SeqInv
  <2>2. /\ seq' = IF seq = SeqSpan - 1 THEN 0 ELSE seq + 1
        /\ seq' \in 0 .. SeqSpan - 1 /\ seq' % 2 = 0
    BY <2>1 DEF SeqSucc
  <2>3. CounterTypeOK'
    <3>1. seq' \in 0 .. SeqSpan - 1 /\ moves' \in 0 .. SeqSpan - 1
      BY <2>1, <2>2
    <3>2. adding' \in BOOLEAN
      OBVIOUS
    <3>. QED
      BY <3>1, <3>2 DEF CounterInv, CounterTypeOK
  <2>4. HalvesInv'
    <3>1. lo = newLo /\ hi = newHi /\ Joined(newHi, newLo) = value
      BY DEF CounterInv, HalvesInv
    <3>. QED
      BY <2>2, <3>1 DEF HalvesInv
  <2>5. SeqInv'
    BY <2>1, <2>2 DEF CounterInv, SeqInv, CounterTypeOK
  <2>6. LoadedInv' /\ ReadCoherent'
    BY <2>1 DEF CounterInv, LoadedInv, ReadCoherent
  <2>. QED
    BY <2>3, <2>4, <2>5, <2>6 DEF CounterInv
<1>. QED
  BY <1>1, <1>2

\* The reader: a second look at seq that finds it unmoved proves that no add
\* has begun in between.
LEMMA ReaderStep ==
    ASSUME CounterInv, ReadBegin \/ ReadEnd \/ \E f \in Halves : LoadHalf(f)
    PROVE  CounterInv'
<1>. USE SeqSpanEven
<1>1. CASE ReadBegin
  <2>. USE <1>1 DEF ReadBegin, writerVars
  <2>1. CounterTypeOK'
    <3>1. 0 \in 0 .. SeqSpan - 1
      OBVIOUS
    <3>2. reading' \in BOOLEAN /\ answered' \in BOOLEAN
      OBVIOUS
    <3>3. loads' \subseteq Halves
      OBVIOUS
    <3>. QED
      BY <3>1, <3>2, <3>3 DEF CounterInv, CounterTypeOK
  <2>2. HalvesInv'
    BY DEF CounterInv, HalvesInv
  <2>3. SeqInv' /\ LoadedInv' /\ ReadCoherent'
    BY DEF CounterInv, CounterTypeOK, HalvesInv, SeqInv, LoadedInv, ReadCoherent, Halves
  <2>. QED
    BY <2>1, <2>2, <2>3 DEF CounterInv
<1>2. CASE ReadEnd
  <2>. USE <1>2 DEF ReadEnd, writerVars
  <2>1. ASSUME seq = seq0
        PROVE  result' = value /\ value = valueThen
    <3>1. moves = 0
      BY <2>1 DEF CounterInv, CounterTypeOK, SeqInv
    <3>2. ~adding /\ value = valueThen /\ gotLo = lo /\ gotHi = hi
      BY <3>1 DEF CounterInv, LoadedInv
    <3>. QED
      BY <2>1, <3>2 DEF CounterInv, HalvesInv
  <2>2. CounterTypeOK'
    <3>1. 0 \in 0 .. SeqSpan - 1
      OBVIOUS
    <3>2. reading' \in BOOLEAN /\ answered' \in BOOLEAN
      BY DEF CounterInv, CounterTypeOK
    <3>3. result' \in Long
      BY <2>1 DEF CounterInv, CounterTypeOK
    <3>. QED
      BY <3>1, <3>2, <3>3 DEF CounterInv, CounterTypeOK
  <2>3. HalvesInv'
    BY DEF CounterInv, HalvesInv
  <2>4. SeqInv' /\ LoadedInv'
    BY DEF CounterInv, SeqInv, LoadedInv
  <2>5. ReadCoherent'
    BY <2>1 DEF CounterInv, ReadCoherent
  <2>. QED
    BY <2>2, <2>3, <2>4, <2>5 DEF CounterInv
<1>3. ASSUME NEW f \in Halves, LoadHalf(f) PROVE CounterInv'
  <2>. USE <1>3 DEF LoadHalf, writerVars, Halves
  <2>1. CounterTypeOK'
    BY DEF CounterInv, CounterTypeOK
  <2>2. HalvesInv'
    BY DEF CounterInv, HalvesInv
  <2>3. SeqInv' /\ LoadedInv' /\ ReadCoherent'
    BY DEF CounterInv, SeqInv, LoadedInv, ReadCoherent
  <2>. QED
    BY <2>1, <2>2, <2>3 DEF CounterInv
<1>. QED
  BY <1>1, <1>2, <1>3

\* The inductive invariant of the counter: the digits, the distance of seq from
\* what the reader saw, and what the reader has loaded so far.
THEOREM CounterInvariant == CounterSpec => []CounterInv
<1>1. CounterInit => CounterInv
  <2>. SUFFICES ASSUME CounterInit PROVE CounterInv
    OBVIOUS
  <2>. USE SeqSpanEven DEF CounterInit
  <2>1. 0 \in Word /\ 0 \in Long
        /\ Joined(0, 0) = 0
    BY SpanAssumption, Z3T(30) DEF Joined, Word, Long
  <2>2. CounterTypeOK
    <3>1. 0 \in 0 .. SeqSpan - 1
      OBVIOUS
    <3>2. adding \in BOOLEAN /\ reading \in BOOLEAN /\ answered \in BOOLEAN
      OBVIOUS
    <3>. QED
      BY <2>1, <3>1, <3>2 DEF CounterTypeOK
  <2>3. HalvesInv /\ SeqInv /\ LoadedInv /\ ReadCoherent
    BY <2>1 DEF HalvesInv, SeqInv, LoadedInv, ReadCoherent
  <2>. QED
    BY <2>2, <2>3 DEF CounterInv
<1>2. CounterInv /\ [CounterNext]_counterVars => CounterInv'
  <2>. SUFFICES ASSUME CounterInv, CounterNext \/ UNCHANGED counterVars PROVE CounterInv'
    OBVIOUS
  <2>1. CASE UNCHANGED counterVars
    BY <2>1 DEF counterVars, writerVars, readerVars, CounterInv, CounterTypeOK, HalvesInv, SeqInv,
                LoadedInv, ReadCoherent
  <2>2. CASE CounterNext
    BY <2>2, AddBeginStep, OwnerStep, ReaderStep DEF CounterNext
  <2>. QED
    BY <2>1, <2>2
<1>. QED
  BY <1>1, <1>2, PTL DEF CounterSpec

\* counter64_add and counter64_read keep the halves words and seq a sequence
\* number.
THEOREM CounterTypeCorrect == CounterSpec => []CounterTypeOK
<1>1. CounterInv => CounterTypeOK
  BY DEF CounterInv
<1>. QED
  BY <1>1, CounterInvariant, PTL

\* counter64_read never returns a mix of two adds.
THEOREM CounterReadCoherent == CounterSpec => []ReadCoherent
<1>1. CounterInv => ReadCoherent
  BY DEF CounterInv
<1>. QED
  BY <1>1, CounterInvariant, PTL

\* The two halves of ap_counter64_t are the count, modulo 2^64.
THEOREM CounterSplitExact == CounterSpec => []SplitExact
<1>1. CounterInv => SplitExact
  BY DEF CounterInv, HalvesInv, SplitExact
<1>. QED
  BY <1>1, CounterInvariant, PTL

(***************************************************************************)
(* The ring: for every depth, every index width and every set of values    *)
(* its two sides never touch the same slot at the same time, no torn value *)
(* is delivered, and it is a bounded queue.                                *)
(***************************************************************************)
-----------------------------------------------------------------------------
(* Arithmetic of the masked, wrapping indices.                             *)

\* Masking commutes with advancing an index, wrap-around included: this is
\* where the divisibility of 2^32 by the depth is needed.
LEMMA SlotPlus ==
    ASSUME NEW i \in Index, NEW k \in 0 .. Depth - 1
    PROVE  Slot(Plus(i, k)) =
             IF Slot(i) + k < Depth THEN Slot(i) + k ELSE Slot(i) + k - Depth
<1>. DEFINE q == i \div Depth
           s == i % Depth
           m == IndexSpan \div Depth
<1>1. Depth \in Nat \ {0} /\ IndexSpan \in Nat /\ i \in Nat /\ k \in Nat
  BY DepthAssumption DEF Index
<1>2. /\ q \in Int /\ s \in 0 .. Depth - 1 /\ i = Depth * q + s
      /\ m \in Int /\ IndexSpan = Depth * m
  BY <1>1, DepthAssumption, Z3T(30)
<1>. HIDE DEF q, s, m
<1>3. \E w \in Int : \E r \in 0 .. Depth - 1 :
          /\ Plus(i, k) = Depth * w + r
          /\ r = IF s + k < Depth THEN s + k ELSE s + k - Depth
  <2>. DEFINE r == IF s + k < Depth THEN s + k ELSE s + k - Depth
             a == IF s + k < Depth THEN q ELSE q + 1
             w == IF i + k < IndexSpan THEN a ELSE a - m
  <2>1. r \in 0 .. Depth - 1 /\ a \in Int /\ w \in Int
    BY <1>1, <1>2
  <2>2. Depth * (q + 1) = Depth * q + Depth
    BY <1>1, <1>2, Z3T(30)
  <2>3. i + k = Depth * a + r
    BY <1>1, <1>2, <2>2
  <2>4. Depth * (a - m) = Depth * a - Depth * m
    BY <1>1, <1>2, <2>1, Z3T(30)
  <2>5. Plus(i, k) = Depth * w + r
    BY <1>1, <1>2, <2>1, <2>3, <2>4 DEF Plus
  <2>. QED
    BY <2>1, <2>5
<1>4. s = Slot(i)
  BY DEF s, Slot
<1>. QED
  BY <1>1, <1>3, <1>4, RemainderUnique DEF Slot

\* Two different indices less than a depth apart use different slots.
LEMMA SlotInjective ==
    ASSUME NEW i \in Index, NEW j \in 0 .. Depth - 1, NEW k \in 0 .. Depth - 1,
           j # k
    PROVE  Slot(Plus(i, j)) # Slot(Plus(i, k))
<1>1. Depth \in Nat \ {0} /\ i \in Nat
  BY DepthAssumption DEF Index
<1>2. Slot(i) \in 0 .. Depth - 1
  BY <1>1, Z3T(30) DEF Slot
<1>. QED
  BY <1>1, <1>2, SlotPlus

\* Distances and advances of wrapping indices.
LEMMA IndexArithmetic ==
    ASSUME NEW h \in Index, NEW t \in Index
    PROVE  /\ Succ(h) \in Index
           /\ Dist(h, t) \in 0 .. IndexSpan - 1
           /\ (Dist(h, t) = 0) <=> (h = t)
           /\ Plus(t, Dist(h, t)) = h
           /\ Plus(t, 0) = t
           /\ Dist(h, t) < IndexSpan - 1 => Dist(Succ(h), t) = Dist(h, t) + 1
           /\ h # t => Dist(h, Succ(t)) = Dist(h, t) - 1
BY DepthAssumption DEF Index, Succ, Dist, Plus

LEMMA PlusSucc ==
    ASSUME NEW t \in Index, NEW k \in 0 .. Depth - 1
    PROVE  /\ Plus(t, k) \in Index
           /\ Plus(Succ(t), k) = Plus(t, k + 1)
BY DepthAssumption DEF Index, Succ, Plus

\* The bounds of DepthAssumption without its divisibility conjunct.
LEMMA DepthNat == Depth \in Nat /\ IndexSpan \in Nat /\ 0 < Depth /\ Depth < IndexSpan
BY DepthAssumption

LEMMA SlotType ==
    ASSUME NEW i \in Index
    PROVE  Slot(i) \in 0 .. Depth - 1
<1>1. Depth \in Nat \ {0} /\ i \in Nat
  BY DepthAssumption DEF Index
<1>. QED
  BY <1>1, Z3T(30) DEF Slot

-----------------------------------------------------------------------------
(* The inductive invariant.                                                *)

\* What the arithmetic says of the ring's own two indices.
LEMMA HeadTail ==
    ASSUME TypeOK
    PROVE  /\ Dist(head, tail) \in Nat
           /\ Dist(head, ptail) \in Nat
           /\ head # tail => 0 < Dist(head, tail)
           /\ 0 \in 0 .. Depth - 1
           /\ Plus(tail, 0) = tail
<1>1. head \in Index /\ tail \in Index /\ ptail \in Index
  BY DEF TypeOK
<1>2. Dist(head, tail) \in 0 .. IndexSpan - 1 /\ Dist(head, ptail) \in 0 .. IndexSpan - 1
  BY <1>1, IndexArithmetic
<1>3. (Dist(head, tail) = 0 <=> head = tail) /\ Plus(tail, 0) = tail
  BY <1>1, IndexArithmetic
<1>. QED
  BY <1>2, <1>3, DepthNat

LEMMA InitRing == Init => RingInv
<1>. SUFFICES ASSUME Init PROVE RingInv
  OBVIOUS
<1>1. 0 \in Index /\ Dist(0, 0) = 0
  BY DepthNat DEF Index, Dist
<1>2. TypeOK
  BY <1>1, TornAssumption DEF Init, TypeOK
<1>3. StaleTail /\ RoomToWrite /\ StaleHead /\ NothingTorn
  BY <1>1, DepthNat DEF Init, StaleTail, RoomToWrite, StaleHead, NothingTorn
<1>4. PublishedWhole
  BY <1>1 DEF Init, PublishedWhole
<1>. QED
  BY <1>2, <1>3, <1>4 DEF RingInv

LEMMA StepTypeOK == TypeOK /\ [Next]_vars => TypeOK'
<1>. SUFFICES ASSUME TypeOK, [Next]_vars PROVE TypeOK'
  OBVIOUS
<1>1. /\ Succ(head) \in Index /\ Succ(tail) \in Index
      /\ Slot(head) \in 0 .. Depth - 1 /\ Slot(tail) \in 0 .. Depth - 1
  BY IndexArithmetic, SlotType DEF TypeOK
<1>2. ASSUME NEW v \in Values, LoadTail(v) PROVE TypeOK'
  BY <1>2 DEF LoadTail, TypeOK, consumerVars
<1>3. CASE Refuse
  BY <1>3 DEF Refuse, TypeOK, consumerVars
<1>4. CASE BeginWrite
  BY <1>1, <1>4 DEF BeginWrite, TypeOK, consumerVars
<1>5. CASE Publish
  BY <1>1, <1>5 DEF Publish, TypeOK, consumerVars
<1>6. CASE LoadHead
  BY <1>6 DEF LoadHead, TypeOK, producerVars
<1>7. CASE Empty
  BY <1>7 DEF Empty, TypeOK, producerVars
<1>8. CASE BeginRead
  BY <1>1, <1>8 DEF BeginRead, TypeOK, producerVars
<1>9. CASE Release
  BY <1>1, <1>9 DEF Release, TypeOK, producerVars
<1>10. CASE UNCHANGED vars
  BY <1>10 DEF vars, TypeOK
<1>. QED
  BY <1>2, <1>3, <1>4, <1>5, <1>6, <1>7, <1>8, <1>9, <1>10
  DEF Next, Producer, Consumer

\* However stale its copy of the other index, no side ever believes there is
\* more room, or more data, than there is.
LEMMA StepBounds ==
    TypeOK /\ StaleTail /\ RoomToWrite /\ StaleHead /\ [Next]_vars
      => StaleTail' /\ RoomToWrite' /\ StaleHead'
<1>. SUFFICES ASSUME TypeOK, StaleTail, RoomToWrite, StaleHead, [Next]_vars
              PROVE  StaleTail' /\ RoomToWrite' /\ StaleHead'
  OBVIOUS
<1>. USE DepthNat DEF StaleTail, RoomToWrite, StaleHead
<1>1. ASSUME NEW v \in Values, LoadTail(v)
      PROVE  StaleTail' /\ RoomToWrite' /\ StaleHead'
  <2>1. UNCHANGED <<head, tail, cpc, chead>> /\ ptail' = tail /\ ppc' = "loaded"
    BY <1>1 DEF LoadTail, consumerVars
  <2>2. Dist(head, tail) \in Int
    BY IndexArithmetic DEF TypeOK
  <2>. QED
    BY <2>1, <2>2
<1>2. CASE Refuse
  BY <1>2 DEF Refuse, consumerVars
<1>3. CASE BeginWrite
  BY <1>3, HeadTail DEF BeginWrite, RingFull, consumerVars
<1>4. CASE Publish
  <2>1. Dist(head, tail) < IndexSpan - 1 /\ head' = Succ(head) /\ tail' = tail
    BY <1>4, HeadTail DEF Publish, consumerVars
  <2>2. Dist(head', tail') = Dist(head, tail) + 1
    BY <2>1, IndexArithmetic DEF TypeOK
  <2>3. head' # tail'
    BY <2>1, <2>2, IndexArithmetic DEF TypeOK
  <2>. QED
    BY <1>4, <2>2, <2>3, IndexArithmetic DEF Publish, TypeOK, consumerVars
<1>5. CASE LoadHead
  BY <1>5 DEF LoadHead, producerVars
<1>6. CASE Empty
  BY <1>6 DEF Empty, producerVars
<1>7. CASE BeginRead
  BY <1>7 DEF BeginRead, producerVars
<1>8. CASE Release
  <2>1. head # tail /\ head' = head /\ ptail' = ptail /\ tail' = Succ(tail)
    BY <1>8 DEF Release, producerVars
  <2>2. Dist(head', tail') = Dist(head, tail) - 1
    BY <2>1, IndexArithmetic DEF TypeOK
  <2>. QED
    BY <1>8, <2>1, <2>2, IndexArithmetic DEF Release, TypeOK, producerVars
<1>9. CASE UNCHANGED vars
  BY <1>9 DEF vars
<1>. QED
  BY <1>1, <1>2, <1>3, <1>4, <1>5, <1>6, <1>7, <1>8, <1>9
  DEF Next, Producer, Consumer

\* The slot about to be written is none of the published ones.
LEMMA FreshSlot ==
    ASSUME TypeOK, Dist(head, tail) < Depth,
           NEW k \in 0 .. Depth - 1, k < Dist(head, tail)
    PROVE  Slot(Plus(tail, k)) # Slot(head)
<1>1. Plus(tail, Dist(head, tail)) = head /\ Dist(head, tail) \in 0 .. Depth - 1
  <2>1. Plus(tail, Dist(head, tail)) = head /\ Dist(head, tail) \in 0 .. IndexSpan - 1
    BY IndexArithmetic DEF TypeOK
  <2>. QED
    BY <2>1, DepthNat
<1>2. k # Dist(head, tail) /\ tail \in Index
  BY <1>1 DEF TypeOK
<1>3. Slot(Plus(tail, k)) # Slot(Plus(tail, Dist(head, tail)))
  BY <1>1, <1>2, SlotInjective
<1>. QED
  BY <1>1, <1>3

\* Publishing, releasing and writing leave every published slot whole.
LEMMA StepWhole == RingInv /\ [Next]_vars => PublishedWhole'
<1>. SUFFICES ASSUME RingInv, [Next]_vars PROVE PublishedWhole'
  OBVIOUS
<1>. USE DEF RingInv
<1>1. ASSUME UNCHANGED <<head, tail, slots>>, cpc' = "reading" => cval' = slots[Slot(tail)]
      PROVE  PublishedWhole'
  BY <1>1 DEF PublishedWhole
<1>2. ASSUME NEW v \in Values, LoadTail(v) PROVE PublishedWhole'
  BY <1>1, <1>2 DEF LoadTail, PublishedWhole, consumerVars
<1>3. CASE Refuse
  BY <1>1, <1>3 DEF Refuse, PublishedWhole, consumerVars
<1>4. CASE BeginWrite
  <2>1. /\ UNCHANGED <<head, tail, cpc, cval>>
        /\ slots' = [slots EXCEPT ![Slot(head)] = Torn]
        /\ ppc' = "writing"
    BY <1>4 DEF BeginWrite, consumerVars
  <2>2. Dist(head, tail) < Depth
    BY <1>4, HeadTail, DepthNat DEF BeginWrite, RingFull, StaleTail
  <2>3. ASSUME NEW k \in 0 .. Depth - 1, k < Dist(head, tail)
        PROVE  slots'[Slot(Plus(tail, k))] = slots[Slot(Plus(tail, k))]
    <3>1. Slot(Plus(tail, k)) # Slot(head)
      BY <2>2, <2>3, FreshSlot
    <3>2. Slot(Plus(tail, k)) \in 0 .. Depth - 1
      BY PlusSucc, SlotType DEF TypeOK
    <3>. QED
      BY <2>1, <3>1, <3>2 DEF TypeOK
  <2>4. cpc = "reading" => slots'[Slot(tail)] = slots[Slot(tail)]
    <3>. SUFFICES ASSUME cpc = "reading"
                  PROVE  slots'[Slot(tail)] = slots[Slot(tail)]
      OBVIOUS
    <3>1. 0 < Dist(head, tail) /\ Plus(tail, 0) = tail /\ 0 \in 0 .. Depth - 1
      BY HeadTail DEF StaleHead
    <3>. QED
      BY <2>3, <3>1
  <2>. QED
    BY <2>1, <2>3, <2>4 DEF PublishedWhole
<1>5. CASE Publish
  <2>1. /\ UNCHANGED <<tail, cpc, cval>>
        /\ slots' = [slots EXCEPT ![Slot(head)] = pval]
        /\ head' = Succ(head)
        /\ pval \in Values
    BY <1>5 DEF Publish, TypeOK, consumerVars
  <2>2. Dist(head, tail) < Depth
    BY <1>5 DEF Publish, RoomToWrite
  <2>3. Dist(head', tail') = Dist(head, tail) + 1
    BY <2>1, <2>2, IndexArithmetic, DepthNat DEF TypeOK
  <2>4. ASSUME NEW k \in 0 .. Depth - 1, k < Dist(head, tail)
        PROVE  slots'[Slot(Plus(tail, k))] = slots[Slot(Plus(tail, k))]
    <3>1. Slot(Plus(tail, k)) # Slot(head)
      BY <2>2, <2>4, FreshSlot
    <3>2. Slot(Plus(tail, k)) \in 0 .. Depth - 1
      BY PlusSucc, SlotType DEF TypeOK
    <3>. QED
      BY <2>1, <3>1, <3>2 DEF TypeOK
  <2>5. slots'[Slot(Plus(tail, Dist(head, tail)))] = pval
    BY <2>1, IndexArithmetic, SlotType DEF TypeOK
  <2>6. \A k \in 0 .. Depth - 1 :
            k < Dist(head', tail') => slots'[Slot(Plus(tail', k))] \in Values
    <3>. SUFFICES ASSUME NEW k \in 0 .. Depth - 1, k < Dist(head', tail')
                  PROVE  slots'[Slot(Plus(tail, k))] \in Values
      BY <2>1
    <3>1. CASE k < Dist(head, tail)
      BY <2>4, <3>1 DEF PublishedWhole
    <3>2. CASE k = Dist(head, tail)
      BY <2>1, <2>5, <3>2
    <3>. QED
      BY <2>3, <3>1, <3>2, HeadTail
  <2>7. cpc = "reading" => slots'[Slot(tail)] = slots[Slot(tail)]
    <3>. SUFFICES ASSUME cpc = "reading"
                  PROVE  slots'[Slot(tail)] = slots[Slot(tail)]
      OBVIOUS
    <3>1. 0 < Dist(head, tail) /\ Plus(tail, 0) = tail /\ 0 \in 0 .. Depth - 1
      BY HeadTail DEF StaleHead
    <3>. QED
      BY <2>4, <3>1
  <2>. QED
    BY <2>1, <2>6, <2>7 DEF PublishedWhole
<1>6. CASE LoadHead
  BY <1>1, <1>6 DEF LoadHead, PublishedWhole, producerVars
<1>7. CASE Empty
  BY <1>1, <1>7 DEF Empty, PublishedWhole, producerVars
<1>8. CASE BeginRead
  BY <1>1, <1>8 DEF BeginRead, PublishedWhole, producerVars
<1>9. CASE Release
  <2>1. /\ head # tail /\ UNCHANGED <<head, slots>>
        /\ tail' = Succ(tail) /\ cpc' = "idle"
    BY <1>9 DEF Release, StaleHead, producerVars
  <2>2. Dist(head', tail') = Dist(head, tail) - 1
    BY <2>1, IndexArithmetic DEF TypeOK
  <2>3. ASSUME NEW k \in 0 .. Depth - 1, k < Dist(head', tail')
        PROVE  slots'[Slot(Plus(tail', k))] \in Values
    <3>1. k + 1 < Dist(head, tail) /\ k + 1 \in 0 .. Depth - 1
      BY <2>2, <2>3, HeadTail, DepthNat DEF RoomToWrite
    <3>2. Plus(tail', k) = Plus(tail, k + 1)
      BY <2>1, PlusSucc DEF TypeOK
    <3>. QED
      BY <2>1, <3>1, <3>2 DEF PublishedWhole
  <2>. QED
    BY <2>1, <2>3 DEF PublishedWhole
<1>10. CASE UNCHANGED vars
  BY <1>1, <1>10 DEF vars, PublishedWhole
<1>. QED
  BY <1>2, <1>3, <1>4, <1>5, <1>6, <1>7, <1>8, <1>9, <1>10
  DEF Next, Producer, Consumer

\* A completed copy is the value the slot held when it was published.
LEMMA StepDelivered == RingInv /\ [Next]_vars => NothingTorn'
<1>. SUFFICES ASSUME RingInv, [Next]_vars PROVE NothingTorn'
  OBVIOUS
<1>. USE DEF RingInv, NothingTorn
<1>1. CASE Release
  <2>1. cval = slots[Slot(tail)] /\ delivered' = <<cval>>
    BY <1>1 DEF Release, PublishedWhole
  <2>2. 0 < Dist(head, tail) /\ Plus(tail, 0) = tail /\ 0 \in 0 .. Depth - 1
    BY <1>1, HeadTail DEF Release, StaleHead
  <2>3. cval \in Values
    BY <2>1, <2>2 DEF PublishedWhole
  <2>. QED
    BY <2>1, <2>3, TornAssumption
<1>2. CASE UNCHANGED delivered
  BY <1>2
<1>. QED
  BY <1>1, <1>2
  DEF Next, Producer, Consumer, LoadTail, Refuse, BeginWrite, Publish,
      LoadHead, Empty, BeginRead, consumerVars, producerVars, vars

LEMMA StepRing == RingInv /\ [Next]_vars => RingInv'
BY StepTypeOK, StepBounds, StepWhole, StepDelivered DEF RingInv

LEMMA RingExclusive == RingInv => SlotExclusive
<1>. SUFFICES ASSUME RingInv, ppc = "writing", cpc = "reading"
              PROVE  Slot(head) # Slot(tail)
  BY DEF SlotExclusive
<1>1. 0 < Dist(head, tail) /\ Dist(head, tail) < Depth
      /\ Plus(tail, 0) = tail /\ 0 \in 0 .. Depth - 1
  BY HeadTail DEF RingInv, StaleHead, RoomToWrite
<1>. QED
  BY <1>1, FreshSlot DEF RingInv

-----------------------------------------------------------------------------
\* Everything the safety of the ring rests on holds in every reachable state.
THEOREM RingInvariant == Spec => []RingInv
BY InitRing, StepRing, PTL DEF Spec

\* Every index, slot and copy stays in its range, for every depth and width.
THEOREM RingTypeCorrect == Spec => []TypeOK
<1>1. RingInv => TypeOK
  BY DEF RingInv
<1>. QED
  BY <1>1, RingInvariant, PTL

\* No slot is ever written by submit/command/emit while the other side copies
\* it, for every power-of-two depth and every width of the index.
THEOREM RingHasNoSlotRace == Spec => []SlotExclusive
BY RingExclusive, RingInvariant, PTL

\* No receive ever returns a half-written or overwritten frame or command.
THEOREM RingDeliversWhole == Spec => []NothingTorn
<1>1. RingInv => NothingTorn
  BY DEF RingInv
<1>. QED
  BY <1>1, RingInvariant, PTL

-----------------------------------------------------------------------------
(* The ring implements the bounded queue.                                  *)

LEMMA QueueIsSequence ==
    ASSUME RingInv
    PROVE  /\ Queue \in Seq(Values)
           /\ Len(Queue) = Dist(head, tail)
           /\ head # tail => Queue[1] = slots[Slot(tail)]
<1>1. Dist(head, tail) \in Nat /\ Plus(tail, 0) = tail /\ Dist(head, tail) <= Depth
      /\ (head # tail => 0 < Dist(head, tail))
  BY HeadTail DEF RingInv, RoomToWrite
<1>2. ASSUME NEW k \in 1 .. Dist(head, tail)
      PROVE  slots[Slot(Plus(tail, k - 1))] \in Values
  <2>1. k - 1 \in 0 .. Depth - 1 /\ k - 1 < Dist(head, tail)
    BY <1>1, DepthNat
  <2>. QED
    BY <2>1 DEF RingInv, PublishedWhole
<1>3. Queue \in [1 .. Dist(head, tail) -> Values]
  BY <1>2 DEF Queue
<1>4. head # tail => Queue[1] = slots[Slot(tail)]
  BY <1>1 DEF Queue
<1>. QED
  BY <1>1, <1>3, <1>4

\* A step that keeps both indices and every published slot keeps the queue.
LEMMA SameQueue ==
    ASSUME UNCHANGED <<head, tail>>,
           \A k \in 1 .. Dist(head, tail) :
              slots'[Slot(Plus(tail, k - 1))] = slots[Slot(Plus(tail, k - 1))]
    PROVE  Queue' = Queue
BY DEF Queue

LEMMA WriteKeepsPublished ==
    ASSUME TypeOK, Dist(head, tail) < Depth, NEW v,
           slots' = [slots EXCEPT ![Slot(head)] = v]
    PROVE  \A k \in 1 .. Dist(head, tail) :
              slots'[Slot(Plus(tail, k - 1))] = slots[Slot(Plus(tail, k - 1))]
<1>. SUFFICES ASSUME NEW k \in 1 .. Dist(head, tail)
              PROVE  slots'[Slot(Plus(tail, k - 1))] = slots[Slot(Plus(tail, k - 1))]
  OBVIOUS
<1>1. k - 1 \in 0 .. Depth - 1 /\ k - 1 < Dist(head, tail)
  BY HeadTail, DepthNat
<1>2. Slot(Plus(tail, k - 1)) # Slot(head)
  BY <1>1, FreshSlot
<1>3. Slot(Plus(tail, k - 1)) \in 0 .. Depth - 1
  BY <1>1, PlusSucc, SlotType DEF TypeOK
<1>. QED
  BY <1>2, <1>3 DEF TypeOK

LEMMA PublishAccepts == RingInv /\ Publish => Fifo!Accept(pval) /\ pval \in Values
<1>. SUFFICES ASSUME RingInv, Publish PROVE Fifo!Accept(pval) /\ pval \in Values
  OBVIOUS
<1>1. /\ UNCHANGED <<tail, delivered>>
      /\ slots' = [slots EXCEPT ![Slot(head)] = pval]
      /\ head' = Succ(head) /\ pval \in Values
      /\ Dist(head, tail) < Depth /\ TypeOK
  BY DEF Publish, RingInv, TypeOK, RoomToWrite, consumerVars
<1>2. Dist(head, tail) \in Nat /\ Dist(head', tail') = Dist(head, tail) + 1
  BY <1>1, HeadTail, IndexArithmetic, DepthNat DEF TypeOK
<1>3. slots'[Slot(Plus(tail, Dist(head, tail)))] = pval
  BY <1>1, IndexArithmetic, SlotType DEF TypeOK
<1>4. Queue' = Append(Queue, pval)
  <2>1. Queue' = [k \in 1 .. Dist(head, tail) + 1 |-> slots'[Slot(Plus(tail, k - 1))]]
    BY <1>1, <1>2 DEF Queue
  <2>2. Queue \in Seq(Values) /\ Len(Queue) = Dist(head, tail)
    BY QueueIsSequence
  <2>3. ASSUME NEW k \in 1 .. Dist(head, tail)
        PROVE  Queue'[k] = Queue[k] /\ Queue[k] \in Values
    <3>1. slots'[Slot(Plus(tail, k - 1))] = slots[Slot(Plus(tail, k - 1))]
      BY <1>1, WriteKeepsPublished
    <3>2. Queue'[k] = slots'[Slot(Plus(tail, k - 1))] /\ Queue[k] = slots[Slot(Plus(tail, k - 1))]
      BY <1>1, <1>2, <2>1 DEF Queue
    <3>. QED
      BY <2>2, <3>1, <3>2
  <2>4. Queue'[Dist(head, tail) + 1] = pval
    BY <1>1, <1>2, <1>3, <2>1
  <2>5. /\ Append(Queue, pval) \in Seq(Values)
        /\ Len(Append(Queue, pval)) = Dist(head, tail) + 1
        /\ \A k \in 1 .. Dist(head, tail) : Append(Queue, pval)[k] = Queue[k]
        /\ Append(Queue, pval)[Dist(head, tail) + 1] = pval
    BY <1>1, <2>2, AppendProperties
  <2>6. Queue' \in Seq(Values) /\ Len(Queue') = Dist(head, tail) + 1
    <3>1. ASSUME NEW k \in 1 .. Dist(head, tail) + 1 PROVE Queue'[k] \in Values
      <4>1. CASE k = Dist(head, tail) + 1
        BY <1>1, <2>4, <4>1
      <4>2. CASE k \in 1 .. Dist(head, tail)
        BY <2>3, <4>2
      <4>. QED
        BY <1>2, <4>1, <4>2
    <3>. QED
      BY <1>2, <2>1, <3>1
  <2>7. \A k \in 1 .. Len(Queue') : Queue'[k] = Append(Queue, pval)[k]
    BY <1>2, <2>3, <2>4, <2>5, <2>6
  <2>. QED
    BY <2>5, <2>6, <2>7, SeqEqual
<1>. QED
  BY <1>1, <1>2, <1>4, QueueIsSequence DEF Fifo!Accept

LEMMA ReleaseConsumes == RingInv /\ Release => Fifo!Consume
<1>. SUFFICES ASSUME RingInv, Release PROVE Fifo!Consume
  OBVIOUS
<1>1. /\ UNCHANGED <<head, slots>> /\ tail' = Succ(tail) /\ head # tail
      /\ delivered' = <<slots[Slot(tail)]>> /\ TypeOK
  BY DEF Release, RingInv, StaleHead, PublishedWhole, producerVars
<1>2. /\ Dist(head, tail) \in Nat /\ 0 < Dist(head, tail)
      /\ Dist(head', tail') = Dist(head, tail) - 1
      /\ Dist(head, tail) <= Depth
  BY <1>1, HeadTail, IndexArithmetic DEF TypeOK, RingInv, RoomToWrite
<1>3. Queue \in Seq(Values) /\ Len(Queue) = Dist(head, tail)
      /\ Queue[1] = slots[Slot(tail)]
  BY <1>1, QueueIsSequence
<1>4. Queue' = Tail(Queue)
  <2>1. Queue' = [k \in 1 .. Dist(head, tail) - 1 |-> slots[Slot(Plus(tail', k - 1))]]
    BY <1>1, <1>2 DEF Queue
  <2>2. ASSUME NEW k \in 1 .. Dist(head, tail) - 1 PROVE Queue'[k] = Queue[k + 1]
    <3>1. k - 1 \in 0 .. Depth - 1 /\ k + 1 \in 1 .. Dist(head, tail)
      BY <1>2, DepthNat
    <3>2. Plus(tail', k - 1) = Plus(tail, (k - 1) + 1)
      BY <1>1, <3>1, PlusSucc DEF TypeOK
    <3>3. (k - 1) + 1 = k /\ (k + 1) - 1 = k
      BY <1>2
    <3>. QED
      BY <2>1, <3>1, <3>2, <3>3 DEF Queue
  <2>3. /\ Tail(Queue) \in Seq(Values) /\ Len(Tail(Queue)) = Dist(head, tail) - 1
        /\ \A k \in 1 .. Dist(head, tail) - 1 : Tail(Queue)[k] = Queue[k + 1]
    <3>1. Queue # <<>>
      BY <1>2, <1>3
    <3>. QED
      BY <1>3, <3>1, HeadTailProperties
  <2>4. ASSUME NEW k \in 1 .. Dist(head, tail) - 1 PROVE Queue'[k] \in Values
    <3>1. k + 1 \in 1 .. Len(Queue)
      BY <1>2, <1>3
    <3>. QED
      BY <1>3, <2>2, <3>1, ElementOfSeq
  <2>5. Queue' \in Seq(Values) /\ Len(Queue') = Dist(head, tail) - 1
    BY <1>2, <2>1, <2>4
  <2>. QED
    BY <2>2, <2>3, <2>5, SeqEqual
<1>5. Queue # <<>> /\ Head(Queue) = slots[Slot(tail)]
  BY <1>2, <1>3
<1>. QED
  BY <1>1, <1>4, <1>5 DEF Fifo!Consume

\* The ring is a bounded first-in first-out queue: whatever the interleaving
\* of the two sides and wherever the indices have wrapped, a publish appends
\* one item, a receive removes and returns the oldest, and nothing else does.
THEOREM RingImplementsFifo == Spec => FifoRefined
<1>1. Init => Fifo!FifoInit
  <2>. SUFFICES ASSUME Init PROVE Queue = <<>> /\ delivered = <<>>
    BY DEF Fifo!FifoInit
  <2>1. Dist(head, tail) = 0
    BY DEF Init, Dist
  <2>. QED
    BY <2>1 DEF Queue, Init
<1>2. RingInv /\ [Next]_vars => [Fifo!FifoNext]_(Fifo!fifoVars)
  <2>. SUFFICES ASSUME RingInv, [Next]_vars
                PROVE  Fifo!FifoNext \/ UNCHANGED <<Queue, delivered>>
    BY DEF Fifo!fifoVars
  <2>1. CASE Publish
    BY <2>1, PublishAccepts DEF Fifo!FifoNext
  <2>2. CASE Release
    BY <2>2, ReleaseConsumes DEF Fifo!FifoNext
  <2>3. CASE BeginWrite
    <3>1. UNCHANGED <<head, tail, delivered>>
      BY <2>3 DEF BeginWrite, consumerVars
    <3>2. Dist(head, tail) < Depth
      BY <2>3, HeadTail, DepthNat DEF BeginWrite, RingFull, RingInv, StaleTail
    <3>3. slots' = [slots EXCEPT ![Slot(head)] = Torn] /\ TypeOK
      BY <2>3 DEF BeginWrite, RingInv
    <3>. QED
      BY <3>1, <3>2, <3>3, WriteKeepsPublished, SameQueue
  <2>4. CASE UNCHANGED <<head, tail, slots, delivered>>
    BY <2>4 DEF Queue
  <2>. QED
    BY <2>1, <2>2, <2>3, <2>4
    DEF Next, Producer, Consumer, LoadTail, Refuse, LoadHead, Empty, BeginRead,
        producerVars, consumerVars, vars
<1>. QED
  BY <1>1, <1>2, RingInvariant, PTL DEF Spec, FifoRefined, Fifo!FifoSpec

(***************************************************************************)
(* Counting down: every set of naturals has a least number, and every      *)
(* bounded one a greatest.                                                 *)
(***************************************************************************)
\* A set of naturals that is not empty has a least element: what stands in for induction.
LEMMA LeastNumber ==
  ASSUME NEW T, T \subseteq Nat, T # {}
  PROVE  \E x \in T : \A y \in T : x <= y
<1> DEFINE R == {ss \in Nat \X Nat : ss[1] < ss[2]}
<1>1. IsWellFoundedOn(R, Nat)
  BY NatLessThanWellFounded DEF OpToRel
<1>2. \E x \in T : \A y \in T : ~ (<<y, x>> \in R)
  <2> HIDE DEF R
  <2> QED BY <1>1, WFMin
<1>3. PICK x \in T : \A y \in T : ~ (<<y, x>> \in R)
  BY <1>2
<1>4. ASSUME NEW y \in T PROVE x <= y
  <2>1. x \in Nat /\ y \in Nat OBVIOUS
  <2>2. ~ (<<y, x>> \in R) BY <1>3
  <2>3. ~ (y < x) BY <2>1, <2>2
  <2> QED BY <2>1, <2>3
<1> QED BY <1>4

\* What the largest of a bounded set of naturals is.
LEMMA MaxOfNaturals ==
  ASSUME NEW n \in Nat, NEW S, S \subseteq 0 .. n, S # {}
  PROVE  Admission!Max(S) \in S /\ \A y \in S : Admission!Max(S) >= y
<1> DEFINE T == {i \in 0 .. n : n - i \in S}
<1>1. T # {}
  <2>1. PICK s \in S : TRUE OBVIOUS
  <2>2. n - s \in 0 .. n /\ n - (n - s) = s BY <2>1
  <2>3. n - s \in T BY <2>1, <2>2
  <2> QED BY <2>3
<1>2. PICK x \in T : \A y \in T : x <= y
  <2>1. T \subseteq Nat OBVIOUS
  <2> HIDE DEF T
  <2> QED BY <1>1, <2>1, LeastNumber
<1>3. n - x \in S /\ x \in 0 .. n OBVIOUS
<1>4. ASSUME NEW y \in S PROVE n - x >= y
  <2>1. n - y \in T OBVIOUS
  <2>2. x <= n - y BY <2>1, <1>2
  <2> QED BY <2>2, <1>3
<1> QED BY <1>3, <1>4 DEF Admission!Max

(***************************************************************************)
(* The admission of tuning commands                                        *)
(***************************************************************************)
Command == Admission!Tunings \cup {Admission!OtherCommand}

\* The last command to name a field, when one more is queued.
LEMMA LastOfAppend ==
  ASSUME NEW cs \in Seq(Command), NEW c \in Command, NEW f
  PROVE  /\ f \in c.mask => /\ Admission!Naming(Append(cs, c), f) # {}
                           /\ Admission!Max(Admission!Naming(Append(cs, c), f)) = Len(cs) + 1
         /\ f \notin c.mask => Admission!Naming(Append(cs, c), f) = Admission!Naming(cs, f)
<1>1. DOMAIN Append(cs, c) = 1 .. Len(cs) + 1 /\ Append(cs, c)[Len(cs) + 1] = c
      /\ \A i \in 1 .. Len(cs) : Append(cs, c)[i] = cs[i]
  OBVIOUS
<1>2. ASSUME f \in c.mask PROVE /\ Admission!Naming(Append(cs, c), f) # {}
                               /\ Admission!Max(Admission!Naming(Append(cs, c), f)) = Len(cs) + 1
  <2>1. Len(cs) + 1 \in Admission!Naming(Append(cs, c), f) /\ Len(cs) + 1 \in Int
    BY <1>1, <1>2 DEF Admission!Naming
  <2>2. \A y \in Admission!Naming(Append(cs, c), f) : y \in Int /\ Len(cs) + 1 >= y
    BY <1>1 DEF Admission!Naming
  <2>3. \A x \in Admission!Naming(Append(cs, c), f) :
          (\A y \in Admission!Naming(Append(cs, c), f) : x >= y) => x = Len(cs) + 1
    BY <2>1, <2>2
  <2> QED BY <2>1, <2>2, <2>3 DEF Admission!Max
<1>3. f \notin c.mask => Admission!Naming(Append(cs, c), f) = Admission!Naming(cs, f)
  BY <1>1 DEF Admission!Naming
<1> QED BY <1>2, <1>3

\* The same when the first command is taken off.
LEMMA LastOfTail ==
  ASSUME NEW cs \in Seq(Command), cs # <<>>, NEW f
  PROVE  /\ 1 \in Admission!Naming(cs, f) <=> f \in Head(cs).mask
         /\ Admission!Naming(Tail(cs), f) = {} => Admission!Naming(cs, f) \subseteq {1}
         /\ Admission!Naming(Tail(cs), f) # {} =>
              /\ Admission!Naming(cs, f) # {}
              /\ Admission!Max(Admission!Naming(Tail(cs), f)) \in DOMAIN Tail(cs)
              /\ Admission!Max(Admission!Naming(cs, f)) = Admission!Max(Admission!Naming(Tail(cs), f)) + 1
<1> DEFINE N == Admission!Naming(cs, f)
           M == Admission!Naming(Tail(cs), f)
<1>1. DOMAIN cs = 1 .. Len(cs) /\ Len(cs) \in Nat \ {0} /\ Head(cs) = cs[1]
      /\ DOMAIN Tail(cs) = 1 .. Len(cs) - 1 /\ \A i \in 1 .. Len(cs) - 1 : Tail(cs)[i] = cs[i + 1]
  OBVIOUS
<1>2. 1 \in N <=> f \in Head(cs).mask
  BY <1>1 DEF Admission!Naming
<1>3. \A i \in 1 .. Len(cs) - 1 : i \in M <=> i + 1 \in N
  BY <1>1 DEF Admission!Naming
<1>4. N \subseteq 1 .. Len(cs) /\ M \subseteq 1 .. Len(cs) - 1
  BY <1>1 DEF Admission!Naming
<1>5. \A i \in N : i = 1 \/ i - 1 \in M
  <2>1. ASSUME NEW i \in N, i # 1 PROVE i - 1 \in M
    <3>1. i - 1 \in 1 .. Len(cs) - 1 /\ (i - 1) + 1 = i BY <2>1, <1>1, <1>4
    <3> QED BY <3>1, <1>3
  <2> QED BY <2>1
<1>6. ASSUME M # {}
      PROVE  N # {} /\ Admission!Max(M) \in DOMAIN Tail(cs) /\ Admission!Max(N) = Admission!Max(M) + 1
  <2> HIDE DEF N, M
  <2> DEFINE m == Admission!Max(M)
  <2>1. m \in M /\ \A y \in M : m >= y
    <3>1. M \subseteq 0 .. Len(cs) - 1 /\ Len(cs) - 1 \in Nat BY <1>1, <1>4
    <3> QED BY <1>6, <3>1, MaxOfNaturals
  <2> HIDE DEF m
  <2>2. m \in 1 .. Len(cs) - 1 /\ m + 1 \in N BY <2>1, <1>3, <1>4
  <2>3. \A y \in N : y \in Int /\ m + 1 >= y BY <2>1, <2>2, <1>4, <1>5
  <2>4. \A x \in N : (\A y \in N : x >= y) => x = m + 1 BY <2>2, <2>3
  <2>5. Admission!Max(N) = m + 1 BY <2>2, <2>3, <2>4 DEF Admission!Max
  <2> QED BY <2>2, <2>5, <1>1 DEF m
<1> QED BY <1>2, <1>3, <1>4, <1>5, <1>6

\* What the loop over the pending commands computes, step by step, from either end.
LEMMA ReplayNothing == ASSUME NEW q \in Admission!Pairs PROVE Admission!Replay(q, <<>>) = q
  BY DEF Admission!Replay, Admission!Naming, Admission!Pairs
LEMMA ReplayAppend ==
  ASSUME NEW q, NEW cs \in Seq(Command), NEW c \in Command
  PROVE  Admission!Replay(q, Append(cs, c)) = Admission!Merged(Admission!Replay(q, cs), c)
<1>1. Append(cs, c)[Len(cs) + 1] = c /\ \A i \in 1 .. Len(cs) : Append(cs, c)[i] = cs[i]
  OBVIOUS
<1>2. ASSUME NEW f, Admission!Naming(cs, f) # {} PROVE Admission!Max(Admission!Naming(cs, f)) \in 1 .. Len(cs)
  <2>1. Admission!Naming(cs, f) \subseteq 1 .. Len(cs) /\ Len(cs) \in Nat BY DEF Admission!Naming
  <2>2. Admission!Naming(cs, f) \subseteq 0 .. Len(cs) BY <2>1
  <2>3. Admission!Max(Admission!Naming(cs, f)) \in Admission!Naming(cs, f)
    BY <1>2, <2>1, <2>2, MaxOfNaturals
  <2> QED BY <2>1, <2>3
<1>3. Admission!Replay(q, Append(cs, c)).target = Admission!Merged(Admission!Replay(q, cs), c).target
  BY <1>1, <1>2, LastOfAppend DEF Admission!Replay, Admission!Merged
<1>4. Admission!Replay(q, Append(cs, c)).limiter = Admission!Merged(Admission!Replay(q, cs), c).limiter
  BY <1>1, <1>2, LastOfAppend DEF Admission!Replay, Admission!Merged
<1> QED BY <1>3, <1>4 DEF Admission!Replay, Admission!Merged
LEMMA ReplayTail ==
  ASSUME NEW q, NEW cs \in Seq(Command), cs # <<>>
  PROVE  Admission!Replay(q, cs) = Admission!Replay(Admission!Merged(q, Head(cs)), Tail(cs))
<1>1. Head(cs) = cs[1] /\ DOMAIN Tail(cs) = 1 .. Len(cs) - 1 /\ \A i \in 1 .. Len(cs) - 1 : Tail(cs)[i] = cs[i + 1]
  OBVIOUS
<1>2. ASSUME NEW f, Admission!Naming(Tail(cs), f) = {}, Admission!Naming(cs, f) # {}
      PROVE  Admission!Max(Admission!Naming(cs, f)) = 1 /\ f \in Head(cs).mask
  <2>1. Admission!Naming(cs, f) = {1} BY <1>2, LastOfTail
  <2>2. Admission!Max({1}) = 1 BY DEF Admission!Max
  <2> QED BY <2>1, <2>2, LastOfTail
<1>3. Admission!Replay(q, cs).target = Admission!Replay(Admission!Merged(q, Head(cs)), Tail(cs)).target
  BY <1>1, <1>2, LastOfTail DEF Admission!Replay, Admission!Merged
<1>4. Admission!Replay(q, cs).limiter = Admission!Replay(Admission!Merged(q, Head(cs)), Tail(cs)).limiter
  BY <1>1, <1>2, LastOfTail DEF Admission!Replay, Admission!Merged
<1> QED BY <1>3, <1>4 DEF Admission!Replay
LEMMA MergedType ==
  ASSUME NEW q \in Admission!Pairs, NEW c \in Command
  PROVE  Admission!Merged(q, c) \in Admission!Pairs
  BY DEF Admission!Merged, Admission!Pairs, Command, Admission!Tunings, Admission!OtherCommand
LEMMA ReplayType ==
  ASSUME NEW q \in Admission!Pairs, NEW cs \in Seq(Command)
  PROVE  Admission!Replay(q, cs) \in Admission!Pairs
<1>1. ASSUME NEW f, Admission!Naming(cs, f) # {}
      PROVE  /\ Admission!Max(Admission!Naming(cs, f)) \in 1 .. Len(cs)
             /\ f \in cs[Admission!Max(Admission!Naming(cs, f))].mask
  <2>1. Admission!Naming(cs, f) \subseteq 1 .. Len(cs) /\ Len(cs) \in Nat BY DEF Admission!Naming
  <2>2. Admission!Naming(cs, f) \subseteq 0 .. Len(cs) BY <2>1
  <2>3. Admission!Max(Admission!Naming(cs, f)) \in Admission!Naming(cs, f)
    BY <1>1, <2>1, <2>2, MaxOfNaturals
  <2> QED BY <2>1, <2>3 DEF Admission!Naming
<1>2. \A i \in 1 .. Len(cs) : cs[i].mask # {} => cs[i].target \in Levels /\ cs[i].limiter \in Levels
  BY DEF Command, Admission!Tunings, Admission!OtherCommand
<1> QED BY <1>1, <1>2 DEF Admission!Replay, Admission!Pairs

\* Admitting one more command, and taking the first one off, keep what the worker accepts.
LEMMA AcceptsAppend ==
  ASSUME NEW q, NEW cs \in Seq(Command), NEW c \in Command, Admission!WorkerAccepts(q, cs),
         Admission!Accepts(Admission!Replay(q, cs), c)
  PROVE  Admission!WorkerAccepts(q, Append(cs, c))
<1> DEFINE s == Append(cs, c)
<1>1. DOMAIN s = 1 .. Len(cs) + 1 /\ s[Len(cs) + 1] = c /\ \A i \in 1 .. Len(cs) : s[i] = cs[i]
  OBVIOUS
<1>2. \A i \in 1 .. Len(cs) + 1 : SubSeq(s, 1, i - 1) = SubSeq(cs, 1, i - 1)
  OBVIOUS
<1>3. SubSeq(cs, 1, Len(cs)) = cs
  OBVIOUS
<1>4. ASSUME NEW i \in DOMAIN s PROVE Admission!Accepts(Admission!Replay(q, SubSeq(s, 1, i - 1)), s[i])
  <2>1. CASE i = Len(cs) + 1
    <3>1. SubSeq(s, 1, i - 1) = cs /\ s[i] = c BY <1>1, <1>2, <1>3, <2>1
    <3> QED BY <3>1
  <2>2. CASE i \in 1 .. Len(cs)
    <3>1. SubSeq(s, 1, i - 1) = SubSeq(cs, 1, i - 1) /\ s[i] = cs[i] /\ i \in DOMAIN cs BY <1>1, <1>2, <2>2
    <3> QED BY <3>1 DEF Admission!WorkerAccepts
  <2> QED BY <1>1, <2>1, <2>2
<1> QED BY <1>4 DEF Admission!WorkerAccepts
LEMMA AcceptsTail ==
  ASSUME NEW q \in Admission!Pairs, NEW cs \in Seq(Command), cs # <<>>, Admission!WorkerAccepts(q, cs)
  PROVE  /\ Admission!Accepts(q, Head(cs))
         /\ Admission!WorkerAccepts(Admission!Merged(q, Head(cs)), Tail(cs))
<1>1. DOMAIN cs = 1 .. Len(cs) /\ Len(cs) \in Nat \ {0} /\ Head(cs) = cs[1]
      /\ DOMAIN Tail(cs) = 1 .. Len(cs) - 1 /\ \A i \in 1 .. Len(cs) - 1 : Tail(cs)[i] = cs[i + 1]
  OBVIOUS
<1>2. Admission!Accepts(q, Head(cs))
  <2>1. SubSeq(cs, 1, 1 - 1) = <<>> /\ 1 \in DOMAIN cs BY <1>1
  <2>2. Admission!Accepts(Admission!Replay(q, SubSeq(cs, 1, 1 - 1)), cs[1])
    BY <2>1 DEF Admission!WorkerAccepts
  <2> QED BY <1>1, <2>1, <2>2, ReplayNothing
<1>3. ASSUME NEW i \in DOMAIN Tail(cs)
      PROVE  Admission!Accepts(Admission!Replay(Admission!Merged(q, Head(cs)), SubSeq(Tail(cs), 1, i - 1)), Tail(cs)[i])
  <2>1. i \in 1 .. Len(cs) - 1 /\ i + 1 \in DOMAIN cs /\ (i + 1) - 1 = i BY <1>1
  <2>2. Admission!Accepts(Admission!Replay(q, SubSeq(cs, 1, i)), cs[i + 1])
    BY <2>1 DEF Admission!WorkerAccepts
  <2> DEFINE s == SubSeq(cs, 1, i)
  <2>3. s \in Seq(Command) /\ s # <<>> /\ Head(s) = Head(cs) BY <2>1, <1>1
  <2>4. Tail(s) = SubSeq(Tail(cs), 1, i - 1)
    <3>1. Len(Tail(s)) = i - 1 /\ Len(SubSeq(Tail(cs), 1, i - 1)) = i - 1 BY <2>1
    <3>2. \A k \in 1 .. i - 1 : Tail(s)[k] = cs[k + 1] /\ SubSeq(Tail(cs), 1, i - 1)[k] = cs[k + 1] BY <2>1, <1>1
    <3>3. Tail(s) \in Seq(Command) /\ SubSeq(Tail(cs), 1, i - 1) \in Seq(Command) BY <2>1, <2>3
    <3> HIDE DEF s
    <3> QED BY <3>1, <3>2, <3>3, SeqEqual
  <2>5. Admission!Replay(q, s) = Admission!Replay(Admission!Merged(q, Head(s)), Tail(s))
    <3> HIDE DEF s
    <3> QED BY <2>3, ReplayTail
  <2> QED BY <2>1, <2>2, <2>3, <2>4, <2>5, <1>1
<1> QED BY <1>2, <1>3 DEF Admission!WorkerAccepts
\* The resync looks at the pair after every pending command, the worker before it.
LEMMA PrefixReplay ==
  ASSUME NEW q, NEW cs \in Seq(Command), NEW i \in 1 .. Len(cs)
  PROVE  Admission!Replay(q, SubSeq(cs, 1, i)) = Admission!Merged(Admission!Replay(q, SubSeq(cs, 1, i - 1)), cs[i])
<1>1. SubSeq(cs, 1, i) = Append(SubSeq(cs, 1, i - 1), cs[i])
  OBVIOUS
<1>2. SubSeq(cs, 1, i - 1) \in Seq(Command) /\ cs[i] \in Command
  OBVIOUS
<1> QED BY <1>1, <1>2, ReplayAppend
LEMMA ResyncAccepts ==
  ASSUME pending \in Seq(Command), Admission!ResyncOk
  PROVE  Admission!WorkerAccepts(tuning, pending)
  BY PrefixReplay DEF Admission!ResyncOk, Admission!WorkerAccepts, Admission!Accepts, Admission!TouchesPair
\* With a valid pair in the pipeline the resync refuses only what the worker would: were there a first
\* command after which the pair is invalid, it would be one that touches the pair.
LEMMA AcceptsResync ==
  ASSUME pending \in Seq(Command), tuning \in Admission!Pairs, Admission!PairOk(tuning),
         Admission!WorkerAccepts(tuning, pending)
  PROVE  Admission!ResyncOk
<1> DEFINE At(i) == Admission!Replay(tuning, SubSeq(pending, 1, i))
           Bad == {i \in 0 .. Len(pending) : ~Admission!PairOk(At(i))}
<1>1. Bad = {}
  <2> SUFFICES ASSUME Bad # {} PROVE FALSE OBVIOUS
  <2>1. Bad \subseteq Nat OBVIOUS
  <2>2. PICK i \in Bad : \A k \in Bad : i <= k
    <3> HIDE DEF Bad
    <3> QED BY <2>1, LeastNumber
  <2>3. At(0) = tuning
    <3>1. SubSeq(pending, 1, 0) = <<>> OBVIOUS
    <3> QED BY <3>1, ReplayNothing
  <2>4. i \in 1 .. Len(pending) /\ i - 1 \in 0 .. Len(pending) BY <2>2, <2>3
  <2>5. i - 1 \notin Bad
    <3> HIDE DEF Bad
    <3> QED BY <2>2, <2>4
  <2>6. Admission!PairOk(At(i - 1)) BY <2>4, <2>5
  <2>7. At(i) = Admission!Merged(At(i - 1), pending[i]) BY <2>4, PrefixReplay
  <2>8. Admission!Accepts(At(i - 1), pending[i]) BY <2>4 DEF Admission!WorkerAccepts
  <2>9. At(i - 1) \in Admission!Pairs
    <3>1. SubSeq(pending, 1, i - 1) \in Seq(Command) BY <2>4
    <3> QED BY <3>1, ReplayType
  <2>10. ~Admission!TouchesPair(pending[i]) => Admission!Merged(At(i - 1), pending[i]) = At(i - 1)
    <3> HIDE DEF At
    <3> QED BY <2>9 DEF Admission!TouchesPair, Admission!Merged, Admission!Pairs
  <2>11. Admission!PairOk(At(i))
    <3> HIDE DEF At
    <3> QED BY <2>6, <2>7, <2>8, <2>10 DEF Admission!Accepts
  <2> QED BY <2>2, <2>11
<1> QED BY <1>1 DEF Admission!ResyncOk

\* While a worker exists, or start has rebuilt the projection for one, the projection is exact and what
\* is queued is accepted - without the command that is being applied, which the pipeline already has -
\* and so is the command that is being pushed.
Live == workerState # "STOPPED" \/ opc = "resynced"
Queued == IF wpc = "applied" THEN Tail(pending) ELSE pending
LiveExact ==
    Live => /\ projected = Admission!Replay(tuning, pending)
            /\ Admission!WorkerAccepts(tuning, Queued)
            /\ tuningCpc = "push" => Admission!Accepts(projected, cmd)
\* The command being applied has already changed the pipeline: replaying it once more changes nothing.
AppliedOnce == wpc = "applied" => /\ left > 0
                                  /\ Admission!Replay(tuning, pending) = Admission!Replay(tuning, Tail(pending))
AdmissionTypes ==
    /\ Admission!TypeOK /\ (HasAgc => Admission!PairOk(tuning))
    /\ cmd \in Command /\ tuningCpc \in {"idle", "push"} /\ opc \in {"idle", "resynced", "join"}
    /\ workerState = "STOPPED" <=> wpc = "none"
    /\ workerState = "STOPPING" <=> opc = "join"
    /\ opc = "resynced" => workerState = "STOPPED"
AdmissionInv == /\ AdmissionTypes /\ LiveExact /\ AppliedOnce
                /\ Admission!HandOffValid /\ (HasAgc => Admission!StartRefusalJustified)

LEMMA AdmissionInitially == Admission!LevelAssumption /\ Admission!Init => AdmissionInv
<1> SUFFICES ASSUME Admission!LevelAssumption, Admission!Init PROVE AdmissionInv
  OBVIOUS
<1> USE DEF Admission!Init
<1>1. AdmissionTypes BY DEF AdmissionTypes, Admission!TypeOK, Admission!LevelAssumption, Command
<1>2. LiveExact /\ AppliedOnce BY DEF LiveExact, AppliedOnce, Live
<1>3. Admission!HandOffValid /\ Admission!StartRefusalJustified
  BY DEF Admission!HandOffValid, Admission!StartRefusalJustified
<1> QED BY <1>1, <1>2, <1>3 DEF AdmissionInv

\* The control producer judges a command by the projection, and pushes it.
LEMMA ControlKeepsAdmissionInv ==
  ASSUME AdmissionInv, Admission!Control
  PROVE  AdmissionInv'
<1> USE DEF AdmissionInv
<1>0. pending \in Seq(Command) /\ tuning \in Admission!Pairs /\ projected \in Admission!Pairs
  BY DEF AdmissionTypes, Admission!TypeOK, Command
<1>1. ASSUME NEW c \in Command, Admission!Validate(c) PROVE AdmissionInv'
  <2> USE <1>1 DEF Admission!Validate
  <2>0. projected' \in Admission!Pairs BY <1>0, ReplayType
  <2>1. AdmissionTypes' BY <2>0 DEF AdmissionTypes, Admission!TypeOK
  <2>2. CASE Live
    <3>1. projected' = projected
      <4>1. CASE workerState = "STOPPED" /\ c.mask # {}
        BY <2>2, <4>1 DEF LiveExact, Live
      <4> QED BY <4>1
    <3>2. tuningCpc' = "push" => Admission!Accepts(projected', cmd')
      BY DEF AdmissionTypes, Admission!Admits, Admission!Accepts
    <3>3. LiveExact' BY <2>2, <3>1, <3>2 DEF LiveExact, Live, Queued
    <3>4. AppliedOnce' BY DEF AppliedOnce
    <3> QED BY <2>1, <3>3, <3>4 DEF Admission!HandOffValid, Admission!StartRefusalJustified
  <2>3. CASE ~Live
    <3>1. LiveExact' /\ AppliedOnce' BY <2>3 DEF LiveExact, Live, AppliedOnce
    <3> QED BY <2>1, <3>1 DEF Admission!HandOffValid, Admission!StartRefusalJustified
  <2> QED BY <2>2, <2>3
<1>2. CASE Admission!PushCommand
  <2> USE <1>2 DEF Admission!PushCommand
  <2>a. cmd \in Command BY DEF AdmissionTypes
  <2>b. projected' \in Admission!Pairs BY <1>0, <2>a, MergedType
  <2>c. pending' \in Seq(Command) /\ Len(pending') = Len(pending) + 1 BY <1>0, <2>a
  <2>1. AdmissionTypes' BY <2>a, <2>b, <2>c, <1>0, ChannelAssumption DEF AdmissionTypes, Admission!TypeOK, Command, Admission!LevelAssumption
  <2>d. Admission!Replay(tuning, pending') = Admission!Merged(Admission!Replay(tuning, pending), cmd)
    BY <1>0, <2>a, ReplayAppend
  <2>e. wpc = "applied" => /\ pending # <<>> /\ Tail(pending) \in Seq(Command)
                           /\ Tail(pending') = Append(Tail(pending), cmd)
    BY <1>0 DEF AppliedOnce, AdmissionTypes, Admission!TypeOK
  <2>f. wpc = "applied" => Admission!Replay(tuning, Tail(pending'))
                             = Admission!Merged(Admission!Replay(tuning, Tail(pending)), cmd)
    BY <2>a, <2>e, ReplayAppend
  <2>2. LiveExact'
    <3> SUFFICES ASSUME Live PROVE LiveExact'
      BY DEF LiveExact, Live
    <3>1. projected' = Admission!Replay(tuning, pending') BY <2>d DEF LiveExact
    <3>2. Admission!WorkerAccepts(tuning, Queued')
      <4>1. Admission!WorkerAccepts(tuning, Queued) /\ Admission!Accepts(projected, cmd)
            /\ projected = Admission!Replay(tuning, pending)
        BY DEF LiveExact
      <4>2. CASE wpc = "applied"
        <5>1. Admission!Accepts(Admission!Replay(tuning, Tail(pending)), cmd) BY <4>1, <4>2 DEF AppliedOnce
        <5>2. Admission!WorkerAccepts(tuning, Append(Tail(pending), cmd))
          BY <2>a, <2>e, <4>1, <4>2, <5>1, AcceptsAppend DEF Queued
        <5> QED BY <2>e, <4>2, <5>2 DEF Queued
      <4>3. CASE wpc # "applied"
        BY <1>0, <2>a, <4>1, <4>3, AcceptsAppend DEF Queued
      <4> QED BY <4>2, <4>3
    <3> QED BY <3>1, <3>2 DEF LiveExact
  <2>3. AppliedOnce' BY <2>d, <2>f DEF AppliedOnce
  <2> QED BY <2>1, <2>2, <2>3 DEF Admission!HandOffValid, Admission!StartRefusalJustified
<1> QED BY <1>1, <1>2 DEF Admission!Control, Command

\* The worker takes the commands in their order and meets none it must reject.
LEMMA WorkerKeepsAdmissionInv ==
  ASSUME AdmissionInv, Admission!Worker
  PROVE  AdmissionInv'
<1> USE DEF AdmissionInv
<1>0. pending \in Seq(Command) /\ tuning \in Admission!Pairs /\ left \in 0 .. Len(pending)
  BY DEF AdmissionTypes, Admission!TypeOK, Command
<1>1. CASE Admission!BeginDrain \/ Admission!EndDrain \/ Admission!Leave
  <2> USE <1>1 DEF Admission!BeginDrain, Admission!EndDrain, Admission!Leave
  <2>1. AdmissionTypes' BY <1>0 DEF AdmissionTypes, Admission!TypeOK
  <2>2. LiveExact' /\ AppliedOnce' BY DEF LiveExact, Live, Queued, AppliedOnce
  <2> QED BY <2>1, <2>2 DEF Admission!HandOffValid, Admission!StartRefusalJustified
<1>2. CASE Admission!ApplyCommand
  <2> USE <1>2 DEF Admission!ApplyCommand
  <2>a. pending # <<>> /\ Head(pending) \in Command /\ Tail(pending) \in Seq(Command) BY <1>0
  <2>b. Live BY DEF AdmissionTypes, Live
  <2>c. /\ Admission!Accepts(tuning, Head(pending))
        /\ Admission!WorkerAccepts(Admission!Merged(tuning, Head(pending)), Tail(pending))
    BY <1>0, <2>a, <2>b, AcceptsTail DEF LiveExact, Queued
  <2>d. tuning' = Admission!Merged(tuning, Head(pending)) /\ UNCHANGED rejected BY <2>c
  <2>e. tuning' \in Admission!Pairs BY <1>0, <2>a, <2>d, MergedType
  <2>f. HasAgc => Admission!PairOk(tuning')
    <3>1. CASE Admission!TouchesPair(Head(pending)) BY <2>c, <2>d, <3>1 DEF Admission!Accepts
    <3>2. CASE ~Admission!TouchesPair(Head(pending))
      <4>1. tuning' = tuning
        BY <1>0, <2>d, <3>2 DEF Admission!TouchesPair, Admission!Merged, Admission!Pairs
      <4> QED BY <4>1 DEF AdmissionTypes
    <3> QED BY <3>1, <3>2
  <2>1. AdmissionTypes' BY <2>e, <2>f DEF AdmissionTypes, Admission!TypeOK
  <2>g. Admission!Merged(tuning', Head(pending)) = tuning'
    BY <1>0, <2>d DEF Admission!Merged, Admission!Pairs
  <2>h. Admission!Replay(tuning', pending) = Admission!Replay(tuning', Tail(pending))
    BY <1>0, <2>a, <2>g, ReplayTail
  <2>i. Admission!Replay(tuning, pending) = Admission!Replay(tuning', Tail(pending))
    BY <1>0, <2>a, <2>d, ReplayTail
  <2>2. LiveExact' BY <2>b, <2>c, <2>d, <2>h, <2>i DEF LiveExact, Live, Queued
  <2>3. AppliedOnce' BY <1>0, <2>h DEF AppliedOnce
  <2> QED BY <2>1, <2>2, <2>3, <2>d DEF Admission!HandOffValid, Admission!StartRefusalJustified
<1>3. CASE Admission!ReleaseCommand
  <2> USE <1>3 DEF Admission!ReleaseCommand
  <2>a. pending # <<>> /\ Tail(pending) \in Seq(Command) /\ Len(Tail(pending)) = Len(pending) - 1
    BY <1>0 DEF AppliedOnce
  <2>1. AdmissionTypes' BY <1>0, <2>a, ChannelAssumption DEF AdmissionTypes, Admission!TypeOK, AppliedOnce, Command, Admission!LevelAssumption
  <2>2. LiveExact' BY DEF LiveExact, Live, Queued, AppliedOnce
  <2>3. AppliedOnce' BY DEF AppliedOnce
  <2> QED BY <2>1, <2>2, <2>3 DEF Admission!HandOffValid, Admission!StartRefusalJustified
<1> QED BY <1>1, <1>2, <1>3 DEF Admission!Worker

\* The owner starts, stops, and changes the pipeline behind the back of what is queued.
LEMMA OwnerKeepsAdmissionInv ==
  ASSUME AdmissionInv, Admission!Owner
  PROVE  AdmissionInv'
<1> USE DEF AdmissionInv
<1>0. pending \in Seq(Command) /\ tuning \in Admission!Pairs
  BY DEF AdmissionTypes, Admission!TypeOK, Command
<1>1. CASE Admission!StartResync
  <2> USE <1>1 DEF Admission!StartResync
  <2>a. Admission!Replay(tuning, pending) \in Admission!Pairs BY <1>0, ReplayType
  <2>b. Admission!WorkerAccepts(tuning, pending) BY <1>0, ResyncAccepts
  <2>1. AdmissionTypes' BY <2>a DEF AdmissionTypes, Admission!TypeOK
  <2>2. LiveExact' BY <2>b DEF LiveExact, Live, Queued, AdmissionTypes
  <2>3. AppliedOnce' BY DEF AppliedOnce
  <2> QED BY <2>1, <2>2, <2>3 DEF Admission!HandOffValid, Admission!StartRefusalJustified
<1>2. CASE Admission!StartRefuse
  <2> USE <1>2 DEF Admission!StartRefuse
  <2>1. AdmissionTypes' BY DEF AdmissionTypes, Admission!TypeOK
  <2>2. LiveExact' /\ AppliedOnce' BY DEF LiveExact, Live, Queued, AppliedOnce
  <2>3. HasAgc => Admission!StartRefusalJustified'
    BY <1>0, AcceptsResync DEF AdmissionTypes, Admission!StartRefusalJustified
  <2> QED BY <2>1, <2>2, <2>3 DEF Admission!HandOffValid
<1>3. CASE Admission!StartWorker \/ Admission!StopClaim \/ Admission!StopDone
  <2> USE <1>3 DEF Admission!StartWorker, Admission!StopClaim, Admission!StopDone
  <2>1. AdmissionTypes' BY DEF AdmissionTypes, Admission!TypeOK
  <2>2. LiveExact' /\ AppliedOnce' BY DEF LiveExact, Live, Queued, AppliedOnce, AdmissionTypes
  <2> QED BY <2>1, <2>2 DEF Admission!HandOffValid, Admission!StartRefusalJustified
<1>4. ASSUME NEW c \in Admission!Tunings, Admission!DirectTuning(c) PROVE AdmissionInv'
  <2> USE <1>4 DEF Admission!DirectTuning
  <2>a. tuning' \in Admission!Pairs BY <1>0, MergedType DEF Command
  <2>b. HasAgc => Admission!PairOk(tuning')
    <3>1. CASE Admission!TouchesPair(c) BY <3>1 DEF Admission!Accepts
    <3>2. CASE ~Admission!TouchesPair(c)
      <4>1. tuning' = tuning BY <1>0, <3>2 DEF Admission!TouchesPair, Admission!Merged, Admission!Pairs
      <4> QED BY <4>1 DEF AdmissionTypes
    <3> QED BY <3>1, <3>2
  <2>1. AdmissionTypes' BY <2>a, <2>b DEF AdmissionTypes, Admission!TypeOK
  <2>2. LiveExact' /\ AppliedOnce' BY DEF LiveExact, Live, AppliedOnce, AdmissionTypes
  <2> QED BY <2>1, <2>2 DEF Admission!HandOffValid, Admission!StartRefusalJustified
<1> QED BY <1>1, <1>2, <1>3, <1>4 DEF Admission!Owner

\* What the runtime has said AP_OK to stays valid until the worker takes it, through direct changes,
\* stops and starts, for every depth of the ring and every set of levels: with the AGC stage
\* configured, as without it the pipeline's own pair need not be valid and start may refuse too much.
THEOREM AdmissionSoundHolds == ASSUME HasAgc PROVE SumSpec => []AdmissionSound
<1> DEFINE Safe == which = "tuning" => AdmissionInv
<1>1. SumInit => Safe
  BY AdmissionInitially, ChannelAssumption DEF SumInit
<1>2. ASSUME Safe, [SumNext]_sumVars PROVE Safe'
  <2> USE <1>2
  <2>1. CASE which = "tuning" /\ Admission!Next /\ UNCHANGED which
    BY <2>1, ControlKeepsAdmissionInv, WorkerKeepsAdmissionInv, OwnerKeepsAdmissionInv DEF Admission!Next
  <2>2. CASE UNCHANGED <<which, tuningVars>>
    BY <2>2 DEF tuningVars, AdmissionInv, AdmissionTypes, LiveExact, Live, Queued, AppliedOnce, Admission!TypeOK,
                Admission!HandOffValid, Admission!StartRefusalJustified, Admission!WorkerAccepts
  <2> QED BY <2>1, <2>2 DEF SumNext, sumVars
<1>3. Safe => AdmissionSound
  <2> SUFFICES ASSUME AdmissionInv PROVE Admission!ProjectionExact /\ Admission!RunningSequenceValid
    BY DEF AdmissionSound, AdmissionInv, AdmissionTypes
  <2> QED BY DEF AdmissionInv, LiveExact, Live, Queued, Admission!ProjectionExact, Admission!RunningSequenceValid
<1> QED BY <1>1, <1>2, <1>3, PTL DEF SumSpec

(***************************************************************************)
(* The event plane: the ring, the latch and its reader.                    *)
(***************************************************************************)
LEMMA EventBounds ==
  /\ Severities \subseteq 1 .. 4 /\ EventDepth \in Nat \ {0} /\ CriticalMax \in Nat \ {0} /\ MaxEvents \in Nat
  /\ Events!Fields = {"frame", "what"} /\ Events!AP_EVENT_ERROR = 3
  BY ChannelAssumption DEF Events!BoundAssumption, Events!Fields, Events!AP_EVENT_ERROR

\* A position of the ring has a slot.
LEMMA EventSlot ==
  ASSUME NEW i \in Nat
  PROVE  i % EventDepth \in 0 .. EventDepth - 1
<1>1. EventDepth \in Nat \ {0} /\ i \in Int BY EventBounds
<1> QED BY <1>1, Division

\* Positions that are less than a ring apart have slots of their own.
LEMMA SlotsApart ==
  ASSUME NEW d \in Nat \ {0}, NEW i \in Nat, NEW j \in Nat, i < j, j - i < d
  PROVE  i % d # j % d
<1>1. i = d * (i \div d) + (i % d) /\ i \div d \in Int /\ i % d \in 0 .. d - 1 BY Division
<1>2. j = d * (j \div d) + (j % d) /\ j \div d \in Int /\ j % d \in 0 .. d - 1 BY Division
<1>3. ASSUME i % d = j % d PROVE FALSE
  <2> DEFINE k == (j \div d) - (i \div d)
  <2>1. k \in Int /\ j - i = d * k BY <1>1, <1>2, <1>3, Z3T(30)
  <2>2. CASE k <= 0 BY <2>1, <2>2, Z3T(30)
  <2>3. CASE k >= 1
    <3>1. d * k >= d BY <2>1, <2>3, Z3T(30)
    <3> QED BY <2>1, <3>1
  <2> QED BY <2>1, <2>2, <2>3
<1> QED BY <1>3

\* The event at work is not counted yet as published or dropped.
Busy == IF eventWpc = "idle" THEN 0 ELSE 1
\* What waits in the ring, by position since the start.
Waiting == eventTail .. eventHead - 1
At(i) == events[i % EventDepth]

\* An event at a time is at work, and is dropped or published.
EmitTypes ==
    /\ eventWpc \in {"idle", "latch", "store", "trigger", "ring", "publish"}
    /\ emitted \in 0 .. MaxEvents /\ severe \subseteq 1 .. emitted /\ loud \subseteq 1 .. emitted
    /\ eventHead \in Nat /\ dropped \in Nat /\ emitted = eventHead + dropped + Busy
\* The worker's view of the tail is an old one; the consumer is inside one call at most.
RingTypes ==
    /\ eventTail \in 0 .. eventHead /\ tailSeen \in 0 .. eventTail /\ eventHead - eventTail <= EventDepth
    /\ eventWpc = "publish" => eventHead - eventTail < EventDepth
    /\ events \in [0 .. EventDepth - 1 -> 0 .. MaxEvents]
    /\ epc \in {"idle", "copy", "release"} /\ received \in Seq(Nat)
    /\ Len(received) = eventTail + (IF epc = "release" THEN 1 ELSE 0)
    /\ epc # "idle" => eventTail < eventHead
\* What waits is in order, after all that was received, each as many numbers ahead of its position as
\* events were dropped before it; what is being published is in its slot.
WaitingSound == \A i \in Waiting : At(i) - (i + 1) \in 0 .. dropped /\ At(i) <= emitted - Busy
WaitingOrdered == \A i, j \in Waiting : i < j => At(i) < At(j)
ReceivedFirst == \A k \in 1 .. Len(received) : \A i \in Waiting : i >= Len(received) => received[k] < At(i)
ReceivedSound == \A k \in 1 .. Len(received) : received[k] - k \in 0 .. dropped
ReceivedOrdered == \A k \in 1 .. Len(received) - 1 : received[k] < received[k + 1]
BeingPublished == eventWpc = "publish" => At(eventHead) = emitted
RingOrder == WaitingSound /\ WaitingOrdered /\ ReceivedFirst /\ ReceivedSound /\ ReceivedOrdered /\ BeingPublished

LEMMA EmitTypesKept ==
  ASSUME EmitTypes, Events!Next
  PROVE  EmitTypes'
<1> USE EventBounds DEF Events!ringVars, Events!latchVars, Events!emitVars, Events!consumerVars, Events!readerVars, EmitTypes, Busy
<1>1. CASE \E s \in Severities : Events!EmitBegin(s)
  BY <1>1 DEF Events!EmitBegin
<1>2. CASE \E f \in Events!Fields : Events!LatchField(f)
  BY <1>2 DEF Events!LatchField
<1>3. CASE Events!LatchBegin
  BY <1>3 DEF Events!LatchBegin
<1>4. CASE Events!LatchEnd
  BY <1>4 DEF Events!LatchEnd
<1>5. CASE Events!TriggerRecorder
  BY <1>5 DEF Events!TriggerRecorder
<1>6. CASE Events!DropEvent
  BY <1>6 DEF Events!DropEvent
<1>7. CASE Events!FillEvent
  BY <1>7 DEF Events!FillEvent
<1>8. CASE Events!PublishEvent
  BY <1>8 DEF Events!PublishEvent
<1>9. CASE Events!Consume
  BY <1>9 DEF Events!Consume, Events!TakeEvent, Events!CopyEvent, Events!ReleaseEvent
<1>10. CASE Events!Read
  BY <1>10 DEF Events!Read, Events!ReadBegin, Events!ReadRetry, Events!ReadEnd, Events!ReadTotal, Events!LoadField, Events!readerFrame
<1> QED BY <1>1, <1>2, <1>3, <1>4, <1>5, <1>6, <1>7, <1>8, <1>9, <1>10 DEF Events!Next, Events!Emit

LEMMA ReceivedTypes ==
  ASSUME RingTypes
  PROVE  Len(received) \in Nat /\ \A k \in 1 .. Len(received) : received[k] \in Nat
  BY DEF RingTypes

\* Steps that leave the ring and its consumer alone.
RingStill ==
    /\ UNCHANGED <<eventHead, eventTail, events, epc, received>>
    /\ dropped' \in Nat /\ dropped' >= dropped /\ emitted' - Busy' \in Nat /\ emitted' - Busy' >= emitted - Busy
    /\ eventWpc' = "publish" => eventWpc' = eventWpc /\ emitted' = emitted
    /\ tailSeen' \in {tailSeen, eventTail}

LEMMA RingStillness ==
  ASSUME EmitTypes,
         \/ \E s \in Severities : Events!EmitBegin(s)
         \/ \E f \in Events!Fields : Events!LatchField(f)
         \/ Events!LatchBegin \/ Events!LatchEnd \/ Events!TriggerRecorder \/ Events!DropEvent \/ Events!Read
  PROVE  RingStill
<1> USE EventBounds DEF Events!ringVars, Events!latchVars, Events!emitVars, Events!consumerVars, Events!readerVars, EmitTypes, Busy, RingStill
<1>1. CASE \E s \in Severities : Events!EmitBegin(s)
  BY <1>1 DEF Events!EmitBegin
<1>2. CASE \E f \in Events!Fields : Events!LatchField(f)
  BY <1>2 DEF Events!LatchField
<1>3. CASE Events!LatchBegin \/ Events!LatchEnd \/ Events!TriggerRecorder
  BY <1>3 DEF Events!LatchBegin, Events!LatchEnd, Events!TriggerRecorder
<1>4. CASE Events!DropEvent
  BY <1>4 DEF Events!DropEvent
<1>5. CASE Events!Read
  BY <1>5 DEF Events!Read, Events!ReadBegin, Events!ReadRetry, Events!ReadEnd, Events!ReadTotal, Events!LoadField, Events!readerFrame
<1> QED BY <1>1, <1>2, <1>3, <1>4, <1>5

\* The worker fills only a slot that was free, the consumer releases only what it copied.
LEMMA RingTypesKept ==
  ASSUME EmitTypes, RingTypes, Events!Next
  PROVE  RingTypes'
<1> USE EventBounds DEF RingTypes
<1>1. CASE RingStill
  BY <1>1 DEF RingStill, EmitTypes
<1>2. CASE Events!FillEvent
  <2>1. eventHead % EventDepth \in 0 .. EventDepth - 1 /\ emitted \in 0 .. MaxEvents BY EventSlot DEF EmitTypes
  <2>2. UNCHANGED <<eventHead, eventTail, tailSeen, epc, received>> /\ eventHead - tailSeen < EventDepth
        /\ events' = [events EXCEPT ![eventHead % EventDepth] = emitted] /\ eventWpc' = "publish"
    BY <1>2 DEF Events!FillEvent, Events!ringVars, Events!latchVars, Events!emitVars, Events!consumerVars, Events!readerVars
  <2>3. events' \in [0 .. EventDepth - 1 -> 0 .. MaxEvents] BY <2>1, <2>2
  <2>4. eventHead \in Int /\ eventTail \in Int /\ tailSeen \in Int BY DEF EmitTypes
  <2> HIDE EventBounds DEF RingTypes
  <2>5. RingTypes /\ EventDepth \in Int BY EventBounds DEF RingTypes
  <2> QED BY <2>2, <2>3, <2>4, <2>5 DEF RingTypes
<1>3. CASE Events!PublishEvent
  BY <1>3 DEF Events!PublishEvent, Events!ringVars, Events!latchVars, Events!emitVars, Events!consumerVars, Events!readerVars, EmitTypes
<1>4. CASE Events!TakeEvent
  BY <1>4 DEF Events!TakeEvent, Events!ringVars, Events!latchVars, Events!emitVars, Events!consumerVars, Events!readerVars, EmitTypes
<1>5. CASE Events!CopyEvent
  <2>0. Len(received) \in Nat BY ReceivedTypes
  <2>1. Len(received) % EventDepth \in 0 .. EventDepth - 1 BY <2>0, EventSlot
  <2>2. events[Len(received) % EventDepth] \in Nat BY <2>1
  <2>3. UNCHANGED <<eventHead, eventTail, events, tailSeen, eventWpc>> /\ epc = "copy" /\ epc' = "release"
        /\ received' = Append(received, events[Len(received) % EventDepth])
    BY <1>5 DEF Events!CopyEvent, Events!ringVars, Events!latchVars, Events!emitVars, Events!consumerVars, Events!readerVars
  <2>4. received' \in Seq(Nat) /\ Len(received') = Len(received) + 1 BY <2>2, <2>3
  <2> QED BY <2>3, <2>4
<1>6. CASE Events!ReleaseEvent
  <2>1. UNCHANGED <<eventHead, events, tailSeen, eventWpc, received>> /\ epc = "release" /\ epc' = "idle"
        /\ eventTail' = eventTail + 1
    BY <1>6 DEF Events!ReleaseEvent, Events!ringVars, Events!latchVars, Events!emitVars, Events!consumerVars, Events!readerVars
  <2>2. eventTail < eventHead /\ eventTail' \in 0 .. eventHead /\ Len(received) = eventTail' BY <2>1 DEF EmitTypes
  <2> QED BY <2>1, <2>2 DEF EmitTypes
<1> QED BY RingStillness, <1>1, <1>2, <1>3, <1>4, <1>5, <1>6 DEF Events!Next, Events!Emit, Events!Consume

\* Every position that waits is a number below the head, with a number in its slot.
LEMMA WaitingTypes ==
  ASSUME EmitTypes, RingTypes, NEW i \in Waiting
  PROVE  i \in Nat /\ i < eventHead /\ eventTail <= i /\ At(i) \in Nat
<1>1. i \in Nat /\ i < eventHead /\ eventTail <= i BY DEF Waiting, EmitTypes, RingTypes
<1>2. i % EventDepth \in 0 .. EventDepth - 1 BY <1>1, EventSlot
<1> QED BY <1>1, <1>2 DEF RingTypes, At

\* Nothing that was received is numbered as high as the event at work.
LEMMA ReceivedBefore ==
  ASSUME EmitTypes, RingTypes, RingOrder, NEW k \in 1 .. Len(received)
  PROVE  received[k] <= emitted - Busy
<1>1. received[k] - k \in 0 .. dropped /\ received[k] \in Nat BY ReceivedTypes DEF RingOrder, ReceivedSound
<1>2. k <= eventHead
  BY DEF RingTypes, EmitTypes
<1>3. emitted - Busy = eventHead + dropped BY DEF EmitTypes, Busy
<1> QED BY <1>1, <1>2, <1>3 DEF EmitTypes

\* Nothing that waits is overwritten, so the consumer gets every published event in its order.
LEMMA RingOrderKept ==
  ASSUME EmitTypes, RingTypes, RingOrder, Events!Next
  PROVE  RingOrder'
<1> USE DEF RingOrder
<1>1. CASE RingStill
  <2>1. Waiting' = Waiting /\ \A i : At(i)' = At(i) BY <1>1 DEF RingStill, Waiting, At
  <2>2. dropped \in Nat /\ dropped' \in Nat /\ dropped' >= dropped /\ emitted - Busy \in Nat
        /\ emitted' - Busy' \in Nat /\ emitted' - Busy' >= emitted - Busy
    BY <1>1 DEF RingStill, EmitTypes, Busy
  <2>3. \A i \in Waiting : At(i) \in Nat /\ i \in Nat BY WaitingTypes
  <2>4. received' = received BY <1>1 DEF RingStill
  <2>5. WaitingSound'
    <3> SUFFICES ASSUME NEW i \in Waiting' PROVE (At(i) - (i + 1) \in 0 .. dropped /\ At(i) <= emitted - Busy)'
      BY DEF WaitingSound
    <3>1. i \in Waiting /\ At(i)' = At(i) BY <2>1
    <3>2. At(i) - (i + 1) \in 0 .. dropped /\ At(i) <= emitted - Busy BY <3>1 DEF WaitingSound
    <3> QED BY <2>2, <2>3, <3>1, <3>2
  <2>6. WaitingOrdered' BY <2>1 DEF WaitingOrdered
  <2>7. ReceivedFirst' BY <2>1, <2>4 DEF ReceivedFirst
  <2>8. ReceivedSound'
    <3> SUFFICES ASSUME NEW k \in 1 .. Len(received') PROVE received'[k] - k \in 0 .. dropped'
      BY DEF ReceivedSound
    <3>1. received[k] - k \in 0 .. dropped BY <2>4 DEF ReceivedSound
    <3> QED BY <2>2, <2>4, <3>1
  <2>9. ReceivedOrdered' BY <2>4 DEF ReceivedOrdered
  <2>10. BeingPublished'
    <3>1. eventHead' = eventHead BY <1>1 DEF RingStill
    <3> QED BY <1>1, <2>1, <3>1 DEF RingStill, BeingPublished
  <2> QED BY <2>5, <2>6, <2>7, <2>8, <2>9, <2>10
<1>2. CASE Events!FillEvent
  <2>1. UNCHANGED <<eventHead, eventTail, received, dropped, emitted>> /\ eventHead - tailSeen < EventDepth
        /\ events' = [events EXCEPT ![eventHead % EventDepth] = emitted] /\ Busy' = Busy
    BY <1>2 DEF Events!FillEvent, Events!ringVars, Events!latchVars, Events!emitVars, Events!consumerVars, Events!readerVars, Busy
  <2>2. Waiting' = Waiting BY <2>1 DEF Waiting
  <2>3. \A i \in Waiting : At(i)' = At(i)
    <3> TAKE i \in Waiting
    <3>1. i \in Nat /\ eventHead \in Nat /\ i < eventHead /\ eventHead - i < EventDepth /\ EventDepth \in Nat \ {0}
      BY <2>1, WaitingTypes, EventBounds DEF EmitTypes, RingTypes
    <3>2. i % EventDepth # eventHead % EventDepth BY <3>1, SlotsApart
    <3> QED BY <2>1, <3>2 DEF At, RingTypes
  <2>4. At(eventHead)' = emitted
    <3>1. eventHead % EventDepth \in 0 .. EventDepth - 1 BY EventSlot DEF EmitTypes
    <3> QED BY <2>1, <3>1 DEF At, RingTypes
  <2>5. WaitingSound' /\ WaitingOrdered' /\ ReceivedFirst'
    BY <2>1, <2>2, <2>3 DEF WaitingSound, WaitingOrdered, ReceivedFirst
  <2>6. ReceivedSound' /\ ReceivedOrdered' BY <2>1 DEF ReceivedSound, ReceivedOrdered
  <2>7. BeingPublished' BY <2>1, <2>4 DEF BeingPublished
  <2> QED BY <2>5, <2>6, <2>7
<1>3. CASE Events!PublishEvent
  <2>1. UNCHANGED <<events, eventTail, dropped, emitted, received>> /\ eventHead' = eventHead + 1
        /\ eventWpc = "publish" /\ eventWpc' = "idle"
    BY <1>3 DEF Events!PublishEvent, Events!ringVars, Events!latchVars, Events!emitVars, Events!consumerVars, Events!readerVars
  <2>2. \A i : At(i)' = At(i) BY <2>1 DEF At
  <2>3. At(eventHead) = emitted /\ Busy = 1 /\ Busy' = 0 BY <2>1 DEF BeingPublished, Busy
  <2>4. eventHead \in Nat /\ dropped \in Nat /\ emitted = eventHead + dropped + 1 /\ emitted \in Nat /\ eventTail \in Nat
        /\ eventTail <= eventHead
    BY <2>3 DEF EmitTypes, RingTypes
  <2>5. Waiting' = Waiting \cup {eventHead} BY <2>1, <2>4 DEF Waiting
  <2>6. \A i \in Waiting : At(i) < emitted /\ At(i) \in Nat /\ i \in Nat /\ i < eventHead
    BY <2>3, <2>4, WaitingTypes DEF WaitingSound
  <2>7. WaitingSound'
    <3> SUFFICES ASSUME NEW i \in Waiting' PROVE (At(i) - (i + 1) \in 0 .. dropped /\ At(i) <= emitted - Busy)'
      BY DEF WaitingSound
    <3>1. CASE i \in Waiting BY <2>1, <2>2, <2>3, <2>4, <2>6, <3>1 DEF WaitingSound
    <3>2. CASE i = eventHead BY <2>1, <2>2, <2>3, <2>4, <3>2
    <3> QED BY <2>5, <3>1, <3>2
  <2>8. WaitingOrdered'
    <3> SUFFICES ASSUME NEW i \in Waiting', NEW j \in Waiting', i < j PROVE (At(i) < At(j))'
      BY DEF WaitingOrdered
    <3>1. CASE i \in Waiting /\ j \in Waiting BY <2>2, <3>1 DEF WaitingOrdered
    <3>2. CASE i \in Waiting /\ j = eventHead BY <2>2, <2>3, <2>6, <3>2
    <3>3. CASE i = eventHead BY <2>4, <2>5, <2>6, <3>3
    <3> QED BY <2>5, <3>1, <3>2, <3>3
  <2>9. ReceivedFirst'
    <3> SUFFICES ASSUME NEW k \in 1 .. Len(received')
                 PROVE  \A i \in Waiting' : i >= Len(received') => received'[k] < At(i)'
      BY DEF ReceivedFirst
    <3>0. k \in 1 .. Len(received) BY <2>1
    <3>a. received[k] <= emitted - Busy /\ received[k] \in Nat BY <3>0, ReceivedBefore, ReceivedTypes
    <3>1. received[k] < emitted /\ k \in 1 .. Len(received) BY <2>3, <2>4, <3>0, <3>a
    <3>2. ASSUME NEW i \in Waiting', i >= Len(received') PROVE received'[k] < At(i)'
      <4>1. CASE i \in Waiting BY <2>1, <2>2, <3>1, <3>2, <4>1 DEF ReceivedFirst
      <4>2. CASE i = eventHead BY <2>1, <2>2, <2>3, <3>1, <4>2
      <4> QED BY <2>5, <4>1, <4>2
    <3> QED BY <3>2
  <2>10. ReceivedSound' /\ ReceivedOrdered' BY <2>1 DEF ReceivedSound, ReceivedOrdered
  <2>11. BeingPublished' BY <2>1 DEF BeingPublished
  <2> QED BY <2>7, <2>8, <2>9, <2>10, <2>11
<1>4. CASE Events!TakeEvent
  <2>1. UNCHANGED <<eventHead, eventTail, events, dropped, emitted, eventWpc, received>>
    BY <1>4 DEF Events!TakeEvent, Events!ringVars, Events!latchVars, Events!emitVars, Events!consumerVars, Events!readerVars
  <2> QED BY <2>1 DEF WaitingSound, WaitingOrdered, ReceivedFirst, ReceivedSound, ReceivedOrdered, BeingPublished, Waiting, At, Busy
<1>5. CASE Events!CopyEvent
  <2> DEFINE n == eventTail
  <2>1. UNCHANGED <<eventHead, eventTail, events, dropped, emitted, eventWpc>> /\ epc = "copy"
        /\ received' = Append(received, events[Len(received) % EventDepth])
    BY <1>5 DEF Events!CopyEvent, Events!ringVars, Events!latchVars, Events!emitVars, Events!consumerVars, Events!readerVars
  <2>2. Len(received) = n /\ n \in Waiting /\ n \in Nat /\ received' = Append(received, At(n))
    BY <2>1 DEF Waiting, At, RingTypes, EmitTypes
  <2>3. At(n) \in Nat /\ received \in Seq(Nat) BY <2>2, WaitingTypes DEF RingTypes
  <2> HIDE DEF n
  <2>4. Len(received') = n + 1 /\ received'[n + 1] = At(n) /\ \A k \in 1 .. n : received'[k] = received[k]
    BY <2>2, <2>3
  <2>5. Waiting' = Waiting /\ \A i : At(i)' = At(i) BY <2>1 DEF Waiting, At
  <2>6. \A i \in Waiting : i \in Nat /\ At(i) \in Nat BY WaitingTypes
  <2>7. WaitingSound' /\ WaitingOrdered' BY <2>1, <2>5 DEF WaitingSound, WaitingOrdered, Busy
  <2>8. ReceivedFirst'
    <3> SUFFICES ASSUME NEW k \in 1 .. Len(received')
                 PROVE  \A i \in Waiting' : i >= Len(received') => received'[k] < At(i)'
      BY DEF ReceivedFirst
    <3>1. ASSUME NEW i \in Waiting', i >= Len(received') PROVE received'[k] < At(i)'
      <4>1. i \in Waiting /\ i > n /\ i >= Len(received) /\ At(i)' = At(i) BY <2>2, <2>4, <2>5, <2>6, <3>1
      <4>2. CASE k \in 1 .. n BY <2>2, <2>4, <4>1, <4>2 DEF ReceivedFirst
      <4>3. CASE k = n + 1 BY <2>2, <2>4, <4>1, <4>3 DEF WaitingOrdered
      <4> QED BY <2>2, <2>4, <4>2, <4>3
    <3> QED BY <3>1
  <2>9. ReceivedSound'
    <3> SUFFICES ASSUME NEW k \in 1 .. Len(received') PROVE received'[k] - k \in 0 .. dropped'
      BY DEF ReceivedSound
    <3>1. CASE k \in 1 .. n BY <2>1, <2>2, <2>4, <3>1 DEF ReceivedSound
    <3>2. CASE k = n + 1 BY <2>1, <2>2, <2>4, <3>2 DEF WaitingSound
    <3> QED BY <2>2, <2>4, <3>1, <3>2
  <2>10. ReceivedOrdered'
    <3> SUFFICES ASSUME NEW k \in 1 .. Len(received') - 1 PROVE received'[k] < received'[k + 1]
      BY DEF ReceivedOrdered
    <3>1. k \in 1 .. n BY <2>2, <2>4
    <3>2. CASE k < n BY <2>2, <2>4, <3>1, <3>2 DEF ReceivedOrdered
    <3>3. CASE k = n
      <4>1. received[n] < At(n) BY <2>2, <3>1, <3>3 DEF ReceivedFirst
      <4> QED BY <2>4, <3>1, <3>3, <4>1
    <3> QED BY <2>2, <3>1, <3>2, <3>3
  <2>11. BeingPublished' BY <2>1, <2>5 DEF BeingPublished
  <2> QED BY <2>7, <2>8, <2>9, <2>10, <2>11
<1>6. CASE Events!ReleaseEvent
  <2>1. UNCHANGED <<eventHead, events, dropped, emitted, eventWpc, received>> /\ eventTail' = eventTail + 1
    BY <1>6 DEF Events!ReleaseEvent, Events!ringVars, Events!latchVars, Events!emitVars, Events!consumerVars, Events!readerVars, RingTypes
  <2>2. Waiting' \subseteq Waiting /\ \A i : At(i)' = At(i) BY <2>1 DEF Waiting, At, RingTypes, EmitTypes
  <2>3. WaitingSound' /\ WaitingOrdered' /\ ReceivedFirst'
    BY <2>1, <2>2 DEF WaitingSound, WaitingOrdered, ReceivedFirst, Busy
  <2>4. ReceivedSound' /\ ReceivedOrdered' /\ BeingPublished' BY <2>1, <2>2 DEF ReceivedSound, ReceivedOrdered, BeingPublished
  <2> QED BY <2>3, <2>4
<1> QED BY RingStillness, <1>1, <1>2, <1>3, <1>4, <1>5, <1>6 DEF Events!Next, Events!Emit, Events!Consume

\* The events whose latching is complete, and the last of them.
Complete == {n \in severe : n < emitted \/ eventWpc \notin {"latch", "store"}}

Greatest(S) == IF S = {} THEN 0 ELSE CHOOSE n \in S : \A m \in S : m <= n

LEMMA GreatestIs ==
  ASSUME NEW e \in Nat, NEW S, S \subseteq 1 .. e
  PROVE  /\ Greatest(S) \in S \cup {0} /\ \A n \in S : n <= Greatest(S)
         /\ \A x \in S : (\A n \in S : n <= x) => x = Greatest(S)
<1>1. CASE S = {} BY <1>1 DEF Greatest
<1>2. CASE S # {}
  <2>1. \E n \in S : \A m \in S : m <= n
    <3>0. S \subseteq 0 .. e OBVIOUS
    <3>1. Admission!Max(S) \in S /\ \A y \in S : Admission!Max(S) >= y BY <1>2, <3>0, MaxOfNaturals
    <3> QED BY <3>1
  <2>2. Greatest(S) \in S /\ \A m \in S : m <= Greatest(S) BY <1>2, <2>1 DEF Greatest
  <2>3. ASSUME NEW x \in S, \A n \in S : n <= x PROVE x = Greatest(S)
    <3>1. Greatest(S) <= x /\ x <= Greatest(S) BY <2>2, <2>3
    <3>2. \A n \in S : n \in Int OBVIOUS
    <3>3. x \in Int /\ Greatest(S) \in Int BY <2>2, <3>2
    <3> QED BY <3>1, <3>3
  <2> QED BY <2>2, <2>3
<1> QED BY <1>1, <1>2

LEMMA LatchedIs ==
  /\ Events!Latched = Greatest(Complete) /\ Events!Latched' = Greatest(Complete')
  /\ EmitTypes => Events!Latched \in Complete \cup {0} /\ \A n \in Complete : n <= Events!Latched
<1>1. Events!Latched = Greatest(Complete) /\ Events!Latched' = Greatest(Complete')
  BY DEF Events!Latched, Complete, Greatest
<1>2. EmitTypes => emitted \in Nat /\ Complete \subseteq 1 .. emitted
  <2>1. EmitTypes => emitted \in Nat /\ severe \subseteq 1 .. emitted BY EventBounds DEF EmitTypes
  <2>2. Complete \subseteq severe BY DEF Complete
  <2> QED BY <2>1, <2>2
<1> QED BY <1>1, <1>2, GreatestIs

\* The latch: a finished update holds the last severe event, a begun one the fields already stored.
LatchTypes ==
    /\ eventStores \subseteq Events!Fields /\ (eventWpc \in {"latch", "store"} => emitted \in severe)
    /\ criticalEvents \in 0 .. CriticalMax /\ criticalSeq \in Nat
    /\ critical \in [Events!Fields -> 0 .. MaxEvents]
LatchValue ==
    \A f \in Events!Fields :
        critical[f] = IF eventWpc = "store" /\ f \notin eventStores THEN emitted ELSE Events!Latched
LatchParity ==
    /\ (criticalSeq % 2 = 1) <=> (eventWpc = "store")
    /\ criticalSeq <= 2 * emitted - (IF eventWpc = "latch" THEN 2 ELSE IF eventWpc = "store" THEN 1 ELSE 0)
\* The recorder was triggered by the first event loud enough.
TriggerInv ==
    /\ eventTriggered # 0 => eventTriggered \in loud /\ \A n \in loud : eventTriggered <= n
    /\ eventTriggered = 0 => loud \subseteq (IF eventWpc \in {"latch", "store", "trigger"} THEN {emitted} ELSE {})
\* The count is of the latchings begun.
Begun == severe \ (IF eventWpc = "latch" THEN {emitted} ELSE {})
CountInv == criticalEvents = CriticalMax \/ criticalEvents = Cardinality(Begun)
LatchInv == LatchTypes /\ LatchValue /\ LatchParity /\ TriggerInv /\ CountInv

\* Steps that leave the latch alone.
LatchStill ==
    /\ UNCHANGED <<emitted, severe, loud, criticalEvents, criticalSeq, critical, eventStores, eventTriggered>>
    /\ eventWpc' # eventWpc => eventWpc \in {"idle", "ring", "publish"} /\ eventWpc' \in {"idle", "ring", "publish"}

LEMMA LatchStillness ==
  ASSUME Events!DropEvent \/ Events!FillEvent \/ Events!PublishEvent \/ Events!Consume \/ Events!Read
  PROVE  LatchStill
<1> USE DEF Events!ringVars, Events!latchVars, Events!emitVars, Events!consumerVars, Events!readerVars, LatchStill
<1>1. CASE Events!DropEvent BY <1>1 DEF Events!DropEvent
<1>2. CASE Events!FillEvent BY <1>2 DEF Events!FillEvent
<1>3. CASE Events!PublishEvent BY <1>3 DEF Events!PublishEvent
<1>4. CASE Events!Consume BY <1>4 DEF Events!Consume, Events!TakeEvent, Events!CopyEvent, Events!ReleaseEvent
<1>5. CASE Events!Read BY <1>5 DEF Events!Read, Events!ReadBegin, Events!ReadRetry, Events!ReadEnd, Events!ReadTotal, Events!LoadField, Events!readerFrame
<1> QED BY <1>1, <1>2, <1>3, <1>4, <1>5

\* Only the end of an update changes what is latched, to the event at work.
LEMMA LatchedMoves ==
  ASSUME EmitTypes, EmitTypes', LatchTypes, Events!Next
  PROVE  /\ Events!LatchEnd => Events!Latched' = emitted
         /\ ~ Events!LatchEnd => Events!Latched' = Events!Latched /\ Complete' = Complete
<1>1. ASSUME Complete' = Complete PROVE Events!Latched' = Events!Latched
  BY <1>1, LatchedIs
<1>2. CASE Events!LatchEnd
  <2>1. eventWpc' = "trigger" /\ UNCHANGED <<emitted, severe>> /\ eventWpc = "store"
    BY <1>2 DEF Events!LatchEnd, Events!ringVars, Events!latchVars, Events!emitVars, Events!consumerVars, Events!readerVars
  <2>2. Complete' = severe /\ emitted \in severe /\ emitted \in Nat BY <2>1 DEF Complete, LatchTypes, EmitTypes
  <2>3. Complete' \subseteq 1 .. emitted /\ \A n \in Complete' : n <= emitted BY <2>2 DEF EmitTypes
  <2>4. Greatest(Complete') = emitted BY <2>2, <2>3, GreatestIs
  <2>5. Events!Latched' = emitted BY <2>4, LatchedIs
  <2> QED BY <1>2, <2>5
<1>3. ASSUME LatchStill PROVE Complete' = Complete
  BY <1>3 DEF LatchStill, Complete
<1>4. ASSUME NEW s \in Severities, Events!EmitBegin(s) PROVE Complete' = Complete
  <2>1. eventWpc = "idle" /\ emitted' = emitted + 1 /\ eventWpc' = (IF s >= 3 THEN "latch" ELSE "trigger")
        /\ severe' = (IF s >= 3 THEN severe \cup {emitted + 1} ELSE severe)
    BY <1>4, EventBounds DEF Events!EmitBegin
  <2>2. Complete = severe /\ \A n \in severe : n \in Int /\ n <= emitted BY <2>1 DEF Complete, EmitTypes
  <2>3. CASE s >= 3
    <3>1. Complete' = {n \in severe' : n < emitted + 1} BY <2>1, <2>3 DEF Complete
    <3> QED BY <2>1, <2>2, <2>3, <3>1 DEF EmitTypes
  <2>4. CASE ~ (s >= 3) BY <2>1, <2>2, <2>4 DEF Complete
  <2> QED BY <2>3, <2>4
<1>5. ASSUME Events!LatchBegin \/ (\E f \in Events!Fields : Events!LatchField(f)) \/ Events!TriggerRecorder
      PROVE  Complete' = Complete
  <2>1. UNCHANGED <<emitted, severe>>
        /\ \/ eventWpc \in {"latch", "store"} /\ eventWpc' \in {"latch", "store"}
           \/ eventWpc \notin {"latch", "store"} /\ eventWpc' \notin {"latch", "store"}
    BY <1>5 DEF Events!LatchBegin, Events!LatchField, Events!TriggerRecorder, Events!ringVars, Events!latchVars, Events!emitVars, Events!consumerVars, Events!readerVars
  <2> QED BY <2>1 DEF Complete
<1>6. CASE ~ Events!LatchEnd
  <2>1. Complete' = Complete
    BY <1>3, <1>4, <1>5, <1>6, LatchStillness DEF Events!Next, Events!Emit
  <2> QED BY <1>1, <2>1, <1>6
<1> QED BY <1>2, <1>6

LEMMA LatchInvKept ==
  ASSUME EmitTypes, EmitTypes', LatchInv, Events!Next
  PROVE  LatchInv'
<1> USE EventBounds DEF LatchInv
<1>0. emitted \in 0 .. MaxEvents /\ emitted' \in 0 .. MaxEvents /\ Complete \subseteq 1 .. emitted
  BY DEF Complete, EmitTypes
<1>d. Events!Latched \in Complete \cup {0} BY LatchedIs
<1>a. Events!Latched \in 0 .. emitted /\ emitted \in 0 .. MaxEvents /\ emitted' \in 0 .. MaxEvents
  BY <1>0, <1>d
<1>b. IsFiniteSet(severe)
  <2>1. IsFiniteSet(1 .. emitted) /\ severe \in SUBSET (1 .. emitted)
    <3>1. severe \subseteq 1 .. emitted /\ emitted \in Int BY <1>a DEF EmitTypes
    <3>2. IsFiniteSet(1 .. emitted) BY <3>1, FS_Interval
    <3> QED BY <3>1, <3>2
  <2> QED BY <2>1, FS_Subset
<1>c. \A n \in loud \cup severe : n \in Int /\ n <= emitted /\ n > 0 BY DEF EmitTypes
<1>1. CASE LatchStill
  <2>0. Complete' = Complete BY <1>1 DEF LatchStill, Complete
  <2>1. Events!Latched' = Events!Latched BY <2>0, LatchedIs
  <2>2. LatchTypes' BY <1>1 DEF LatchStill, LatchTypes
  <2>3. LatchValue' BY <1>1, <2>1 DEF LatchStill, LatchValue
  <2>4. LatchParity' BY <1>1 DEF LatchStill, LatchParity
  <2>5. TriggerInv' BY <1>1 DEF LatchStill, TriggerInv
  <2>6. CountInv' BY <1>1 DEF LatchStill, CountInv, Begun
  <2> QED BY <2>2, <2>3, <2>4, <2>5, <2>6
<1>2. ASSUME NEW s \in Severities, Events!EmitBegin(s) PROVE LatchInv'
  <2>1. eventWpc = "idle" /\ emitted' = emitted + 1 /\ eventWpc' = (IF s >= 3 THEN "latch" ELSE "trigger")
        /\ severe' = (IF s >= 3 THEN severe \cup {emitted + 1} ELSE severe)
        /\ loud' = (IF s >= TriggerSeverity THEN loud \cup {emitted + 1} ELSE loud)
        /\ UNCHANGED <<criticalEvents, criticalSeq, critical, eventStores, eventTriggered>>
    BY <1>2 DEF Events!EmitBegin, Events!ringVars, Events!latchVars, Events!emitVars, Events!consumerVars, Events!readerVars
  <2>2. Events!Latched' = Events!Latched
    <3>1. ~ Events!LatchEnd BY <2>1 DEF Events!LatchEnd
    <3> QED BY <3>1, LatchedMoves
  <2>3. LatchTypes' BY <2>1 DEF LatchTypes
  <2>4. LatchValue' BY <2>1, <2>2 DEF LatchValue
  <2>5. LatchParity'
    <3>1. eventWpc' # "store" /\ eventWpc # "store" /\ eventWpc # "latch" BY <2>1
    <3>2. criticalSeq \in Nat /\ criticalSeq <= 2 * emitted /\ criticalSeq % 2 # 1 BY <1>a, <3>1 DEF LatchParity, LatchTypes
    <3>3. 2 * emitted' - 2 = 2 * emitted BY <1>a, <2>1
    <3> QED BY <1>a, <2>1, <3>1, <3>2, <3>3 DEF LatchParity
  <2>6. TriggerInv'
    <3>1. CASE eventTriggered # 0 BY <2>1, <1>a, <1>c, <3>1 DEF TriggerInv
    <3>2. CASE eventTriggered = 0 BY <2>1, <3>2 DEF TriggerInv
    <3> QED BY <3>1, <3>2
  <2>7. CountInv'
    <3>1. Begun' = severe /\ Begun = severe BY <2>1, <1>a, <1>c DEF Begun
    <3> QED BY <2>1, <3>1 DEF CountInv
  <2> QED BY <2>3, <2>4, <2>5, <2>6, <2>7
<1>3. CASE Events!LatchBegin
  <2>1. eventWpc = "latch" /\ eventWpc' = "store" /\ criticalSeq' = criticalSeq + 1 /\ eventStores' = Events!Fields
        /\ criticalEvents' = (IF criticalEvents < CriticalMax THEN criticalEvents + 1 ELSE criticalEvents)
        /\ UNCHANGED <<emitted, severe, loud, critical, eventTriggered>>
    BY <1>3 DEF Events!LatchBegin, Events!ringVars, Events!latchVars, Events!emitVars, Events!consumerVars, Events!readerVars
  <2>2. Events!Latched' = Events!Latched
    <3>1. ~ Events!LatchEnd BY <2>1 DEF Events!LatchEnd
    <3> QED BY <3>1, LatchedMoves
  <2>3. LatchTypes' BY <2>1 DEF LatchTypes
  <2>4. LatchValue' BY <2>1, <2>2 DEF LatchValue
  <2>5. LatchParity'
    <3>1. criticalSeq \in Nat /\ criticalSeq % 2 # 1 /\ criticalSeq <= 2 * emitted - 2 BY <2>1 DEF LatchParity, LatchTypes
    <3>2. criticalSeq' % 2 = 1 BY <2>1, <3>1
    <3> QED BY <1>a, <2>1, <3>1, <3>2 DEF LatchParity
  <2>6. TriggerInv' BY <2>1 DEF TriggerInv
  <2>7. CountInv'
    <3>1. Begun' = Begun \cup {emitted} /\ emitted \notin Begun /\ Begun \in SUBSET severe BY <2>1 DEF Begun, LatchTypes
    <3>2. IsFiniteSet(Begun) BY <1>b, <3>1, FS_Subset
    <3>3. Cardinality(Begun') = Cardinality(Begun) + 1 BY <3>1, <3>2, FS_AddElement
    <3> QED BY <2>1, <3>3 DEF CountInv, LatchTypes
  <2> QED BY <2>3, <2>4, <2>5, <2>6, <2>7
<1>4. ASSUME NEW f \in Events!Fields, Events!LatchField(f) PROVE LatchInv'
  <2>1. eventWpc = "store" /\ f \in eventStores /\ eventStores' = eventStores \ {f}
        /\ critical' = [critical EXCEPT ![f] = emitted]
        /\ UNCHANGED <<eventWpc, emitted, severe, loud, criticalEvents, criticalSeq, eventTriggered>>
    BY <1>4 DEF Events!LatchField, Events!ringVars, Events!latchVars, Events!emitVars, Events!consumerVars, Events!readerVars
  <2>2. Events!Latched' = Events!Latched BY <2>1 DEF Events!Latched
  <2>3. LatchTypes' BY <1>a, <2>1 DEF LatchTypes
  <2>4. LatchValue'
    <3>1. \A g \in Events!Fields : critical'[g] = IF g = f THEN emitted ELSE critical[g] BY <2>1 DEF LatchTypes
    <3> QED BY <2>1, <2>2, <3>1 DEF LatchValue
  <2>5. LatchParity' BY <2>1 DEF LatchParity
  <2>6. TriggerInv' BY <2>1 DEF TriggerInv
  <2>7. CountInv' BY <2>1 DEF CountInv, Begun
  <2> QED BY <2>3, <2>4, <2>5, <2>6, <2>7
<1>5. CASE Events!LatchEnd
  <2>1. eventWpc = "store" /\ eventWpc' = "trigger" /\ criticalSeq' = criticalSeq + 1 /\ eventStores = {}
        /\ UNCHANGED <<emitted, severe, loud, critical, criticalEvents, eventTriggered, eventStores>>
    BY <1>5 DEF Events!LatchEnd, Events!ringVars, Events!latchVars, Events!emitVars, Events!consumerVars, Events!readerVars
  <2>2. Events!Latched' = emitted BY <1>5, LatchedMoves
  <2>3. LatchTypes' BY <2>1 DEF LatchTypes
  <2>4. LatchValue' BY <2>1, <2>2 DEF LatchValue
  <2>5. LatchParity'
    <3>1. criticalSeq \in Nat /\ criticalSeq % 2 = 1 /\ criticalSeq <= 2 * emitted - 1 BY <2>1 DEF LatchParity, LatchTypes
    <3>2. criticalSeq' % 2 # 1 BY <2>1, <3>1
    <3> QED BY <1>a, <2>1, <3>1, <3>2 DEF LatchParity
  <2>6. TriggerInv' BY <2>1 DEF TriggerInv
  <2>7. CountInv' BY <2>1 DEF CountInv, Begun
  <2> QED BY <2>3, <2>4, <2>5, <2>6, <2>7
<1>6. CASE Events!TriggerRecorder
  <2>1. eventWpc = "trigger" /\ eventWpc' = "ring"
        /\ eventTriggered' = (IF eventTriggered = 0 /\ emitted \in loud THEN emitted ELSE eventTriggered)
        /\ UNCHANGED <<emitted, severe, loud, critical, criticalEvents, criticalSeq, eventStores>>
    BY <1>6 DEF Events!TriggerRecorder, Events!ringVars, Events!latchVars, Events!emitVars, Events!consumerVars, Events!readerVars
  <2>2. Events!Latched' = Events!Latched
    <3>1. ~ Events!LatchEnd BY <2>1 DEF Events!LatchEnd
    <3> QED BY <3>1, LatchedMoves
  <2>3. LatchTypes' BY <2>1 DEF LatchTypes
  <2>4. LatchValue' BY <2>1, <2>2 DEF LatchValue
  <2>5. LatchParity' BY <2>1 DEF LatchParity
  <2>6. TriggerInv'
    <3>1. CASE eventTriggered = 0 /\ emitted \in loud
      <4>1. loud \subseteq {emitted} /\ emitted # 0 BY <2>1, <3>1, <1>c DEF TriggerInv
      <4> QED BY <2>1, <3>1, <4>1, <1>c DEF TriggerInv
    <3>2. CASE eventTriggered = 0 /\ emitted \notin loud BY <2>1, <3>2 DEF TriggerInv
    <3>3. CASE eventTriggered # 0 BY <2>1, <3>3 DEF TriggerInv
    <3> QED BY <3>1, <3>2, <3>3
  <2>7. CountInv' BY <2>1 DEF CountInv, Begun
  <2> QED BY <2>3, <2>4, <2>5, <2>6, <2>7
<1> QED BY LatchStillness, <1>1, <1>2, <1>3, <1>4, <1>5, <1>6 DEF Events!Next, Events!Emit

(***************************************************************************)
(* The reader of the latch.                                                *)
(***************************************************************************)
ReaderTypes ==
    /\ rpc \in {"idle", "load", "total"} /\ eventLoads \subseteq Events!Fields /\ eventSeq0 \in Nat
    /\ got \in [Events!Fields -> 0 .. MaxEvents] /\ total \in 0 .. CriticalMax
    /\ snapshot \in [Events!Fields -> 0 .. MaxEvents] /\ snapshot["frame"] <= emitted
\* The event that was the last when the read began is one of those that were complete.
ThenComplete == latchedThen \in Complete \cup {0}
\* While the sequence number stands still, what was read is of that event.
LoadedOf ==
    rpc = "load" => /\ eventSeq0 <= criticalSeq /\ eventSeq0 % 2 = 0
                    /\ eventSeq0 = criticalSeq =>
                          latchedThen = Events!Latched /\ \A f \in Events!Fields \ eventLoads : got[f] = latchedThen
WholeRead == rpc = "total" => got = Events!Same(latchedThen)
TotalCovers ==
    total = CriticalMax \/ total >= Cardinality({n \in severe : n <= snapshot["frame"]})
ReaderInv == ReaderTypes /\ ThenComplete /\ LoadedOf /\ WholeRead /\ TotalCovers

LEMMA ReaderInvKept ==
  ASSUME EmitTypes, EmitTypes', LatchInv, LatchInv', ReaderInv, Events!Next
  PROVE  ReaderInv'
<1> USE EventBounds DEF ReaderInv
<1>0. emitted \in 0 .. MaxEvents /\ Complete \subseteq 1 .. emitted /\ Complete \subseteq severe
  BY DEF Complete, EmitTypes
<1>a. Events!Latched \in 0 .. emitted /\ emitted \in 0 .. MaxEvents /\ Complete \subseteq severe
      /\ Events!Latched \in Complete \cup {0}
  <2>1. Events!Latched \in Complete \cup {0} BY LatchedIs
  <2> QED BY <1>0, <2>1
<1>b. severe \subseteq 1 .. emitted /\ severe' \subseteq 1 .. emitted' BY DEF EmitTypes
<1>c. criticalSeq \in Nat BY DEF LatchInv, LatchTypes
<1>1. ASSUME Events!Emit \/ Events!Consume,
             UNCHANGED <<rpc, eventLoads, eventSeq0, got, snapshot, total, latchedThen>>
      PROVE  ReaderInv'
  <2>1. emitted' \in Nat /\ emitted' >= emitted /\ {n \in severe' : n <= snapshot["frame"]} = {n \in severe : n <= snapshot["frame"]}
    <3>1. CASE \E s \in Severities : Events!EmitBegin(s)
      <4>1. emitted' = emitted + 1 /\ severe' \in {severe, severe \cup {emitted + 1}} BY <3>1 DEF Events!EmitBegin
      <4>2. snapshot["frame"] \in Nat /\ snapshot["frame"] < emitted + 1 BY <1>a DEF ReaderTypes
      <4> QED BY <1>a, <4>1, <4>2
    <3>2. CASE UNCHANGED <<emitted, severe>> BY <1>a, <3>2
    <3>3. (\E s \in Severities : Events!EmitBegin(s)) \/ UNCHANGED <<emitted, severe>>
      BY <1>1 DEF Events!Emit, Events!Consume, Events!TakeEvent, Events!CopyEvent, Events!ReleaseEvent, Events!LatchField, Events!LatchBegin, Events!LatchEnd, Events!TriggerRecorder,
          Events!DropEvent, Events!FillEvent, Events!PublishEvent, Events!ringVars, Events!latchVars, Events!emitVars, Events!consumerVars, Events!readerVars
    <3> QED BY <3>1, <3>2, <3>3
  <2>2. Complete \subseteq Complete' /\ (criticalSeq' = criticalSeq => Events!Latched' = Events!Latched)
        /\ criticalSeq' \in Nat /\ criticalSeq' >= criticalSeq
    <3>1. CASE Events!LatchEnd
      <4>1. criticalSeq' = criticalSeq + 1 /\ eventWpc' = "trigger" /\ UNCHANGED severe BY <3>1 DEF Events!LatchEnd
      <4> QED BY <1>c, <4>1 DEF Complete
    <3>2. CASE ~ Events!LatchEnd
      <4>1. Complete' = Complete /\ Events!Latched' = Events!Latched BY <3>2, LatchedMoves DEF LatchInv
      <4>2. criticalSeq' = criticalSeq \/ criticalSeq' = criticalSeq + 1
        BY <1>1 DEF Events!Emit, Events!Consume, Events!TakeEvent, Events!CopyEvent, Events!ReleaseEvent, Events!EmitBegin, Events!LatchField, Events!LatchBegin, Events!LatchEnd,
            Events!TriggerRecorder, Events!DropEvent, Events!FillEvent, Events!PublishEvent, Events!ringVars, Events!latchVars, Events!emitVars, Events!consumerVars, Events!readerVars
      <4> QED BY <1>c, <4>1, <4>2
    <3> QED BY <3>1, <3>2
  <2>3. ReaderTypes' BY <1>1, <1>a, <2>1 DEF ReaderTypes
  <2>4. ThenComplete' BY <1>1, <2>2 DEF ThenComplete
  <2>5. LoadedOf'
    <3> SUFFICES ASSUME rpc' = "load" PROVE LoadedOf' BY DEF LoadedOf
    <3>1. eventSeq0 <= criticalSeq /\ eventSeq0 % 2 = 0 /\ eventSeq0 \in Nat BY <1>1 DEF LoadedOf, ReaderTypes
    <3>2. eventSeq0 <= criticalSeq' BY <1>c, <2>2, <3>1
    <3>3. eventSeq0 = criticalSeq' => criticalSeq' = criticalSeq BY <1>c, <2>2, <3>1
    <3> QED BY <1>1, <2>2, <3>1, <3>2, <3>3 DEF LoadedOf
  <2>6. WholeRead' BY <1>1 DEF WholeRead, Events!Same
  <2>7. TotalCovers' BY <1>1, <2>1 DEF TotalCovers
  <2> QED BY <2>3, <2>4, <2>5, <2>6, <2>7
<1>2. ASSUME Events!Read PROVE ReaderInv'
  <2>0. UNCHANGED <<emitted, severe, eventWpc, criticalSeq, critical, criticalEvents>>
    BY <1>2 DEF Events!Read, Events!ReadBegin, Events!ReadRetry, Events!ReadEnd, Events!ReadTotal, Events!LoadField, Events!readerFrame, Events!ringVars, Events!latchVars, Events!emitVars, Events!consumerVars, Events!readerVars
  <2>1. Events!Latched' = Events!Latched /\ Complete' = Complete BY <2>0 DEF Events!Latched, Complete
  <2>2. CASE Events!ReadBegin
    <3>1. criticalSeq % 2 = 0 /\ eventSeq0' = criticalSeq /\ eventLoads' = Events!Fields /\ latchedThen' = Events!Latched
          /\ rpc' = "load" /\ UNCHANGED <<got, snapshot, total>>
      BY <2>2 DEF Events!ReadBegin
    <3> QED BY <1>a, <1>c, <2>0, <2>1, <3>1 DEF ReaderTypes, ThenComplete, LoadedOf, WholeRead, TotalCovers
  <2>3. ASSUME NEW f \in Events!Fields, Events!LoadField(f) PROVE ReaderInv'
    <3>1. rpc = "load" /\ f \in eventLoads /\ eventLoads' = eventLoads \ {f} /\ got' = [got EXCEPT ![f] = critical[f]]
          /\ UNCHANGED <<rpc, eventSeq0, snapshot, total, latchedThen>>
      BY <2>3 DEF Events!LoadField
    <3>2. critical[f] \in 0 .. MaxEvents BY DEF LatchInv, LatchTypes
    <3>3. ReaderTypes' BY <2>0, <3>1, <3>2 DEF ReaderTypes
    <3>4. LoadedOf'
      <4>1. ASSUME eventSeq0 = criticalSeq PROVE latchedThen = Events!Latched /\ critical[f] = latchedThen
        <5>1. eventWpc # "store" BY <3>1, <4>1 DEF LoadedOf, LatchInv, LatchParity
        <5> QED BY <3>1, <4>1, <5>1 DEF LoadedOf, LatchInv, LatchValue
      <4>2. \A g \in Events!Fields : got'[g] = IF g = f THEN critical[f] ELSE got[g] BY <3>1 DEF ReaderTypes
      <4> QED BY <2>0, <2>1, <3>1, <4>1, <4>2 DEF LoadedOf
    <3> QED BY <2>0, <2>1, <3>1, <3>3, <3>4 DEF ThenComplete, WholeRead, TotalCovers
  <2>4. CASE Events!ReadRetry
    <3>1. rpc' = "idle" /\ UNCHANGED <<eventSeq0, got, eventLoads, snapshot, total, latchedThen>> BY <2>4 DEF Events!ReadRetry
    <3> QED BY <2>0, <2>1, <3>1 DEF ReaderTypes, ThenComplete, LoadedOf, WholeRead, TotalCovers
  <2>5. CASE Events!ReadEnd
    <3>1. rpc = "load" /\ eventLoads = {} /\ criticalSeq = eventSeq0 /\ rpc' = "total"
          /\ UNCHANGED <<eventSeq0, got, eventLoads, snapshot, total, latchedThen>>
      BY <2>5 DEF Events!ReadEnd
    <3>2. got = Events!Same(latchedThen)
      <4>1. \A f \in Events!Fields : got[f] = latchedThen BY <3>1 DEF LoadedOf
      <4> QED BY <4>1 DEF ReaderTypes, Events!Same
    <3>3. WholeRead' BY <3>1, <3>2 DEF WholeRead, Events!Same
    <3> QED BY <2>0, <2>1, <3>1, <3>3 DEF ReaderTypes, ThenComplete, LoadedOf, TotalCovers
  <2>6. CASE Events!ReadTotal
    <3>1. rpc = "total" /\ snapshot' = got /\ total' = criticalEvents /\ rpc' = "idle"
          /\ UNCHANGED <<eventSeq0, got, eventLoads, latchedThen>>
      BY <2>6 DEF Events!ReadTotal
    <3>2. got["frame"] = latchedThen /\ latchedThen \in 0 .. emitted BY <1>a, <1>b, <3>1 DEF WholeRead, Events!Same, ThenComplete
    <3>3. ReaderTypes' BY <2>0, <3>1, <3>2 DEF ReaderTypes, LatchInv, LatchTypes
    <3>4. TotalCovers'
      <4>1. {n \in severe : n <= latchedThen} \in SUBSET Begun
        <5>1. eventWpc = "latch" => latchedThen < emitted
          <6>1. emitted \in severe \/ eventWpc # "latch" BY DEF LatchInv, LatchTypes
          <6>2. eventWpc = "latch" => Complete = {n \in severe : n < emitted} /\ emitted > 0 BY <6>1, <1>a, <1>b DEF Complete
          <6> QED BY <6>2, <1>a, <1>b DEF ThenComplete
        <5> QED BY <1>a, <1>b, <3>2, <5>1 DEF Begun
      <4>2. IsFiniteSet(Begun)
        <5>1. IsFiniteSet(1 .. emitted) /\ Begun \in SUBSET (1 .. emitted) BY <1>a, <1>b, FS_Interval DEF Begun
        <5> QED BY <5>1, FS_Subset
      <4>3. Cardinality({n \in severe : n <= latchedThen}) <= Cardinality(Begun) BY <4>1, <4>2, FS_Subset
      <4> QED BY <2>0, <3>1, <3>2, <4>3 DEF TotalCovers, LatchInv, CountInv
    <3> QED BY <2>0, <2>1, <3>1, <3>3, <3>4 DEF ThenComplete, LoadedOf, WholeRead
  <2> QED BY <1>2, <2>2, <2>3, <2>4, <2>5, <2>6 DEF Events!Read
<1>3. Events!Emit \/ Events!Consume => UNCHANGED <<rpc, eventLoads, eventSeq0, got, snapshot, total, latchedThen>>
  BY DEF Events!Emit, Events!Consume, Events!TakeEvent, Events!CopyEvent, Events!ReleaseEvent, Events!EmitBegin, Events!LatchField, Events!LatchBegin, Events!LatchEnd,
         Events!TriggerRecorder, Events!DropEvent, Events!FillEvent, Events!PublishEvent, Events!ringVars, Events!latchVars, Events!emitVars, Events!consumerVars, Events!readerVars
<1> QED BY <1>1, <1>2, <1>3 DEF Events!Next

\* All of it together is inductive.
EventsInv == EmitTypes /\ RingTypes /\ RingOrder /\ LatchInv /\ ReaderInv

LEMMA EventsInvFirst ==
  ASSUME Events!Init
  PROVE  EventsInv
<1> USE EventBounds DEF Events!Init, EventsInv
<1>0. IsFiniteSet({}) /\ Cardinality({}) = 0 BY FS_EmptySet
<1>1. EmitTypes BY DEF EmitTypes, Busy
<1>2. RingTypes BY DEF RingTypes
<1>3. RingOrder BY DEF RingOrder, WaitingSound, WaitingOrdered, ReceivedFirst, ReceivedSound, ReceivedOrdered, BeingPublished, Waiting
<1>4. Events!Latched = 0 /\ Complete = {} BY DEF Events!Latched, Complete
<1>5. Begun = {} BY DEF Begun
<1>6. LatchInv BY <1>0, <1>4, <1>5 DEF LatchInv, LatchTypes, LatchValue, LatchParity, TriggerInv, CountInv, Events!Same
<1>7. {n \in severe : n <= snapshot["frame"]} = {} OBVIOUS
<1>8. ReaderInv BY <1>0, <1>4, <1>7 DEF ReaderInv, ReaderTypes, ThenComplete, LoadedOf, WholeRead, TotalCovers, Events!Same
<1> QED BY <1>1, <1>2, <1>3, <1>6, <1>8

\* The cardinality of the instance is the usual one.
LEMMA SameCardinality ==
  ASSUME NEW S
  PROVE  Events!Cardinality(S) = Cardinality(S)
  BY DEF Events!Cardinality, Cardinality

LEMMA EventsInvSuffices ==
  ASSUME EventsInv
  PROVE  /\ Events!TypeOK /\ Events!LossAccounted /\ Events!SevereNeverLost
         /\ Events!CriticalStateCoherent
<1> USE EventBounds DEF EventsInv
<1>1. Events!TypeOK
  <2>1. eventHead \in 0 .. MaxEvents /\ eventTail \in 0 .. eventHead /\ dropped \in 0 .. emitted
        /\ events \in [0 .. EventDepth - 1 -> 0 .. MaxEvents] /\ severe \cup loud \subseteq 1 .. emitted
    BY DEF EmitTypes, RingTypes, Busy
  <2>2. criticalSeq \in 0 .. 2 * MaxEvents BY DEF EmitTypes, LatchInv, LatchTypes, LatchParity
  <2>0. eventTriggered = 0 \/ eventTriggered \in loud BY DEF LatchInv, TriggerInv
  <2>a. emitted \in Nat /\ loud \subseteq 1 .. emitted BY DEF EmitTypes
  <2>3. eventTriggered \in 0 .. emitted
    <3>1. CASE eventTriggered = 0 BY <2>a, <3>1
    <3>2. CASE eventTriggered \in loud
      <4>1. eventTriggered \in 1 .. emitted BY <2>a, <3>2
      <4> QED BY <2>a, <4>1
    <3> QED BY <2>0, <3>1, <3>2
  <2> QED BY <2>1, <2>2, <2>3 DEF Events!TypeOK, LatchInv, LatchTypes, ReaderInv, ReaderTypes
<1>2. Events!LossAccounted
  BY DEF Events!LossAccounted, RingOrder, ReceivedOrdered, ReceivedSound, EmitTypes, Busy
<1>3. Events!SevereNeverLost
  <2>1. ASSUME eventWpc \in {"idle", "ring", "publish"} PROVE critical = Events!Same(Events!Latched)
    <3>1. \A f \in Events!Fields : critical[f] = Events!Latched BY <2>1 DEF LatchInv, LatchValue
    <3> QED BY <3>1 DEF LatchInv, LatchTypes, Events!Same
  <2> QED BY <2>1 DEF Events!SevereNeverLost, LatchInv, TriggerInv
<1>4. Events!CriticalStateCoherent
  <2>1. latchedThen \in severe \cup {0} BY DEF ReaderInv, ThenComplete, Complete
  <2>2. Events!TotalCoversSnapshot BY SameCardinality DEF Events!TotalCoversSnapshot, ReaderInv, TotalCovers
  <2> QED BY <2>1, <2>2 DEF Events!CriticalStateCoherent, Events!SnapshotCoherent, ReaderInv, WholeRead
<1> QED BY <1>1, <1>2, <1>3, <1>4

\* Losses are counted exactly, severe events reach latch and recorder whether or not the ring had room,
\* and a snapshot of the latch is of one event: for every depth, severity and number of events
\* (runtime_emit_event, ap_runtime_receive_event, ap_runtime_get_critical_state).
THEOREM EventsAccountedHolds == SumSpec => []EventsAccounted
<1> DEFINE Inv == which = "events" => EventsInv
<1>1. SumInit => Inv
  BY EventsInvFirst DEF SumInit
<1>2. Inv /\ [SumNext]_sumVars => Inv'
  <2> SUFFICES ASSUME Inv, [SumNext]_sumVars, which' = "events" PROVE EventsInv'
    OBVIOUS
  <2>1. which = "events" BY DEF SumNext, sumVars
  <2>2. CASE Events!Next
    <3>1. EmitTypes' /\ RingTypes' /\ RingOrder' BY <2>1, <2>2, EmitTypesKept, RingTypesKept, RingOrderKept DEF EventsInv
    <3>2. LatchInv' BY <2>1, <2>2, <3>1, LatchInvKept DEF EventsInv
    <3>3. ReaderInv' BY <2>1, <2>2, <3>1, <3>2, ReaderInvKept DEF EventsInv
    <3> QED BY <3>1, <3>2, <3>3 DEF EventsInv
  <2>3. CASE UNCHANGED eventsVars
    <3>1. EmitTypes' /\ RingTypes' BY <2>1, <2>3 DEF eventsVars, EventsInv, EmitTypes, RingTypes, Busy
    <3>2. RingOrder'
      BY <2>1, <2>3 DEF eventsVars, EventsInv, RingOrder, WaitingSound, WaitingOrdered, ReceivedFirst, ReceivedSound,
         ReceivedOrdered, BeingPublished, Waiting, At, Busy
    <3>3. Events!Latched' = Events!Latched /\ Complete' = Complete /\ Begun' = Begun
      BY <2>3 DEF eventsVars, Events!Latched, Complete, Begun
    <3>4. LatchInv'
      BY <2>1, <2>3, <3>3 DEF eventsVars, EventsInv, LatchInv, LatchTypes, LatchValue, LatchParity, TriggerInv, CountInv
    <3>5. ReaderInv'
      BY <2>1, <2>3, <3>3 DEF eventsVars, EventsInv, ReaderInv, ReaderTypes, ThenComplete, LoadedOf, WholeRead, TotalCovers, Events!Same
    <3> QED BY <3>1, <3>2, <3>4, <3>5 DEF EventsInv
  <2> QED BY <2>1, <2>2, <2>3 DEF SumNext, sumVars
<1>3. Inv => EventsAccounted
  BY EventsInvSuffices DEF EventsAccounted
<1> QED BY <1>1, <1>2, <1>3, PTL DEF SumSpec

(***************************************************************************)
(* The flight recorder.                                                    *)
(***************************************************************************)
Worker == pc["worker"]
Control == pc["control"]
Size == Recorder!Capacity

LEMMA RecorderBounds ==
  /\ PreRoll \in Nat /\ PostRoll \in Nat /\ MaxFrames \in Nat /\ NoKind \notin Kinds
  /\ Size = PreRoll + PostRoll + 1 /\ Size \in Nat \ {0} /\ Recorder!Actors = {"worker", "control"} /\ Recorder!Unwritten = 0
  BY ChannelAssumption DEF Recorder!RollAssumption, Size, Recorder!Capacity, Recorder!Actors, Recorder!Unwritten

\* A position less than two rounds on is in its first or in its second round.
LEMMA Round ==
  ASSUME NEW d \in Nat \ {0}, NEW x \in 0 .. 2 * d - 1
  PROVE  x % d = IF x < d THEN x ELSE x - d
<1>1. CASE x < d
  <2>1. x \in 0 .. d - 1 /\ d * 0 + x = x BY <1>1
  <2>2. (d * 0 + x) % d = x BY <2>1, RemainderUnique
  <2> QED BY <1>1, <2>1, <2>2
<1>2. CASE x >= d
  <2>1. x - d \in 0 .. d - 1 /\ d * 1 + (x - d) = x BY <1>2
  <2>2. (d * 1 + (x - d)) % d = x - d BY <2>1, RemainderUnique
  <2> QED BY <1>2, <2>1, <2>2
<1> QED BY <1>1, <1>2

\* The slot of the k-th last record.
Pos(k) == IF recorderHead > k THEN recorderHead - 1 - k ELSE recorderHead - 1 - k + Size
Back(k) == recorderSlots[Pos(k)]

RecTypes ==
    /\ frozen \in BOOLEAN /\ triggered \in BOOLEAN /\ postRemaining \in 0 .. PostRoll + 1
    /\ triggerEvent \in Kinds \cup {NoKind} /\ winner \in Kinds \cup {NoKind}
    /\ recorderHead \in 0 .. Size - 1 /\ count \in 0 .. Size /\ recorderSlots \in [0 .. Size - 1 -> 0 .. MaxFrames]
    /\ frame \in 0 .. MaxFrames /\ armedAt \in Nat /\ epochStart \in Nat \ {0}
    /\ DOMAIN pc = {"worker", "control"} /\ Worker \in {"idle", "claim", "name", "arm", "fill", "count", "freeze"}
    /\ Control \in {"idle", "claim", "name", "arm", "copy", "exported", "resetPost", "resetTriggered", "thaw"}
    /\ DOMAIN kind = {"worker", "control"}
    /\ Worker \in {"claim", "name", "arm"} => kind["worker"] \in Kinds
    /\ Control \in {"claim", "name", "arm"} => kind["control"] \in Kinds
\* A frozen recorder has no writer, and only a frozen one is exported or reset.
RecOwner ==
    /\ frozen => Worker = "idle" /\ Control \notin {"name", "arm"}
    /\ Control \in {"copy", "exported", "resetPost", "resetTriggered", "thaw"} => frozen
    /\ frozen /\ Control # "thaw" => triggered
    /\ Control = "thaw" => ~ triggered
\* One actor at most names and arms; until then nothing counts down.
RecClaims ==
    /\ Worker \in {"name", "arm"} => /\ Control \notin {"name", "arm"} /\ triggered /\ postRemaining = 0
                                     /\ winner = kind["worker"]
                                     /\ triggerEvent = IF Worker = "arm" THEN winner ELSE NoKind
    /\ Control \in {"name", "arm"} => /\ triggered /\ postRemaining = 0 /\ Worker # "freeze"
                                      /\ winner = kind["control"]
                                      /\ triggerEvent = IF Control = "arm" THEN winner ELSE NoKind
    /\ ~ triggered => postRemaining = 0 /\ triggerEvent = NoKind /\ winner = NoKind /\ Worker # "freeze"
    /\ Control \in {"resetTriggered", "thaw"} => postRemaining = 0 /\ triggerEvent = NoKind
\* An armed recorder has counted every frame since the one it was armed in, with or without that one.
Naming == Worker \in {"name", "arm"} \/ Control \in {"name", "arm"}
CountedTo == frame - (IF Worker \in {"fill", "count"} THEN 1 ELSE 0)
RecArmed ==
    triggered /\ ~ Naming /\ Control # "resetTriggered" =>
        /\ triggerEvent = winner /\ winner \in Kinds
        /\ ~ frozen => /\ PostRoll + 1 - postRemaining - CountedTo + armedAt \in {0, 1}
                       /\ (Worker = "freeze") <=> (postRemaining = 0)
\* The records of the epoch, newest first; the oldest is cleared while a new one is written.
Written == frame - (IF Worker = "fill" THEN 1 ELSE 0)
Whole == IF Worker = "fill" /\ count = Size THEN Size - 1 ELSE count
Least(m, n) == IF m < n THEN m ELSE n
RecBuffer ==
    /\ ~ frozen => /\ count = Least(Size, Written - epochStart + 1) /\ Written >= epochStart - 1
                   /\ Worker \in {"fill", "count", "freeze"} => frame >= epochStart
                   /\ \A k \in 0 .. Whole - 1 : Back(k) = Written - k
    /\ frozen /\ Control \notin {"resetPost", "resetTriggered", "thaw"} =>
          /\ count = Least(Size, Back(0) - epochStart + 1) /\ count > 0
          /\ Back(0) - armedAt - PostRoll \in {0, 1}
          /\ \A k \in 0 .. count - 1 : Back(k) = Back(0) - k
    /\ Control \in {"resetPost", "resetTriggered", "thaw"} => count = 0
\* What has been copied is the beginning of the dump.
RecExport ==
    /\ copied \in Seq(0 .. MaxFrames)
    /\ Control \notin {"copy", "exported"} => copied = <<>>
    /\ Len(copied) <= count /\ (Control = "exported" => Len(copied) = count)
    /\ \A i \in 1 .. Len(copied) : copied[i] = recorderSlots[(Recorder!Oldest + i - 1) % Size]
RecControl == RecTypes /\ RecOwner /\ RecClaims /\ RecArmed
RecInv == RecControl /\ RecBuffer /\ RecExport

\* Who may claim, name, arm, count down, freeze and reset.
LEMMA RecControlKept ==
  ASSUME RecControl, Recorder!Next
  PROVE  RecControl'
<1> USE RecorderBounds DEF Recorder!atomics, Recorder!buffer, Recorder!history, Recorder!Goto, RecControl, RecTypes, RecOwner, RecClaims, RecArmed, Naming, CountedTo, Worker, Control
<1>1. ASSUME NEW a \in Recorder!Actors, NEW k \in Kinds, Recorder!TriggerCall(a, k) PROVE RecControl'
  <2>1. CASE a = "worker"
    <3>1. RecTypes' BY <1>1, <2>1 DEF Recorder!TriggerCall
    <3>2. RecOwner' BY <1>1, <2>1 DEF Recorder!TriggerCall
    <3>3. RecClaims' BY <1>1, <2>1 DEF Recorder!TriggerCall
    <3>4. RecArmed' BY <1>1, <2>1 DEF Recorder!TriggerCall
    <3> QED BY <3>1, <3>2, <3>3, <3>4
  <2>2. CASE a = "control"
    <3>1. RecTypes' BY <1>1, <2>2 DEF Recorder!TriggerCall
    <3>2. RecOwner' BY <1>1, <2>2 DEF Recorder!TriggerCall
    <3>3. RecClaims' BY <1>1, <2>2 DEF Recorder!TriggerCall
    <3>4. RecArmed' BY <1>1, <2>2 DEF Recorder!TriggerCall
    <3> QED BY <3>1, <3>2, <3>3, <3>4
  <2> QED BY <2>1, <2>2
<1>2. ASSUME NEW a \in Recorder!Actors, Recorder!TriggerClaim(a) PROVE RecControl'
  <2>1. CASE a = "worker"
    <3>1. RecTypes' BY <1>2, <2>1 DEF Recorder!TriggerClaim
    <3>2. RecOwner' BY <1>2, <2>1 DEF Recorder!TriggerClaim
    <3>3. RecClaims' BY <1>2, <2>1 DEF Recorder!TriggerClaim
    <3>4. RecArmed' BY <1>2, <2>1 DEF Recorder!TriggerClaim
    <3> QED BY <3>1, <3>2, <3>3, <3>4
  <2>2. CASE a = "control"
    <3>1. RecTypes' BY <1>2, <2>2 DEF Recorder!TriggerClaim
    <3>2. RecOwner' BY <1>2, <2>2 DEF Recorder!TriggerClaim
    <3>3. RecClaims' BY <1>2, <2>2 DEF Recorder!TriggerClaim
    <3>4. RecArmed' BY <1>2, <2>2 DEF Recorder!TriggerClaim
    <3> QED BY <3>1, <3>2, <3>3, <3>4
  <2> QED BY <2>1, <2>2
<1>3. ASSUME NEW a \in Recorder!Actors, Recorder!TriggerName(a) PROVE RecControl'
  <2>1. CASE a = "worker"
    <3>1. RecTypes' BY <1>3, <2>1 DEF Recorder!TriggerName
    <3>2. RecOwner' BY <1>3, <2>1 DEF Recorder!TriggerName
    <3>3. RecClaims' BY <1>3, <2>1 DEF Recorder!TriggerName
    <3>4. RecArmed' BY <1>3, <2>1 DEF Recorder!TriggerName
    <3> QED BY <3>1, <3>2, <3>3, <3>4
  <2>2. CASE a = "control"
    <3>1. RecTypes' BY <1>3, <2>2 DEF Recorder!TriggerName
    <3>2. RecOwner' BY <1>3, <2>2 DEF Recorder!TriggerName
    <3>3. RecClaims' BY <1>3, <2>2 DEF Recorder!TriggerName
    <3>4. RecArmed' BY <1>3, <2>2 DEF Recorder!TriggerName
    <3> QED BY <3>1, <3>2, <3>3, <3>4
  <2> QED BY <2>1, <2>2
<1>4. ASSUME NEW a \in Recorder!Actors, Recorder!TriggerArm(a) PROVE RecControl'
  <2>1. CASE a = "worker"
    <3>1. RecTypes' BY <1>4, <2>1 DEF Recorder!TriggerArm
    <3>2. RecOwner' BY <1>4, <2>1 DEF Recorder!TriggerArm
    <3>3. RecClaims' BY <1>4, <2>1 DEF Recorder!TriggerArm
    <3>4. RecArmed' BY <1>4, <2>1 DEF Recorder!TriggerArm
    <3> QED BY <3>1, <3>2, <3>3, <3>4
  <2>2. CASE a = "control"
    <3>1. RecTypes' BY <1>4, <2>2 DEF Recorder!TriggerArm
    <3>2. RecOwner' BY <1>4, <2>2 DEF Recorder!TriggerArm
    <3>3. RecClaims' BY <1>4, <2>2 DEF Recorder!TriggerArm
    <3>4. RecArmed' BY <1>4, <2>2 DEF Recorder!TriggerArm
    <3> QED BY <3>1, <3>2, <3>3, <3>4
  <2> QED BY <2>1, <2>2
<1>5. CASE Recorder!RecordBegin
  <2>1. RecTypes' BY <1>5 DEF Recorder!RecordBegin
  <2>2. RecOwner' BY <1>5 DEF Recorder!RecordBegin
  <2>3. RecClaims' BY <1>5 DEF Recorder!RecordBegin
  <2>4. RecArmed' BY <1>5 DEF Recorder!RecordBegin
  <2> QED BY <2>1, <2>2, <2>3, <2>4
<1>6. CASE Recorder!RecordFill
  <2>a. recorderHead + 1 \in Int /\ Size \in Nat \ {0} OBVIOUS
  <2>0. (recorderHead + 1) % Size \in 0 .. Size - 1 BY <2>a, Division
  <2>1. RecTypes' BY <1>6, <2>0 DEF Recorder!RecordFill, Size
  <2>2. RecOwner' BY <1>6 DEF Recorder!RecordFill
  <2>3. RecClaims' BY <1>6 DEF Recorder!RecordFill
  <2>4. RecArmed' BY <1>6 DEF Recorder!RecordFill
  <2> QED BY <2>1, <2>2, <2>3, <2>4
<1>7. CASE Recorder!RecordCount
  <2>1. RecTypes' BY <1>7 DEF Recorder!RecordCount
  <2>2. RecOwner' BY <1>7 DEF Recorder!RecordCount
  <2>3. RecClaims' BY <1>7 DEF Recorder!RecordCount
  <2>4. RecArmed'
    <3>1. CASE triggered /\ postRemaining > 0
      <4>1. postRemaining' = postRemaining - 1 /\ Worker' = (IF postRemaining = 1 THEN "freeze" ELSE "idle") /\ Worker = "count"
            /\ UNCHANGED <<frozen, triggered, triggerEvent, winner, armedAt, frame, Control>>
        BY <1>7, <3>1 DEF Recorder!RecordCount
      <4>2. ~ Naming /\ Control # "resetTriggered" BY <3>1
      <4>3. ~ frozen BY <4>1
      <4>4. PostRoll + 1 - postRemaining - (frame - 1) + armedAt \in {0, 1} BY <3>1, <4>1, <4>2, <4>3
      <4>5. CountedTo' = frame BY <4>1
      <4>6. PostRoll + 1 - postRemaining' - CountedTo' + armedAt' \in {0, 1} BY <4>1, <4>4, <4>5
      <4> QED BY <3>1, <4>1, <4>2, <4>3, <4>6
    <3>2. CASE ~ (triggered /\ postRemaining > 0) BY <1>7, <3>2 DEF Recorder!RecordCount
    <3> QED BY <3>1, <3>2
  <2> QED BY <2>1, <2>2, <2>3, <2>4
<1>8. CASE Recorder!RecordFreeze
  <2>1. RecTypes' BY <1>8 DEF Recorder!RecordFreeze
  <2>2. RecOwner' BY <1>8 DEF Recorder!RecordFreeze
  <2>3. RecClaims' BY <1>8 DEF Recorder!RecordFreeze
  <2>4. RecArmed' BY <1>8 DEF Recorder!RecordFreeze
  <2> QED BY <2>1, <2>2, <2>3, <2>4
<1>9. CASE Recorder!ExportBegin
  <2>1. RecTypes' BY <1>9 DEF Recorder!ExportBegin
  <2>2. RecOwner' BY <1>9 DEF Recorder!ExportBegin
  <2>3. RecClaims' BY <1>9 DEF Recorder!ExportBegin
  <2>4. RecArmed' BY <1>9 DEF Recorder!ExportBegin
  <2> QED BY <2>1, <2>2, <2>3, <2>4
<1>10. CASE Recorder!ExportSlot
  <2>1. RecTypes' BY <1>10 DEF Recorder!ExportSlot
  <2>2. RecOwner' BY <1>10 DEF Recorder!ExportSlot
  <2>3. RecClaims' BY <1>10 DEF Recorder!ExportSlot
  <2>4. RecArmed' BY <1>10 DEF Recorder!ExportSlot
  <2> QED BY <2>1, <2>2, <2>3, <2>4
<1>11. CASE Recorder!ExportEnd
  <2>1. RecTypes' BY <1>11 DEF Recorder!ExportEnd
  <2>2. RecOwner' BY <1>11 DEF Recorder!ExportEnd
  <2>3. RecClaims' BY <1>11 DEF Recorder!ExportEnd
  <2>4. RecArmed' BY <1>11 DEF Recorder!ExportEnd
  <2> QED BY <2>1, <2>2, <2>3, <2>4
<1>12. CASE Recorder!KeepDump
  <2>1. RecTypes' BY <1>12 DEF Recorder!KeepDump
  <2>2. RecOwner' BY <1>12 DEF Recorder!KeepDump
  <2>3. RecClaims' BY <1>12 DEF Recorder!KeepDump
  <2>4. RecArmed' BY <1>12 DEF Recorder!KeepDump
  <2> QED BY <2>1, <2>2, <2>3, <2>4
<1>13. CASE Recorder!ResetBegin
  <2>1. RecTypes' BY <1>13 DEF Recorder!ResetBegin
  <2>2. RecOwner' BY <1>13 DEF Recorder!ResetBegin
  <2>3. RecClaims' BY <1>13 DEF Recorder!ResetBegin
  <2>4. RecArmed' BY <1>13 DEF Recorder!ResetBegin
  <2> QED BY <2>1, <2>2, <2>3, <2>4
<1>14. CASE Recorder!ResetTrigger
  <2>1. RecTypes' BY <1>14 DEF Recorder!ResetTrigger
  <2>2. RecOwner' BY <1>14 DEF Recorder!ResetTrigger
  <2>3. RecClaims' BY <1>14 DEF Recorder!ResetTrigger
  <2>4. RecArmed' BY <1>14 DEF Recorder!ResetTrigger
  <2> QED BY <2>1, <2>2, <2>3, <2>4
<1>15. CASE Recorder!ResetTriggered
  <2>1. RecTypes' BY <1>15 DEF Recorder!ResetTriggered
  <2>2. RecOwner' BY <1>15 DEF Recorder!ResetTriggered
  <2>3. RecClaims' BY <1>15 DEF Recorder!ResetTriggered
  <2>4. RecArmed' BY <1>15 DEF Recorder!ResetTriggered
  <2> QED BY <2>1, <2>2, <2>3, <2>4
<1>16. CASE Recorder!ResetThaw
  <2>0. frame + 1 \in Nat \ {0} OBVIOUS
  <2>a. epochStart' = frame + 1 /\ frozen' = FALSE /\ pc' = [pc EXCEPT !["control"] = "idle"]
        /\ UNCHANGED <<triggered, postRemaining, triggerEvent, recorderHead, count, recorderSlots, frame, kind, winner, armedAt>>
    BY <1>16 DEF Recorder!ResetThaw
  <2>1. RecTypes' BY <2>0, <2>a
  <2>2. RecOwner' BY <1>16 DEF Recorder!ResetThaw
  <2>3. RecClaims' BY <1>16 DEF Recorder!ResetThaw
  <2>4. RecArmed' BY <1>16 DEF Recorder!ResetThaw
  <2> QED BY <2>1, <2>2, <2>3, <2>4
<1> QED BY <1>1, <1>2, <1>3, <1>4, <1>5, <1>6, <1>7, <1>8, <1>9, <1>10, <1>11, <1>12, <1>13, <1>14, <1>15, <1>16
  DEF Recorder!Next, Recorder!Record, Recorder!Export, Recorder!Reset, Recorder!Trigger

\* Slots are places of the array, and different ones.
LEMMA PosTypes ==
  ASSUME RecTypes, NEW k \in 0 .. Size - 1
  PROVE  /\ Pos(k) \in 0 .. Size - 1 /\ Back(k) \in 0 .. MaxFrames
         /\ (Pos(k) = recorderHead) <=> (k = Size - 1)
<1>1. Size \in Nat \ {0} /\ recorderHead \in 0 .. Size - 1 BY RecorderBounds DEF RecTypes
<1>2. Pos(k) \in 0 .. Size - 1 /\ ((Pos(k) = recorderHead) <=> (k = Size - 1)) BY <1>1 DEF Pos
<1> QED BY <1>2 DEF RecTypes, Back

\* The buffer holds the last frames of the epoch.
LEMMA RecBufferKept ==
  ASSUME RecControl, RecControl', RecBuffer, Recorder!Next
  PROVE  RecBuffer'
<1> USE RecorderBounds DEF Recorder!atomics, Recorder!buffer, Recorder!history, Recorder!Goto, RecControl, RecBuffer, Worker, Control
<1>a. RecTypes /\ Size \in Nat \ {0} /\ recorderHead \in 0 .. Size - 1 /\ count \in 0 .. Size /\ frame \in 0 .. MaxFrames
      /\ epochStart \in Nat \ {0} /\ armedAt \in Nat /\ PostRoll \in Nat
  BY DEF RecTypes
<1>b. \A k \in 0 .. Size - 1 : Pos(k) \in 0 .. Size - 1 /\ Back(k) \in 0 .. MaxFrames /\ ((Pos(k) = recorderHead) <=> (k = Size - 1))
  BY <1>a, PosTypes
<1>1. ASSUME UNCHANGED <<frozen, recorderHead, count, recorderSlots, frame, epochStart, armedAt>>,
             Worker' # Worker => Worker \notin {"fill", "count", "freeze"} /\ Worker' \notin {"fill", "count", "freeze"},
             (Control \in {"resetPost", "resetTriggered", "thaw"}) <=> (Control' \in {"resetPost", "resetTriggered", "thaw"})
      PROVE  RecBuffer'
  <2>1. \A k : Back(k)' = Back(k) BY <1>1 DEF Back, Pos
  <2>2. Written' = Written /\ Whole' = Whole BY <1>1 DEF Written, Whole
  <2>3. (Worker' \in {"fill", "count", "freeze"}) => Worker' = Worker BY <1>1
  <2> QED BY <1>1, <2>1, <2>2, <2>3
<1>2. ASSUME NEW a \in Recorder!Actors, \/ \E k \in Kinds : Recorder!TriggerCall(a, k)
                                        \/ Recorder!TriggerClaim(a) \/ Recorder!TriggerName(a)
      PROVE  RecBuffer'
  <2>1. UNCHANGED <<frozen, recorderHead, count, recorderSlots, frame, epochStart, armedAt>>
    BY <1>2 DEF Recorder!TriggerCall, Recorder!TriggerClaim, Recorder!TriggerName
  <2>2. Worker' # Worker => Worker \notin {"fill", "count", "freeze"} /\ Worker' \notin {"fill", "count", "freeze"}
    <3>1. CASE a = "worker" BY <1>2, <3>1 DEF Recorder!TriggerCall, Recorder!TriggerClaim, Recorder!TriggerName, RecTypes
    <3>2. CASE a = "control" BY <1>2, <3>2 DEF Recorder!TriggerCall, Recorder!TriggerClaim, Recorder!TriggerName, RecTypes
    <3> QED BY <3>1, <3>2
  <2>3. (Control \in {"resetPost", "resetTriggered", "thaw"}) <=> (Control' \in {"resetPost", "resetTriggered", "thaw"})
    <3>1. CASE a = "worker" BY <1>2, <3>1 DEF Recorder!TriggerCall, Recorder!TriggerClaim, Recorder!TriggerName, RecTypes
    <3>2. CASE a = "control" BY <1>2, <3>2 DEF Recorder!TriggerCall, Recorder!TriggerClaim, Recorder!TriggerName, RecTypes
    <3> QED BY <3>1, <3>2
  <2> QED BY <1>1, <2>1, <2>2, <2>3
<1>3. ASSUME NEW a \in Recorder!Actors, Recorder!TriggerArm(a) PROVE RecBuffer'
  <2>1. ~ frozen /\ Control \notin {"resetPost", "resetTriggered", "thaw"}
    BY <1>3 DEF Recorder!TriggerArm, RecTypes, RecOwner
  <2>2. UNCHANGED <<frozen, recorderHead, count, recorderSlots, frame, epochStart>>
    BY <1>3 DEF Recorder!TriggerArm
  <2>3. Worker' # Worker => Worker \notin {"fill", "count", "freeze"} /\ Worker' \notin {"fill", "count", "freeze"}
    <3>1. CASE a = "worker" BY <1>3, <3>1 DEF Recorder!TriggerArm, RecTypes
    <3>2. CASE a = "control" BY <1>3, <3>2 DEF Recorder!TriggerArm, RecTypes
    <3> QED BY <3>1, <3>2
  <2>4. Control' \notin {"resetPost", "resetTriggered", "thaw"} BY <1>3, <2>1 DEF Recorder!TriggerArm, RecTypes
  <2>5. \A k : Back(k)' = Back(k) BY <2>2 DEF Back, Pos
  <2>6. Written' = Written /\ Whole' = Whole BY <2>2, <2>3 DEF Written, Whole
  <2>7. (Worker' \in {"fill", "count", "freeze"}) => Worker' = Worker BY <2>3
  <2> QED BY <2>1, <2>2, <2>4, <2>5, <2>6, <2>7
<1>4. CASE Recorder!RecordBegin
  <2>1. Worker = "idle" /\ frame' = frame + 1 /\ UNCHANGED <<frozen, recorderHead, count, epochStart, armedAt, Control>>
    BY <1>4 DEF Recorder!RecordBegin, RecTypes
  <2>2. CASE frozen
    <3>1. UNCHANGED <<recorderSlots, Worker>> BY <1>4, <2>2 DEF Recorder!RecordBegin
    <3>2. \A k : Back(k)' = Back(k) BY <2>1, <3>1 DEF Back, Pos
    <3> QED BY <2>1, <2>2, <3>1, <3>2
  <2>3. CASE ~ frozen
    <3>1. Worker' = "fill" /\ recorderSlots' = [recorderSlots EXCEPT ![recorderHead] = 0]
      BY <1>4, <2>3 DEF Recorder!RecordBegin, RecTypes
    <3>2. Written' = Written /\ Whole = count /\ Whole' = (IF count = Size THEN Size - 1 ELSE count)
      BY <1>a, <2>1, <3>1 DEF Written, Whole
    <3>3. \A k \in 0 .. Size - 2 : Back(k)' = Back(k)
      <4> SUFFICES ASSUME NEW k \in 0 .. Size - 2 PROVE Back(k)' = Back(k)
        OBVIOUS
      <4>1. Pos(k) \in 0 .. Size - 1 /\ Pos(k) # recorderHead BY <1>a, <1>b
      <4>2. Pos(k)' = Pos(k) BY <2>1 DEF Pos
      <4> QED BY <3>1, <4>1, <4>2 DEF Back, RecTypes
    <3>4. \A k \in 0 .. Whole' - 1 : Back(k)' = Written' - k BY <1>a, <2>3, <3>2, <3>3
    <3>5. frame' >= epochStart' /\ count' = Least(Size, Written' - epochStart' + 1) /\ Written' >= epochStart' - 1
      BY <1>a, <2>1, <2>3, <3>1, <3>2 DEF Written
    <3>6. ~ frozen' /\ Control' \notin {"resetPost", "resetTriggered", "thaw"} BY <2>1, <2>3 DEF RecOwner
    <3> QED BY <3>4, <3>5, <3>6
  <2> QED BY <2>2, <2>3
<1>5. CASE Recorder!RecordFill
  <2>1. Worker = "fill" /\ Worker' = "count" /\ UNCHANGED <<frozen, frame, epochStart, armedAt, Control>>
        /\ recorderSlots' = [recorderSlots EXCEPT ![recorderHead] = frame]
        /\ recorderHead' = (recorderHead + 1) % Size /\ count' = (IF count < Size THEN count + 1 ELSE count)
    BY <1>5 DEF Recorder!RecordFill, RecTypes, Size
  <2>2. ~ frozen /\ ~ frozen' /\ Control' \notin {"resetPost", "resetTriggered", "thaw"} BY <2>1 DEF RecOwner
  <2>3. recorderHead' = IF recorderHead + 1 < Size THEN recorderHead + 1 ELSE 0
    <3> DEFINE y == recorderHead + 1
    <3>1. y \in 0 .. 2 * Size - 1 /\ Size \in Nat \ {0} BY <1>a
    <3>2. y % Size = IF y < Size THEN y ELSE y - Size
      <4> HIDE DEF y
      <4> QED BY <3>1, Round
    <3> QED BY <1>a, <2>1, <3>2
  <2>4. Written = frame - 1 /\ Written' = frame /\ Whole' = count' BY <1>a, <2>1 DEF Written, Whole
  <2>5. Back(0)' = frame
    <3>1. Pos(0)' = recorderHead BY <1>a, <2>3 DEF Pos
    <3> QED BY <1>a, <2>1, <3>1 DEF Back, RecTypes
  <2>6. ASSUME NEW k \in 1 .. Size - 1 PROVE Back(k)' = Back(k - 1)
    <3>1. Pos(k)' = Pos(k - 1) BY <1>a, <2>3 DEF Pos
    <3>2. k - 1 \in 0 .. Size - 1 /\ k - 1 # Size - 1 BY <1>a
    <3>3. Pos(k - 1) \in 0 .. Size - 1 /\ Pos(k - 1) # recorderHead BY <1>b, <3>2
    <3> QED BY <2>1, <3>1, <3>3 DEF Back, RecTypes
  <2>7. \A k \in 0 .. Whole' - 1 : Back(k)' = Written' - k
    <3> SUFFICES ASSUME NEW k \in 0 .. Whole' - 1 PROVE Back(k)' = Written' - k
      OBVIOUS
    <3>1. count' \in 0 .. Size BY <1>a, <2>1
    <3>2. CASE k = 0 BY <1>a, <2>4, <2>5, <3>2
    <3>3. CASE k # 0
      <4>1. k \in 1 .. Size - 1 /\ k - 1 \in 0 .. Whole - 1 BY <1>a, <2>1, <2>4, <3>1, <3>3 DEF Whole
      <4>2. Back(k - 1) = Written - (k - 1) BY <2>2, <4>1
      <4> QED BY <1>a, <2>4, <2>6, <4>1, <4>2
    <3> QED BY <3>2, <3>3
  <2>8. frame >= epochStart BY <2>1, <2>2
  <2>9. count' = Least(Size, Written' - epochStart' + 1) /\ Written' >= epochStart' - 1
    BY <1>a, <2>1, <2>2, <2>4, <2>8 DEF Least
  <2> QED BY <2>1, <2>2, <2>7, <2>8, <2>9
<1>6. CASE Recorder!RecordCount
  <2>1. Worker = "count" /\ Worker' \in {"idle", "freeze"}
        /\ UNCHANGED <<frozen, frame, epochStart, armedAt, Control, recorderHead, count, recorderSlots>>
    BY <1>6 DEF Recorder!RecordCount, RecTypes
  <2>2. ~ frozen /\ Control \notin {"resetPost", "resetTriggered", "thaw"} BY <2>1 DEF RecOwner
  <2>3. \A k : Back(k)' = Back(k) BY <2>1 DEF Back, Pos
  <2>4. Written' = Written /\ Whole' = Whole BY <2>1 DEF Written, Whole
  <2>5. frame >= epochStart BY <2>1, <2>2
  <2> QED BY <2>1, <2>2, <2>3, <2>4, <2>5
<1>7. CASE Recorder!RecordFreeze
  <2>1. Worker = "freeze" /\ frozen' = TRUE /\ Control' = Control
        /\ UNCHANGED <<frame, epochStart, armedAt, recorderHead, count, recorderSlots>>
    BY <1>7 DEF Recorder!RecordFreeze, RecTypes
  <2>2. ~ frozen /\ Control \notin {"resetPost", "resetTriggered", "thaw"} BY <2>1 DEF RecOwner
  <2>3. \A k : Back(k)' = Back(k) BY <2>1 DEF Back, Pos
  <2>4. Written = frame /\ Whole = count /\ frame >= epochStart BY <1>a, <2>1, <2>2 DEF Written, Whole
  <2>5. count = Least(Size, frame - epochStart + 1) /\ count > 0 BY <1>a, <2>2, <2>4 DEF Least
  <2>6. \A k \in 0 .. count - 1 : Back(k) = frame - k BY <2>2, <2>4
  <2>7. Back(0) = frame BY <1>a, <2>5, <2>6
  <2>8. frame - armedAt - PostRoll \in {0, 1}
    <3>1. triggered /\ ~ Naming /\ Control # "resetTriggered" BY <2>1, <2>2 DEF RecClaims, Naming
    <3>2. postRemaining = 0 /\ PostRoll + 1 - postRemaining - CountedTo + armedAt \in {0, 1} BY <2>1, <2>2, <3>1 DEF RecArmed
    <3>3. CountedTo = frame BY <1>a, <2>1 DEF CountedTo
    <3> QED BY <1>a, <3>2, <3>3
  <2> QED BY <2>1, <2>2, <2>3, <2>5, <2>6, <2>7, <2>8
<1>8. CASE Recorder!Export
  <2>1. UNCHANGED <<frozen, recorderHead, count, recorderSlots, frame, epochStart, armedAt, Worker>>
        /\ Control \notin {"resetPost", "resetTriggered", "thaw"} /\ Control' \notin {"resetPost", "resetTriggered", "thaw"}
    BY <1>8 DEF Recorder!Export, Recorder!ExportBegin, Recorder!ExportSlot, Recorder!ExportEnd, Recorder!KeepDump, RecTypes
  <2> QED BY <1>1, <2>1
<1>9. CASE Recorder!ResetBegin
  <2>1. frozen' /\ count' = 0 /\ Control' = "resetPost" BY <1>9 DEF Recorder!ResetBegin, RecTypes
  <2> QED BY <2>1
<1>10. CASE Recorder!ResetTrigger \/ Recorder!ResetTriggered
  <2>1. UNCHANGED <<frozen, recorderHead, count, recorderSlots, frame, epochStart, armedAt, Worker>>
        /\ Control \in {"resetPost", "resetTriggered", "thaw"} /\ Control' \in {"resetPost", "resetTriggered", "thaw"}
    BY <1>10 DEF Recorder!ResetTrigger, Recorder!ResetTriggered, RecTypes
  <2> QED BY <1>1, <2>1
<1>11. CASE Recorder!ResetThaw
  <2>1. Control = "thaw" /\ Control' = "idle" /\ ~ frozen' /\ epochStart' = frame + 1 /\ UNCHANGED <<frame, count, Worker>>
    BY <1>11 DEF Recorder!ResetThaw, RecTypes
  <2>2. Worker = "idle" /\ count = 0 BY <2>1 DEF RecOwner
  <2>3. Written' = frame /\ Whole' = 0 BY <2>1, <2>2, <1>a DEF Written, Whole
  <2> QED BY <1>a, <2>1, <2>2, <2>3 DEF Least
<1> QED BY <1>2, <1>3, <1>4, <1>5, <1>6, <1>7, <1>8, <1>9, <1>10, <1>11
  DEF Recorder!Next, Recorder!Record, Recorder!Reset, Recorder!Trigger

\* The place of the n-th oldest record, counted round the array.
LEMMA OldestIs ==
  ASSUME RecTypes, NEW n \in 0 .. Size - 1
  PROVE  /\ Recorder!Oldest \in 0 .. Size - 1 /\ (Recorder!Oldest + n) % Size \in 0 .. Size - 1
         /\ n < count => (Recorder!Oldest + n) % Size = Pos(count - 1 - n)
<1>1. Size \in Nat \ {0} /\ recorderHead \in 0 .. Size - 1 /\ count \in 0 .. Size BY RecorderBounds DEF RecTypes
<1>2. recorderHead + Size - count \in 0 .. 2 * Size - 1 BY <1>1
<1>3. Recorder!Oldest = (recorderHead + Size - count) % Size BY DEF Recorder!Oldest, Size
<1>4. Recorder!Oldest = IF recorderHead + Size - count < Size THEN recorderHead + Size - count ELSE recorderHead - count
  <2> DEFINE y == recorderHead + Size - count
  <2>1. y % Size = IF y < Size THEN y ELSE y - Size
    <3>1. y \in 0 .. 2 * Size - 1 /\ Size \in Nat \ {0} BY <1>1, <1>2
    <3> HIDE DEF y
    <3> QED BY <3>1, Round
  <2> QED BY <1>1, <1>3, <2>1
<1>5. Recorder!Oldest \in 0 .. Size - 1 BY <1>1, <1>4
<1>6. Recorder!Oldest + n \in 0 .. 2 * Size - 1 BY <1>1, <1>5
<1>7. (Recorder!Oldest + n) % Size = IF Recorder!Oldest + n < Size THEN Recorder!Oldest + n ELSE Recorder!Oldest + n - Size
  <2>1. ASSUME NEW y, y = Recorder!Oldest + n PROVE y % Size = IF y < Size THEN y ELSE y - Size
    <3>1. y \in 0 .. 2 * Size - 1 /\ Size \in Nat \ {0} BY <1>1, <1>6, <2>1
    <3> QED BY <3>1, Round
  <2> QED BY <1>1, <1>5, <2>1
<1>8. (Recorder!Oldest + n) % Size \in 0 .. Size - 1 BY <1>1, <1>5, <1>7
<1>9. n < count => (Recorder!Oldest + n) % Size = Pos(count - 1 - n) BY <1>1, <1>4, <1>5, <1>7 DEF Pos
<1> QED BY <1>5, <1>8, <1>9

\* An export copies while nobody writes.
LEMMA RecExportKept ==
  ASSUME RecControl, RecBuffer, RecExport, Recorder!Next
  PROVE  RecExport'
<1> USE DEF RecControl, Worker, Control
<1>a. RecTypes /\ Size \in Nat \ {0} /\ count \in 0 .. Size BY RecorderBounds DEF RecTypes
<1>b. copied \in Seq(0 .. MaxFrames) /\ Len(copied) \in Nat BY DEF RecExport
<1>1. ASSUME UNCHANGED <<recorderHead, count, recorderSlots, copied>>, Control \in {"copy", "exported"} => Control' = Control,
             Control \notin {"copy", "exported"} => Control' \notin {"copy", "exported"}
      PROVE  RecExport'
  <2>1. Recorder!Oldest' = Recorder!Oldest BY <1>1 DEF Recorder!Oldest
  <2> QED BY <1>1, <2>1 DEF RecExport
<1>2. ASSUME copied' = <<>>, Control' \notin {"exported"}, count' \in 0 .. Size PROVE RecExport'
  <2>1. copied' \in Seq(0 .. MaxFrames) /\ Len(copied') = 0 BY <1>2
  <2>2. count' \in Nat BY <1>2, <1>a
  <2> QED BY <1>2, <2>1, <2>2 DEF RecExport
<1>3. ASSUME NEW a \in Recorder!Actors, Recorder!Trigger(a) \/ \E k \in Kinds : Recorder!TriggerCall(a, k) PROVE RecExport'
  <2>1. UNCHANGED <<recorderHead, count, recorderSlots, copied>>
    BY <1>3 DEF Recorder!Trigger, Recorder!TriggerCall, Recorder!TriggerClaim, Recorder!TriggerName, Recorder!TriggerArm,
        Recorder!buffer
  <2>2. (Control \in {"copy", "exported"} => Control' = Control)
        /\ (Control \notin {"copy", "exported"} => Control' \notin {"copy", "exported"})
    <3>1. CASE a = "worker"
      BY <1>3, <3>1 DEF Recorder!Trigger, Recorder!TriggerCall, Recorder!TriggerClaim, Recorder!TriggerName,
         Recorder!TriggerArm, Recorder!Goto, RecTypes
    <3>2. CASE a = "control"
      BY <1>3, <3>2 DEF Recorder!Trigger, Recorder!TriggerCall, Recorder!TriggerClaim, Recorder!TriggerName,
         Recorder!TriggerArm, Recorder!Goto, RecTypes
    <3> QED BY <1>3, <3>1, <3>2, RecorderBounds
  <2> QED BY <1>1, <2>1, <2>2
<1>4. CASE Recorder!Record
  <2>1. Control' = Control /\ copied' = copied
    BY <1>4 DEF Recorder!Record, Recorder!RecordBegin, Recorder!RecordFill, Recorder!RecordCount, Recorder!RecordFreeze,
        Recorder!Goto, RecTypes
  <2>2. CASE Control \in {"copy", "exported"}
    <3>1. frozen /\ Worker = "idle" BY <2>2 DEF RecOwner
    <3>2. UNCHANGED <<recorderHead, count, recorderSlots>>
      BY <1>4, <3>1 DEF Recorder!Record, Recorder!RecordBegin, Recorder!RecordFill, Recorder!RecordCount, Recorder!RecordFreeze,
         Recorder!buffer
    <3> QED BY <1>1, <2>1, <3>2
  <2>3. CASE Control \notin {"copy", "exported"}
    <3>1. copied = <<>> BY <2>3 DEF RecExport
    <3>2. count' \in 0 .. Size
      BY <1>a, <1>4 DEF Recorder!Record, Recorder!RecordBegin, Recorder!RecordFill, Recorder!RecordCount, Recorder!RecordFreeze,
         Recorder!buffer, Size
    <3> QED BY <1>2, <2>1, <2>3, <3>1, <3>2
  <2> QED BY <2>2, <2>3
<1>5. CASE Recorder!ExportBegin \/ Recorder!KeepDump
  <2>1. copied' = <<>> /\ Control' # "exported" /\ count' = count
    BY <1>5 DEF Recorder!ExportBegin, Recorder!KeepDump, Recorder!Goto, Recorder!buffer, RecTypes
  <2> QED BY <1>2, <1>a, <2>1
<1>6. CASE Recorder!ResetBegin
  <2>1. copied' = <<>> /\ Control' # "exported" /\ count' = 0
    BY <1>6 DEF Recorder!ResetBegin, Recorder!Goto, RecTypes
  <2>2. 0 \in 0 .. Size BY <1>a
  <2> QED BY <1>2, <2>1, <2>2
<1>7. CASE Recorder!ResetTrigger \/ Recorder!ResetTriggered \/ Recorder!ResetThaw
  <2>1. UNCHANGED <<recorderHead, count, recorderSlots, copied>> /\ Control \notin {"copy", "exported"}
        /\ Control' \notin {"copy", "exported"}
    BY <1>7 DEF Recorder!ResetTrigger, Recorder!ResetTriggered, Recorder!ResetThaw, Recorder!buffer, Recorder!Goto, RecTypes
  <2> QED BY <1>1, <2>1
<1>8. CASE Recorder!ExportSlot
  <2> DEFINE n == Len(copied)
             x == recorderSlots[(Recorder!Oldest + n) % Size]
  <2>1. Control = "copy" /\ Control' = Control /\ n < count /\ copied' = Append(copied, x)
        /\ UNCHANGED <<recorderHead, count, recorderSlots>>
    BY <1>8 DEF Recorder!ExportSlot, Recorder!buffer, Size
  <2>2. n \in 0 .. Size - 1 BY <1>a, <1>b, <2>1
  <2>3. (Recorder!Oldest + n) % Size \in 0 .. Size - 1 BY <1>a, <2>2, OldestIs
  <2>4. x \in 0 .. MaxFrames BY <2>3 DEF RecTypes
  <2>5. copied' \in Seq(0 .. MaxFrames) /\ Len(copied') = n + 1 /\ copied'[n + 1] = x
        /\ \A i \in 1 .. n : copied'[i] = copied[i]
    BY <1>b, <2>1, <2>4
  <2>6. Recorder!Oldest' = Recorder!Oldest BY <2>1 DEF Recorder!Oldest
  <2>7. \A i \in 1 .. n + 1 : copied'[i] = recorderSlots[(Recorder!Oldest + i - 1) % Size]
    <3> SUFFICES ASSUME NEW i \in 1 .. n + 1 PROVE copied'[i] = recorderSlots[(Recorder!Oldest + i - 1) % Size]
      OBVIOUS
    <3>1. CASE i \in 1 .. n BY <2>5, <3>1 DEF RecExport
    <3>2. CASE i = n + 1
      <4>1. Recorder!Oldest \in Int /\ Recorder!Oldest + i - 1 = Recorder!Oldest + n BY <1>a, <1>b, <2>2, <3>2, OldestIs
      <4> QED BY <2>5, <3>2, <4>1
    <3> QED BY <1>b, <3>1, <3>2
  <2> HIDE DEF x
  <2> QED BY <1>a, <1>b, <2>1, <2>5, <2>6, <2>7 DEF RecExport
<1>9. CASE Recorder!ExportEnd
  <2>1. Control = "copy" /\ Control' = "exported" /\ Len(copied) = count /\ UNCHANGED <<recorderHead, count, recorderSlots, copied>>
    BY <1>9 DEF Recorder!ExportEnd, Recorder!buffer, Recorder!Goto, RecTypes
  <2>2. Recorder!Oldest' = Recorder!Oldest BY <2>1 DEF Recorder!Oldest
  <2> QED BY <2>1, <2>2 DEF RecExport
<1> QED BY <1>3, <1>4, <1>5, <1>6, <1>7, <1>8, <1>9 DEF Recorder!Next, Recorder!Export, Recorder!Reset

LEMMA RecInvFirst ==
  ASSUME Recorder!Init
  PROVE  RecInv
<1> USE RecorderBounds DEF Recorder!Init, Worker, Control
<1>1. RecTypes
  <2>1. 0 \in 0 .. Size - 1 /\ 0 \in 0 .. MaxFrames /\ 0 \in 0 .. PostRoll + 1 BY DEF Size
  <2>2. recorderSlots \in [0 .. Size - 1 -> 0 .. MaxFrames] BY <2>1 DEF Size
  <2>3. 1 \in Nat \ {0} /\ 0 \in Nat /\ 0 \in 0 .. Size OBVIOUS
  <2>4. DOMAIN pc = {"worker", "control"} /\ DOMAIN kind = {"worker", "control"} /\ Worker = "idle" /\ Control = "idle" OBVIOUS
  <2> QED BY <2>1, <2>2, <2>3, <2>4 DEF RecTypes
<1>2. RecOwner /\ RecClaims BY DEF RecOwner, RecClaims
<1>3. RecArmed BY DEF RecArmed
<1>4. RecBuffer
  <2>1. Worker = "idle" /\ Control = "idle" /\ frame = 0 /\ count = 0 OBVIOUS
  <2>2. Size \in Nat \ {0} OBVIOUS
  <2>3. Written = 0 /\ Whole = 0
    <3> HIDE RecorderBounds DEF Recorder!Init, Worker, Control
    <3> QED BY <2>1, <2>2 DEF Written, Whole
  <2>4. Least(Size, 0 - 1 + 1) = 0 BY <2>2 DEF Least
  <2> QED BY <2>1, <2>3, <2>4 DEF RecBuffer
<1>5. RecExport
  <2>1. copied = <<>> /\ copied \in Seq(0 .. MaxFrames) /\ Len(copied) = 0 /\ count = 0 /\ Control = "idle" OBVIOUS
  <2> QED BY <2>1 DEF RecExport
<1> QED BY <1>1, <1>2, <1>3, <1>4, <1>5 DEF RecInv, RecControl

LEMMA RecInvSuffices ==
  ASSUME RecInv
  PROVE  /\ Recorder!TypeOK /\ Recorder!FrozenDumpCoherent /\ Recorder!FirstTriggerNamed
         /\ Recorder!BufferExclusive /\ Recorder!ExportFaithful /\ Recorder!NeverStuck /\ Recorder!FreezesInTime
<1> USE RecorderBounds DEF RecInv, RecControl, Worker, Control
<1>a. RecTypes /\ Size \in Nat \ {0} /\ count \in 0 .. Size BY DEF RecTypes
<1>b. Len(copied) \in Nat /\ copied \in Seq(0 .. MaxFrames) BY DEF RecExport
<1>1. Recorder!TypeOK
  <2>1. Len(copied) <= Size BY <1>a, <1>b DEF RecExport
  <2>2. Size = Recorder!Capacity BY DEF Size
  <2> QED BY <2>1, <2>2 DEF Recorder!TypeOK, RecTypes
<1>2. Recorder!FirstTriggerNamed
  BY DEF Recorder!FirstTriggerNamed, Recorder!Resetting, RecTypes, RecOwner, RecArmed, Naming
<1>3. Recorder!BufferExclusive
  BY DEF Recorder!BufferExclusive, Recorder!Resetting, RecTypes, RecOwner
<1>4. Recorder!NeverStuck
  BY DEF Recorder!NeverStuck, Recorder!Arming, RecTypes, RecOwner, RecArmed, Naming
<1>5. Recorder!FreezesInTime
  <2> SUFFICES ASSUME triggerEvent # NoKind, ~ Recorder!Arming, ~ frozen, ~ Recorder!Resetting PROVE frame <= armedAt + PostRoll + 1
    BY DEF Recorder!FreezesInTime
  <2>1. triggered /\ ~ Naming /\ Control # "resetTriggered" BY DEF RecClaims, Naming, Recorder!Arming, Recorder!Resetting
  <2>2. PostRoll + 1 - postRemaining - CountedTo + armedAt \in {0, 1} /\ ((Worker = "freeze") <=> (postRemaining = 0))
    BY <2>1 DEF RecArmed
  <2>3. postRemaining \in 0 .. PostRoll + 1 /\ frame \in Nat /\ armedAt \in Nat BY DEF RecTypes
  <2>4. CASE Worker = "freeze" BY <2>2, <2>3, <2>4 DEF CountedTo
  <2>5. CASE Worker # "freeze" BY <2>2, <2>3, <2>5 DEF CountedTo
  <2> QED BY <2>4, <2>5
<1>6. ASSUME NEW i \in 1 .. count
      PROVE  Recorder!Dump[i] = recorderSlots[(Recorder!Oldest + i - 1) % Size] /\ Recorder!Dump[i] = Back(count - i)
  <2>1. i - 1 \in 0 .. Size - 1 /\ i - 1 < count /\ count - 1 - (i - 1) = count - i BY <1>a
  <2>2. Recorder!Oldest \in Int /\ (Recorder!Oldest + (i - 1)) % Size = Pos(count - i) BY <1>a, <2>1, OldestIs
  <2>3. Recorder!Oldest + i - 1 = Recorder!Oldest + (i - 1) BY <1>a, <2>2
  <2>4. Recorder!Dump[i] = recorderSlots[(Recorder!Oldest + i - 1) % Size] BY DEF Recorder!Dump, Size
  <2> QED BY <2>2, <2>3, <2>4 DEF Back
<1>7. Recorder!FrozenDumpCoherent
  <2> SUFFICES ASSUME frozen, ~ Recorder!Resetting
               PROVE  /\ Recorder!Dump[count] \in {armedAt + PostRoll, armedAt + PostRoll + 1}
                      /\ count = IF Recorder!Dump[count] - epochStart + 1 < Size THEN Recorder!Dump[count] - epochStart + 1 ELSE Size
                      /\ \A i \in 1 .. count : Recorder!Dump[i] = Recorder!Dump[count] - count + i
    BY DEF Recorder!FrozenDumpCoherent, Size
  <2>1. count = Least(Size, Back(0) - epochStart + 1) /\ count > 0 /\ Back(0) - armedAt - PostRoll \in {0, 1}
        /\ \A k \in 0 .. count - 1 : Back(k) = Back(0) - k
    BY DEF RecBuffer, Recorder!Resetting
  <2>2. Back(0) \in Nat
    <3>1. 0 \in 0 .. Size - 1 BY <1>a
    <3> QED BY <1>a, <3>1, PosTypes
  <2>3. count \in 1 .. count /\ count - count = 0 BY <1>a, <2>1
  <2>4. Recorder!Dump[count] = Back(0) BY <1>6, <2>3
  <2>5. ASSUME NEW i \in 1 .. count PROVE Recorder!Dump[i] = Back(0) - count + i
    <3>1. count - i \in 0 .. count - 1 BY <1>a
    <3>2. Back(count - i) = Back(0) - (count - i) BY <2>1, <3>1
    <3> QED BY <1>6, <1>a, <2>2, <3>2
  <2>6. armedAt \in Nat /\ epochStart \in Nat BY DEF RecTypes
  <2>7. Recorder!Dump[count] \in {armedAt + PostRoll, armedAt + PostRoll + 1} BY <2>1, <2>2, <2>4, <2>6
  <2>8. count = IF Back(0) - epochStart + 1 < Size THEN Back(0) - epochStart + 1 ELSE Size
    BY <1>a, <2>1, <2>2, <2>6 DEF Least
  <2> QED BY <2>4, <2>5, <2>7, <2>8
<1>8. Recorder!ExportFaithful
  <2> SUFFICES ASSUME Control = "exported" PROVE copied = Recorder!Dump
    BY DEF Recorder!ExportFaithful
  <2>1. Len(copied) = count /\ \A i \in 1 .. count : copied[i] = recorderSlots[(Recorder!Oldest + i - 1) % Size]
    BY DEF RecExport
  <2>2. copied = [i \in 1 .. Len(copied) |-> copied[i]] BY <1>b
  <2> QED BY <2>1, <2>2 DEF Recorder!Dump, Size
<1> QED BY <1>1, <1>2, <1>3, <1>4, <1>5, <1>7, <1>8

LEMMA RecInvKept ==
  ASSUME which = "recorder", RecInv, [SumNext]_sumVars
  PROVE  which' = "recorder" => RecInv'
<1>1. CASE Recorder!Next
  <2>1. RecControl' BY <1>1, RecControlKept DEF RecInv
  <2>2. RecBuffer' BY <1>1, <2>1, RecBufferKept DEF RecInv
  <2>3. RecExport' BY <1>1, RecExportKept DEF RecInv
  <2> QED BY <2>1, <2>2, <2>3 DEF RecInv
<1>2. CASE UNCHANGED recorderVars
  <2>1. Worker' = Worker /\ Control' = Control /\ Recorder!Oldest' = Recorder!Oldest /\ (\A k : Back(k)' = Back(k))
    BY <1>2 DEF recorderVars, Worker, Control, Recorder!Oldest, Back, Pos
  <2>2. RecTypes' /\ RecOwner' BY <1>2, <2>1 DEF recorderVars, RecInv, RecControl, RecTypes, RecOwner
  <2>3. RecClaims' BY <1>2, <2>1 DEF recorderVars, RecInv, RecControl, RecClaims
  <2>4. RecArmed' BY <1>2, <2>1 DEF recorderVars, RecInv, RecControl, RecArmed, Naming, CountedTo
  <2>5. RecBuffer' BY <1>2, <2>1 DEF recorderVars, RecInv, RecBuffer, Written, Whole
  <2>6. RecExport' BY <1>2, <2>1 DEF recorderVars, RecInv, RecExport
  <2> QED BY <2>2, <2>3, <2>4, <2>5, <2>6 DEF RecInv, RecControl
<1> QED BY <1>1, <1>2 DEF SumNext, sumVars

\* A frozen dump is one unbroken stretch of whole frames around the first trigger, named by it, and an
\* export returns it, for every pre-roll and post-roll (ap_flight_recorder_record, _trigger, _export, _reset).
THEOREM DumpFaithfulHolds == SumSpec => []DumpFaithful
<1> DEFINE Inv == which = "recorder" => RecInv
<1>1. SumInit => Inv BY RecInvFirst DEF SumInit
<1>2. Inv /\ [SumNext]_sumVars => Inv'
  BY RecInvKept DEF SumNext, sumVars
<1>3. Inv => DumpFaithful BY RecInvSuffices DEF DumpFaithful
<1> QED BY <1>1, <1>2, <1>3, PTL DEF SumSpec

\* An armed recorder freezes within post_roll + 1 frames, and a claimed one is on its way to freezing.
THEOREM FreezesInTimeHolds == SumSpec => []FreezesInTime
<1> DEFINE Inv == which = "recorder" => RecInv
<1>1. SumInit => Inv BY RecInvFirst DEF SumInit
<1>2. Inv /\ [SumNext]_sumVars => Inv'
  BY RecInvKept DEF SumNext, sumVars
<1>3. Inv => FreezesInTime BY RecInvSuffices DEF FreezesInTime
<1> QED BY <1>1, <1>2, <1>3, PTL DEF SumSpec

==============================================================================
