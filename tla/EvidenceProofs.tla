----------------------------- MODULE EvidenceProofs -----------------------------
(***************************************************************************)
(* What evidence is made on and what a stage is improved with, for every   *)
(* number of frames, corpora, boards, versions, seeds and reports: a       *)
(* candidate that is confirmed detects more than the shipping detector, a  *)
(* stage that is frozen earned it, a soak's evidence and a delivery are of *)
(* one build, the corpora are of what their locks and seals name, and a    *)
(* recovery study concludes from every file its rows may measure.          *)
(***************************************************************************)
EXTENDS MC_Evidence, FiniteSetTheorems, SequenceTheorems, WellFoundedInduction, TLAPS

(***************************************************************************)
(* The hold rules: whatever they hear and whatever the number of frames    *)
(* they hold, no candidate lets go of a frame of the shipping rule, the    *)
(* patched rule is the emulated one, and each stays active longer by a     *)
(* bound.                                                                  *)
(***************************************************************************)
Typed == /\ hold \in [Rules -> Nat] /\ origin \in BOOLEAN /\ heard \in BOOLEAN
         /\ budget \in 0..Budget /\ spare \in 0..Budget /\ tail \in [Candidates -> Nat]
\* No candidate holds less than the shipping rule, which holds no more than after a strong frame.
Longer == /\ hold.shipping <= Strong
          /\ hold.shipping <= hold.selected /\ hold.shipping <= hold.tiered /\ hold.shipping <= hold.bounded
\* The patched rule needs no origin: it has a budget only while the emulated one has an origin.
Conforms == hold.patched = hold.bounded /\ spare = budget /\ (budget > 0 => origin)
WeakKept == (heard <=> origin) /\ (~origin => hold.bounded = hold.shipping)
\* How far a candidate's hold runs ahead of the shipping one ...
Ahead == /\ hold.bounded <= hold.shipping + 2 * (Budget - budget)
         /\ hold.tiered <= hold.shipping + (VeryStrong - Strong)
         /\ hold.selected <= hold.shipping + (VeryStrong - Strong)
\* ... and what it still may use up of that, once the shipping rule has let go.
Left(r, allowed) == /\ hold.shipping > 0 \/ hold[r] = 0 => tail[r] = 0
                    /\ hold.shipping = 0 /\ hold[r] > 0 => tail[r] + hold[r] <= allowed + 1
Lasting == /\ Left("bounded", 2 * (Budget - budget))
           /\ Left("tiered", VeryStrong - Strong) /\ Left("selected", VeryStrong - Strong)

HoldInv == Typed /\ Longer /\ Conforms /\ WeakKept /\ Ahead /\ Lasting

LEMMA HoldInit == Init => HoldInv
<1> SUFFICES ASSUME Init PROVE HoldInv
  OBVIOUS
<1>1. /\ hold.shipping = 0 /\ hold.selected = 0 /\ hold.tiered = 0 /\ hold.bounded = 0 /\ hold.patched = 0
      /\ tail.bounded = 0 /\ tail.tiered = 0 /\ tail.selected = 0
  BY DEF Init, Rules, Candidates
<1>2. Typed
  <2>1. 0 \in Nat /\ 0 \in 0..Budget
    BY HoldAssumption
  <2> QED BY <2>1 DEF Init, Typed
<1>3. Longer /\ Ahead
  BY <1>1, HoldAssumption DEF Init, Longer, Ahead
<1>4. Conforms /\ WeakKept
  <2>1. ~(budget > 0)
    BY DEF Init
  <2> QED BY <1>1, <2>1 DEF Init, Conforms, WeakKept
<1>5. Lasting
  BY <1>1, HoldAssumption DEF Init, Lasting, Left
<1> QED BY <1>2, <1>3, <1>4, <1>5 DEF HoldInv

\* What a frame does to each rule and to each tail, with the records taken apart.
LEMMA Heard ==
  ASSUME HoldInv, NEW level \in Levels, Hear(level)
  PROVE  /\ hold' \in [Rules -> Nat] /\ tail' \in [Candidates -> Nat]
         /\ hold'.shipping = Shipping(hold.shipping, level) /\ hold'.selected = Selected(hold.selected, level)
         /\ hold'.tiered = Tiered(hold.tiered, level) /\ hold'.bounded = Bounded(level)
         /\ hold'.patched = Patched(level)
         /\ tail'.bounded = IF Bounded(level) > 0 /\ Shipping(hold.shipping, level) = 0 THEN tail.bounded + 1 ELSE 0
         /\ tail'.tiered = IF Tiered(hold.tiered, level) > 0 /\ Shipping(hold.shipping, level) = 0
                           THEN tail.tiered + 1 ELSE 0
         /\ tail'.selected = IF Selected(hold.selected, level) > 0 /\ Shipping(hold.shipping, level) = 0
                             THEN tail.selected + 1 ELSE 0
<1>1. /\ hold.shipping \in Nat /\ hold.selected \in Nat /\ hold.tiered \in Nat
      /\ hold.bounded \in Nat /\ hold.patched \in Nat
  BY DEF HoldInv, Typed, Rules
<1>2. /\ Shipping(hold.shipping, level) \in Nat /\ Selected(hold.selected, level) \in Nat
      /\ Tiered(hold.tiered, level) \in Nat /\ Bounded(level) \in Nat /\ Patched(level) \in Nat
  BY <1>1, HoldAssumption DEF Shipping, Selected, Tiered, Bounded, Patched, AtLeast, Fewer, Levels, Loud
<1>3. hold' \in [Rules -> Nat]
  BY <1>2 DEF Hear, After, Rules
<1>4. /\ After(level).shipping = Shipping(hold.shipping, level) /\ After(level).selected = Selected(hold.selected, level)
      /\ After(level).tiered = Tiered(hold.tiered, level) /\ After(level).bounded = Bounded(level)
      /\ After(level).patched = Patched(level)
  BY DEF After
<1>5. tail' \in [Candidates -> Nat]
  BY DEF HoldInv, Typed, Hear, Candidates
<1> QED BY <1>3, <1>4, <1>5 DEF Hear, Candidates, Rules

LEMMA HoldStep == HoldInv /\ [Next]_holdVars => HoldInv'
<1> SUFFICES ASSUME HoldInv, [Next]_holdVars PROVE HoldInv'
  OBVIOUS
<1>1. CASE UNCHANGED holdVars
  BY <1>1 DEF holdVars, HoldInv, Typed, Longer, Conforms, WeakKept, Ahead, Lasting, Left
<1>2. ASSUME NEW level \in Levels, Hear(level) PROVE HoldInv'
  <2>1. /\ hold' \in [Rules -> Nat] /\ tail' \in [Candidates -> Nat]
        /\ hold'.shipping = Shipping(hold.shipping, level) /\ hold'.selected = Selected(hold.selected, level)
        /\ hold'.tiered = Tiered(hold.tiered, level) /\ hold'.bounded = Bounded(level)
        /\ hold'.patched = Patched(level)
    BY <1>2, Heard
  <2>2. /\ tail'.bounded = IF Bounded(level) > 0 /\ Shipping(hold.shipping, level) = 0 THEN tail.bounded + 1 ELSE 0
        /\ tail'.tiered = IF Tiered(hold.tiered, level) > 0 /\ Shipping(hold.shipping, level) = 0
                          THEN tail.tiered + 1 ELSE 0
        /\ tail'.selected = IF Selected(hold.selected, level) > 0 /\ Shipping(hold.shipping, level) = 0
                            THEN tail.selected + 1 ELSE 0
    BY <1>2, Heard
  <2>3. /\ hold.shipping \in Nat /\ hold.selected \in Nat /\ hold.tiered \in Nat
        /\ hold.bounded \in Nat /\ hold.patched \in Nat /\ budget \in Nat
        /\ tail.bounded \in Nat /\ tail.tiered \in Nat /\ tail.selected \in Nat
    BY HoldAssumption DEF HoldInv, Typed, Rules, Candidates
  <2>4. origin' = Originates(level) /\ budget' = BudgetLeft(level) /\ spare' = SpareLeft(level)
        /\ heard' = (Bounded(level) # 0 /\ (heard \/ level \in Loud))
    BY <1>2 DEF Hear
  <2>5. Typed'
    BY <2>1, <2>3, <2>4, HoldAssumption
    DEF HoldInv, Typed, Originates, BudgetLeft, SpareLeft, Bounded, Patched, Freezes, PatchFreezes
  <2>6. Longer'
    BY <2>1, <2>3, HoldAssumption
    DEF HoldInv, Longer, Shipping, Selected, Tiered, Bounded, Freezes, AtLeast, Fewer, Levels, Loud
  <2>7. Conforms'
    <3>1. PatchFreezes(level) <=> Freezes(level)
      BY <2>3 DEF HoldInv, Conforms, Freezes, PatchFreezes
    <3>2. Patched(level) = Bounded(level)
      BY <2>3, <3>1 DEF HoldInv, Conforms, Patched, Bounded
    <3>3. SpareLeft(level) = BudgetLeft(level)
      BY <2>3, <3>1, <3>2 DEF HoldInv, Conforms, SpareLeft, BudgetLeft
    <3>4. BudgetLeft(level) > 0 => Originates(level)
      <4>1. CASE Bounded(level) = 0
        <5>1. level \notin Loud /\ ~Freezes(level)
          BY <4>1, <2>3, HoldAssumption DEF Bounded, Freezes, Loud, AtLeast
        <5> QED BY <4>1, <5>1 DEF BudgetLeft
      <4>2. CASE Bounded(level) # 0 /\ level \in Loud
        BY <4>2 DEF Originates
      <4>3. CASE Bounded(level) # 0 /\ level \notin Loud /\ origin
        BY <4>3 DEF Originates
      <4>4. CASE Bounded(level) # 0 /\ level \notin Loud /\ ~origin
        <5>1. BudgetLeft(level) = budget
          BY <4>4 DEF BudgetLeft, Freezes
        <5> QED BY <4>4, <5>1 DEF HoldInv, Conforms
      <4> QED BY <4>1, <4>2, <4>3, <4>4
    <3> QED BY <2>1, <2>4, <3>2, <3>3, <3>4 DEF Conforms
  <2>8. WeakKept'
    <3>1. Originates(level) <=> Bounded(level) # 0 /\ (heard \/ level \in Loud)
      BY DEF HoldInv, WeakKept, Originates
    <3>2. CASE level \in Loud
      <4>1. Originates(level)
        BY <3>2, HoldAssumption DEF Originates, Bounded, Freezes, Loud
      <4> QED BY <2>4, <3>1, <4>1 DEF WeakKept
    <3>3. CASE level \notin Loud /\ origin
      <4>1. ~Originates(level) => Bounded(level) = 0
        BY <3>3 DEF Originates
      <4>2. Bounded(level) = 0 => Shipping(hold.shipping, level) = 0
        <5>1. Shipping(hold.shipping, level) \in Nat
          BY <2>1 DEF Rules
        <5> QED BY <2>1, <2>6, <5>1 DEF Longer
      <4> QED BY <2>1, <2>4, <3>1, <4>1, <4>2 DEF WeakKept
    <3>4. CASE level \notin Loud /\ ~origin
      <4>1. Bounded(level) = Shipping(hold.shipping, level)
        BY <3>4 DEF HoldInv, WeakKept, Bounded, Shipping, Freezes
      <4> QED BY <2>1, <2>4, <3>1, <4>1 DEF WeakKept
    <3> QED BY <3>2, <3>3, <3>4
  <2>9. Ahead'
    BY <2>1, <2>3, <2>4, HoldAssumption
    DEF HoldInv, Typed, Longer, Ahead, BudgetLeft, Shipping, Selected, Tiered, Bounded, Freezes, AtLeast, Fewer, Levels, Loud
  <2>10. Left("bounded", 2 * (Budget - budget))'
    BY <2>1, <2>2, <2>3, <2>4, HoldAssumption
    DEF HoldInv, Typed, Longer, Ahead, Lasting, Left, BudgetLeft, Shipping, Bounded, Freezes, AtLeast, Fewer, Levels, Loud
  <2>11. Left("tiered", VeryStrong - Strong)'
    <3>1. Shipping(hold.shipping, level) = 0 => hold.shipping <= 1 /\ Tiered(hold.tiered, level) = Fewer(hold.tiered)
      BY <2>3, HoldAssumption DEF Shipping, Tiered, AtLeast, Fewer, Levels, Loud
    <3>2. Tiered(hold.tiered, level) \in Nat
      BY <2>3, HoldAssumption DEF Tiered, AtLeast, Fewer, Levels, Loud
    <3> QED BY <2>1, <2>2, <2>3, <3>1, <3>2, HoldAssumption DEF HoldInv, Longer, Ahead, Lasting, Left, Fewer
  <2>12. Left("selected", VeryStrong - Strong)'
    BY <2>1, <2>2, <2>3, HoldAssumption
    DEF HoldInv, Longer, Ahead, Lasting, Left, Shipping, Selected, AtLeast, Fewer, Levels, Loud
  <2> QED BY <2>5, <2>6, <2>7, <2>8, <2>9, <2>10, <2>11, <2>12 DEF HoldInv, Lasting
<1> QED BY <1>1, <1>2 DEF Next

LEMMA HoldInvariant == Spec => []HoldInv
  BY HoldInit, HoldStep, PTL DEF Spec

\* No candidate lets go of a frame the shipping rule holds.
THEOREM NeverContracts == Spec => []NoContraction
<1>1. HoldInv => NoContraction
  BY DEF HoldInv, Typed, Longer, Conforms, NoContraction, Active, Candidates, Rules
<1> QED BY <1>1, HoldInvariant, PTL

\* The patched source decides and spends its budget as its lane emulated it.
THEOREM PatchConforming == Spec => []PatchConforms
<1>1. HoldInv => PatchConforms
  BY DEF HoldInv, Conforms, WeakKept, PatchConforms, WeakPathKept
<1> QED BY <1>1, HoldInvariant, PTL

\* A frozen hold outlasts the shipping one by at most two frames per unit of its budget, a tiered one
\* by at most what its longest hold is longer.
THEOREM TailsBounded == Spec => []TailBounded
<1>1. HoldInv => TailBounded
  BY HoldAssumption DEF HoldInv, Typed, Lasting, Left, TailBounded, Candidates, Rules
<1> QED BY <1>1, HoldInvariant, PTL

(***************************************************************************)
(* The judges of the VAD candidates                                        *)
(***************************************************************************)
FrameCounts == [speech : Nat, silence : Nat, hit : [Sides -> Nat], false : [Sides -> Nat]]
EventCounts == [all : Nat, hit : [Sides -> Nat]]
CountTypes == /\ count \in FrameCounts /\ events \in EventCounts
              /\ total.count \in FrameCounts /\ total.events \in EventCounts
              /\ build \in Rules /\ corpus \in Nat \ {0}
\* The candidate calls speech whatever the shipping build calls speech.
CountSound == /\ count.hit["base"] <= count.hit["candidate"]
              /\ count.false["base"] <= count.false["candidate"]
\* As long as the candidate found no more speech, it answered the stretches the shipping build answered.
EventSound == count.hit["base"] = count.hit["candidate"] =>
                /\ events.hit["base"] = events.hit["candidate"]
                /\ "base" \in event <=> "candidate" \in event
\* A benefit is more speech in one of the corpora, and so is more speech over all of them.
GainSound == /\ "benefit" \in seen => gained
             /\ total.count.hit["base"] < total.count.hit["candidate"] => gained
             /\ corpus > 1 => total.count.speech > 0
JudgeInv == HoldInv /\ CountTypes /\ CountSound /\ EventSound /\ GainSound /\ ConfirmedDetectsMore

LEMMA ProductMonotone == ASSUME NEW h \in Nat, NEW a \in Nat, NEW b \in Nat, a <= b PROVE h * a <= h * b
<1>1. PICK d \in Nat : b = a + d BY b - a \in Nat
<1>2. h * (a + d) = h * a + h * d OBVIOUS
<1>3. h * d \in Nat /\ h * a \in Nat OBVIOUS
<1> QED BY <1>1, <1>2, <1>3

\* No better f1 without more speech found.
LEMMA NoBetterF1 ==
  ASSUME NEW c \in FrameCounts, c.hit["base"] = c.hit["candidate"], c.false["base"] <= c.false["candidate"]
  PROVE  ~Exceeds(F1Gap(c, "candidate", "base"), F1Weight(c, "base") * F1Weight(c, "candidate"), 0)
<1>1. PICK h \in Nat, fb \in Nat, fc \in Nat, s \in Nat :
        /\ c.hit["base"] = h /\ c.hit["candidate"] = h /\ c.false["base"] = fb /\ c.false["candidate"] = fc
        /\ c.speech = s /\ fb <= fc
  BY DEF FrameCounts, Sides
<1>2. h * (h + fb + s) <= h * (h + fc + s)
  <2>1. h + fb + s \in Nat /\ h + fc + s \in Nat /\ h + fb + s <= h + fc + s BY <1>1
  <2> QED BY <2>1, ProductMonotone
<1>3. F1Gap(c, "candidate", "base") = 2 * (h * (h + fb + s) - h * (h + fc + s))
  BY <1>1 DEF F1Gap, F1Weight
<1>4. F1Weight(c, "base") * F1Weight(c, "candidate") \in Nat
  <2>1. F1Weight(c, "base") \in Nat /\ F1Weight(c, "candidate") \in Nat BY <1>1 DEF F1Weight
  <2> QED BY <2>1
<1>5. PICK w \in Nat : w = F1Weight(c, "base") * F1Weight(c, "candidate") BY <1>4
<1>6. PICK x \in Nat, y \in Nat : x = h * (h + fb + s) /\ y = h * (h + fc + s) OBVIOUS
<1>7. ~(100 * (2 * (x - y)) > 0 * w) BY <1>2, <1>6
<1> QED BY <1>3, <1>5, <1>6, <1>7 DEF Exceeds

\* What a frame adds to the counts of either build.
LEMMA SeenBySides ==
  ASSUME HoldInv, build \in Rules, NEW level \in Levels, NEW speech, Hear(level)
  PROVE  /\ Sees(level, speech) \in [Sides -> {0, 1}]
         /\ Sees(level, speech)["base"] <= Sees(level, speech)["candidate"]
<1>1. HoldInv' BY HoldStep DEF Next
<1>2. hold'.shipping > 0 => hold'[build] > 0
  BY <1>1 DEF HoldInv, Typed, Longer, Conforms, Rules
<1>3. After(level).shipping > 0 => After(level)[build] > 0
  BY <1>2 DEF Hear
<1>4. Sees(level, speech)["base"] = IF After(level).shipping > 0 THEN 1 ELSE 0
  BY DEF Sees, Decided, Sides
<1>5. Sees(level, speech)["candidate"] = IF After(level)[build] > 0 THEN 1 ELSE 0
  BY DEF Sees, Decided, Sides
<1>6. Sees(level, speech) \in [Sides -> {0, 1}]
  BY DEF Sees
<1> QED BY <1>3, <1>4, <1>5, <1>6

LEMMA PlusSides ==
  ASSUME NEW c \in [Sides -> Nat], NEW d \in [Sides -> Nat]
  PROVE  /\ Plus(c, d) \in [Sides -> Nat]
         /\ Plus(c, d)["base"] = c["base"] + d["base"]
         /\ Plus(c, d)["candidate"] = c["candidate"] + d["candidate"]
<1>1. \A s \in Sides : c[s] + d[s] \in Nat OBVIOUS
<1> QED BY <1>1 DEF Plus, Sides

LEMMA FrameKeeps ==
  ASSUME JudgeInv, NEW level \in Levels, NEW speech \in BOOLEAN, Frame(level, speech)
  PROVE  JudgeInv'
<1>1. HoldInv'
  BY HoldStep DEF JudgeInv, Frame, Next
<1>2. PICK act \in [Sides -> {0, 1}] : act = Sees(level, speech) /\ act["base"] <= act["candidate"]
  BY SeenBySides DEF JudgeInv, CountTypes, Frame
<1>3. PICK h \in [Sides -> Nat], f \in [Sides -> Nat], sp \in Nat, si \in Nat :
        count = [speech |-> sp, silence |-> si, hit |-> h, false |-> f]
  BY DEF JudgeInv, CountTypes, FrameCounts
<1>4. PICK n \in Nat, eh \in [Sides -> Nat] : events = [all |-> n, hit |-> eh]
  BY DEF JudgeInv, CountTypes, EventCounts
<1>5. UNCHANGED <<judge, build, corpus, total, gained, verdict>> BY DEF Frame
<1>6. act \in [Sides -> Nat] BY <1>2
<1>9. GainSound' /\ ConfirmedDetectsMore'
  <2>1. seen' = seen \cup Differences(level) BY DEF Frame
  <2>2. "benefit" \notin Differences(level) BY DEF Differences
  <2> QED BY <1>5, <2>1, <2>2 DEF JudgeInv, GainSound, ConfirmedDetectsMore
<1>7. CASE speech
  <2>1. count' = [speech |-> sp + 1, silence |-> si, hit |-> Plus(h, act), false |-> f]
    BY <1>2, <1>3, <1>7 DEF Frame
  <2>2. event' = event \cup {s \in Sides : act[s] = 1} \cup {"speech"}
    BY <1>2, <1>7 DEF Frame
  <2>3. events' = [all |-> IF "speech" \in event THEN n ELSE n + 1,
                   hit |-> [s \in Sides |-> IF s \in (event \cup {x \in Sides : act[x] = 1}) \ event
                                            THEN eh[s] + 1 ELSE eh[s]]]
    <3> DEFINE mid == [s \in Sides |-> IF s \in (event \cup {x \in Sides : act[x] = 1}) \ event
                                       THEN events.hit[s] + 1 ELSE events.hit[s]]
    <3>1. events' = [events EXCEPT !.all = IF "speech" \in event THEN @ ELSE @ + 1, !.hit = mid]
      BY <1>2, <1>7, Zenon DEF Frame
    <3>2. mid = [s \in Sides |-> IF s \in (event \cup {x \in Sides : act[x] = 1}) \ event
                                 THEN eh[s] + 1 ELSE eh[s]]
      BY <1>4
    <3> HIDE DEF mid
    <3>3. events' = [all |-> IF "speech" \in event THEN n ELSE n + 1, hit |-> mid]
      BY <1>4, <3>1
    <3> QED BY <3>2, <3>3
  <2>4. Plus(h, act) \in [Sides -> Nat] /\ Plus(h, act)["base"] = h["base"] + act["base"]
        /\ Plus(h, act)["candidate"] = h["candidate"] + act["candidate"]
    BY <1>6, PlusSides
  <2>5. count' \in FrameCounts BY <2>1, <2>4 DEF FrameCounts
  <2>6. events' \in EventCounts BY <2>3 DEF EventCounts
  <2>7. CountSound'
    BY <1>2, <1>3, <2>1, <2>4 DEF JudgeInv, CountSound, Sides
  <2>8. EventSound'
    <3>1. SUFFICES ASSUME h["base"] + act["base"] = h["candidate"] + act["candidate"]
                   PROVE  /\ events'.hit["base"] = events'.hit["candidate"]
                          /\ "base" \in event' <=> "candidate" \in event'
      BY <2>1, <2>4 DEF EventSound
    <3>2. act["base"] = act["candidate"] /\ h["base"] = h["candidate"]
      BY <1>2, <1>3, <3>1 DEF JudgeInv, CountSound, Sides
    <3>3. /\ eh["base"] = eh["candidate"]
          /\ "base" \in event <=> "candidate" \in event
      BY <1>3, <1>4, <3>2 DEF JudgeInv, EventSound
    <3>4. "base" \in event' <=> "candidate" \in event'
      BY <2>2, <3>2, <3>3 DEF Sides
    <3>5. events'.hit["base"] = events'.hit["candidate"]
      BY <2>3, <3>2, <3>3 DEF Sides
    <3> QED BY <3>4, <3>5
  <2> QED BY <1>1, <1>5, <1>9, <2>5, <2>6, <2>7, <2>8 DEF JudgeInv, CountTypes
<1>8. CASE ~speech
  <2>1. count' = [speech |-> sp, silence |-> si + 1, hit |-> h, false |-> Plus(f, act)]
    BY <1>2, <1>3, <1>8 DEF Frame
  <2>2. event' = {} /\ events' = events
    BY <1>8 DEF Frame
  <2>4. Plus(f, act) \in [Sides -> Nat] /\ Plus(f, act)["base"] = f["base"] + act["base"]
        /\ Plus(f, act)["candidate"] = f["candidate"] + act["candidate"]
    BY <1>6, PlusSides
  <2>5. count' \in FrameCounts BY <2>1, <2>4 DEF FrameCounts
  <2>7. CountSound'
    BY <1>2, <1>3, <2>1, <2>4 DEF JudgeInv, CountSound, Sides
  <2>8. EventSound'
    BY <1>3, <2>1, <2>2 DEF JudgeInv, EventSound
  <2> QED BY <1>1, <1>5, <1>9, <2>2, <2>5, <2>7, <2>8 DEF JudgeInv, CountTypes
<1> QED BY <1>7, <1>8

\* The next corpus is heard by fresh processors.
LEMMA FreshHold ==
  ASSUME hold' = [r \in Rules |-> 0], origin' = FALSE, budget' = 0, spare' = 0,
         tail' = [r \in Candidates |-> 0], heard' = FALSE
  PROVE  HoldInv'
<1>1. /\ hold'.shipping = 0 /\ hold'.selected = 0 /\ hold'.tiered = 0 /\ hold'.bounded = 0 /\ hold'.patched = 0
      /\ tail'.bounded = 0 /\ tail'.tiered = 0 /\ tail'.selected = 0
  BY DEF Rules, Candidates
<1>2. Typed'
  <2>1. 0 \in Nat /\ 0 \in 0..Budget
    BY HoldAssumption
  <2> QED BY <2>1 DEF Typed
<1>3. Longer' /\ Ahead'
  BY <1>1, HoldAssumption DEF Longer, Ahead
<1>4. Conforms' /\ WeakKept'
  <2>1. ~(budget' > 0) OBVIOUS
  <2> QED BY <1>1, <2>1 DEF Conforms, WeakKept
<1>5. Lasting'
  BY <1>1, HoldAssumption DEF Lasting, Left
<1> QED BY <1>2, <1>3, <1>4, <1>5 DEF HoldInv

\* A corpus without more speech found has no benefit.
LEMMA BenefitGains ==
  ASSUME JudgeInv, count.speech > 0, Benefits(count, events)
  PROVE  count.hit["base"] < count.hit["candidate"]
<1> SUFFICES ASSUME count.hit["base"] = count.hit["candidate"] PROVE FALSE
  <2>1. count.hit["base"] \in Nat /\ count.hit["candidate"] \in Nat BY DEF JudgeInv, CountTypes, FrameCounts, Sides
  <2> QED BY <2>1 DEF JudgeInv, CountSound
<1>1. count \in FrameCounts /\ count.false["base"] <= count.false["candidate"]
  BY DEF JudgeInv, CountTypes, CountSound
<1>2. ~Exceeds(F1Gap(count, "candidate", "base"), F1Weight(count, "base") * F1Weight(count, "candidate"), 0)
  BY <1>1, NoBetterF1
<1>3. /\ count.hit["base"] \in Nat /\ count.speech \in Nat
      /\ count.false["base"] \in Nat /\ count.false["candidate"] \in Nat
  BY <1>1 DEF FrameCounts, Sides
<1>4. ~(2 * (count.hit["candidate"] - count.hit["base"]) * 100 >= count.speech)
  BY <1>3
<1>5. events.hit["base"] = events.hit["candidate"] /\ events.hit["base"] \in Nat
  BY DEF JudgeInv, EventSound, CountTypes, EventCounts, Sides
<1>6. ~(events.hit["candidate"] > events.hit["base"]) BY <1>5
<1>7. ~(count.false["candidate"] < count.false["base"]) BY <1>1, <1>3
<1> QED BY <1>2, <1>4, <1>6, <1>7, Zenon DEF Benefits

LEMMA CorpusDoneKeeps ==
  ASSUME JudgeInv, NEW other \in BOOLEAN, CorpusDone(other)
  PROVE  JudgeInv'
<1>1. HoldInv' BY FreshHold DEF CorpusDone
<1>2. count' = NoCount /\ event' = {} /\ events' = NoEvents /\ corpus' = corpus + 1
      /\ UNCHANGED <<judge, build, verdict>> /\ verdict = "none" /\ count.speech > 0
  BY DEF CorpusDone
<1>3. PICK h \in [Sides -> Nat], f \in [Sides -> Nat], sp \in Nat, si \in Nat :
        count = [speech |-> sp, silence |-> si, hit |-> h, false |-> f]
  BY DEF JudgeInv, CountTypes, FrameCounts
<1>4. PICK th \in [Sides -> Nat], tf \in [Sides -> Nat], tsp \in Nat, tsi \in Nat :
        total.count = [speech |-> tsp, silence |-> tsi, hit |-> th, false |-> tf]
  BY DEF JudgeInv, CountTypes, FrameCounts
<1>5. PICK n \in Nat, eh \in [Sides -> Nat] : events = [all |-> n, hit |-> eh]
  BY DEF JudgeInv, CountTypes, EventCounts
<1>6. PICK tn \in Nat, teh \in [Sides -> Nat] : total.events = [all |-> tn, hit |-> teh]
  BY DEF JudgeInv, CountTypes, EventCounts
<1>7. total'.count = [speech |-> tsp + sp, silence |-> tsi + si, hit |-> Plus(th, h), false |-> Plus(tf, f)]
  BY <1>3, <1>4 DEF CorpusDone, Added
<1>8. total'.events = [all |-> tn + n, hit |-> Plus(teh, eh)]
  BY <1>5, <1>6 DEF CorpusDone
<1>9. /\ Plus(th, h) \in [Sides -> Nat] /\ Plus(tf, f) \in [Sides -> Nat] /\ Plus(teh, eh) \in [Sides -> Nat]
      /\ Plus(th, h)["base"] = th["base"] + h["base"]
      /\ Plus(th, h)["candidate"] = th["candidate"] + h["candidate"]
  BY PlusSides
<1>10. total'.count \in FrameCounts BY <1>7, <1>9 DEF FrameCounts
<1>11. total'.events \in EventCounts BY <1>8, <1>9 DEF EventCounts
<1>12. count' \in FrameCounts /\ events' \in EventCounts
  BY <1>2 DEF NoCount, NoEvents, FrameCounts, EventCounts
<1>13. CountSound'
  BY <1>2 DEF NoCount, CountSound, Sides
<1>14. EventSound'
  BY <1>2 DEF NoEvents, EventSound, Sides
<1>15. gained' = (gained \/ h["candidate"] > h["base"])
  BY <1>3 DEF CorpusDone
<1>16. "benefit" \in seen' => "benefit" \in seen \/ Benefits(count, events)
  BY DEF CorpusDone
<1>17. "benefit" \in seen' => gained'
  <2>1. Benefits(count, events) => h["base"] < h["candidate"]
    BY <1>2, <1>3, BenefitGains
  <2>2. h["base"] \in Nat /\ h["candidate"] \in Nat BY DEF Sides
  <2>3. h["base"] < h["candidate"] => h["candidate"] > h["base"] BY <2>2
  <2> QED BY <1>15, <1>16, <2>1, <2>3 DEF JudgeInv, GainSound
<1>18. total'.count.hit["base"] < total'.count.hit["candidate"] => gained'
  <2>1. SUFFICES ASSUME th["base"] + h["base"] < th["candidate"] + h["candidate"] PROVE gained'
    BY <1>7, <1>9
  <2>2. th["base"] \in Nat /\ h["base"] \in Nat /\ th["candidate"] \in Nat /\ h["candidate"] \in Nat BY DEF Sides
  <2>3. th["base"] < th["candidate"] \/ h["candidate"] > h["base"] BY <2>1, <2>2
  <2>4. th["base"] < th["candidate"] => gained BY <1>4 DEF JudgeInv, GainSound
  <2> QED BY <1>15, <2>3, <2>4
<1>19. corpus' > 1 => total'.count.speech > 0
  BY <1>2, <1>3, <1>7
<1>20. ConfirmedDetectsMore'
  BY <1>2 DEF ConfirmedDetectsMore
<1>21. CountTypes'
  BY <1>2, <1>10, <1>11, <1>12 DEF JudgeInv, CountTypes
<1> QED BY <1>1, <1>13, <1>14, <1>17, <1>18, <1>19, <1>20, <1>21 DEF JudgeInv, GainSound

LEMMA DecideKeeps ==
  ASSUME JudgeInv, Decide
  PROVE  JudgeInv'
<1>1. /\ HoldInv' /\ CountTypes' /\ CountSound' /\ EventSound' /\ GainSound'
  <2>1. UNCHANGED <<holdVars, judge, build, corpus, frame, count, event, events, total, seen, gained>>
    BY DEF Decide
  <2>2. HoldInv'
    BY <2>1, HoldStep DEF JudgeInv
  <2>3. CountTypes' /\ CountSound' /\ EventSound' /\ GainSound'
    BY <2>1 DEF JudgeInv, CountTypes, CountSound, EventSound, GainSound
  <2> QED BY <2>2, <2>3
<1>2. SUFFICES ASSUME Passes, judge \in {"confirmation", "public"} PROVE gained
  BY <1>1 DEF Decide, JudgeInv, ConfirmedDetectsMore
<1>3. CASE judge = "confirmation"
  BY <1>2, <1>3 DEF Passes, ConfirmationPasses, JudgeInv, GainSound
<1>4. CASE judge = "public"
  <2>1. total.count.speech > 0
    <3>1. corpus > 1 BY JudgeAssumption DEF Decide, JudgeInv, CountTypes
    <3> QED BY <3>1 DEF JudgeInv, GainSound
  <2>2. 1000 * (total.count.hit["candidate"] - total.count.hit["base"]) >= 5 * total.count.speech
    BY <1>2, <1>4 DEF Passes, PublicPasses
  <2>3. /\ total.count.hit["candidate"] \in Nat /\ total.count.hit["base"] \in Nat /\ total.count.speech \in Nat
    BY DEF JudgeInv, CountTypes, FrameCounts, Sides
  <2>4. total.count.hit["base"] < total.count.hit["candidate"] BY <2>1, <2>2, <2>3
  <2> QED BY <2>4 DEF JudgeInv, GainSound
<1> QED BY <1>2, <1>3, <1>4

LEMMA JudgeInitially == ConfirmationInit => JudgeInv
<1> SUFFICES ASSUME ConfirmationInit PROVE JudgeInv
  OBVIOUS
<1>1. HoldInv BY HoldInit DEF ConfirmationInit
<1>2. count = NoCount /\ events = NoEvents /\ total.count = NoCount /\ total.events = NoEvents
      /\ event = {} /\ seen = {} /\ corpus = 1 /\ verdict = "none" /\ build \in Rules
  BY DEF ConfirmationInit, NothingSeen
<1>3. NoCount \in FrameCounts /\ NoEvents \in EventCounts
  BY DEF NoCount, NoEvents, FrameCounts, EventCounts
<1>4. CountTypes BY <1>2, <1>3 DEF CountTypes
<1>5. NoCount.hit["base"] = 0 /\ NoCount.hit["candidate"] = 0 /\ NoCount.false["base"] = 0
      /\ NoCount.false["candidate"] = 0 /\ NoEvents.hit["base"] = 0 /\ NoEvents.hit["candidate"] = 0
  BY DEF NoCount, NoEvents, Sides
<1>6. CountSound /\ EventSound BY <1>2, <1>5 DEF CountSound, EventSound
<1>7. GainSound BY <1>2, <1>5 DEF GainSound
<1> QED BY <1>1, <1>2, <1>4, <1>6, <1>7 DEF JudgeInv, ConfirmedDetectsMore

\* A confirmation passes only over a corpus on which the candidate build found more speech, whatever
\* is heard, whatever rule it runs, for every hold, tolerance and length of the corpora.
THEOREM ConfirmedDetectsMoreHolds == SumSpec => []ConfirmedDetectsMore
<1>1. SumInit => JudgeInv
  BY JudgeInitially DEF SumInit
<1>2. ASSUME JudgeInv, [SumNext]_sumVars PROVE JudgeInv'
  <2>1. CASE ConfirmationNext
    BY <1>2, <2>1, FrameKeeps, CorpusDoneKeeps, DecideKeeps DEF ConfirmationNext
  <2>2. CASE UNCHANGED vadVars
    <3>1. HoldInv' BY <1>2, <2>2, HoldStep DEF JudgeInv, vadVars, holdVars
    <3>2. CountTypes' /\ CountSound' /\ EventSound' /\ GainSound' /\ ConfirmedDetectsMore'
      BY <1>2, <2>2 DEF vadVars, JudgeInv, CountTypes, CountSound, EventSound, GainSound, ConfirmedDetectsMore
    <3> QED BY <3>1, <3>2 DEF JudgeInv
  <2>3. ConfirmationNext \/ UNCHANGED vadVars
    BY <1>2 DEF SumNext, sumVars
  <2> QED BY <2>1, <2>2, <2>3
<1>3. JudgeInv => ConfirmedDetectsMore
  BY DEF JudgeInv
<1> QED BY <1>1, <1>2, <1>3, PTL DEF SumSpec

(***************************************************************************)
(* The lanes that rank, tune and confirm a single stage                    *)
(***************************************************************************)
\* A set of naturals that is not empty has a least element: what stands in for induction.
LEMMA LeastNumber ==
  ASSUME NEW T, T \subseteq Nat, T # {}
  PROVE  \E x \in T : \A y \in T : x <= y
<1> DEFINE Smaller == {ss \in Nat \X Nat : ss[1] < ss[2]}
<1>1. IsWellFoundedOn(Smaller, Nat)
  BY NatLessThanWellFounded DEF OpToRel
<1>2. \E x \in T : \A y \in T : ~ (<<y, x>> \in Smaller)
  <2> HIDE DEF Smaller
  <2> QED BY <1>1, WFMin
<1>3. PICK x \in T : \A y \in T : ~ (<<y, x>> \in Smaller)
  BY <1>2
<1>4. ASSUME NEW y \in T PROVE x <= y
  <2>1. x \in Nat /\ y \in Nat OBVIOUS
  <2>2. ~ (<<y, x>> \in Smaller) BY <1>3
  <2>3. ~ (y < x) BY <2>1, <2>2
  <2> QED BY <2>1, <2>3
<1> QED BY <1>4

(***************************************************************************)
(* The lanes of a stage                                                    *)
(***************************************************************************)
Known == DOMAIN report
LaneTypes ==
    /\ lane \in Lane!Lanes /\ algorithm \in Lane!Algorithms /\ tuning \in Lane!Tunings
    /\ \A k \in Known : report[k] \in Lane!AnyReport
    /\ stage \in {"screen", "tune", "holdout", "decided", "evaluate", "confirm", "confirmed", "rejected", "error"}
Chosen == stage \in {"tune", "holdout", "decided"}
Tuned == stage \in {"holdout", "decided"}
\* The algorithm was chosen over the shipping one on reports that are still there ...
AlgorithmEarned ==
    Chosen => /\ \A a \in Lane!Algorithms, d \in Lane!Dev : Lane!Measured(a, "baseline", d)
              /\ algorithm # "shipping" => Lane!Eligible(Lane!Base, Lane!Family, MinScore)
\* ... and so was its tuning over the algorithm it is one of.
TuningEarned ==
    /\ stage \in {"screen", "tune"} => tuning = "baseline"
    /\ stage = "tune" => Lane!TwoStage
    /\ Tuned /\ tuning = "tuned" => /\ Lane!TwoStage
                                    /\ \A d \in Lane!Dev : Lane!Measured(algorithm, "tuned", d)
                                    /\ Lane!Eligible(Lane!Family, Lane!Final, MinTuning)
FreezeEarnt ==
    Lane!Frozen =>
      /\ Lane!Selected # Lane!Shipping
      /\ \A c \in Lane!Holdouts : Lane!Measured("shipping", "baseline", c) /\ Lane!Measured(algorithm, tuning, c)
      /\ ~Lane!Harmed(Lane!OnHoldouts("shipping", "baseline"), Lane!OnHoldouts(algorithm, tuning))
\* Every corpus of a build that is still judged was measured without an error, and those of a judge
\* that passed it gained on two of the three.
BuildKept ==
    stage \in {"screen", "tune", "holdout", "decided", "evaluate", "confirm", "confirmed"} =>
        \A c \in DOMAIN laneBuild : laneBuild[c] \in Lane!AnyBuild /\ ~Lane!Broken(laneBuild[c])
Judged(cs) ==
    /\ cs \subseteq DOMAIN laneBuild
    /\ \E c, d \in cs : c # d /\ Lane!Gain(c) >= MinFaster /\ Lane!Gain(d) >= MinFaster
BuildEarned ==
    /\ stage \in {"confirm", "confirmed"} => Judged(Lane!Fresh)
    /\ stage = "confirmed" => /\ Judged(Lane!Independent)
                              /\ \A c \in Lane!Independent : ~Lane!WholeLost(laneBuild[c])
LaneInv == LaneTypes /\ AlgorithmEarned /\ TuningEarned /\ FreezeEarnt /\ BuildKept /\ BuildEarned

\* What was measured stays.
Kept == \A k \in Known : k \in DOMAIN report' /\ report'[k] = report[k]

LEMMA EvaluateKeeps ==
  ASSUME LaneTypes, NEW a, NEW t, NEW cs, NEW rs \in SUBSET Lane!AnyReport, Lane!Evaluate(a, t, cs, rs)
  PROVE  Kept /\ LaneTypes'
<1>1. PICK new \in [cs -> rs] :
          report' = [k \in DOMAIN report \cup {Lane!Key(a, t, c) : c \in cs} |->
                        IF k \in DOMAIN report THEN report[k] ELSE new[k.corpus]]
  BY DEF Lane!Evaluate
<1>2. Kept BY <1>1 DEF Kept, Known
<1>3. ASSUME NEW k \in DOMAIN report' PROVE report'[k] \in Lane!AnyReport
  <2>1. CASE k \in DOMAIN report BY <1>1, <2>1 DEF LaneTypes, Known
  <2>2. CASE k \notin DOMAIN report
    <3>1. PICK c \in cs : k = Lane!Key(a, t, c) BY <1>1, <2>2
    <3>2. k.corpus = c BY <3>1 DEF Lane!Key
    <3>3. report'[k] = new[c] BY <1>1, <2>2, <3>2
    <3> QED BY <3>1, <3>3
  <2> QED BY <2>1, <2>2
<1> QED BY <1>2, <1>3 DEF Lane!Evaluate, LaneTypes, Known

LEMMA DevKept ==
  ASSUME Kept, NEW a, NEW t, \A d \in Lane!Dev : Lane!Measured(a, t, d)
  PROVE  /\ \A d \in Lane!Dev : Lane!Measured(a, t, d)'
         /\ Lane!OnDev(a, t)' = Lane!OnDev(a, t)
BY DEF Kept, Known, Lane!Measured, Lane!OnDev, Lane!Report

\* What reports add up to.
LEMMA OnDevTyped ==
  ASSUME LaneTypes, NEW a, NEW t, \A d \in Lane!Dev : Lane!Measured(a, t, d)
  PROVE  Lane!OnDev(a, t) \in [Lane!Dev -> Lane!AnyReport]
BY DEF LaneTypes, Known, Lane!Measured, Lane!OnDev, Lane!Report

LEMMA ScoresAdd ==
  ASSUME NEW b \in [Lane!Dev -> Lane!AnyReport], NEW c \in [Lane!Dev -> Lane!AnyReport]
  PROVE  Lane!TotalScore(b, c) \in Int /\ Lane!LevelLoss(b, c) \in Int /\ Lane!Gained(b, c) \in Int
<1>1. ASSUME NEW d \in Lane!Dev
      PROVE  /\ Lane!Level(b[d]) \in Int /\ Lane!Level(c[d]) \in Int /\ b[d].settle \in Int /\ c[d].settle \in Int
             /\ Lane!Settle(b[d]) \in Int /\ Lane!Settle(c[d]) \in Int
  <2>1. b[d] \in Lane!AnyReport /\ c[d] \in Lane!AnyReport BY <1>1
  <2>2. b[d].level \in Int /\ c[d].level \in Int /\ b[d].settle \in Nat /\ c[d].settle \in Nat
    BY <2>1 DEF Lane!AnyReport
  <2>3. Never \in Int BY Bounds DEF Lane!LaneAssumption
  <2> QED BY <2>2, <2>3 DEF Lane!Level, Lane!Settle
<1>2. "d1" \in Lane!Dev /\ "d2" \in Lane!Dev BY DEF Lane!Dev
<1>3. Lane!TotalScore(b, c) \in Int
  BY <1>1, <1>2 DEF Lane!TotalScore, Lane!OverDev, Lane!Score
<1>4. Lane!LevelLoss(b, c) \in Int
  BY <1>1, <1>2 DEF Lane!LevelLoss, Lane!OverDev
<1>5. Lane!Gained(b, c) \in Int
  BY <1>1, <1>2 DEF Lane!Gained, Lane!OverDev
<1> QED BY <1>3, <1>4, <1>5

\* Of finitely many alternatives one scores best.
LEMMA BestOfFinite ==
  ASSUME NEW A, IsFiniteSet(A), A # {}, NEW f, \A a \in A : f[a] \in Int
  PROVE  \E a \in A : \A x \in A : f[a] >= f[x]
<1> DEFINE Beaten(S) == S # {} /\ \A a \in S : \E x \in S : ~(f[a] >= f[x])
<1> DEFINE T == {n \in Nat : \E S \in SUBSET A : Beaten(S) /\ Cardinality(S) = n}
<1>1. SUFFICES ASSUME Beaten(A) PROVE FALSE
  OBVIOUS
<1>2. Cardinality(A) \in T
  <2>1. Cardinality(A) \in Nat BY FS_CardinalityType
  <2> QED BY <1>1, <2>1
<1>3. PICK n \in T : \A m \in T : n <= m
  <2>1. T \subseteq Nat /\ T # {} BY <1>2
  <2> HIDE DEF T
  <2> QED BY <2>1, LeastNumber
<1>4. PICK S \in SUBSET A : Beaten(S) /\ Cardinality(S) = n
  BY <1>3
<1>5. PICK a \in S : TRUE BY <1>4
<1>6. IsFiniteSet(S) BY FS_Subset
<1>7. IsFiniteSet(S \ {a}) /\ Cardinality(S \ {a}) = n - 1 /\ n \in Nat
  BY <1>4, <1>5, <1>6, FS_RemoveElement, FS_CardinalityType
<1>8. n - 1 \in Nat
  BY <1>7, FS_CardinalityType
<1>9. ~Beaten(S \ {a})
  <2>1. SUFFICES ASSUME Beaten(S \ {a}) PROVE FALSE
    OBVIOUS
  <2>2. n - 1 \in T BY <1>7, <1>8, <2>1
  <2>3. n <= n - 1 BY <1>3, <2>2
  <2> QED BY <2>3, <1>7
<1>10. CASE S \ {a} = {}
  <2>1. S = {a} BY <1>5, <1>10
  <2>2. f[a] \in Int BY <1>5
  <2>3. f[a] >= f[a] BY <2>2
  <2> QED BY <1>4, <2>1, <2>3
<1>11. CASE S \ {a} # {}
  <2>1. PICK b \in S \ {a} : \A x \in S \ {a} : f[b] >= f[x] BY <1>9, <1>11
  <2>2. f[a] \in Int /\ f[b] \in Int /\ \A x \in S : f[x] \in Int BY <1>5
  <2>3. CASE f[a] >= f[b]
    <3>1. \A x \in S : f[a] >= f[x] BY <2>1, <2>2, <2>3
    <3> QED BY <1>4, <1>5, <3>1
  <2>4. CASE ~(f[a] >= f[b])
    <3>1. \A x \in S : f[b] >= f[x] BY <2>1, <2>2, <2>4
    <3> QED BY <1>4, <3>1
  <2> QED BY <2>3, <2>4
<1> QED BY <1>10, <1>11

\* What is eligible is so by the reports and the lane alone.
LEMMA EligibleAgain ==
  ASSUME lane' = lane, Lane!Base' = Lane!Base, Lane!Family' = Lane!Family
  PROVE  Lane!Eligible(Lane!Base, Lane!Family, MinScore)' <=> Lane!Eligible(Lane!Base, Lane!Family, MinScore)
BY DEF Lane!Eligible, Lane!TotalRegressed, Lane!TotalScore, Lane!OverDev, Lane!Score, Lane!Level, Lane!Settle,
       Lane!Lost, Lane!Regressed, Lane!LevelLoss, Lane!SettleLoss

LEMMA TunedAgain ==
  ASSUME lane' = lane, Lane!Family' = Lane!Family, Lane!Final' = Lane!Final
  PROVE  Lane!Eligible(Lane!Family, Lane!Final, MinTuning)' <=> Lane!Eligible(Lane!Family, Lane!Final, MinTuning)
BY DEF Lane!Eligible, Lane!TotalRegressed, Lane!TotalScore, Lane!OverDev, Lane!Score, Lane!Level, Lane!Settle,
       Lane!Lost, Lane!Regressed, Lane!LevelLoss, Lane!SettleLoss

\* What a stage that measures more leaves as it was.
LEMMA MeasuringKeeps ==
  ASSUME LaneInv, Kept, LaneTypes', stage # "decided",
         UNCHANGED <<lane, stage, algorithm, tuning, decision, laneBuild>>
  PROVE  LaneInv'
<1>1. AlgorithmEarned'
  <2>1. SUFFICES ASSUME Chosen
                 PROVE  /\ \A a \in Lane!Algorithms, d \in Lane!Dev : Lane!Measured(a, "baseline", d)'
                        /\ algorithm # "shipping" => Lane!Eligible(Lane!Base, Lane!Family, MinScore)'
    BY DEF AlgorithmEarned, Chosen
  <2>2. \A a \in Lane!Algorithms : /\ \A d \in Lane!Dev : Lane!Measured(a, "baseline", d)'
                                   /\ Lane!OnDev(a, "baseline")' = Lane!OnDev(a, "baseline")
    BY <2>1, DevKept DEF LaneInv, AlgorithmEarned
  <2>3. "shipping" \in Lane!Algorithms /\ algorithm \in Lane!Algorithms
    BY DEF LaneInv, LaneTypes, Lane!Algorithms
  <2>4. Lane!Base' = Lane!Base /\ Lane!Family' = Lane!Family
    BY <2>2, <2>3 DEF Lane!Base, Lane!Family
  <2>5. algorithm # "shipping" => Lane!Eligible(Lane!Base, Lane!Family, MinScore)
    BY <2>1 DEF LaneInv, AlgorithmEarned
  <2>6. Lane!Eligible(Lane!Base, Lane!Family, MinScore)' <=> Lane!Eligible(Lane!Base, Lane!Family, MinScore)
    BY <2>4, EligibleAgain
  <2> QED BY <2>2, <2>5, <2>6
<1>2. TuningEarned'
  <2>1. UNCHANGED <<lane, stage, tuning>> OBVIOUS
  <2>2. SUFFICES ASSUME Tuned, tuning = "tuned"
                 PROVE  /\ \A d \in Lane!Dev : Lane!Measured(algorithm, "tuned", d)'
                        /\ Lane!Eligible(Lane!Family, Lane!Final, MinTuning)'
    BY <2>1 DEF LaneInv, TuningEarned, Tuned, Lane!TwoStage
  <2>3. \A d \in Lane!Dev : Lane!Measured(algorithm, "tuned", d)
    BY <2>2 DEF LaneInv, TuningEarned
  <2>4. \A d \in Lane!Dev : Lane!Measured(algorithm, "baseline", d)
    BY <2>2 DEF LaneInv, LaneTypes, AlgorithmEarned, Chosen, Tuned
  <2>5. PICK a : a = algorithm OBVIOUS
  <2>6. /\ \A d \in Lane!Dev : Lane!Measured(a, "tuned", d)'
        /\ Lane!OnDev(a, "tuned")' = Lane!OnDev(a, "tuned")
    BY <2>3, <2>5, DevKept
  <2>7. Lane!OnDev(a, "baseline")' = Lane!OnDev(a, "baseline")
    BY <2>4, <2>5, DevKept
  <2>8. Lane!Family' = Lane!Family /\ Lane!Final' = Lane!Final
    BY <2>1, <2>2, <2>5, <2>6, <2>7 DEF Lane!Family, Lane!Final
  <2>9. Lane!Eligible(Lane!Family, Lane!Final, MinTuning)
    BY <2>2 DEF LaneInv, TuningEarned
  <2>10. Lane!Eligible(Lane!Family, Lane!Final, MinTuning)' BY <2>8, <2>9, TunedAgain
  <2> QED BY <2>5, <2>6, <2>10
<1>3. FreezeEarnt' BY DEF FreezeEarnt, Lane!Frozen
<1>4. BuildKept' /\ BuildEarned'
  BY DEF LaneInv, BuildKept, BuildEarned, Judged, Lane!Gain
<1> QED BY <1>1, <1>2, <1>3, <1>4 DEF LaneInv

LEMMA ScreenKeeps == ASSUME LaneInv, NEW a \in Lane!Algorithms, Lane!Screen(a) PROVE LaneInv'
<1>1. DevReports \in SUBSET Lane!AnyReport BY Bounds DEF Lane!LaneAssumption
<1>2. Kept /\ LaneTypes'
  BY <1>1, EvaluateKeeps DEF LaneInv, Lane!Screen
<1> QED BY <1>2, MeasuringKeeps DEF Lane!Screen, Lane!Evaluate

LEMMA TuneKeeps == ASSUME LaneInv, Lane!Tune PROVE LaneInv'
<1>1. DevReports \in SUBSET Lane!AnyReport BY Bounds DEF Lane!LaneAssumption
<1>2. Kept /\ LaneTypes'
  BY <1>1, EvaluateKeeps DEF LaneInv, Lane!Tune
<1> QED BY <1>2, MeasuringKeeps DEF Lane!Tune, Lane!Evaluate

LEMMA HoldKeeps == ASSUME LaneInv, NEW x, Lane!Hold(x) PROVE LaneInv'
<1>1. HoldoutReports \in SUBSET Lane!AnyReport BY Bounds DEF Lane!LaneAssumption
<1>2. Kept /\ LaneTypes'
  BY <1>1, EvaluateKeeps DEF LaneInv, Lane!Hold
<1> QED BY <1>2, MeasuringKeeps DEF Lane!Hold, Lane!Evaluate

\* The screening chooses what is eligible.
LEMMA SelectAlgorithmKeeps == ASSUME LaneInv, Lane!SelectAlgorithm PROVE LaneInv'
<1> DEFINE base == Lane!OnDev("shipping", "baseline")
<1> DEFINE score == [a \in Lane!Algorithms |-> Lane!TotalScore(base, Lane!OnDev(a, "baseline"))]
<1> DEFINE fit == {a \in Lane!Algorithms \ {"shipping"} : Lane!Eligible(base, Lane!OnDev(a, "baseline"), MinScore)}
<1>1. /\ UNCHANGED <<lane, report, tuning, decision, laneBuild>> /\ stage = "screen"
      /\ \A a \in Lane!Algorithms, d \in Lane!Dev : Lane!Measured(a, "baseline", d)
      /\ stage' = IF Lane!TwoStage THEN "tune" ELSE "holdout"
  BY DEF Lane!SelectAlgorithm
<1>2. algorithm' = IF fit = {} THEN "shipping"
                   ELSE CHOOSE a \in fit : \A x \in fit : Lane!TotalScore(base, Lane!OnDev(a, "baseline"))
                                                      >= Lane!TotalScore(base, Lane!OnDev(x, "baseline"))
  BY DEF Lane!SelectAlgorithm
<1>3. \A a \in fit : score[a] \in Int
  <2>1. \A a \in Lane!Algorithms : Lane!OnDev(a, "baseline") \in [Lane!Dev -> Lane!AnyReport]
    BY <1>1, OnDevTyped DEF LaneInv
  <2>2. "shipping" \in Lane!Algorithms BY DEF Lane!Algorithms
  <2> QED BY <2>1, <2>2, ScoresAdd
<1>4. IsFiniteSet(fit)
  <2>1. IsFiniteSet(Alternatives) BY Bounds DEF Lane!LaneAssumption, Lane!IsFiniteSet, IsFiniteSet
  <2>2. fit \subseteq Alternatives BY DEF Lane!Algorithms
  <2> QED BY <2>1, <2>2, FS_Subset
<1>5. algorithm' \in fit \/ algorithm' = "shipping"
  <2>1. \A a \in fit : score[a] = Lane!TotalScore(base, Lane!OnDev(a, "baseline")) OBVIOUS
  <2> HIDE DEF fit, score, base
  <2>2. CASE fit = {} BY <1>2, <2>2
  <2>3. CASE fit # {}
    <3>1. \E a \in fit : \A x \in fit : score[a] >= score[x] BY <1>3, <1>4, <2>3, BestOfFinite
    <3>2. \E a \in fit : \A x \in fit : Lane!TotalScore(base, Lane!OnDev(a, "baseline"))
                                     >= Lane!TotalScore(base, Lane!OnDev(x, "baseline"))
      BY <2>1, <3>1
    <3> QED BY <1>2, <2>3, <3>2
  <2> QED BY <2>2, <2>3
<1>6. algorithm' \in Lane!Algorithms BY <1>5 DEF Lane!Algorithms
<1>7. LaneTypes' BY <1>1, <1>6 DEF LaneInv, LaneTypes, Known
<1>8. AlgorithmEarned'
  <2>1. \A a \in Lane!Algorithms, d \in Lane!Dev : Lane!Measured(a, "baseline", d)'
    BY <1>1 DEF Lane!Measured
  <2>2. ASSUME algorithm' # "shipping" PROVE Lane!Eligible(Lane!Base, Lane!Family, MinScore)'
    <3>1. PICK a : a = algorithm' OBVIOUS
    <3>2. Lane!Eligible(base, Lane!OnDev(a, "baseline"), MinScore) BY <1>5, <2>2, <3>1
    <3>3. Lane!Base' = base /\ Lane!Family' = Lane!OnDev(a, "baseline")
      BY <1>1, <3>1 DEF Lane!Base, Lane!Family, Lane!OnDev, Lane!Report
    <3>4. PICK b, c : b = base /\ c = Lane!OnDev(a, "baseline") OBVIOUS
    <3>5. Lane!Eligible(b, c, MinScore) BY <3>2, <3>4
    <3>6. Lane!Base' = b /\ Lane!Family' = c BY <3>3, <3>4
    <3> HIDE DEF base, fit, score
    <3> QED BY <1>1, <3>5, <3>6
        DEF Lane!Eligible, Lane!TotalRegressed, Lane!TotalScore, Lane!OverDev, Lane!Score, Lane!Level, Lane!Settle,
            Lane!Lost, Lane!Regressed, Lane!LevelLoss, Lane!SettleLoss
  <2> QED BY <2>1, <2>2 DEF AlgorithmEarned
<1>9. TuningEarned'
  <2>1. tuning = "baseline" BY <1>1 DEF LaneInv, TuningEarned
  <2>2. Lane!TwoStage' <=> Lane!TwoStage BY <1>1 DEF Lane!TwoStage
  <2> QED BY <1>1, <2>1, <2>2 DEF TuningEarned, Tuned
<1>10. FreezeEarnt' BY <1>1 DEF FreezeEarnt, Lane!Frozen
<1>11. BuildKept' /\ BuildEarned'
  BY <1>1 DEF LaneInv, BuildKept, BuildEarned, Judged, Lane!Gain
<1> QED BY <1>7, <1>8, <1>9, <1>10, <1>11 DEF LaneInv

\* The tuning chooses what is eligible over its own algorithm.
LEMMA SelectTuningKeeps == ASSUME LaneInv, Lane!SelectTuning PROVE LaneInv'
<1>1. /\ UNCHANGED <<lane, report, algorithm, decision, laneBuild>> /\ stage = "tune" /\ stage' = "holdout"
      /\ \A d \in Lane!Dev : Lane!Measured(algorithm, "tuned", d)
      /\ tuning' = IF Lane!Eligible(Lane!OnDev(algorithm, "baseline"), Lane!OnDev(algorithm, "tuned"), MinTuning)
                   THEN "tuned" ELSE "baseline"
  BY DEF Lane!SelectTuning
<1>2. LaneTypes' BY <1>1 DEF LaneInv, LaneTypes, Known, Lane!Tunings
<1>3. Lane!Base' = Lane!Base /\ Lane!Family' = Lane!Family
  BY <1>1 DEF Lane!Base, Lane!Family, Lane!OnDev, Lane!Report
<1>4. AlgorithmEarned'
  <2>1. \A a \in Lane!Algorithms, d \in Lane!Dev : Lane!Measured(a, "baseline", d)'
    BY <1>1 DEF LaneInv, AlgorithmEarned, Chosen, Lane!Measured
  <2>2. algorithm' # "shipping" => Lane!Eligible(Lane!Base, Lane!Family, MinScore)'
    BY <1>1, <1>3, EligibleAgain DEF LaneInv, AlgorithmEarned, Chosen
  <2> QED BY <2>1, <2>2 DEF AlgorithmEarned
<1>5. TuningEarned'
  <2>1. SUFFICES ASSUME tuning' = "tuned"
                 PROVE  /\ Lane!TwoStage' /\ \A d \in Lane!Dev : Lane!Measured(algorithm, "tuned", d)'
                        /\ Lane!Eligible(Lane!Family, Lane!Final, MinTuning)'
    BY <1>1 DEF TuningEarned
  <2>2. Lane!Eligible(Lane!OnDev(algorithm, "baseline"), Lane!OnDev(algorithm, "tuned"), MinTuning)
    BY <1>1, <2>1
  <2>3. PICK b, c : b = Lane!OnDev(algorithm, "baseline") /\ c = Lane!OnDev(algorithm, "tuned") OBVIOUS
  <2>4. Lane!Eligible(b, c, MinTuning) BY <2>2, <2>3
  <2>5. Lane!Family' = b /\ Lane!Final' = c
    BY <1>1, <2>1, <2>3 DEF Lane!Family, Lane!Final, Lane!OnDev, Lane!Report
  <2>6. Lane!Eligible(Lane!Family, Lane!Final, MinTuning)'
    BY <1>1, <2>4, <2>5
    DEF Lane!Eligible, Lane!TotalRegressed, Lane!TotalScore, Lane!OverDev, Lane!Score, Lane!Level, Lane!Settle,
        Lane!Lost, Lane!Regressed, Lane!LevelLoss, Lane!SettleLoss
  <2>7. Lane!TwoStage' BY <1>1 DEF LaneInv, TuningEarned, Lane!TwoStage
  <2>8. \A d \in Lane!Dev : Lane!Measured(algorithm, "tuned", d)'
    BY <1>1 DEF Lane!Measured
  <2> QED BY <2>6, <2>7, <2>8
<1>6. FreezeEarnt' BY <1>1 DEF FreezeEarnt, Lane!Frozen
<1>7. BuildKept' /\ BuildEarned'
  BY <1>1 DEF LaneInv, BuildKept, BuildEarned, Judged, Lane!Gain
<1> QED BY <1>2, <1>4, <1>5, <1>6, <1>7 DEF LaneInv

\* What was chosen stays so while neither the lane nor its reports change.
LEMMA ChoiceStays ==
  ASSUME LaneInv, UNCHANGED <<lane, report, algorithm, tuning>>, Chosen' => Chosen, Tuned' => Tuned,
         stage' \notin {"screen", "tune"}
  PROVE  AlgorithmEarned' /\ TuningEarned'
<1>1. Lane!Base' = Lane!Base /\ Lane!Family' = Lane!Family /\ Lane!Final' = Lane!Final
  BY DEF Lane!Base, Lane!Family, Lane!Final, Lane!OnDev, Lane!Report
<1>2. AlgorithmEarned'
  <2>1. SUFFICES ASSUME Chosen
                 PROVE  /\ \A a \in Lane!Algorithms, d \in Lane!Dev : Lane!Measured(a, "baseline", d)'
                        /\ algorithm # "shipping" => Lane!Eligible(Lane!Base, Lane!Family, MinScore)'
    BY DEF AlgorithmEarned
  <2> QED BY <1>1, <2>1, EligibleAgain DEF LaneInv, AlgorithmEarned, Lane!Measured
<1>3. TuningEarned'
  <2>1. SUFFICES ASSUME Tuned, tuning = "tuned"
                 PROVE  /\ Lane!TwoStage' /\ \A d \in Lane!Dev : Lane!Measured(algorithm, "tuned", d)'
                        /\ Lane!Eligible(Lane!Family, Lane!Final, MinTuning)'
    BY DEF TuningEarned
  <2>2. Lane!TwoStage' BY <2>1 DEF LaneInv, TuningEarned, Lane!TwoStage
  <2> QED BY <1>1, <2>1, <2>2, TunedAgain DEF LaneInv, TuningEarned, Lane!Measured
<1> QED BY <1>2, <1>3

LEMMA DecideLaneKeeps == ASSUME LaneInv, Lane!Decide PROVE LaneInv'
<1>1. /\ UNCHANGED <<lane, report, algorithm, tuning, laneBuild>> /\ stage = "holdout" /\ stage' = "decided"
      /\ \A c \in Lane!Holdouts : Lane!Measured("shipping", "baseline", c) /\ Lane!Measured(algorithm, tuning, c)
      /\ decision' = IF Lane!Selected = Lane!Shipping THEN "KEEP_BASELINE"
                     ELSE IF Lane!Harmed(Lane!OnHoldouts("shipping", "baseline"), Lane!OnHoldouts(algorithm, tuning))
                     THEN "REJECT_CANDIDATE" ELSE "FROZEN"
  BY DEF Lane!Decide
<1>2. LaneTypes' BY <1>1 DEF LaneInv, LaneTypes, Known
<1>3. AlgorithmEarned' /\ TuningEarned'
  BY <1>1, ChoiceStays DEF Chosen, Tuned
<1>4. FreezeEarnt'
  <2>1. SUFFICES ASSUME decision' = "FROZEN"
                 PROVE  /\ Lane!Selected' # Lane!Shipping
                        /\ \A c \in Lane!Holdouts : /\ Lane!Measured("shipping", "baseline", c)'
                                                    /\ Lane!Measured(algorithm, tuning, c)'
                        /\ ~Lane!Harmed(Lane!OnHoldouts("shipping", "baseline"), Lane!OnHoldouts(algorithm, tuning))'
    BY DEF FreezeEarnt, Lane!Frozen, Lane!Shipping
  <2>2. Lane!Selected # Lane!Shipping
    BY <1>1, <2>1
  <2>3. ~Lane!Harmed(Lane!OnHoldouts("shipping", "baseline"), Lane!OnHoldouts(algorithm, tuning))
    BY <1>1, <2>1
  <2>4. ~Lane!Harmed(Lane!OnHoldouts("shipping", "baseline"), Lane!OnHoldouts(algorithm, tuning))'
    BY <1>1, <2>3
    DEF Lane!Harmed, Lane!OnHoldouts, Lane!Report, Lane!Regressed, Lane!Level, Lane!Settle, Lane!Lost
  <2> QED BY <1>1, <2>2, <2>4 DEF Lane!Selected, Lane!Measured
<1>5. BuildKept' /\ BuildEarned'
  BY <1>1 DEF LaneInv, BuildKept, BuildEarned, Judged, Lane!Gain
<1> QED BY <1>2, <1>3, <1>4, <1>5 DEF LaneInv

LEMMA AbortKeeps == ASSUME LaneInv, Lane!Abort PROVE LaneInv'
<1>1. UNCHANGED <<lane, report, algorithm, tuning, decision, laneBuild>> /\ stage' = "error"
  BY DEF Lane!Abort
<1> QED BY <1>1 DEF LaneInv, LaneTypes, Known, AlgorithmEarned, Chosen, TuningEarned, Tuned, FreezeEarnt,
                    Lane!Frozen, BuildKept, BuildEarned

LEMMA StartBuildKeeps == ASSUME LaneInv, Lane!StartBuild PROVE LaneInv'
<1>1. /\ UNCHANGED <<lane, algorithm, decision, laneBuild>> /\ stage = "decided" /\ stage' = "evaluate"
      /\ report' = <<>> /\ tuning' = "baseline"
  BY DEF Lane!StartBuild
<1>2. DOMAIN report' = {} BY <1>1
<1>3. LaneTypes' BY <1>1, <1>2 DEF LaneInv, LaneTypes, Known, Lane!Tunings
<1> QED BY <1>1, <1>3 DEF LaneInv, AlgorithmEarned, Chosen, TuningEarned, Tuned, FreezeEarnt,
                          Lane!Frozen, BuildKept, BuildEarned

LEMMA ProbeKeeps ==
  ASSUME LaneInv, NEW cs, Lane!Probe(cs), stage \in {"evaluate", "confirm"}
  PROVE  LaneInv'
<1>1. PICK c \in cs \ DOMAIN laneBuild, b \in BuildReports :
        /\ laneBuild' = [d \in DOMAIN laneBuild \cup {c} |-> IF d = c THEN b ELSE laneBuild[d]]
        /\ stage' = IF Lane!Broken(b) THEN "error" ELSE stage
        /\ UNCHANGED <<lane, report, algorithm, tuning, decision>>
  BY DEF Lane!Probe
<1>2. b \in Lane!AnyBuild BY Bounds DEF Lane!LaneAssumption
<1>3. LaneTypes' BY <1>1 DEF LaneInv, LaneTypes, Known
<1>4. AlgorithmEarned' /\ TuningEarned' /\ FreezeEarnt'
  BY <1>1 DEF AlgorithmEarned, Chosen, TuningEarned, Tuned, FreezeEarnt, Lane!Frozen
<1>5. DOMAIN laneBuild' = DOMAIN laneBuild \cup {c} /\ \A d \in DOMAIN laneBuild : laneBuild'[d] = laneBuild[d]
  BY <1>1
<1>6. laneBuild'[c] = b BY <1>1
<1>7. BuildKept'
  <2>1. SUFFICES ASSUME stage' # "error", NEW d \in DOMAIN laneBuild'
                 PROVE  laneBuild'[d] \in Lane!AnyBuild /\ ~Lane!Broken(laneBuild'[d])
    BY DEF BuildKept, Lane!Broken
  <2>2. ~Lane!Broken(b) BY <1>1, <2>1
  <2>3. CASE d = c BY <1>2, <1>6, <2>2, <2>3
  <2>4. CASE d # c
    <3>1. d \in DOMAIN laneBuild /\ laneBuild'[d] = laneBuild[d] BY <1>5, <2>1, <2>4
    <3>2. laneBuild[d] \in Lane!AnyBuild /\ ~Lane!Broken(laneBuild[d])
      BY <3>1 DEF LaneInv, BuildKept
    <3> QED BY <3>1, <3>2
  <2> QED BY <2>3, <2>4
<1>8. BuildEarned'
  <2>1. stage' # "confirmed" BY <1>1
  <2>2. SUFFICES ASSUME stage' = "confirm" PROVE Judged(Lane!Fresh)'
    BY <2>1 DEF BuildEarned
  <2>3. stage = "confirm" BY <1>1, <2>2
  <2>4. Judged(Lane!Fresh) BY <2>3 DEF LaneInv, BuildEarned
  <2>5. PICK d, e \in Lane!Fresh : d # e /\ Lane!Gain(d) >= MinFaster /\ Lane!Gain(e) >= MinFaster
    BY <2>4 DEF Judged
  <2>6. d \in DOMAIN laneBuild /\ e \in DOMAIN laneBuild BY <2>4, <2>5 DEF Judged
  <2>7. Lane!Gain(d)' = Lane!Gain(d) /\ Lane!Gain(e)' = Lane!Gain(e)
    BY <1>5, <2>6 DEF Lane!Gain
  <2>8. Lane!Fresh \subseteq DOMAIN laneBuild' BY <1>5, <2>4 DEF Judged
  <2>9. Lane!Gain(d)' >= MinFaster /\ Lane!Gain(e)' >= MinFaster BY <2>5, <2>7
  <2> QED BY <2>5, <2>8, <2>9 DEF Judged, Lane!Fresh
<1> QED BY <1>3, <1>4, <1>7, <1>8 DEF LaneInv

\* Two different members make a set of at least two.
LEMMA AtLeastTwo ==
  ASSUME NEW S, IsFiniteSet(S), NEW x \in S, NEW y \in S, x # y
  PROVE  Cardinality(S) \in Nat /\ Cardinality(S) >= 2
<1>1. Cardinality(S \ {x}) = Cardinality(S) - 1 /\ IsFiniteSet(S \ {x}) BY FS_RemoveElement
<1>2. Cardinality((S \ {x}) \ {y}) = Cardinality(S \ {x}) - 1 /\ IsFiniteSet((S \ {x}) \ {y})
  <2>1. y \in S \ {x} OBVIOUS
  <2> QED BY <1>1, <2>1, FS_RemoveElement
<1>3. Cardinality(S) \in Nat /\ Cardinality((S \ {x}) \ {y}) \in Nat BY <1>1, <1>2, FS_CardinalityType
<1> QED BY <1>1, <1>2, <1>3
\* ... and such a set has two.
LEMMA TwoMembers ==
  ASSUME NEW S, IsFiniteSet(S), Cardinality(S) >= 2
  PROVE  \E x, y \in S : x # y
<1>1. Cardinality(S) \in Nat BY FS_CardinalityType
<1>2. S # {} BY <1>1, FS_EmptySet
<1>3. PICK x \in S : TRUE BY <1>2
<1>4. Cardinality(S \ {x}) = Cardinality(S) - 1 /\ IsFiniteSet(S \ {x}) BY FS_RemoveElement
<1>5. S \ {x} # {} BY <1>1, <1>4, FS_EmptySet
<1> QED BY <1>3, <1>5

LEMMA SameCardinality == ASSUME NEW S PROVE Lane!Cardinality(S) = Cardinality(S)
  BY DEF Lane!Cardinality, Cardinality

LEMMA ThreeAreFinite == ASSUME NEW a, NEW b, NEW c PROVE IsFiniteSet({a, b, c})
<1>1. IsFiniteSet({}) BY FS_EmptySet
<1>2. IsFiniteSet({} \cup {a}) BY <1>1, FS_AddElement
<1>3. IsFiniteSet(({} \cup {a}) \cup {b}) BY <1>2, FS_AddElement
<1>4. IsFiniteSet((({} \cup {a}) \cup {b}) \cup {c}) BY <1>3, FS_AddElement
<1>5. (({} \cup {a}) \cup {b}) \cup {c} = {a, b, c} OBVIOUS
<1> QED BY <1>4, <1>5

\* What the median of three reaches, two of the three reach.
LEMMA MedianOfThree ==
  ASSUME NEW a, NEW b, NEW c, a # b, a # c, b # c, \A x \in {a, b, c} : Lane!Gain(x) \in Int,
         Lane!MedianGain({a, b, c}) >= MinFaster
  PROVE  \E x, y \in {a, b, c} : x # y /\ Lane!Gain(x) >= MinFaster /\ Lane!Gain(y) >= MinFaster
<1> DEFINE cs == {a, b, c}
<1> DEFINE Under(m) == {d \in cs : Lane!Gain(d) <= Lane!Gain(m)}
<1> DEFINE Over(m) == {d \in cs : Lane!Gain(d) >= Lane!Gain(m)}
<1> DEFINE Middle(m) == 2 * Lane!Cardinality(Under(m)) > 3 /\ 2 * Lane!Cardinality(Over(m)) > 3
<1>1. \A m : IsFiniteSet(Under(m)) /\ IsFiniteSet(Over(m))
  <2>1. IsFiniteSet(cs) BY ThreeAreFinite
  <2> QED BY <2>1, FS_Subset
<1>2. \E m \in cs : \E x \in cs \ {m}, y \in cs \ {m} :
          Lane!Gain(x) <= Lane!Gain(m) /\ Lane!Gain(y) >= Lane!Gain(m)
  <2>1. PICK i \in Int, j \in Int, k \in Int : i = Lane!Gain(a) /\ j = Lane!Gain(b) /\ k = Lane!Gain(c)
    OBVIOUS
  <2>2. CASE (i <= j /\ j <= k) \/ (k <= j /\ j <= i) BY <2>1, <2>2
  <2>3. CASE (j <= i /\ i <= k) \/ (k <= i /\ i <= j) BY <2>1, <2>3
  <2>4. CASE (i <= k /\ k <= j) \/ (j <= k /\ k <= i) BY <2>1, <2>4
  <2> QED BY <2>1, <2>2, <2>3, <2>4
<1>3. \E m \in cs : Middle(m)
  <2>1. PICK m \in cs : \E x \in cs \ {m}, y \in cs \ {m} :
                          Lane!Gain(x) <= Lane!Gain(m) /\ Lane!Gain(y) >= Lane!Gain(m)
    BY <1>2
  <2>2. PICK x \in cs \ {m}, y \in cs \ {m} : Lane!Gain(x) <= Lane!Gain(m) /\ Lane!Gain(y) >= Lane!Gain(m)
    BY <2>1
  <2>3. m \in Under(m) /\ m \in Over(m) /\ x \in Under(m) /\ y \in Over(m) BY <2>2
  <2>4. Cardinality(Under(m)) \in Nat /\ Cardinality(Under(m)) >= 2
    <3> HIDE DEF Under, Over, cs
    <3> QED BY <1>1, <2>2, <2>3, AtLeastTwo
  <2>5. Cardinality(Over(m)) \in Nat /\ Cardinality(Over(m)) >= 2
    <3> HIDE DEF Under, Over, cs
    <3> QED BY <1>1, <2>2, <2>3, AtLeastTwo
  <2> HIDE DEF Under, Over, cs
  <2> QED BY <2>4, <2>5, SameCardinality
<1>4. PICK m : m = CHOOSE x \in cs : Middle(x) OBVIOUS
<1>5. m \in cs /\ Middle(m)
  <2> HIDE DEF cs, Middle
  <2> QED BY <1>3, <1>4
<1>6. Lane!Gain(m) >= MinFaster
  BY <1>4 DEF Lane!MedianGain
<1>7. PICK x, y \in Over(m) : x # y
  <2>1. Cardinality(Over(m)) \in Nat /\ 2 * Cardinality(Over(m)) > 3
    <3> HIDE DEF Over, Under
    <3> QED BY <1>1, <1>5, SameCardinality, FS_CardinalityType
  <2>2. Cardinality(Over(m)) >= 2 BY <2>1
  <2> HIDE DEF Over, Under
  <2> QED BY <1>1, <2>2, TwoMembers
<1>8. MinFaster \in Nat BY Bounds DEF Lane!LaneAssumption
<1> QED BY <1>5, <1>6, <1>7, <1>8

LEMMA GainIsInt ==
  ASSUME LaneInv, stage \in {"evaluate", "confirm", "confirmed"}, NEW c \in DOMAIN laneBuild
  PROVE  Lane!Gain(c) \in Int
<1>1. laneBuild[c] \in Lane!AnyBuild /\ ~Lane!Broken(laneBuild[c]) BY DEF LaneInv, BuildKept
<1>2. laneBuild[c].baseSettle \in Nat /\ laneBuild[c].settle \in Nat
  BY <1>1 DEF Lane!Broken, Lane!AnyBuild, Lane!Settling
<1> QED BY <1>2 DEF Lane!Gain

LEMMA JudgedByMedian ==
  ASSUME LaneInv, stage \in {"evaluate", "confirm"}, NEW a, NEW b, NEW c, a # b, a # c, b # c,
         {a, b, c} \subseteq DOMAIN laneBuild, Lane!MedianGain({a, b, c}) >= MinFaster
  PROVE  Judged({a, b, c})
<1>1. \A x \in {a, b, c} : Lane!Gain(x) \in Int BY GainIsInt
<1>2. \E x, y \in {a, b, c} : x # y /\ Lane!Gain(x) >= MinFaster /\ Lane!Gain(y) >= MinFaster
  BY <1>1, MedianOfThree
<1> QED BY <1>2 DEF Judged

LEMMA JudgeBuildKeeps == ASSUME LaneInv, Lane!JudgeBuild PROVE LaneInv'
<1>1. /\ UNCHANGED <<lane, report, algorithm, tuning, decision, laneBuild>> /\ stage = "evaluate"
      /\ stage' \in {"confirm", "rejected"} /\ Lane!Fresh \subseteq DOMAIN laneBuild
      /\ stage' = "confirm" => Lane!MedianGain(Lane!Fresh) >= MinFaster
  BY DEF Lane!JudgeBuild
<1>2. stage' = "confirm" => Judged(Lane!Fresh)
  BY <1>1, JudgedByMedian DEF Lane!Fresh
<1>3. Judged(Lane!Fresh) => Judged(Lane!Fresh)'
  BY <1>1 DEF Judged, Lane!Gain, Lane!Fresh
<1>4. BuildKept' BY <1>1 DEF LaneInv, BuildKept, Lane!Broken, Lane!AnyBuild
<1>5. BuildEarned' BY <1>1, <1>2, <1>3 DEF BuildEarned
<1> QED BY <1>1, <1>4, <1>5 DEF LaneInv, LaneTypes, Known, AlgorithmEarned, Chosen, TuningEarned, Tuned, FreezeEarnt,
                    Lane!Frozen

LEMMA ConfirmBuildKeeps == ASSUME LaneInv, Lane!ConfirmBuild PROVE LaneInv'
<1>1. /\ UNCHANGED <<lane, report, algorithm, tuning, decision, laneBuild>> /\ stage = "confirm"
      /\ stage' \in {"confirmed", "rejected"} /\ Lane!Independent \subseteq DOMAIN laneBuild
      /\ stage' = "confirmed" => /\ Lane!MedianGain(Lane!Independent) >= MinFaster
                                 /\ \A c \in Lane!Independent : ~Lane!WholeLost(laneBuild[c])
  BY DEF Lane!ConfirmBuild
<1>2. stage' = "confirmed" => Judged(Lane!Independent)
  BY <1>1, JudgedByMedian DEF Lane!Independent
<1>3. Judged(Lane!Fresh) BY <1>1 DEF LaneInv, BuildEarned
<1>4. Judged(Lane!Fresh)' /\ (Judged(Lane!Independent) => Judged(Lane!Independent)')
  BY <1>1, <1>3 DEF Judged, Lane!Gain, Lane!Fresh, Lane!Independent
<1>5. BuildKept' BY <1>1 DEF LaneInv, BuildKept, Lane!Broken, Lane!AnyBuild
<1>6. BuildEarned'
  BY <1>1, <1>2, <1>4 DEF BuildEarned, Lane!WholeLost, Lane!Missing, Lane!Independent
<1> QED BY <1>1, <1>5, <1>6 DEF LaneInv, LaneTypes, Known, AlgorithmEarned, Chosen, TuningEarned, Tuned, FreezeEarnt,
                    Lane!Frozen

LEMMA LaneInitially == Lane!Init => LaneInv
<1> SUFFICES ASSUME Lane!Init PROVE LaneInv
  OBVIOUS
<1>1. DOMAIN report = {} /\ DOMAIN laneBuild = {} BY DEF Lane!Init
<1> QED BY <1>1 DEF Lane!Init, LaneInv, LaneTypes, Known, AlgorithmEarned, Chosen, TuningEarned, Tuned, FreezeEarnt,
                    Lane!Frozen, BuildKept, BuildEarned, Lane!Algorithms, Lane!Tunings

LEMMA LaneStep == LaneInv /\ Lane!Next => LaneInv'
BY ScreenKeeps, SelectAlgorithmKeeps, TuneKeeps, SelectTuningKeeps, HoldKeeps, DecideLaneKeeps, AbortKeeps,
   StartBuildKeeps, ProbeKeeps, JudgeBuildKeeps, ConfirmBuildKeeps DEF Lane!Next

LEMMA LaneUntouched ==
  ASSUME LaneInv, UNCHANGED <<lane, stage, report, algorithm, tuning, decision, laneBuild>>
  PROVE  LaneInv'
<1>1. LaneTypes' BY DEF LaneInv, LaneTypes, Known
<1>2. AlgorithmEarned'
  <2>1. CASE Chosen
    <3>1. Lane!Base' = Lane!Base /\ Lane!Family' = Lane!Family
      BY DEF Lane!Base, Lane!Family, Lane!OnDev, Lane!Report
    <3> QED BY <2>1, <3>1, EligibleAgain DEF LaneInv, AlgorithmEarned, Lane!Measured
  <2>2. CASE ~Chosen BY <2>2 DEF AlgorithmEarned, Chosen
  <2> QED BY <2>1, <2>2
<1>3. TuningEarned'
  <2>1. Lane!Family' = Lane!Family /\ Lane!Final' = Lane!Final
    BY DEF Lane!Family, Lane!Final, Lane!OnDev, Lane!Report
  <2> QED BY <2>1, TunedAgain DEF LaneInv, TuningEarned, Tuned, Lane!Measured, Lane!TwoStage
<1>4. FreezeEarnt'
  BY DEF LaneInv, FreezeEarnt, Lane!Frozen, Lane!Selected, Lane!Shipping, Lane!Measured,
         Lane!Harmed, Lane!OnHoldouts, Lane!Report, Lane!Regressed, Lane!Level, Lane!Settle, Lane!Lost
<1>5. BuildKept' BY DEF LaneInv, BuildKept, Lane!Broken, Lane!AnyBuild
<1>6. BuildEarned'
  BY DEF LaneInv, BuildEarned, Judged, Lane!Gain, Lane!WholeLost, Lane!Missing, Lane!Fresh, Lane!Independent
<1> QED BY <1>1, <1>2, <1>3, <1>4, <1>5, <1>6 DEF LaneInv

(***************************************************************************)
(* What follows for what a lane freezes and confirms.                      *)
(***************************************************************************)

LEMMA FrozenTyped ==
  ASSUME LaneInv, Lane!Frozen
  PROVE  /\ Lane!Base \in [Lane!Dev -> Lane!AnyReport] /\ Lane!Family \in [Lane!Dev -> Lane!AnyReport]
         /\ Lane!Final \in [Lane!Dev -> Lane!AnyReport]
<1>1. \A a \in Lane!Algorithms : Lane!OnDev(a, "baseline") \in [Lane!Dev -> Lane!AnyReport]
  BY OnDevTyped DEF LaneInv, AlgorithmEarned, Chosen, Lane!Frozen
<1>2. "shipping" \in Lane!Algorithms /\ algorithm \in Lane!Algorithms /\ tuning \in Lane!Tunings
  BY DEF LaneInv, LaneTypes, Lane!Algorithms
<1>3. tuning = "tuned" => Lane!OnDev(algorithm, "tuned") \in [Lane!Dev -> Lane!AnyReport]
  BY OnDevTyped DEF LaneInv, TuningEarned, Tuned, Lane!Frozen
<1> QED BY <1>1, <1>2, <1>3 DEF Lane!Base, Lane!Family, Lane!Final, Lane!Tunings
\* Scores, gains and losses of two selections add up.
LEMMA SelectionsAdd ==
  ASSUME NEW b \in [Lane!Dev -> Lane!AnyReport], NEW f \in [Lane!Dev -> Lane!AnyReport],
         NEW x \in [Lane!Dev -> Lane!AnyReport]
  PROVE  /\ Lane!Gained(b, x) = Lane!Gained(b, f) + Lane!Gained(f, x)
         /\ Lane!LevelLoss(b, x) = Lane!LevelLoss(b, f) + Lane!LevelLoss(f, x)
<1>1. \A d \in Lane!Dev : /\ b[d].level \in Int /\ f[d].level \in Int /\ x[d].level \in Int
                          /\ b[d].settle \in Int /\ f[d].settle \in Int /\ x[d].settle \in Int
  BY DEF Lane!AnyReport
<1>2. "d1" \in Lane!Dev /\ "d2" \in Lane!Dev BY DEF Lane!Dev
<1> QED BY <1>1, <1>2 DEF Lane!Gained, Lane!LevelLoss, Lane!OverDev, Lane!Level
\* Where no stage is taken never to settle the score is what is gained.
LEMMA ScoreIsGain ==
  ASSUME NEW b \in [Lane!Dev -> Lane!AnyReport], NEW c \in [Lane!Dev -> Lane!AnyReport],
         lane # "agc" \/ ~(Lane!AtOnce(b) \/ Lane!AtOnce(c))
  PROVE  Lane!Gained(b, c) = Lane!TotalScore(b, c)
<1>1. "d1" \in Lane!Dev /\ "d2" \in Lane!Dev BY DEF Lane!Dev
<1>2. \A d \in Lane!Dev : Lane!Settle(b[d]) = b[d].settle /\ Lane!Settle(c[d]) = c[d].settle
  BY DEF Lane!AtOnce, Lane!Settle
<1> QED BY <1>1, <1>2 DEF Lane!Gained, Lane!TotalScore, Lane!OverDev, Lane!Score

LEMMA NothingGainedByStaying ==
  ASSUME NEW b \in [Lane!Dev -> Lane!AnyReport]
  PROVE  Lane!Gained(b, b) = 0 /\ Lane!LevelLoss(b, b) = 0
<1>1. \A d \in Lane!Dev : b[d].level \in Int /\ b[d].settle \in Int
  BY DEF Lane!AnyReport
<1>2. "d1" \in Lane!Dev /\ "d2" \in Lane!Dev BY DEF Lane!Dev
<1> QED BY <1>1, <1>2 DEF Lane!Gained, Lane!LevelLoss, Lane!OverDev, Lane!Level

LEMMA WhatIsFrozenImproves == LaneInv => Lane!FrozenImproves
<1> SUFFICES ASSUME LaneInv, Lane!Frozen,
                    lane # "agc" \/ ~(Lane!AtOnce(Lane!Base) \/ Lane!AtOnce(Lane!Family) \/ Lane!AtOnce(Lane!Final))
             PROVE  Lane!Gained(Lane!Base, Lane!Final) >= 2 * Lane!Asked
  BY DEF Lane!FrozenImproves
<1>1. PICK b \in [Lane!Dev -> Lane!AnyReport], f \in [Lane!Dev -> Lane!AnyReport],
           x \in [Lane!Dev -> Lane!AnyReport] : b = Lane!Base /\ f = Lane!Family /\ x = Lane!Final
  BY FrozenTyped
<1>2. /\ Lane!Gained(b, x) = Lane!Gained(b, f) + Lane!Gained(f, x)
      /\ Lane!Gained(b, f) = Lane!TotalScore(b, f) /\ Lane!Gained(f, x) = Lane!TotalScore(f, x)
      /\ Lane!Gained(b, f) \in Int /\ Lane!Gained(f, x) \in Int
  BY <1>1, SelectionsAdd, ScoreIsGain, ScoresAdd
<1>3. MinScore \in Nat /\ MinTuning \in Nat BY Bounds DEF Lane!LaneAssumption
<1>4. algorithm # "shipping" => Lane!Gained(b, f) >= 2 * MinScore
  BY <1>1, <1>2 DEF LaneInv, AlgorithmEarned, Chosen, Lane!Frozen, Lane!Eligible
<1>5. tuning = "tuned" => Lane!Gained(f, x) >= 2 * MinTuning
  BY <1>1, <1>2 DEF LaneInv, TuningEarned, Tuned, Lane!Frozen, Lane!Eligible
<1>6. algorithm = "shipping" => Lane!Gained(b, f) = 0
  <2>1. algorithm = "shipping" => b = f BY <1>1 DEF Lane!Base, Lane!Family
  <2> QED BY <2>1, NothingGainedByStaying
<1>7. tuning = "baseline" => Lane!Gained(f, x) = 0
  <2>1. tuning = "baseline" => f = x BY <1>1 DEF Lane!Family, Lane!Final
  <2> QED BY <2>1, NothingGainedByStaying
<1>8. (algorithm # "shipping" \/ tuning # "baseline") /\ tuning \in {"baseline", "tuned"}
  BY DEF LaneInv, LaneTypes, FreezeEarnt, Lane!Selected, Lane!Shipping, Lane!Tunings
<1>9. PICK u \in Int, v \in Int : u = Lane!Gained(b, f) /\ v = Lane!Gained(f, x) BY <1>2
<1>10. u >= 2 * (IF algorithm = "shipping" THEN 0 ELSE MinScore)
  BY <1>3, <1>4, <1>6, <1>9
<1>11. v >= 2 * (IF tuning = "baseline" THEN 0 ELSE MinTuning)
  BY <1>3, <1>5, <1>7, <1>8, <1>9
<1>12. u + v >= 2 * Lane!Asked
  BY <1>3, <1>9, <1>10, <1>11 DEF Lane!Asked
<1> QED BY <1>1, <1>2, <1>9, <1>12

\* What one selection may lose.
LEMMA SelectionLoses ==
  ASSUME NEW b \in [Lane!Dev -> Lane!AnyReport], NEW c \in [Lane!Dev -> Lane!AnyReport], NEW min,
         Lane!Eligible(b, c, min)
  PROVE  /\ lane \in {"agc", "bf"} => Lane!LevelLoss(b, c) <= 2 * Tolerance
         /\ lane \notin {"agc", "bf"} => \A d \in Lane!Dev : Lane!Level(b[d]) - Lane!Level(c[d]) <= Tolerance
<1>1. ~Lane!TotalRegressed(b, c) BY DEF Lane!Eligible
<1>2. Tolerance \in Nat BY Bounds DEF Lane!LaneAssumption
<1>3. CASE lane \in {"agc", "bf"}
  <2>1. ~(Lane!LevelLoss(b, c) > 2 * Tolerance)
    BY <1>1, <1>3 DEF Lane!TotalRegressed, Lane!Lost
  <2>2. Lane!LevelLoss(b, c) \in Int BY ScoresAdd
  <2> QED BY <1>2, <1>3, <2>1, <2>2
<1>4. CASE lane \notin {"agc", "bf"}
  <2>1. SUFFICES ASSUME NEW d \in Lane!Dev PROVE Lane!Level(b[d]) - Lane!Level(c[d]) <= Tolerance
    BY <1>4
  <2>2. ~(Lane!Level(b[d]) - Lane!Level(c[d]) > 1 * Tolerance)
    BY <1>1, <1>4 DEF Lane!TotalRegressed, Lane!Regressed, Lane!Lost
  <2>3. Lane!Level(b[d]) \in Int /\ Lane!Level(c[d]) \in Int BY DEF Lane!Level, Lane!AnyReport
  <2> QED BY <1>2, <2>2, <2>3
<1> QED BY <1>3, <1>4

LEMMA HoldoutsLoseLittle ==
  ASSUME LaneInv, Lane!Frozen, NEW c \in Lane!Holdouts
  PROVE  /\ lane # "bf" => Lane!Report(algorithm, tuning, c).pass
         /\ Lane!Level(Lane!Report("shipping", "baseline", c)) - Lane!Level(Lane!Report(algorithm, tuning, c))
              <= Tolerance
<1>1. PICK r \in Lane!AnyReport, n \in Lane!AnyReport :
        r = Lane!Report("shipping", "baseline", c) /\ n = Lane!Report(algorithm, tuning, c)
  BY DEF LaneInv, LaneTypes, Known, FreezeEarnt, Lane!Measured, Lane!Report
<1>2. ~Lane!Regressed(r, n)
  BY <1>1 DEF LaneInv, FreezeEarnt, Lane!Harmed, Lane!OnHoldouts
<1>3. Tolerance \in Nat BY Bounds DEF Lane!LaneAssumption
<1>4. lane # "bf" => n.pass BY <1>2 DEF Lane!Regressed
<1>5. ~(Lane!Level(r) - Lane!Level(n) > 1 * Tolerance) BY <1>2 DEF Lane!Regressed, Lane!Lost
<1>6. Lane!Level(r) \in Int /\ Lane!Level(n) \in Int BY DEF Lane!Level, Lane!AnyReport
<1>7. Lane!Level(r) - Lane!Level(n) <= Tolerance BY <1>3, <1>5, <1>6
<1> QED BY <1>1, <1>4, <1>7

LEMMA WhatIsFrozenLosesLittle == LaneInv => Lane!LossBounded
<1> SUFFICES ASSUME LaneInv, Lane!Frozen
             PROVE  /\ IF lane \in {"agc", "bf"}
                       THEN Lane!LevelLoss(Lane!Base, Lane!Final) <= 2 * Lane!Steps * Tolerance
                       ELSE \A d \in Lane!Dev :
                                Lane!Level(Lane!Base[d]) - Lane!Level(Lane!Final[d]) <= Lane!Steps * Tolerance
                    /\ \A c \in Lane!Holdouts :
                          LET r == Lane!Report("shipping", "baseline", c) n == Lane!Report(algorithm, tuning, c)
                          IN  (lane # "bf" => n.pass) /\ Lane!Level(r) - Lane!Level(n) <= Tolerance
  BY DEF Lane!LossBounded
<1>1. PICK b \in [Lane!Dev -> Lane!AnyReport], f \in [Lane!Dev -> Lane!AnyReport],
           x \in [Lane!Dev -> Lane!AnyReport] : b = Lane!Base /\ f = Lane!Family /\ x = Lane!Final
  BY FrozenTyped
<1>2. Tolerance \in Nat BY Bounds DEF Lane!LaneAssumption
<1>3. algorithm # "shipping" => Lane!Eligible(b, f, MinScore)
  BY <1>1 DEF LaneInv, AlgorithmEarned, Chosen, Lane!Frozen
<1>4. tuning = "tuned" => Lane!TwoStage /\ Lane!Eligible(f, x, MinTuning)
  BY <1>1 DEF LaneInv, TuningEarned, Tuned, Lane!Frozen
<1>5. algorithm = "shipping" => b = f BY <1>1 DEF Lane!Base, Lane!Family
<1>6. tuning = "baseline" => f = x BY <1>1 DEF Lane!Family, Lane!Final
<1>7. (algorithm # "shipping" \/ tuning # "baseline") /\ tuning \in {"baseline", "tuned"}
  BY DEF LaneInv, LaneTypes, FreezeEarnt, Lane!Selected, Lane!Shipping, Lane!Tunings
<1>8. Lane!Steps \in {1, 2} /\ (tuning = "tuned" => Lane!Steps = 2) BY <1>4 DEF Lane!Steps
<1>9. CASE lane \in {"agc", "bf"}
  <2>1. /\ Lane!LevelLoss(b, x) = Lane!LevelLoss(b, f) + Lane!LevelLoss(f, x)
        /\ Lane!LevelLoss(b, f) \in Int /\ Lane!LevelLoss(f, x) \in Int
    BY SelectionsAdd, ScoresAdd
  <2>2. PICK u \in Int, v \in Int : u = Lane!LevelLoss(b, f) /\ v = Lane!LevelLoss(f, x) BY <2>1
  <2>3. algorithm # "shipping" => u <= 2 * Tolerance BY <1>3, <1>9, <2>2, SelectionLoses
  <2>4. tuning = "tuned" => v <= 2 * Tolerance BY <1>4, <1>9, <2>2, SelectionLoses
  <2>5. algorithm = "shipping" => u = 0 BY <1>5, <2>2, NothingGainedByStaying
  <2>6. tuning = "baseline" => v = 0 BY <1>6, <2>2, NothingGainedByStaying
  <2>7. u <= 2 * Tolerance /\ v <= IF tuning = "tuned" THEN 2 * Tolerance ELSE 0
    BY <1>2, <1>7, <2>3, <2>4, <2>5, <2>6
  <2>8. u + v <= 2 * Lane!Steps * Tolerance
    <3>1. CASE Lane!Steps = 2
      <4>1. 2 * Lane!Steps * Tolerance = 4 * Tolerance BY <3>1
      <4>2. u + v <= 4 * Tolerance BY <1>2, <2>2, <2>7
      <4> QED BY <4>1, <4>2
    <3>2. CASE Lane!Steps = 1 /\ tuning # "tuned"
      <4>1. 2 * Lane!Steps * Tolerance = 2 * Tolerance BY <3>2, <1>2
      <4>2. u + v <= 2 * Tolerance BY <1>2, <2>2, <2>7, <3>2
      <4> QED BY <4>1, <4>2
    <3> QED BY <1>8, <3>1, <3>2
  <2>9. Lane!LevelLoss(Lane!Base, Lane!Final) <= 2 * Lane!Steps * Tolerance
    BY <1>1, <2>1, <2>2, <2>8
  <2> QED BY <1>9, <2>9, HoldoutsLoseLittle
<1>10. CASE lane \notin {"agc", "bf"}
  <2>1. SUFFICES ASSUME NEW d \in Lane!Dev
                 PROVE  Lane!Level(b[d]) - Lane!Level(x[d]) <= Lane!Steps * Tolerance
    BY <1>1, <1>10, HoldoutsLoseLittle
  <2>2. PICK i \in Int, j \in Int, k \in Int : i = Lane!Level(b[d]) /\ j = Lane!Level(f[d]) /\ k = Lane!Level(x[d])
    BY DEF Lane!Level, Lane!AnyReport
  <2>3. i - j <= Tolerance
    BY <1>2, <1>3, <1>5, <1>10, <2>2, SelectionLoses
  <2>4. tuning = "tuned" => j - k <= Tolerance
    BY <1>2, <1>4, <1>10, <2>2, SelectionLoses
  <2>5. tuning = "baseline" => j = k BY <1>6, <2>2
  <2>6. i - k <= Lane!Steps * Tolerance
    <3>1. CASE Lane!Steps = 2
      <4>1. Lane!Steps * Tolerance = 2 * Tolerance BY <3>1
      <4>2. i - k <= 2 * Tolerance BY <1>2, <1>7, <2>3, <2>4, <2>5
      <4> QED BY <4>1, <4>2
    <3>2. CASE Lane!Steps = 1 /\ tuning # "tuned"
      <4>1. Lane!Steps * Tolerance = Tolerance BY <3>2, <1>2
      <4>2. i - k <= Tolerance BY <1>2, <1>7, <2>3, <2>5, <3>2
      <4> QED BY <4>1, <4>2
    <3> QED BY <1>8, <3>1, <3>2
  <2> QED BY <2>2, <2>6
<1> QED BY <1>9, <1>10

LEMMA WhatIsConfirmedIsFaster == LaneInv => Lane!ConfirmedFaster
<1> SUFFICES ASSUME LaneInv, stage = "confirmed"
             PROVE  /\ \A cs \in {Lane!Fresh, Lane!Independent} :
                         Lane!Cardinality({c \in cs : laneBuild[c].baseSettle - laneBuild[c].settle >= MinFaster}) >= 2
                    /\ \A c \in Lane!Independent : (laneBuild[c].baseWhole = None) = (laneBuild[c].whole = None)
  BY DEF Lane!ConfirmedFaster
<1>1. ASSUME NEW cs, IsFiniteSet(cs), Judged(cs)
      PROVE  Lane!Cardinality({c \in cs : laneBuild[c].baseSettle - laneBuild[c].settle >= MinFaster}) >= 2
  <2> DEFINE fast == {c \in cs : laneBuild[c].baseSettle - laneBuild[c].settle >= MinFaster}
  <2>1. IsFiniteSet(fast) BY <1>1, FS_Subset
  <2>2. PICK c \in cs, d \in cs : c # d /\ Lane!Gain(c) >= MinFaster /\ Lane!Gain(d) >= MinFaster
    BY <1>1 DEF Judged
  <2>3. c \in fast /\ d \in fast BY <2>2 DEF Lane!Gain
  <2> HIDE DEF fast
  <2>4. Cardinality(fast) >= 2 BY <2>1, <2>2, <2>3, AtLeastTwo
  <2>5. Lane!Cardinality(fast) >= 2 BY <2>4, SameCardinality
  <2> QED BY <2>5 DEF fast
<1>2. Judged(Lane!Fresh) /\ Judged(Lane!Independent) /\ \A c \in Lane!Independent : ~Lane!WholeLost(laneBuild[c])
  BY DEF LaneInv, BuildEarned
<1>3. IsFiniteSet(Lane!Fresh) /\ IsFiniteSet(Lane!Independent)
  BY ThreeAreFinite DEF Lane!Fresh, Lane!Independent
<1>4. \A c \in Lane!Independent : (laneBuild[c].baseWhole = None) = (laneBuild[c].whole = None)
  BY <1>2 DEF Lane!WholeLost, Lane!Missing
<1> QED BY <1>1, <1>2, <1>3, <1>4

\* What a lane freezes is better than the shipping stage where it was selected, although its tuning is
\* compared with its own algorithm only, and has lost no more than each selection allows and one tolerance
\* on a holdout; what is confirmed settled faster on two of three corpora of either judge: for all reports,
\* all sets of alternatives, tolerances and scores.
THEOREM StageEarnedHolds == SumSpec => []StageEarned
<1> DEFINE Safe == which = "lane" => LaneInv
<1>1. SumInit => Safe
  BY LaneInitially DEF SumInit
<1>2. ASSUME Safe, [SumNext]_sumVars PROVE Safe'
  <2> USE <1>2
  <2>1. CASE which = "lane" /\ Lane!Next /\ UNCHANGED which
    BY <2>1, LaneStep
  <2>2. CASE UNCHANGED <<which, laneVars>>
    BY <2>2, LaneUntouched DEF laneVars
  <2> QED BY <2>1, <2>2 DEF SumNext, sumVars
<1>3. Safe => StageEarned
  BY WhatIsFrozenImproves, WhatIsFrozenLosesLittle, WhatIsConfirmedIsFaster DEF StageEarned
<1> QED BY <1>1, <1>2, <1>3, PTL DEF SumSpec

(***************************************************************************)
(* The soak on a board                                                     *)
(***************************************************************************)
OrMissing(S) == S \cup {None}
Classifying == {"classify", "cleanup", "seal", "upload"}
Soaking == {"soak"} \cup Classifying
Building == {"build"} \cup Soaking
Copying == {"copy"} \cup Building
Preflown == {"preflight"} \cup Copying
Routed == {"runner"} \cup Preflown
Categories == {"NONE", "INFRA_FAILURE", "HARDWARE_FAILURE", "XRUN_FAILURE"}
EvidenceFiles == [runner : OrMissing(Hil!Reports), preflight : OrMissing(Hil!Reports), board : OrMissing(Boards),
                  authority : OrMissing(Hil!Authorities), build : OrMissing(Nat), soak : OrMissing(Hil!Soaks),
                  class : OrMissing([category : Categories, revision : OrMissing(Nat), digest : OrMissing(Boards)])]
HilTypes ==
    /\ hilPc \in {"idle", "checkout", "metadata", "authority"} \cup Routed
    /\ hilJob \in [n : Nat, tier : Hil!Tiers] /\ failed \in BOOLEAN /\ kept \in BOOLEAN /\ board \in Boards
    /\ tmp \in [board : OrMissing(Boards), authority : OrMissing(Hil!Authorities), revision : OrMissing(Nat)]
    /\ dir \in EvidenceFiles
    /\ failed => hilPc \in Classifying \cup {"idle"}
\* What a job that has not failed has left behind it, step by step ...
OwnRoute ==
    ~failed =>
      /\ hilPc = "authority" => tmp.board \in Boards
      /\ hilPc \in Routed => /\ tmp.authority \in Hil!Authorities /\ out \in [route : Hil!Routes, tier : Hil!Tiers]
                             /\ out.route = tmp.authority.route /\ tmp.revision = hilJob.n
OwnFiles ==
    ~failed =>
      /\ hilPc \in Preflown => dir.runner = [ready |-> TRUE, of |-> hilJob.n]
      /\ hilPc \in Copying => dir.preflight = [ready |-> TRUE, of |-> hilJob.n]
      /\ hilPc \in Building => dir.authority = tmp.authority
      /\ hilPc \in Soaking => dir.build = hilJob.n
      /\ hilPc \in Classifying => /\ dir.soak \in Hil!Soaks /\ dir.soak.of = hilJob.n /\ dir.soak.route = out.route
                                  /\ dir.soak.passed = TRUE /\ dir.soak.lost = FALSE
\* ... and, where nothing lay in its directory, why one that failed did.
NothingFoundThere ==
    ~kept => /\ hilPc \in Hil!Steps => dir.soak = None
             /\ failed /\ hilPc \in Classifying => dir.soak = None \/ dir.soak.passed = FALSE
ClassTrue ==
    hilPc \in {"cleanup", "seal", "upload"} => /\ dir.class.category = Hil!Category(dir)
                                               /\ dir.class.revision = tmp.revision
Sealed == hilPc = "upload" => sums = dir
SoakInv == HilTypes /\ OwnRoute /\ OwnFiles /\ NothingFoundThere /\ ClassTrue /\ Sealed /\ Hil!HilSound

USE DEF OrMissing

LEMMA SoakStarts == ASSUME Hil!Init, Hil!HilAssumption PROVE SoakInv
<1>1. HilTypes
  BY DEF Hil!Init, HilTypes, Hil!Tiers, Hil!Empty, EvidenceFiles, Routed, Preflown, Copying, Building, Soaking, Classifying
<1>2. OwnRoute /\ OwnFiles /\ NothingFoundThere /\ ClassTrue /\ Sealed
  BY DEF Hil!Init, OwnRoute, OwnFiles, NothingFoundThere, ClassTrue, Sealed, Routed, Preflown, Copying, Building, Soaking,
         Classifying, Hil!Steps
<1>3. Hil!HilSound
  BY DEF Hil!Init, Hil!HilSound, Hil!GreenIsOwn, Hil!LabNotConflated
<1> QED BY <1>1, <1>2, <1>3 DEF SoakInv

\* What the classes say of the files.
LEMMA GreenClass ==
  ASSUME Hil!HilAssumption, NEW d \in EvidenceFiles
  PROVE  /\ d.runner \in Hil!Reports /\ d.runner.ready = TRUE /\ d.preflight \in Hil!Reports /\ d.preflight.ready = TRUE
            /\ d.authority \in Hil!Authorities /\ d.soak \in Hil!Soaks /\ d.soak.route = d.authority.route
            /\ d.soak.passed = TRUE
              => Hil!Category(d) = "NONE"
         /\ Hil!Category(d) # "INFRA_FAILURE" => d.runner.ready = TRUE /\ d.preflight.ready = TRUE
         /\ d.soak = None \/ d.soak.passed = FALSE => Hil!Category(d) # "NONE"
         /\ Hil!Category(d) \in Categories
<1> USE DEF Hil!Category, Hil!Unready, Hil!RouteMatches, EvidenceFiles, Hil!HilAssumption
<1>1. ASSUME d.runner \in Hil!Reports, d.runner.ready = TRUE, d.preflight \in Hil!Reports, d.preflight.ready = TRUE,
             d.authority \in Hil!Authorities, d.soak \in Hil!Soaks, d.soak.route = d.authority.route, d.soak.passed = TRUE
      PROVE  Hil!Category(d) = "NONE"
  <2>1. d.runner # None /\ d.preflight # None /\ d.authority # None /\ d.soak # None BY <1>1
  <2> QED BY <1>1, <2>1
<1>2. ASSUME Hil!Category(d) # "INFRA_FAILURE" PROVE d.runner.ready = TRUE /\ d.preflight.ready = TRUE
  <2>1. ~(d.runner = None \/ ~d.runner.ready) BY <1>2
  <2>2. ~(d.preflight = None \/ ~d.preflight.ready) BY <1>2
  <2>3. d.runner \in Hil!Reports /\ d.preflight \in Hil!Reports BY <2>1, <2>2
  <2> QED BY <2>1, <2>2, <2>3 DEF Hil!Reports
<1>3. ASSUME d.soak = None \/ d.soak.passed = FALSE PROVE Hil!Category(d) # "NONE"
  BY <1>3
<1>4. Hil!Category(d) \in Categories
  BY DEF Categories
<1> QED BY <1>1, <1>2, <1>3, <1>4

\* What lies in a step's way, said once for all of them.
LEMMA SoakStep ==
  ASSUME SoakInv, Hil!HilAssumption, Hil!Next
  PROVE  SoakInv'
<1> USE DEF SoakInv, Hil!Outside, Hil!Goto, Hil!Fails, Hil!jobVars
<1> USE DEF Routed, Preflown, Copying, Building, Soaking, Classifying
<1>1. ASSUME NEW tier \in Hil!Tiers, NEW enabled \in BOOLEAN, Hil!Dispatch(tier, enabled) PROVE SoakInv'
  <2> USE <1>1 DEF Hil!Dispatch
  <2>1. HilTypes'
    <3>1. hilJob' \in [n : Nat, tier : Hil!Tiers] /\ hilPc' = "checkout" /\ failed' = FALSE /\ kept' \in BOOLEAN
      BY DEF HilTypes
    <3>2. UNCHANGED <<board, tmp, dir>> OBVIOUS
    <3> QED BY <3>1, <3>2 DEF HilTypes
  <2>2. OwnRoute' /\ OwnFiles' /\ ClassTrue' /\ Sealed' BY DEF OwnRoute, OwnFiles, ClassTrue, Sealed
  <2>3. NothingFoundThere'
    <3>1. ASSUME dir = Hil!Empty PROVE dir'.soak = None BY <3>1 DEF Hil!Empty
    <3> QED BY <3>1 DEF NothingFoundThere
  <2>4. Hil!HilSound' BY DEF Hil!HilSound, Hil!GreenIsOwn, Hil!LabNotConflated
  <2> QED BY <2>1, <2>2, <2>3, <2>4
<1>2. ASSUME Hil!StepFails PROVE SoakInv'
  <2> USE <1>2 DEF Hil!StepFails
  <2>1. HilTypes' BY DEF HilTypes, EvidenceFiles, Hil!Steps
  <2>2. OwnRoute' /\ OwnFiles' /\ ClassTrue' /\ Sealed' BY DEF OwnRoute, OwnFiles, ClassTrue, Sealed
  <2>3. NothingFoundThere' BY DEF NothingFoundThere, Hil!Steps
  <2>4. Hil!HilSound' BY DEF Hil!HilSound, Hil!GreenIsOwn, Hil!LabNotConflated
  <2> QED BY <2>1, <2>2, <2>3, <2>4
<1>3. ASSUME Hil!Checkout PROVE SoakInv'
  <2> USE <1>3 DEF Hil!Checkout
  <2>1. HilTypes' BY DEF HilTypes, EvidenceFiles
  <2>2. OwnRoute' /\ OwnFiles' /\ ClassTrue' /\ Sealed' BY DEF OwnRoute, OwnFiles, ClassTrue, Sealed
  <2>3. NothingFoundThere' BY DEF NothingFoundThere, Hil!Steps
  <2>4. Hil!HilSound' BY DEF Hil!HilSound, Hil!GreenIsOwn, Hil!LabNotConflated
  <2> QED BY <2>1, <2>2, <2>3, <2>4
<1>4. ASSUME Hil!Metadata PROVE SoakInv'
  <2> USE <1>4 DEF Hil!Metadata
  <2>1. HilTypes'
    <3>1. tmp' \in [board : OrMissing(Boards), authority : OrMissing(Hil!Authorities), revision : OrMissing(Nat)]
      BY DEF HilTypes
    <3>2. hilPc' \in {"authority", "classify"} /\ failed' \in BOOLEAN /\ (failed' => hilPc' = "classify")
      BY DEF HilTypes
    <3>3. UNCHANGED <<board, dir, hilJob, kept>> OBVIOUS
    <3> QED BY <3>1, <3>2, <3>3 DEF HilTypes
  <2>2. OwnRoute' BY DEF OwnRoute, HilTypes
  <2>3. OwnFiles' /\ ClassTrue' /\ Sealed' BY DEF OwnFiles, ClassTrue, Sealed
  <2>4. NothingFoundThere' BY DEF NothingFoundThere, Hil!Steps
  <2>5. Hil!HilSound' BY DEF Hil!HilSound, Hil!GreenIsOwn, Hil!LabNotConflated
  <2> QED BY <2>1, <2>2, <2>3, <2>4, <2>5
<1>5. ASSUME Hil!Authority PROVE SoakInv'
  <2> USE <1>5 DEF Hil!Authority
  <2> DEFINE a == [digest |-> board, route |-> RouteOf[tmp.board]]
  <2>1. hilPc = "authority" /\ ~failed /\ tmp.board \in Boards
    BY DEF HilTypes, OwnRoute
  <2>2. a \in Hil!Authorities /\ a.route \in Hil!Routes
    BY <2>1 DEF HilTypes, Hil!Authorities, Hil!Routes
  <2>3. HilTypes'
    <3>1. UNCHANGED <<dir, board, hilJob, kept>> OBVIOUS
    <3>2. tmp' \in [board : OrMissing(Boards), authority : OrMissing(Hil!Authorities), revision : OrMissing(Nat)]
      BY <2>2 DEF HilTypes
    <3>3. hilPc' \in {"runner", "classify"} /\ failed' \in BOOLEAN /\ (failed' => hilPc' = "classify")
      <4>3. failed \in BOOLEAN BY DEF HilTypes
      <4>1. CASE hilPc' = "runner" /\ UNCHANGED failed BY <2>1, <4>1, <4>3
      <4>2. CASE hilPc' = "classify" /\ failed' = TRUE BY <4>2
      <4> QED BY <4>1, <4>2
    <3> QED BY <3>1, <3>2, <3>3 DEF HilTypes
  <2>4. OwnRoute'
    <3> SUFFICES ASSUME ~failed' PROVE hilPc' = "runner" /\ tmp'.authority = a /\ out' = [route |-> a.route, tier |-> hilJob.tier]
                                      /\ tmp'.revision = hilJob'.n
      BY <2>1, <2>2 DEF OwnRoute, HilTypes
    <3> QED BY <2>1 DEF HilTypes
  <2>5. OwnFiles' /\ ClassTrue' /\ Sealed' BY <2>1 DEF OwnFiles, ClassTrue, Sealed
  <2>6. NothingFoundThere' BY <2>1 DEF NothingFoundThere, Hil!Steps
  <2>7. Hil!HilSound' BY DEF Hil!HilSound, Hil!GreenIsOwn, Hil!LabNotConflated
  <2> QED BY <2>3, <2>4, <2>5, <2>6, <2>7
<1>6. ASSUME NEW works \in BOOLEAN, Hil!RunnerPreflight(works) PROVE SoakInv'
  <2> USE <1>6 DEF Hil!RunnerPreflight
  <2>1. hilPc = "runner" /\ ~failed BY DEF HilTypes
  <2>2. dir'.runner = [ready |-> works, of |-> hilJob.n] /\ dir'.soak = dir.soak /\ dir' \in EvidenceFiles
    BY DEF HilTypes, EvidenceFiles, Hil!Reports
  <2>3. (IF works THEN hilPc' = "preflight" ELSE hilPc' = "classify") /\ failed' = (~works)
    BY <2>1 DEF HilTypes
  <2>4. HilTypes' BY <2>1, <2>2, <2>3 DEF HilTypes
  <2>5. OwnRoute' BY <2>1, <2>3 DEF OwnRoute
  <2>6. OwnFiles' BY <2>2, <2>3 DEF OwnFiles
  <2>7. ClassTrue' /\ Sealed' BY <2>3 DEF ClassTrue, Sealed
  <2>8. NothingFoundThere' BY <2>1, <2>2, <2>3 DEF NothingFoundThere, Hil!Steps
  <2>9. Hil!HilSound' BY DEF Hil!HilSound, Hil!GreenIsOwn, Hil!LabNotConflated
  <2> QED BY <2>4, <2>5, <2>6, <2>7, <2>8, <2>9
<1>7. ASSUME NEW failures \in SUBSET Hil!Failures, Hil!BoardPreflight(failures) PROVE SoakInv'
  <2> USE <1>7 DEF Hil!BoardPreflight
  <2>1. hilPc = "preflight" /\ ~failed /\ UNCHANGED <<hilJob, kept, tmp, sums, uploaded, out, board>> BY DEF HilTypes
  <2>2. dir'.soak = dir.soak /\ dir'.runner = dir.runner /\ dir' \in EvidenceFiles
    <3>1. CASE UNCHANGED dir BY <3>1 DEF HilTypes
    <3> DEFINE said == [ready |-> failures = {}, of |-> hilJob.n]
    <3>2. said \in Hil!Reports BY DEF HilTypes, Hil!Reports
    <3>3. UNCHANGED dir \/ dir' = [dir EXCEPT !.preflight = said] OBVIOUS
    <3> HIDE DEF said
    <3>4. CASE dir' = [dir EXCEPT !.preflight = said]
      <4>1. dir \in EvidenceFiles BY DEF HilTypes
      <4> QED BY <3>2, <3>4, <4>1 DEF EvidenceFiles
    <3> QED BY <3>1, <3>3, <3>4
  <2>3. \/ hilPc' = "classify" /\ failed' = TRUE
        \/ hilPc' = "copy" /\ failed' = FALSE /\ dir'.preflight = [ready |-> TRUE, of |-> hilJob.n]
    <3>1. CASE board \in Valid /\ failures = {}
      BY <2>1, <3>1 DEF HilTypes, EvidenceFiles
    <3>2. CASE ~(board \in Valid /\ failures = {}) BY <3>2
    <3> QED BY <3>1, <3>2
  <2>4. HilTypes' BY <2>1, <2>2, <2>3 DEF HilTypes
  <2>5. OwnRoute' BY <2>1, <2>3 DEF OwnRoute
  <2>6. OwnFiles' BY <2>1, <2>2, <2>3 DEF OwnFiles
  <2>7. ClassTrue' /\ Sealed' BY <2>3 DEF ClassTrue, Sealed
  <2>8. NothingFoundThere' BY <2>1, <2>2, <2>3 DEF NothingFoundThere, Hil!Steps
  <2>9. Hil!HilSound' BY <2>1 DEF Hil!HilSound, Hil!GreenIsOwn, Hil!LabNotConflated
  <2> QED BY <2>4, <2>5, <2>6, <2>7, <2>8, <2>9
<1>8. ASSUME Hil!Copy PROVE SoakInv'
  <2> USE <1>8 DEF Hil!Copy
  <2>1. hilPc = "copy" /\ ~failed /\ hilPc' = "build" /\ UNCHANGED <<hilJob, kept, tmp, sums, uploaded, out, board, failed>>
    BY DEF HilTypes
  <2>2. dir'.soak = dir.soak /\ dir'.runner = dir.runner /\ dir'.preflight = dir.preflight
        /\ dir'.authority = tmp.authority /\ dir' \in EvidenceFiles
    BY DEF HilTypes, EvidenceFiles
  <2>4. HilTypes' BY <2>1, <2>2 DEF HilTypes
  <2>5. OwnRoute' BY <2>1 DEF OwnRoute
  <2>6. OwnFiles' BY <2>1, <2>2 DEF OwnFiles
  <2>7. ClassTrue' /\ Sealed' BY <2>1 DEF ClassTrue, Sealed
  <2>8. NothingFoundThere' BY <2>1, <2>2 DEF NothingFoundThere, Hil!Steps
  <2>9. Hil!HilSound' BY <2>1 DEF Hil!HilSound, Hil!GreenIsOwn, Hil!LabNotConflated
  <2> QED BY <2>4, <2>5, <2>6, <2>7, <2>8, <2>9
<1>9. ASSUME Hil!Build PROVE SoakInv'
  <2> USE <1>9 DEF Hil!Build
  <2>1. hilPc = "build" /\ ~failed /\ hilPc' = "soak" /\ UNCHANGED <<hilJob, kept, tmp, sums, uploaded, out, board, failed>>
    BY DEF HilTypes
  <2>2. dir'.soak = dir.soak /\ dir'.runner = dir.runner /\ dir'.preflight = dir.preflight
        /\ dir'.authority = dir.authority /\ dir'.build = hilJob.n /\ dir' \in EvidenceFiles
    BY DEF HilTypes, EvidenceFiles
  <2>4. HilTypes' BY <2>1, <2>2 DEF HilTypes
  <2>5. OwnRoute' BY <2>1 DEF OwnRoute
  <2>6. OwnFiles' BY <2>1, <2>2 DEF OwnFiles
  <2>7. ClassTrue' /\ Sealed' BY <2>1 DEF ClassTrue, Sealed
  <2>8. NothingFoundThere' BY <2>1, <2>2 DEF NothingFoundThere, Hil!Steps
  <2>9. Hil!HilSound' BY <2>1 DEF Hil!HilSound, Hil!GreenIsOwn, Hil!LabNotConflated
  <2> QED BY <2>4, <2>5, <2>6, <2>7, <2>8, <2>9
<1>10. ASSUME NEW r \in Hil!Results, Hil!Soak(r) PROVE SoakInv'
  <2> USE <1>10 DEF Hil!Soak
  <2> DEFINE passed == Hil!Passed(out.tier, out.route.playback, r)
             s == [of |-> hilJob.n, route |-> out.route, passed |-> passed, xruns |-> r.xruns > 0, lost |-> r.lost > 0]
  <2>1. hilPc = "soak" /\ ~failed /\ UNCHANGED <<hilJob, kept, tmp, sums, uploaded, out, board>> BY DEF HilTypes
  <2>2. passed \in BOOLEAN /\ (passed => r.lost = 0) BY DEF Hil!Passed
  <2>3. dir' = [dir EXCEPT !.soak = s]
        /\ IF passed THEN hilPc' = "classify" /\ failed' = failed ELSE hilPc' = "classify" /\ failed' = TRUE
    BY DEF Hil!ExitCode
  <2> HIDE DEF passed
  <2>4. s \in Hil!Soaks BY <2>1, <2>2 DEF HilTypes, OwnRoute, Hil!Soaks
  <2>5. s.of = hilJob.n /\ s.route = out.route /\ s.passed = passed OBVIOUS
  <2>13. passed => s.lost = FALSE
    <3>1. passed => ((r.lost > 0) = FALSE) BY <2>2
    <3>2. s.lost = (r.lost > 0) OBVIOUS
    <3> HIDE DEF s
    <3> QED BY <3>1, <3>2, Zenon
  <2> HIDE DEF s
  <2>6. dir'.soak = s /\ dir'.runner = dir.runner /\ dir'.preflight = dir.preflight
        /\ dir'.authority = dir.authority /\ dir'.build = dir.build /\ dir' \in EvidenceFiles
    BY <2>3, <2>4 DEF HilTypes, EvidenceFiles
  <2>7. HilTypes' BY <2>1, <2>3, <2>6 DEF HilTypes
  <2>8. OwnRoute' BY <2>1, <2>3 DEF OwnRoute
  <2>9. OwnFiles'
    <3> SUFFICES ASSUME ~failed' PROVE OwnFiles' BY DEF OwnFiles
    <3>1. passed = TRUE BY <2>2, <2>3
    <3>2. s.passed = TRUE /\ s.lost = FALSE BY <2>5, <2>13, <3>1
    <3> QED BY <2>1, <2>3, <2>4, <2>5, <2>6, <3>2 DEF OwnFiles
  <2>10. ClassTrue' /\ Sealed' BY <2>3 DEF ClassTrue, Sealed
  <2>11. NothingFoundThere'
    <3>1. failed' => dir'.soak.passed = FALSE BY <2>1, <2>2, <2>3, <2>5, <2>6
    <3>2. hilPc' \notin Hil!Steps BY <2>3 DEF Hil!Steps
    <3> QED BY <3>1, <3>2 DEF NothingFoundThere
  <2>12. Hil!HilSound' BY <2>1 DEF Hil!HilSound, Hil!GreenIsOwn, Hil!LabNotConflated
  <2> QED BY <2>7, <2>8, <2>9, <2>10, <2>11, <2>12
<1>11. ASSUME Hil!Classify PROVE SoakInv'
  <2> USE <1>11 DEF Hil!Classify
  <2>1. hilPc = "classify" /\ hilPc' = "cleanup" /\ UNCHANGED <<hilJob, kept, tmp, sums, uploaded, out, board, failed>>
    OBVIOUS
  <2>2. dir.authority = None \/ dir.authority.digest \in Boards BY DEF HilTypes, EvidenceFiles, Hil!Authorities
  <2>3. Hil!Category(dir) \in Categories BY GreenClass DEF HilTypes
  <2> DEFINE class1 == [category |-> Hil!Category(dir), revision |-> tmp.revision,
                        digest |-> IF dir.authority = None THEN None ELSE dir.authority.digest]
  <2>4. class1 \in [category : Categories, revision : OrMissing(Nat), digest : OrMissing(Boards)]
    BY <2>2, <2>3 DEF HilTypes
  <2>5. class1.category = Hil!Category(dir) /\ class1.revision = tmp.revision OBVIOUS
  <2>6. dir' = [dir EXCEPT !.class = class1] OBVIOUS
  <2> HIDE DEF class1
  <2>7. dir'.soak = dir.soak /\ dir'.runner = dir.runner /\ dir'.preflight = dir.preflight
        /\ dir'.authority = dir.authority /\ dir'.build = dir.build /\ dir'.class = class1 /\ dir' \in EvidenceFiles
    BY <2>4, <2>6 DEF HilTypes, EvidenceFiles
  <2>8. Hil!Category(dir') = Hil!Category(dir)
    BY <2>7 DEF Hil!Category, Hil!Unready, Hil!RouteMatches
  <2>9. HilTypes' BY <2>1, <2>7 DEF HilTypes
  <2>10. OwnRoute' BY <2>1 DEF OwnRoute
  <2>11. OwnFiles' BY <2>1, <2>7 DEF OwnFiles
  <2>12. ClassTrue' /\ Sealed'
    <3>1. (Hil!Category(dir))' = Hil!Category(dir') OBVIOUS
    <3> QED BY <2>1, <2>5, <2>7, <2>8, <3>1 DEF ClassTrue, Sealed
  <2>13. NothingFoundThere' BY <2>1, <2>7 DEF NothingFoundThere, Hil!Steps
  <2>14. Hil!HilSound' BY <2>1 DEF Hil!HilSound, Hil!GreenIsOwn, Hil!LabNotConflated
  <2> QED BY <2>9, <2>10, <2>11, <2>12, <2>13, <2>14
<1>12. ASSUME Hil!Cleanup PROVE SoakInv'
  <2> USE <1>12 DEF Hil!Cleanup
  <2>1. HilTypes' BY DEF HilTypes
  <2>2. OwnRoute' /\ OwnFiles' /\ Sealed' BY DEF OwnRoute, OwnFiles, Sealed
  <2>3. ClassTrue'
    <3>1. (Hil!Category(dir))' = Hil!Category(dir) BY DEF Hil!Category, Hil!Unready, Hil!RouteMatches
    <3> QED BY <3>1 DEF ClassTrue
  <2>4. NothingFoundThere' BY DEF NothingFoundThere, Hil!Steps
  <2>5. Hil!HilSound' BY DEF Hil!HilSound, Hil!GreenIsOwn, Hil!LabNotConflated
  <2> QED BY <2>1, <2>2, <2>3, <2>4, <2>5
<1>13. ASSUME Hil!Seal PROVE SoakInv'
  <2> USE <1>13 DEF Hil!Seal
  <2>1. HilTypes' BY DEF HilTypes
  <2>2. OwnRoute' /\ OwnFiles' /\ Sealed' BY DEF OwnRoute, OwnFiles, Sealed
  <2>3. ClassTrue'
    <3>1. (Hil!Category(dir))' = Hil!Category(dir) BY DEF Hil!Category, Hil!Unready, Hil!RouteMatches
    <3> QED BY <3>1 DEF ClassTrue
  <2>4. NothingFoundThere' BY DEF NothingFoundThere, Hil!Steps
  <2>5. Hil!HilSound' BY DEF Hil!HilSound, Hil!GreenIsOwn, Hil!LabNotConflated
  <2> QED BY <2>1, <2>2, <2>3, <2>4, <2>5
<1>14. ASSUME Hil!Upload PROVE SoakInv'
  <2> USE <1>14 DEF Hil!Upload
  <2>1. hilPc = "upload" /\ hilPc' = "idle" /\ UNCHANGED <<hilJob, kept, tmp, sums, dir, out, board, failed>>
    OBVIOUS
  <2>2. uploaded' = [of |-> hilJob.n, tier |-> hilJob.tier, failed |-> failed, kept |-> kept, dir |-> dir, sums |-> sums]
    OBVIOUS
  <2>3. uploaded'.of = hilJob.n /\ uploaded'.failed = failed /\ uploaded'.kept = kept /\ uploaded'.dir = dir
        /\ uploaded'.sums = sums
    BY <2>2
  <2>4. dir.class.category = Hil!Category(dir) /\ dir.class.revision = tmp.revision /\ sums = dir
    BY <2>1 DEF ClassTrue, Sealed
  <2>5. dir \in EvidenceFiles /\ failed \in BOOLEAN BY DEF HilTypes
  <2>6. ASSUME ~failed
        PROVE  /\ dir.runner = [ready |-> TRUE, of |-> hilJob.n] /\ dir.preflight = [ready |-> TRUE, of |-> hilJob.n]
               /\ dir.authority = tmp.authority /\ dir.authority \in Hil!Authorities /\ dir.build = hilJob.n
               /\ dir.soak \in Hil!Soaks /\ dir.soak.of = hilJob.n /\ dir.soak.passed = TRUE /\ dir.soak.lost = FALSE
               /\ dir.soak.route = dir.authority.route /\ tmp.revision = hilJob.n
    BY <2>1, <2>6 DEF OwnRoute, OwnFiles
  <2>7. ~failed => Hil!Category(dir) = "NONE"
    <3> SUFFICES ASSUME ~failed PROVE Hil!Category(dir) = "NONE" OBVIOUS
    <3>1. dir.runner \in Hil!Reports /\ dir.preflight \in Hil!Reports
      <4>1. [ready |-> TRUE, of |-> hilJob.n] \in Hil!Reports BY DEF HilTypes, Hil!Reports
      <4> QED BY <2>6, <4>1
    <3>2. dir.runner.ready = TRUE /\ dir.preflight.ready = TRUE BY <2>6
    <3> QED BY <2>5, <2>6, <3>1, <3>2, GreenClass
  <2>8. Hil!GreenIsOwn'
    <3> SUFFICES ASSUME ~failed PROVE Hil!GreenIsOwn' BY <2>3, <2>5 DEF Hil!GreenIsOwn
    <3> HIDE DEF SoakInv
    <3> QED BY <2>3, <2>4, <2>6, <2>7 DEF Hil!GreenIsOwn
  <2>9. Hil!LabNotConflated'
    <3> SUFFICES ASSUME ~kept, Hil!Category(dir) # "INFRA_FAILURE"
                 PROVE  dir.runner.ready /\ dir.preflight.ready /\ (Hil!Category(dir) = "NONE" <=> ~failed)
      BY <2>3, <2>4 DEF Hil!LabNotConflated
    <3>1. dir.runner.ready = TRUE /\ dir.preflight.ready = TRUE BY <2>5, GreenClass
    <3>2. failed => Hil!Category(dir) # "NONE" BY <2>1, <2>5, GreenClass DEF NothingFoundThere
    <3> QED BY <2>7, <3>1, <3>2
  <2>10. HilTypes' BY <2>1 DEF HilTypes
  <2>11. OwnRoute' /\ OwnFiles' /\ ClassTrue' /\ Sealed' /\ NothingFoundThere'
    BY <2>1 DEF OwnRoute, OwnFiles, ClassTrue, Sealed, NothingFoundThere, Hil!Steps
  <2> QED BY <2>8, <2>9, <2>10, <2>11 DEF Hil!HilSound
<1>15. ASSUME Hil!PowerLoss PROVE SoakInv'
  <2> USE <1>15 DEF Hil!PowerLoss
  <2>1. HilTypes'
    <3>1. tmp' \in [board : OrMissing(Boards), authority : OrMissing(Hil!Authorities), revision : OrMissing(Nat)]
          /\ dir' \in EvidenceFiles
      BY DEF HilTypes, EvidenceFiles, Hil!Empty
    <3>2. hilPc' = "idle" /\ UNCHANGED <<hilJob, failed, kept, board>> OBVIOUS
    <3> QED BY <3>1, <3>2 DEF HilTypes
  <2>2. OwnRoute' /\ OwnFiles' /\ ClassTrue' /\ Sealed' BY DEF OwnRoute, OwnFiles, ClassTrue, Sealed
  <2>3. NothingFoundThere' BY DEF NothingFoundThere, Hil!Steps
  <2>4. Hil!HilSound' BY DEF Hil!HilSound, Hil!GreenIsOwn, Hil!LabNotConflated
  <2> QED BY <2>1, <2>2, <2>3, <2>4
<1>16. ASSUME Hil!EditBoard PROVE SoakInv'
  <2> USE <1>16 DEF Hil!EditBoard
  <2>1. HilTypes' BY DEF HilTypes
  <2>2. OwnRoute' /\ OwnFiles' /\ Sealed' BY DEF OwnRoute, OwnFiles, Sealed
  <2>3. ClassTrue'
    <3>1. (Hil!Category(dir))' = Hil!Category(dir) BY DEF Hil!Category, Hil!Unready, Hil!RouteMatches
    <3> QED BY <3>1 DEF ClassTrue
  <2>4. NothingFoundThere' BY DEF NothingFoundThere, Hil!Steps
  <2>5. Hil!HilSound' BY DEF Hil!HilSound, Hil!GreenIsOwn, Hil!LabNotConflated
  <2> QED BY <2>1, <2>2, <2>3, <2>4, <2>5
<1> HIDE DEF SoakInv
<1> QED BY <1>1, <1>2, <1>3, <1>4, <1>5, <1>6, <1>7, <1>8, <1>9, <1>10, <1>11, <1>12, <1>13, <1>14, <1>15, <1>16 DEF Hil!Next

LEMMA SoakStays ==
  ASSUME SoakInv, UNCHANGED soakVars
  PROVE  SoakInv'
<1> USE DEF SoakInv, soakVars
<1>1. HilTypes' BY DEF HilTypes
<1>2. OwnRoute' /\ OwnFiles' /\ Sealed' /\ NothingFoundThere' BY DEF OwnRoute, OwnFiles, Sealed, NothingFoundThere
<1>3. ClassTrue'
  <2>1. (Hil!Category(dir))' = Hil!Category(dir) BY DEF Hil!Category, Hil!Unready, Hil!RouteMatches
  <2> QED BY <2>1 DEF ClassTrue
<1>4. Hil!HilSound' BY DEF Hil!HilSound, Hil!GreenIsOwn, Hil!LabNotConflated
<1> QED BY <1>1, <1>2, <1>3, <1>4

HIDE DEF OrMissing

(***************************************************************************)
(* The delivery                                                            *)
(***************************************************************************)
OrUnmade(S) == S \cup {None}
Making == {"install", "package", "acoustic", "seal"}
Enduring == {"build", "soak", "copy", "copy header", "seal-endurance"}
DeliveredFiles ==
    [qualification : OrUnmade([source : Sources, pass : BOOLEAN, probe : Delivery!Builds]),
     probe : OrUnmade(Delivery!Builds), elf : OrUnmade(Delivery!Builds), sdk : OrUnmade(Delivery!Builds),
     report : [Replays -> OrUnmade([source : Sources, by : OrUnmade(Delivery!Builds), pass : BOOLEAN])],
     snapshot : OrUnmade([source : Sources, launcher : {"own", "other"}]),
     result : OrUnmade([of : Delivery!Builds, pass : BOOLEAN]), log : OrUnmade({"empty", "report"}),
     header : OrUnmade(Delivery!Builds)]
DeliveryTypes ==
    /\ class \in {"reference", "endurance"} /\ deliveryAt \in {"idle", "shipped", "damaged"} \cup Making \cup Enduring
    /\ deliveryAt \in Making => class = "reference"
    /\ deliveryAt \in Enduring => class = "endurance"
    /\ again \in Nat
    /\ deliveryAt \notin {"shipped", "damaged"} =>
          /\ deliveryTree \in Delivery!Builds /\ configured \in Delivery!Builds
          /\ measured \in OrUnmade([source : Sources, pass : BOOLEAN, probe : Delivery!Builds])
          /\ deliveryOut \in OrUnmade(DeliveredFiles)
          /\ class = "endurance" /\ deliveryOut # None => arg \in Sources
    /\ deliveryAt \in Making \cup Enduring => arg \in Sources /\ deliveryOut \in DeliveredFiles
\* From the installation to the seal the tree is not asked twice, and the commands of an endurance job
\* that run once see one build.
OneBuild ==
    /\ deliveryAt \in {"install", "package"} => \A c \in Replays : deliveryOut.report[c] = None
    /\ deliveryAt \in {"package", "acoustic", "seal"} =>
          deliveryOut.probe = deliveryOut.elf /\ deliveryOut.header = deliveryOut.elf
    /\ deliveryAt \in {"acoustic", "seal"} =>
          /\ deliveryOut.sdk = deliveryOut.elf
          /\ \A c \in Replays : deliveryOut.report[c] # None => deliveryOut.report[c].by = deliveryOut.elf
    /\ deliveryAt = "seal" => \A c \in Replays : deliveryOut.report[c] # None
    /\ again = 0 =>
          /\ deliveryAt = "copy" => deliveryOut.result.of = deliveryTree
          /\ deliveryAt \in {"copy header", "seal-endurance"} => deliveryOut.result.of = deliveryOut.elf
\* What was sealed was of one build, whatever becomes of the files.
SealedTraced ==
    deliveryManifest # None =>
      LET sealed == deliveryManifest.files IN
      /\ class = "reference" => /\ sealed.probe = sealed.elf /\ sealed.sdk = sealed.elf /\ sealed.header = sealed.elf
                                /\ \A c \in Replays : sealed.report[c].by = sealed.elf
      /\ class = "endurance" => /\ sealed.log = "empty"
                                /\ sealed.header = [source |-> deliveryManifest.source,
                                                   config |-> deliveryManifest.config]
                                /\ again = 0 => sealed.elf = sealed.result.of
DeliveryInv == DeliveryTypes /\ OneBuild /\ SealedTraced

LEMMA DeliveryStarts == ASSUME Delivery!Init PROVE DeliveryInv
BY DEF Delivery!Init, DeliveryInv, DeliveryTypes, OneBuild, SealedTraced, OrUnmade, Making, Enduring

\* What the sealed build and the verification say together.
LEMMA SealedDelivers == ASSUME DeliveryInv PROVE Delivery!DeliveryTraced
<1> SUFFICES ASSUME NEW s \in Sources, Delivery!Verified(s)
             PROVE  /\ class = "reference" =>
                          /\ deliveryOut.elf.source = s
                          /\ deliveryOut.sdk = deliveryOut.elf /\ deliveryOut.probe = deliveryOut.elf
                          /\ deliveryOut.header = deliveryOut.elf
                          /\ deliveryOut.qualification.pass /\ deliveryOut.qualification.probe = deliveryOut.elf
                          /\ \A c \in Replays : deliveryOut.report[c].pass /\ deliveryOut.report[c].by = deliveryOut.elf
                    /\ class = "endurance" =>
                          /\ deliveryOut.header = deliveryOut.result.of /\ deliveryOut.log = "empty"
                          /\ again = 0 => deliveryOut.elf = deliveryOut.result.of
  BY DEF Delivery!DeliveryTraced
<1>1. class \in {"reference", "endurance"} BY DEF DeliveryInv, DeliveryTypes
<1>2. deliveryOut = deliveryManifest.files /\ deliveryManifest # None /\ deliveryManifest.source = s
  BY DEF Delivery!Verified, Delivery!Intact
<1>3. CASE class = "reference"
  <2>1. Delivery!ReferenceVerified(s) BY <1>3 DEF Delivery!Verified
  <2>2. deliveryOut.probe = deliveryOut.elf /\ deliveryOut.sdk = deliveryOut.elf /\ deliveryOut.header = deliveryOut.elf
        /\ \A c \in Replays : deliveryOut.report[c].by = deliveryOut.elf
    BY <1>2, <1>3 DEF DeliveryInv, SealedTraced
  <2>3. deliveryOut.probe.source = s /\ deliveryOut.qualification.pass = TRUE
        /\ deliveryOut.qualification.probe = deliveryOut.probe
        /\ \A c \in Replays : deliveryOut.report[c].pass
    BY <2>1 DEF Delivery!ReferenceVerified
  <2> QED BY <1>3, <2>2, <2>3
<1>4. CASE class = "endurance"
  <2>1. deliveryOut.result.of = [source |-> s, config |-> deliveryManifest.config]
    BY <1>4 DEF Delivery!Verified, Delivery!EnduranceVerified
  <2>2. deliveryOut.log = "empty" /\ deliveryOut.header = [source |-> s, config |-> deliveryManifest.config]
        /\ (again = 0 => deliveryOut.elf = deliveryOut.result.of)
    BY <1>2, <1>4 DEF DeliveryInv, SealedTraced
  <2> QED BY <1>4, <2>1, <2>2
<1> QED BY <1>1, <1>3, <1>4

LEMMA DeliveryStays == ASSUME DeliveryInv, UNCHANGED deliveryVars PROVE DeliveryInv'
BY DEF DeliveryInv, DeliveryTypes, OneBuild, SealedTraced, deliveryVars

LEMMA DeliveryStep == ASSUME DeliveryInv, Delivery!Next PROVE DeliveryInv'
<1> USE DEF DeliveryInv, OrUnmade, Making, Enduring
<1>1. ASSUME Delivery!Configure PROVE DeliveryInv'
  <2> USE <1>1 DEF Delivery!Configure
  <2>1. DeliveryTypes' BY DEF DeliveryTypes
  <2>2. OneBuild' /\ SealedTraced' BY DEF OneBuild, SealedTraced
  <2> QED BY <2>1, <2>2
<1>17. ASSUME Delivery!Build PROVE DeliveryInv'
  <2> USE <1>17 DEF Delivery!Build
  <2>1. \/ deliveryAt = "idle" /\ deliveryAt' = "idle"
        \/ deliveryAt = "build" /\ deliveryAt' = "soak" /\ class = "endurance"
    BY DEF DeliveryTypes
  <2>2. DeliveryTypes' BY <2>1 DEF DeliveryTypes
  <2>3. OneBuild' /\ SealedTraced' BY <2>1 DEF OneBuild, SealedTraced
  <2> QED BY <2>2, <2>3
<1>2. ASSUME NEW s \in Sources, NEW p \in BOOLEAN, Delivery!Measure(s, p) PROVE DeliveryInv'
  <2> USE <1>2 DEF Delivery!Measure
  <2>1. measured' \in [source : Sources, pass : BOOLEAN, probe : Delivery!Builds] BY DEF DeliveryTypes
  <2>2. DeliveryTypes' BY <2>1 DEF DeliveryTypes
  <2>3. OneBuild' /\ SealedTraced' BY DEF OneBuild, SealedTraced
  <2> QED BY <2>2, <2>3
<1>3. ASSUME NEW s \in Sources, Delivery!Reference(s) PROVE DeliveryInv'
  <2> USE <1>3 DEF Delivery!Reference
  <2>1. deliveryAt = "idle" /\ class = "reference" /\ UNCHANGED <<class, configured, deliveryTree, measured, deliveryManifest, again>>
        /\ deliveryAt' \in {"install", "idle"} /\ arg' = s
    OBVIOUS
  <2>2. measured \in [source : Sources, pass : BOOLEAN, probe : Delivery!Builds] BY DEF DeliveryTypes
  <2>3. deliveryOut' \in DeliveredFiles /\ deliveryOut'.report = [c \in Replays |-> None]
    <3>1. Delivery!Empty \in DeliveredFiles /\ Delivery!Empty.report = [c \in Replays |-> None]
      BY DEF Delivery!Empty, DeliveredFiles
    <3>2. [Delivery!Empty EXCEPT !.qualification = measured] \in DeliveredFiles
          /\ [Delivery!Empty EXCEPT !.qualification = measured].report = [c \in Replays |-> None]
      BY <2>2, <3>1 DEF DeliveredFiles
    <3> QED BY <3>1, <3>2
  <2>4. DeliveryTypes' BY <2>1, <2>3 DEF DeliveryTypes
  <2>5. OneBuild' BY <2>1, <2>3 DEF OneBuild
  <2>6. SealedTraced' BY <2>1 DEF SealedTraced
  <2> QED BY <2>4, <2>5, <2>6
<1>4. ASSUME Delivery!Install PROVE DeliveryInv'
  <2> USE <1>4 DEF Delivery!Install
  <2>1. deliveryAt = "install" /\ class = "reference" /\ UNCHANGED <<class, configured, deliveryTree, measured, deliveryManifest, arg, again>>
        /\ deliveryAt' \in {"package", "idle"}
    BY DEF DeliveryTypes
  <2>2. deliveryTree \in Delivery!Builds /\ configured \in Delivery!Builds /\ deliveryOut \in DeliveredFiles
    BY <2>1 DEF DeliveryTypes
  <2>3. deliveryOut' \in DeliveredFiles /\ deliveryOut'.report = deliveryOut.report
        /\ (deliveryAt' = "package" => /\ deliveryOut'.probe = deliveryTree /\ deliveryOut'.elf = deliveryTree
                                       /\ deliveryOut'.header = deliveryTree)
    <3>1. CASE deliveryTree = configured BY <2>2, <3>1 DEF DeliveredFiles
    <3>2. CASE deliveryTree # configured BY <2>2, <3>2 DEF DeliveredFiles
    <3> QED BY <3>1, <3>2
  <2>4. DeliveryTypes' BY <2>1, <2>3 DEF DeliveryTypes
  <2>5. OneBuild' BY <2>1, <2>3 DEF OneBuild
  <2>6. SealedTraced' BY <2>1 DEF SealedTraced
  <2> QED BY <2>4, <2>5, <2>6
<1>5. ASSUME Delivery!Package PROVE DeliveryInv'
  <2> USE <1>5 DEF Delivery!Package
  <2>1. deliveryAt = "package" /\ class = "reference" /\ UNCHANGED <<class, configured, deliveryTree, measured, deliveryManifest, arg, again>>
        /\ deliveryAt' = "acoustic"
    BY DEF DeliveryTypes
  <2>2. deliveryOut \in DeliveredFiles BY <2>1 DEF DeliveryTypes
  <2>3. deliveryOut' \in DeliveredFiles /\ deliveryOut'.report = deliveryOut.report
        /\ deliveryOut'.probe = deliveryOut.probe /\ deliveryOut'.header = deliveryOut.header
        /\ deliveryOut'.elf = deliveryOut.elf /\ deliveryOut'.sdk = deliveryOut.elf
    BY <2>2 DEF DeliveredFiles
  <2>4. DeliveryTypes' BY <2>1, <2>3 DEF DeliveryTypes
  <2>5. OneBuild' BY <2>1, <2>3 DEF OneBuild
  <2>6. SealedTraced' BY <2>1 DEF SealedTraced
  <2> QED BY <2>4, <2>5, <2>6
<1>6. ASSUME NEW c \in Replays, NEW p \in BOOLEAN, Delivery!Replay(c, p) PROVE DeliveryInv'
  <2> USE <1>6 DEF Delivery!Replay
  <2>1. deliveryAt = "acoustic" /\ class = "reference" /\ UNCHANGED <<class, configured, deliveryTree, measured, deliveryManifest, arg, again>>
        /\ deliveryAt' \in {"acoustic", "idle"}
    BY DEF DeliveryTypes
  <2>2. deliveryOut \in DeliveredFiles /\ arg \in Sources BY <2>1 DEF DeliveryTypes
  <2> DEFINE heardBy == [source |-> arg, by |-> deliveryOut.elf, pass |-> p]
  <2>3. deliveryOut' = [deliveryOut EXCEPT !.report = [deliveryOut.report EXCEPT ![c] = heardBy]]
    OBVIOUS
  <2>4. deliveryOut.report \in [Replays -> OrUnmade([source : Sources, by : OrUnmade(Delivery!Builds), pass : BOOLEAN])]
    BY <2>2 DEF DeliveredFiles
  <2>5. heardBy \in [source : Sources, by : OrUnmade(Delivery!Builds), pass : BOOLEAN] /\ heardBy.by = deliveryOut.elf
    BY <2>2 DEF DeliveredFiles
  <2> HIDE DEF heardBy
  <2> DEFINE reports == [deliveryOut.report EXCEPT ![c] = heardBy]
  <2>6. reports \in [Replays -> OrUnmade([source : Sources, by : OrUnmade(Delivery!Builds), pass : BOOLEAN])]
        /\ \A e \in Replays : reports[e] = IF e = c THEN heardBy ELSE deliveryOut.report[e]
    BY <2>4, <2>5
  <2> HIDE DEF reports
  <2>7. deliveryOut' = [deliveryOut EXCEPT !.report = reports] BY <2>3 DEF reports
  <2>8. deliveryOut' \in DeliveredFiles /\ deliveryOut'.report = reports
        /\ deliveryOut'.probe = deliveryOut.probe /\ deliveryOut'.header = deliveryOut.header
        /\ deliveryOut'.elf = deliveryOut.elf /\ deliveryOut'.sdk = deliveryOut.sdk
    BY <2>2, <2>6, <2>7 DEF DeliveredFiles
  <2>9. DeliveryTypes' BY <2>1, <2>2, <2>8 DEF DeliveryTypes
  <2>10. OneBuild' BY <2>1, <2>5, <2>6, <2>8 DEF OneBuild
  <2>11. SealedTraced' BY <2>1 DEF SealedTraced
  <2> QED BY <2>9, <2>10, <2>11
<1>7. ASSUME Delivery!Snapshot PROVE DeliveryInv'
  <2> USE <1>7 DEF Delivery!Snapshot
  <2>1. deliveryAt = "acoustic" /\ class = "reference" /\ UNCHANGED <<class, configured, deliveryTree, measured, deliveryManifest, arg, again>>
        /\ deliveryAt' = "seal"
    BY DEF DeliveryTypes
  <2>2. deliveryOut \in DeliveredFiles /\ arg \in Sources BY <2>1 DEF DeliveryTypes
  <2>3. deliveryOut' \in DeliveredFiles /\ deliveryOut'.report = deliveryOut.report
        /\ deliveryOut'.probe = deliveryOut.probe /\ deliveryOut'.header = deliveryOut.header
        /\ deliveryOut'.elf = deliveryOut.elf /\ deliveryOut'.sdk = deliveryOut.sdk
    BY <2>2 DEF DeliveredFiles
  <2>4. DeliveryTypes' BY <2>1, <2>2, <2>3 DEF DeliveryTypes
  <2>5. OneBuild' BY <2>1, <2>3 DEF OneBuild
  <2>6. SealedTraced' BY <2>1 DEF SealedTraced
  <2> QED BY <2>4, <2>5, <2>6
<1>8. ASSUME Delivery!Seal PROVE DeliveryInv'
  <2> USE <1>8 DEF Delivery!Seal
  <2>1. deliveryAt = "seal" /\ class = "reference" /\ UNCHANGED <<class, configured, deliveryTree, measured, deliveryOut, arg, again>>
        /\ deliveryAt' = "idle"
    BY DEF DeliveryTypes
  <2>2. deliveryManifest'.files = deliveryOut OBVIOUS
  <2>3. DeliveryTypes' BY <2>1 DEF DeliveryTypes
  <2>4. OneBuild' BY <2>1 DEF OneBuild
  <2>5. SealedTraced' BY <2>1, <2>2 DEF SealedTraced, OneBuild
  <2> QED BY <2>3, <2>4, <2>5
<1>9. ASSUME Delivery!Dies PROVE DeliveryInv'
  <2> USE <1>9 DEF Delivery!Dies, Delivery!Stop
  <2>1. DeliveryTypes' BY DEF DeliveryTypes
  <2>2. OneBuild' /\ SealedTraced' BY DEF OneBuild, SealedTraced
  <2> QED BY <2>1, <2>2
<1>10. ASSUME NEW s \in Sources, NEW C \in SUBSET Replays, Delivery!AcousticAgain(s, C) PROVE DeliveryInv'
  <2> USE <1>10 DEF Delivery!AcousticAgain
  <2>1. deliveryAt = "idle" /\ class = "reference"
        /\ UNCHANGED <<class, configured, deliveryTree, measured, deliveryManifest, deliveryAt, arg>> /\ again' = again + 1
    OBVIOUS
  <2>2. deliveryOut \in DeliveredFiles /\ deliveryTree \in Delivery!Builds BY <2>1 DEF DeliveryTypes
  <2> DEFINE reports == [c \in Replays |-> IF c \in C THEN [source |-> s, by |-> deliveryTree, pass |-> TRUE]
                                           ELSE deliveryOut.report[c]]
             image == IF C = Replays THEN [source |-> s, launcher |-> "other"] ELSE deliveryOut.snapshot
  <2>3. deliveryOut' = [deliveryOut EXCEPT !.report = reports, !.snapshot = image] BY <2>2 DEF DeliveredFiles
  <2>4. reports \in [Replays -> OrUnmade([source : Sources, by : OrUnmade(Delivery!Builds), pass : BOOLEAN])]
    BY <2>2 DEF DeliveredFiles
  <2>5. image \in OrUnmade([source : Sources, launcher : {"own", "other"}]) BY <2>2 DEF DeliveredFiles
  <2> HIDE DEF reports, image
  <2>6. deliveryOut' \in DeliveredFiles BY <2>2, <2>3, <2>4, <2>5 DEF DeliveredFiles
  <2>7. DeliveryTypes' BY <2>1, <2>6 DEF DeliveryTypes
  <2>8. OneBuild' /\ SealedTraced' BY <2>1 DEF OneBuild, SealedTraced
  <2> QED BY <2>7, <2>8
<1>11. ASSUME NEW s \in Sources, NEW c \in Configs, Delivery!ConfigureEndurance(s, c) PROVE DeliveryInv'
  <2> USE <1>11 DEF Delivery!ConfigureEndurance
  <2>1. deliveryAt = "idle" /\ class = "endurance" /\ arg' = s
        /\ UNCHANGED <<class, deliveryTree, measured, deliveryManifest, again>>
    OBVIOUS
  <2>2. configured' \in Delivery!Builds BY DEF Delivery!Builds
  <2>3. Delivery!Empty \in DeliveredFiles BY DEF Delivery!Empty, DeliveredFiles
  <2>4. \/ deliveryOut' \in DeliveredFiles /\ deliveryAt' = "build"
        \/ UNCHANGED deliveryOut /\ deliveryAt' = "idle"
    BY <2>1, <2>3
  <2>5. DeliveryTypes' BY <2>1, <2>2, <2>4 DEF DeliveryTypes
  <2>6. OneBuild' /\ SealedTraced' BY <2>1, <2>4 DEF OneBuild, SealedTraced
  <2> QED BY <2>5, <2>6
<1>12. ASSUME NEW s \in Sources, Delivery!Resume(s) PROVE DeliveryInv'
  <2> USE <1>12 DEF Delivery!Resume
  <2>1. deliveryAt = "idle" /\ class = "endurance" /\ deliveryAt' \in Enduring /\ arg' = s
        /\ again' = again + 1 /\ UNCHANGED <<class, configured, deliveryTree, measured, deliveryOut, deliveryManifest>>
    OBVIOUS
  <2> HIDE DEF Delivery!Resume
  <2>2. deliveryOut \in DeliveredFiles /\ again \in Nat BY <1>12, <2>1 DEF DeliveryTypes, Delivery!Resume
  <2>3. again' \in Nat /\ again' # 0
    <3>1. \A n \in Nat : n + 1 \in Nat /\ n + 1 # 0 OBVIOUS
    <3>2. again' = again + 1 BY <2>1
    <3>3. again \in Nat BY <2>2
    <3> QED BY ONLY <3>1, <3>2, <3>3
  <2>4. deliveryAt' \notin {"idle", "shipped", "damaged"} \cup Making BY <2>1
  <2>5. DeliveryTypes' BY <2>1, <2>2, <2>3, <2>4 DEF DeliveryTypes
  <2>6. OneBuild' BY <2>1, <2>3, <2>4 DEF OneBuild
  <2>7. SealedTraced' BY <2>1, <2>3 DEF SealedTraced
  <2> QED BY <2>5, <2>6, <2>7
<1>13. ASSUME NEW p \in BOOLEAN, NEW clean \in BOOLEAN, Delivery!Soak(p, clean) PROVE DeliveryInv'
  <2> USE <1>13 DEF Delivery!Soak
  <2>1. deliveryAt = "soak" /\ class = "endurance" /\ deliveryAt' \in {"copy", "idle"}
        /\ UNCHANGED <<class, configured, deliveryTree, measured, deliveryManifest, arg, again>>
    BY DEF DeliveryTypes
  <2>2. deliveryOut \in DeliveredFiles /\ arg \in Sources /\ deliveryTree \in Delivery!Builds BY <2>1 DEF DeliveryTypes
  <2>3. deliveryOut' \in DeliveredFiles /\ deliveryOut'.result.of = deliveryTree
    <3> DEFINE ran == [of |-> deliveryTree, pass |-> p]
               told == IF clean THEN "empty" ELSE "report"
    <3>1. ran \in [of : Delivery!Builds, pass : BOOLEAN] /\ told \in {"empty", "report"} BY <2>2
    <3>2. deliveryOut' = [deliveryOut EXCEPT !.result = ran, !.log = told] /\ ran.of = deliveryTree OBVIOUS
    <3> HIDE DEF ran, told
    <3> QED BY <2>2, <3>1, <3>2 DEF DeliveredFiles
  <2>4. DeliveryTypes' BY <2>1, <2>2, <2>3 DEF DeliveryTypes
  <2>5. OneBuild' /\ SealedTraced' BY <2>1, <2>3 DEF OneBuild, SealedTraced
  <2> QED BY <2>4, <2>5
<1>14. ASSUME Delivery!Copy PROVE DeliveryInv'
  <2> USE <1>14 DEF Delivery!Copy
  <2>1. deliveryAt = "copy" /\ class = "endurance" /\ deliveryAt' = "copy header"
        /\ UNCHANGED <<class, configured, deliveryTree, measured, deliveryManifest, arg, again>>
    BY DEF DeliveryTypes
  <2>2. deliveryOut \in DeliveredFiles /\ arg \in Sources /\ deliveryTree \in Delivery!Builds BY <2>1 DEF DeliveryTypes
  <2>3. deliveryOut' \in DeliveredFiles /\ deliveryOut'.elf = deliveryTree /\ deliveryOut'.result = deliveryOut.result
    BY <2>2 DEF DeliveredFiles
  <2>4. DeliveryTypes' BY <2>1, <2>2, <2>3 DEF DeliveryTypes
  <2>5. OneBuild' /\ SealedTraced' BY <2>1, <2>3 DEF OneBuild, SealedTraced
  <2> QED BY <2>4, <2>5
<1>18. ASSUME Delivery!CopyHeader PROVE DeliveryInv'
  <2> USE <1>18 DEF Delivery!CopyHeader
  <2>1. deliveryAt = "copy header" /\ class = "endurance" /\ deliveryAt' = "seal-endurance"
        /\ UNCHANGED <<class, configured, deliveryTree, measured, deliveryManifest, arg, again>>
    BY DEF DeliveryTypes
  <2>2. deliveryOut \in DeliveredFiles /\ arg \in Sources /\ configured \in Delivery!Builds BY <2>1 DEF DeliveryTypes
  <2>3. deliveryOut' \in DeliveredFiles /\ deliveryOut'.elf = deliveryOut.elf /\ deliveryOut'.result = deliveryOut.result
    BY <2>2 DEF DeliveredFiles
  <2>4. DeliveryTypes' BY <2>1, <2>2, <2>3 DEF DeliveryTypes
  <2>5. OneBuild' /\ SealedTraced' BY <2>1, <2>3 DEF OneBuild, SealedTraced
  <2> QED BY <2>4, <2>5
<1>15. ASSUME Delivery!SealEndurance PROVE DeliveryInv'
  <2> USE <1>15 DEF Delivery!SealEndurance
  <2>1. deliveryAt = "seal-endurance" /\ class = "endurance" /\ deliveryAt' = "idle"
        /\ UNCHANGED <<class, configured, deliveryTree, measured, deliveryOut, arg, again>>
    BY DEF DeliveryTypes
  <2>2. DeliveryTypes' BY <2>1 DEF DeliveryTypes
  <2>3. OneBuild' BY <2>1 DEF OneBuild
  <2>4. SealedTraced'
    <3>1. CASE UNCHANGED deliveryManifest BY <2>1, <3>1 DEF SealedTraced
    <3>2. CASE ~ UNCHANGED deliveryManifest
      <4>1. /\ deliveryManifest'.files = deliveryOut /\ deliveryManifest'.source = arg
            /\ deliveryManifest'.config = deliveryOut.result.of.config
            /\ deliveryOut.log = "empty" /\ deliveryOut.header = [source |-> arg, config |-> deliveryOut.result.of.config]
        BY <3>2
      <4> QED BY <2>1, <4>1 DEF SealedTraced, OneBuild
    <3> QED BY <3>1, <3>2
  <2> QED BY <2>2, <2>3, <2>4
<1>16. ASSUME Delivery!Ship \/ Delivery!Damage PROVE DeliveryInv'
  <2> USE <1>16 DEF Delivery!Ship, Delivery!Damage
  <2>1. deliveryAt' \in {"shipped", "damaged"} /\ UNCHANGED <<class, deliveryManifest, again>> OBVIOUS
  <2>2. DeliveryTypes' BY <2>1 DEF DeliveryTypes
  <2>3. OneBuild' /\ SealedTraced' BY <2>1 DEF OneBuild, SealedTraced
  <2> QED BY <2>2, <2>3
<1> HIDE DEF DeliveryInv
<1> QED BY <1>1, <1>2, <1>3, <1>4, <1>5, <1>6, <1>7, <1>8, <1>9, <1>10, <1>11, <1>12, <1>13, <1>14, <1>15, <1>16, <1>17,
        <1>18
        DEF Delivery!Next

\* The evidence of a soak that did not fail is its own, whatever earlier jobs left in its directory, and in
\* an empty one no failure of the laboratory is put down to the program; a delivery that verifies is of one
\* build of one commit, down to the program of an endurance job that was not taken up by hand: for all boards,
\* counters, commits, configurations and replays.
THEOREM BundlesSoundHolds == SumSpec => []BundlesSound
<1> DEFINE Inv == (which = "soak" => SoakInv) /\ (which = "delivery" => DeliveryInv)
<1>0. Hil!HilAssumption BY Bounds
<1>1. SumInit => Inv BY <1>0, SoakStarts, DeliveryStarts DEF SumInit
<1>2. Inv /\ [SumNext]_sumVars => Inv'
  <2> SUFFICES ASSUME Inv, [SumNext]_sumVars PROVE Inv' OBVIOUS
  <2>1. CASE UNCHANGED sumVars BY <2>1, SoakStays, DeliveryStays DEF sumVars
  <2>2. CASE SumNext
    <3>1. CASE which = "soak" /\ Hil!Next /\ UNCHANGED which BY <1>0, <3>1, SoakStep
    <3>2. CASE which = "delivery" /\ Delivery!Next /\ UNCHANGED which BY <3>2, DeliveryStep
    <3>3. CASE which \notin {"soak", "delivery"} /\ UNCHANGED which BY <3>3
    <3> QED BY <2>2, <3>1, <3>2, <3>3 DEF SumNext
  <2> QED BY <2>1, <2>2
<1>3. Inv => BundlesSound
  BY SealedDelivers DEF BundlesSound, SoakInv
<1> QED BY <1>1, <1>2, <1>3, PTL DEF SumSpec

(***************************************************************************)
(* The laboratory's data                                                   *)
(***************************************************************************)
Unpacking == {"remove", "extract", "mark"}
AnyVersion == Versions \cup {None}
ToDo == /\ todo \in Seq(Lab!Sets) /\ pc \in {"idle", "fetch"} \cup Unpacking
        /\ pc # "idle" => todo # <<>>
LabTypes ==
    /\ pin \in AnyVersion /\ revision \in Versions /\ upstream \in Versions
    /\ archive \in AnyVersion \cup {Partial} /\ snapshot \in SUBSET Versions
    /\ tree \in [Lab!Names -> AnyVersion] /\ marker \in [Lab!Sets -> AnyVersion]
    /\ ToDo
    /\ building \in BOOLEAN /\ disturbed \in BOOLEAN
\* What labctl is unpacking is what the locks name, and the marker has gone ahead of it.
OnItsWay ==
    pc \in Unpacking =>
      /\ Lab!Dataset \in {"http", "hf"}
      /\ Lab!Dataset = "http" => archive # None /\ Lab!PinHolds(archive)
      /\ Lab!Dataset = "hf" => revision \in snapshot
      /\ pc # "remove" => marker[Lab!Dataset] = None
\* What d's marker would say is there.
WholeHttp(t, v) == \A f \in Members[v] : t[<<"http", f>>] = v
WholeHf(t, v) == t[<<"hf", v>>] = v
Complete ==
    pc = "mark" => /\ Lab!Dataset = "http" => archive \in Versions /\ WholeHttp(tree, archive)
                   /\ Lab!Dataset = "hf" => WholeHf(tree, revision)
Marked ==
    /\ marker["http"] # None /\ "http" \notin cut => WholeHttp(tree, marker["http"])
    /\ marker["hf"] # None /\ "hf" \notin cut => WholeHf(tree, marker["hf"])
\* A manifest lists files, and those a build has verified stay as they are until something disturbs it.
Verifying ==
    /\ manifest # None => manifest.files = [n \in DOMAIN manifest.files |-> manifest.files[n]]
    /\ building => manifest # None /\ labCorpus = None
    /\ building /\ ~disturbed => Lab!FilesHold(manifest)
    /\ Lab!CorpusBound
LabInv == LabTypes /\ OnItsWay /\ Complete /\ Marked /\ Verifying

LEMMA LabInvSound == ASSUME LabInv PROVE Lab!LabDataKept
<1>1. Lab!MarkedWhole BY DEF LabInv, Marked, WholeHttp, WholeHf, Lab!MarkedWhole
<1>2. Lab!NothingUnpinned BY DEF LabInv, OnItsWay, Unpacking, Lab!NothingUnpinned, Lab!PinHolds
<1>3. Lab!CorpusBound BY DEF LabInv, Verifying
<1> QED BY <1>1, <1>2, <1>3 DEF Lab!LabDataKept

\* The names of the tree: those of one dataset are none of another's.
LEMMA NamesApart ==
  ASSUME Lab!LabAssumption
  PROVE  /\ \A v \in Versions : \A f \in Members[v] : <<"http", f>> \in Lab!Of("http") \cap Lab!Names
         /\ \A v \in Versions : <<"hf", v>> \in Lab!Of("hf") \cap Lab!Names
         /\ <<"op", "op">> \in Lab!Names
         /\ \A d \in Lab!Sets : \A n \in Lab!Of(d) : n[1] = d /\ n \in Lab!Names
<1>1. \A v \in Versions : Members[v] \subseteq Lab!HttpFiles BY DEF Lab!LabAssumption
<1>2. /\ Lab!Of("http") = {<<"http", f>> : f \in Lab!HttpFiles} /\ Lab!Of("hf") = {<<"hf", v>> : v \in Versions}
      /\ Lab!Of("op") = {<<"op", "op">>}
  BY DEF Lab!Of
<1>3. \A d \in Lab!Sets : Lab!Of(d) \subseteq Lab!Names BY DEF Lab!Names
<1>4. "http" \in Lab!Sets /\ "hf" \in Lab!Sets /\ "op" \in Lab!Sets BY DEF Lab!Sets
<1>5. \A v \in Versions : \A f \in Members[v] : <<"http", f>> \in Lab!Of("http") BY <1>1, <1>2
<1>6. \A v \in Versions : <<"hf", v>> \in Lab!Of("hf") BY <1>2
<1>7. \A d \in Lab!Sets : \A n \in Lab!Of(d) : n[1] = d BY <1>2 DEF Lab!Sets
<1> QED BY <1>2, <1>3, <1>4, <1>5, <1>6, <1>7

LEMMA LabStarts == ASSUME Lab!Init, Lab!LabAssumption PROVE LabInv
<1> USE DEF Lab!Init
<1>1. LabTypes
  <2>1. tree \in [Lab!Names -> AnyVersion] /\ marker \in [Lab!Sets -> AnyVersion] BY DEF AnyVersion
  <2>2. todo \in Seq(Lab!Sets) /\ pc = "idle" OBVIOUS
  <2> QED BY <2>1, <2>2 DEF LabTypes, ToDo, AnyVersion
<1>2. OnItsWay /\ Complete BY DEF OnItsWay, Complete, Unpacking
<1>3. Marked
  <2>1. marker["http"] = None /\ marker["hf"] = None BY DEF Lab!Sets
  <2> QED BY <2>1 DEF Marked
<1>4. Verifying BY DEF Verifying, Lab!CorpusBound
<1> QED BY <1>1, <1>2, <1>3, <1>4 DEF LabInv

\* A write to one dataset leaves what the markers of the others say, and says nothing itself when it
\* leaves no marker, or one that is known to be cut off.
LEMMA MarkedKept ==
  ASSUME Lab!LabAssumption, LabTypes, Marked, NEW d \in Lab!Sets,
         \A n \in Lab!Names : n[1] # d => tree'[n] = tree[n],
         \A e \in Lab!Sets : e # d => marker'[e] = marker[e] /\ (e \in cut => e \in cut'),
         d \in {"http", "hf"} => marker'[d] = None \/ d \in cut'
  PROVE  Marked'
<1>1. "http" \in Lab!Sets /\ "hf" \in Lab!Sets BY DEF Lab!Sets
<1>2. marker["http"] \in AnyVersion /\ marker["hf"] \in AnyVersion BY <1>1 DEF LabTypes
<1>3. ASSUME marker'["http"] # None, "http" \notin cut' PROVE WholeHttp(tree', marker'["http"])
  <2>1. d # "http" BY <1>3
  <2>2. marker'["http"] = marker["http"] /\ "http" \notin cut BY <1>1, <1>3, <2>1
  <2>3. WholeHttp(tree, marker["http"]) /\ marker["http"] \in Versions BY <1>2, <1>3, <2>2 DEF Marked, AnyVersion
  <2>4. ASSUME NEW f \in Members[marker["http"]] PROVE tree'[<<"http", f>>] = tree[<<"http", f>>]
    <3>1. <<"http", f>> \in Lab!Names BY <2>3, NamesApart
    <3>2. <<"http", f>>[1] # d BY <2>1
    <3> QED BY <3>1, <3>2
  <2> QED BY <2>2, <2>3, <2>4 DEF WholeHttp
<1>4. ASSUME marker'["hf"] # None, "hf" \notin cut' PROVE WholeHf(tree', marker'["hf"])
  <2>1. d # "hf" BY <1>4
  <2>2. marker'["hf"] = marker["hf"] /\ "hf" \notin cut BY <1>1, <1>4, <2>1
  <2>3. WholeHf(tree, marker["hf"]) /\ marker["hf"] \in Versions BY <1>2, <1>4, <2>2 DEF Marked, AnyVersion
  <2>4. <<"hf", marker["hf"]>> \in Lab!Names BY <2>3, NamesApart
  <2>5. <<"hf", marker["hf"]>>[1] # d BY <2>1
  <2> QED BY <2>2, <2>3, <2>4, <2>5 DEF WholeHf
<1> QED BY <1>3, <1>4 DEF Marked

\* What is taken out and what is unpacked are files of that dataset.
LEMMA WritesOne ==
  ASSUME Lab!LabAssumption, LabTypes, NEW d \in {"http", "hf"}
  PROVE  /\ \A names \in SUBSET Lab!Of(d) :
              /\ Lab!Without(names) \in [Lab!Names -> AnyVersion]
              /\ \A n \in Lab!Names : n[1] # d => Lab!Without(names)[n] = tree[n]
         /\ \A names \in SUBSET Lab!Unpacked(d) : (d = "http" => archive \in Versions)
              => /\ Lab!With(names) \in [Lab!Names -> AnyVersion]
                 /\ \A n \in Lab!Names : n[1] # d => Lab!With(names)[n] = tree[n]
         /\ d = "http" /\ archive \in Versions => WholeHttp(Lab!With(Lab!Unpacked(d)), archive)
         /\ d = "hf" => \A v \in snapshot : WholeHf(Lab!With(Lab!Unpacked(d)), v)
<1>1. d \in Lab!Sets BY DEF Lab!Sets
<1>2. tree \in [Lab!Names -> AnyVersion] /\ snapshot \subseteq Versions BY DEF LabTypes
<1>3. ASSUME NEW names \in SUBSET Lab!Of(d)
      PROVE  /\ Lab!Without(names) \in [Lab!Names -> AnyVersion]
             /\ \A n \in Lab!Names : n[1] # d => Lab!Without(names)[n] = tree[n]
  <2>1. \A n \in Lab!Names : n[1] # d => n \notin names BY <1>1, NamesApart
  <2> QED BY <1>2, <2>1 DEF Lab!Without, AnyVersion
<1>4. ASSUME d = "http", archive \in Versions
      PROVE  \A n \in Lab!Unpacked(d) : n[1] = "http"
  BY <1>4 DEF Lab!Unpacked
<1>5. ASSUME d = "hf" PROVE \A n \in Lab!Unpacked(d) : n[1] = "hf" /\ n[2] \in Versions
  BY <1>2, <1>5 DEF Lab!Unpacked
<1>6. ASSUME NEW names \in SUBSET Lab!Unpacked(d), d = "http" => archive \in Versions
      PROVE  /\ Lab!With(names) \in [Lab!Names -> AnyVersion]
             /\ \A n \in Lab!Names : n[1] # d => Lab!With(names)[n] = tree[n]
  <2>1. CASE d = "http" BY <1>2, <1>4, <1>6, <2>1 DEF Lab!With, AnyVersion
  <2>2. CASE d = "hf" BY <1>2, <1>5, <1>6, <2>2 DEF Lab!With, AnyVersion
  <2> QED BY <2>1, <2>2
<1>7. ASSUME d = "http", archive \in Versions PROVE WholeHttp(Lab!With(Lab!Unpacked(d)), archive)
  <2> SUFFICES ASSUME NEW f \in Members[archive] PROVE Lab!With(Lab!Unpacked(d))[<<"http", f>>] = archive
    BY DEF WholeHttp
  <2>1. <<"http", f>> \in Lab!Names BY <1>7, NamesApart
  <2>2. <<"http", f>> \in Lab!Unpacked(d) BY <1>7 DEF Lab!Unpacked
  <2>3. <<"http", f>>[1] = "http" OBVIOUS
  <2> HIDE DEF Lab!Unpacked
  <2> QED BY <2>1, <2>2, <2>3 DEF Lab!With
<1>8. ASSUME d = "hf", NEW v \in snapshot PROVE WholeHf(Lab!With(Lab!Unpacked(d)), v)
  <2>1. <<"hf", v>> \in Lab!Names BY <1>2, NamesApart
  <2>2. <<"hf", v>> \in Lab!Unpacked(d) BY <1>8 DEF Lab!Unpacked
  <2>3. <<"hf", v>>[1] = "hf" /\ <<"hf", v>>[2] = v OBVIOUS
  <2> QED BY <2>1, <2>2, <2>3 DEF Lab!With, WholeHf
<1> QED BY <1>3, <1>6, <1>7, <1>8

\* A write that a build did not see leaves its files as they are.
LEMMA VerifyingKept ==
  ASSUME Verifying, NEW t, Lab!Writes(t), UNCHANGED <<manifest, building, labCorpus>>, building \in BOOLEAN, disturbed \in BOOLEAN
  PROVE  Verifying' /\ disturbed' \in BOOLEAN /\ tree' = t
<1>1. disturbed' \in BOOLEAN /\ tree' = t /\ (~disturbed' => ~disturbed /\ (building => t = tree)) BY DEF Lab!Writes
<1>2. (manifest # None => manifest.files = [n \in DOMAIN manifest.files |-> manifest.files[n]])'
      /\ (building => manifest # None /\ labCorpus = None)'
  BY DEF Verifying
<1>3. (building /\ ~disturbed => Lab!FilesHold(manifest))'
  BY <1>1 DEF Verifying, Lab!FilesHold
<1>4. Lab!CorpusBound' BY <1>1 DEF Verifying, Lab!CorpusBound
<1> QED BY <1>1, <1>2, <1>3, <1>4 DEF Verifying

LEMMA VerifyingStill ==
  ASSUME Verifying, UNCHANGED <<manifest, building, labCorpus, disturbed, tree>>
  PROVE  Verifying'
BY DEF Verifying, Lab!FilesHold, Lab!CorpusBound

LEMMA MarkedStill == ASSUME Marked, UNCHANGED <<marker, tree, cut>> PROVE Marked'
BY DEF Marked, WholeHttp, WholeHf

LEMMA LabStays == ASSUME LabInv, UNCHANGED laboratoryVars PROVE LabInv'
<1> USE DEF LabInv, laboratoryVars
<1>1. LabTypes' BY DEF LabTypes, ToDo
<1>2. OnItsWay' BY DEF OnItsWay, Lab!Dataset, Lab!PinHolds
<1>3. Complete' BY DEF Complete, Lab!Dataset, WholeHttp, WholeHf
<1>4. Marked' /\ Verifying' BY MarkedStill, VerifyingStill
<1> QED BY <1>1, <1>2, <1>3, <1>4

\* What is left to do.
LEMMA Exits == ASSUME Lab!Exit PROVE ToDo' /\ pc' = "idle"
BY DEF Lab!Exit, ToDo

LEMMA Finishes == ASSUME ToDo, pc # "idle", Lab!Done PROVE ToDo' /\ pc' \in {"idle", "fetch"}
<1>1. ASSUME NEW q \in Seq(Lab!Sets), q # <<>>
      PROVE  Tail(q) \in Seq(Lab!Sets) /\ (Len(q) # 1 => Tail(q) # <<>>)
  <2>1. Tail(q) \in Seq(Lab!Sets) /\ Len(Tail(q)) = Len(q) - 1 BY <1>1, HeadTailProperties
  <2>2. Len(q) \in Nat \ {0} BY <1>1, EmptySeq
  <2>3. Tail(q) = <<>> => Len(Tail(q)) = 0
    <3>1. Len(<<>>) = 0 BY EmptySeq
    <3> QED BY <3>1, Zenon
  <2> QED BY <2>1, <2>2, <2>3
<1>2. Tail(todo) \in Seq(Lab!Sets) /\ (Len(todo) # 1 => Tail(todo) # <<>>)
  BY <1>1 DEF ToDo
<1> QED BY <1>2 DEF ToDo, Lab!Done

LEMMA FirstToDo == ASSUME ToDo, pc # "idle" PROVE Lab!Dataset \in Lab!Sets
<1>1. ASSUME NEW q \in Seq(Lab!Sets), q # <<>> PROVE Head(q) \in Lab!Sets
  BY <1>1
<1> QED BY <1>1 DEF ToDo, Lab!Dataset

LEMMA AfterMarkerGoes ==
  ASSUME ToDo, pc = "fetch", NEW bound, Lab!AfterMarker(bound)
  PROVE  /\ ToDo'
         /\ \/ pc' \in {"idle", "fetch"}
            \/ /\ UNCHANGED todo /\ pc' \in {"remove", "extract"}
               /\ pc' = "extract" => marker[Lab!Dataset] = None
<1>1. CASE marker[Lab!Dataset] # None /\ ~forced
  BY <1>1, Exits, Finishes DEF Lab!AfterMarker
<1>2. CASE ~(marker[Lab!Dataset] # None /\ ~forced)
  <2>1. UNCHANGED todo /\ pc' \in {"remove", "extract"} BY <1>2 DEF Lab!AfterMarker, Lab!GoOn
  <2>2. pc' = "extract" => ~(forced /\ marker[Lab!Dataset] # None) BY <1>2 DEF Lab!AfterMarker, Lab!GoOn
  <2> QED BY <1>2, <2>1, <2>2 DEF ToDo, Unpacking
<1> QED BY <1>1, <1>2

LEMMA LabctlStep ==
  ASSUME LabInv, Lab!LabAssumption,
         \/ \E ds \in Lab!Profiles, f \in BOOLEAN : Lab!Materialize(ds, f)
         \/ Lab!Fetch \/ Lab!Bind \/ Lab!Snapshot \/ \E skip \in BOOLEAN : Lab!Operator(skip)
  PROVE  LabInv'
<1> USE DEF LabInv, Lab!Aside, Lab!locks, Lab!builder, Lab!store
<1>0. UNCHANGED <<pin, revision, upstream, tree, marker, manifest, building, labCorpus, disturbed, cut>>
  BY DEF Lab!Materialize, Lab!Fetch, Lab!Bind, Lab!Snapshot, Lab!Operator
<1>00. Marked' /\ Verifying' BY <1>0, MarkedStill, VerifyingStill
<1>1. ASSUME NEW ds \in Lab!Profiles, NEW f \in BOOLEAN, Lab!Materialize(ds, f) PROVE LabInv'
  <2>1. ds \in Seq(Lab!Sets) /\ ds # <<>>
    <3>1. ds = <<"hf", "http">> \/ ds = <<"hf", "http", "op">> BY DEF Lab!Profiles
    <3>2. <<"hf", "http">> \in Seq(Lab!Sets) /\ <<"hf", "http", "op">> \in Seq(Lab!Sets) BY DEF Lab!Sets
    <3>3. Len(<<"hf", "http">>) = 2 /\ Len(<<"hf", "http", "op">>) = 3 /\ Len(<<>>) = 0 OBVIOUS
    <3>4. Len(ds) # Len(<<>>) BY <3>1, <3>3
    <3>5. ds # <<>> BY <3>4
    <3> QED BY <3>1, <3>2, <3>5
  <2>2. todo' = ds /\ pc' = "fetch" /\ UNCHANGED <<archive, snapshot>> BY <1>1 DEF Lab!Materialize
  <2>3. LabTypes' BY <1>0, <2>1, <2>2 DEF LabTypes, ToDo
  <2>4. OnItsWay' /\ Complete' BY <2>2 DEF OnItsWay, Complete, Unpacking
  <2> QED BY <1>00, <2>3, <2>4
<1>2. ASSUME Lab!Fetch PROVE LabInv'
  <2>1. archive' = upstream /\ pc' = "fetch" /\ pc = "fetch" /\ UNCHANGED <<todo, snapshot>> BY <1>2 DEF Lab!Fetch, Lab!GoOn, Lab!At
  <2>2. LabTypes' BY <1>0, <2>1 DEF LabTypes, ToDo, AnyVersion
  <2>3. OnItsWay' /\ Complete' BY <2>1 DEF OnItsWay, Complete, Unpacking
  <2> QED BY <1>00, <2>2, <2>3
<1>3. ASSUME Lab!Bind PROVE LabInv'
  <2>1. pc = "fetch" /\ Lab!Dataset = "http" /\ archive # None /\ UNCHANGED <<archive, snapshot>>
    BY <1>3 DEF Lab!Bind, Lab!At
  <2>2. ToDo BY DEF LabTypes
  <2>3. \/ ToDo' /\ pc' \in {"idle", "fetch"}
        \/ /\ ToDo' /\ UNCHANGED todo /\ pc' \in {"remove", "extract"}
           /\ pc' = "extract" => marker["http"] = None
           /\ Lab!PinHolds(archive)
    <3>1. CASE Lab!PinHolds(archive) /\ Lab!SealHolds(archive)
      <4>1. Lab!AfterMarker(marker["http"] = archive) BY <1>3, <3>1 DEF Lab!Bind
      <4> QED BY <2>1, <2>2, <3>1, <4>1, AfterMarkerGoes
    <3>2. CASE ~(Lab!PinHolds(archive) /\ Lab!SealHolds(archive))
      <4>1. Lab!Exit BY <1>3, <3>2 DEF Lab!Bind
      <4> QED BY <4>1, Exits
    <3> QED BY <3>1, <3>2
  <2>4. LabTypes' BY <1>0, <2>1, <2>3 DEF LabTypes
  <2>5. OnItsWay'
    <3>1. CASE pc' \in {"idle", "fetch"} BY <3>1 DEF OnItsWay, Unpacking
    <3>2. CASE pc' \notin {"idle", "fetch"}
      <4>1. UNCHANGED <<todo, archive, pin, marker>> /\ pc' \in {"remove", "extract"}
            /\ (pc' = "extract" => marker["http"] = None) /\ Lab!PinHolds(archive)
        BY <1>0, <2>1, <2>3, <3>2
      <4>2. Lab!Dataset' = "http" BY <2>1, <4>1 DEF Lab!Dataset
      <4> QED BY <2>1, <4>1, <4>2 DEF OnItsWay, Lab!PinHolds
    <3> QED BY <3>1, <3>2
  <2>6. Complete' BY <2>3 DEF Complete
  <2> QED BY <1>00, <2>4, <2>5, <2>6
<1>4. ASSUME Lab!Snapshot PROVE LabInv'
  <2>1. pc = "fetch" /\ Lab!Dataset = "hf" /\ snapshot' = snapshot \cup {revision} /\ UNCHANGED archive
    BY <1>4 DEF Lab!Snapshot, Lab!At
  <2>2. ToDo BY DEF LabTypes
  <2>3. \/ ToDo' /\ pc' \in {"idle", "fetch"}
        \/ /\ ToDo' /\ UNCHANGED todo /\ pc' \in {"remove", "extract"}
           /\ pc' = "extract" => marker["hf"] = None
    <3>1. Lab!AfterMarker(marker["hf"] = revision) BY <1>4 DEF Lab!Snapshot
    <3> QED BY <2>1, <2>2, <3>1, AfterMarkerGoes
  <2>4. LabTypes' BY <1>0, <2>1, <2>3 DEF LabTypes
  <2>5. OnItsWay'
    <3>1. CASE pc' \in {"idle", "fetch"} BY <3>1 DEF OnItsWay, Unpacking
    <3>2. CASE pc' \notin {"idle", "fetch"}
      <4>1. UNCHANGED <<todo, revision, marker>> /\ pc' \in {"remove", "extract"} /\ (pc' = "extract" => marker["hf"] = None)
        BY <1>0, <2>3, <3>2
      <4>2. Lab!Dataset' = "hf" BY <2>1, <4>1 DEF Lab!Dataset
      <4>3. revision' \in snapshot' BY <2>1, <4>1
      <4> QED BY <4>1, <4>2, <4>3 DEF OnItsWay
    <3> QED BY <3>1, <3>2
  <2>6. Complete' BY <2>3 DEF Complete
  <2> QED BY <1>00, <2>4, <2>5, <2>6
<1>5. ASSUME NEW skip \in BOOLEAN, Lab!Operator(skip) PROVE LabInv'
  <2>1. pc = "fetch" /\ UNCHANGED <<archive, snapshot>> BY <1>5 DEF Lab!Operator, Lab!At
  <2>2. ToDo BY DEF LabTypes
  <2>3. ToDo' /\ pc' \in {"idle", "fetch"} BY <1>5, <2>1, <2>2, Exits, Finishes DEF Lab!Operator
  <2>4. LabTypes' BY <1>0, <2>1, <2>3 DEF LabTypes
  <2>5. OnItsWay' /\ Complete' BY <2>3 DEF OnItsWay, Complete, Unpacking
  <2> QED BY <1>00, <2>4, <2>5
<1> HIDE DEF LabInv
<1> QED BY <1>1, <1>2, <1>3, <1>4, <1>5

LEMMA UnpackStep ==
  ASSUME LabInv, Lab!LabAssumption, Lab!Remove \/ Lab!Extract \/ Lab!Mark
  PROVE  LabInv'
<1> USE DEF LabInv, Lab!Aside, Lab!locks, Lab!builder
<1> DEFINE d == Lab!Dataset
<1>0. /\ pc \in Unpacking /\ d \in {"http", "hf"} /\ d \in Lab!Sets
      /\ UNCHANGED <<pin, revision, upstream, archive, snapshot, manifest, building, labCorpus>>
  <2>1. pc \in Unpacking BY DEF Lab!Remove, Lab!Extract, Lab!Mark, Unpacking
  <2> QED BY <2>1 DEF Lab!Remove, Lab!Extract, Lab!Mark, OnItsWay, Lab!Sets
<1>01. building \in BOOLEAN /\ disturbed \in BOOLEAN /\ ToDo /\ LabTypes /\ Marked /\ Verifying BY DEF LabTypes
<1>1. ASSUME Lab!Remove PROVE LabInv'
  <2>1. pc = "remove" /\ UNCHANGED todo /\ pc' = "extract" /\ Lab!Writes(Lab!Without(Lab!Of(d)))
        /\ marker' = [marker EXCEPT ![d] = None] /\ cut' = cut \ {d}
    BY <1>1 DEF Lab!Remove, Lab!GoOn
  <2>2. Verifying' /\ disturbed' \in BOOLEAN /\ tree' = Lab!Without(Lab!Of(d))
    <3> HIDE DEF d
    <3> QED BY <1>0, <1>01, <2>1, VerifyingKept
  <2>3. tree' \in [Lab!Names -> AnyVersion] /\ (\A n \in Lab!Names : n[1] # d => tree'[n] = tree[n])
    <3> HIDE DEF d
    <3> QED BY <1>0, <1>01, <2>2, WritesOne
  <2>4. marker' \in [Lab!Sets -> AnyVersion] /\ marker'[d] = None /\ (\A e \in Lab!Sets : e # d => marker'[e] = marker[e])
    <3>1. marker \in [Lab!Sets -> AnyVersion] BY <1>01 DEF LabTypes
    <3> HIDE DEF d
    <3> QED BY <1>0, <2>1, <3>1 DEF AnyVersion
  <2>5. Marked'
    <3> HIDE DEF d
    <3> QED BY <1>0, <1>01, <2>1, <2>3, <2>4, MarkedKept
  <2>6. ToDo' BY <1>01, <2>1 DEF ToDo, Unpacking
  <2>7. LabTypes' BY <1>0, <1>01, <2>2, <2>3, <2>4, <2>6 DEF LabTypes
  <2>8. Lab!Dataset' = d BY <2>1 DEF Lab!Dataset
  <2>9. OnItsWay'
    <3> HIDE DEF d
    <3> QED BY <1>0, <2>1, <2>4, <2>8 DEF OnItsWay, Lab!PinHolds, d
  <2>10. Complete' BY <2>1 DEF Complete
  <2> QED BY <2>2, <2>5, <2>7, <2>9, <2>10
<1>2. ASSUME Lab!Extract PROVE LabInv'
  <2>1. pc = "extract" /\ UNCHANGED <<marker, cut>> BY <1>2 DEF Lab!Extract
  <2>2. CASE d = "http" /\ archive = Partial
    <3>1. Lab!Exit /\ UNCHANGED <<tree, disturbed>> BY <1>2, <2>2 DEF Lab!Extract
    <3>2. ToDo' /\ pc' = "idle" BY <3>1, Exits
    <3>3. Marked' /\ Verifying' BY <1>0, <2>1, <3>1, MarkedStill, VerifyingStill
    <3>4. LabTypes' BY <1>0, <2>1, <3>1, <3>2 DEF LabTypes
    <3>5. OnItsWay' /\ Complete' BY <3>2 DEF OnItsWay, Complete, Unpacking
    <3> QED BY <3>3, <3>4, <3>5
  <2>3. CASE ~(d = "http" /\ archive = Partial)
    <3>1. Lab!Writes(Lab!With(Lab!Unpacked(d))) /\ UNCHANGED todo /\ pc' = "mark"
      BY <1>2, <2>3 DEF Lab!Extract, Lab!GoOn
    <3>2. Verifying' /\ disturbed' \in BOOLEAN /\ tree' = Lab!With(Lab!Unpacked(d))
      <4> HIDE DEF d
      <4> QED BY <1>0, <1>01, <3>1, VerifyingKept
    <3>3. d = "http" => archive \in Versions
      BY <1>0, <1>01, <2>3 DEF LabTypes, AnyVersion, OnItsWay
    <3>4. /\ tree' \in [Lab!Names -> AnyVersion] /\ (\A n \in Lab!Names : n[1] # d => tree'[n] = tree[n])
          /\ (d = "http" => WholeHttp(tree', archive))
          /\ (d = "hf" => \A v \in snapshot : WholeHf(tree', v))
      <4> HIDE DEF d
      <4> QED BY <1>0, <1>01, <3>2, <3>3, WritesOne
    <3>5. marker[d] = None BY <1>0, <2>1 DEF OnItsWay
    <3>6. Marked'
      <4> HIDE DEF d
      <4> QED BY <1>0, <1>01, <2>1, <3>4, <3>5, MarkedKept
    <3>7. ToDo' BY <1>01, <2>1, <3>1 DEF ToDo, Unpacking
    <3>8. LabTypes' BY <1>0, <1>01, <2>1, <3>2, <3>4, <3>7 DEF LabTypes
    <3>9. Lab!Dataset' = d BY <3>1 DEF Lab!Dataset
    <3>10. OnItsWay'
      <4> HIDE DEF d
      <4> QED BY <1>0, <2>1, <3>1, <3>5, <3>9 DEF OnItsWay, Lab!PinHolds, d
    <3>11. Complete'
      <4>1. d = "hf" => revision \in snapshot BY <1>0 DEF OnItsWay
      <4> HIDE DEF d
      <4> QED BY <1>0, <3>1, <3>3, <3>4, <3>9, <4>1 DEF Complete
    <3> QED BY <3>2, <3>6, <3>8, <3>10, <3>11
  <2> QED BY <2>2, <2>3
<1>3. ASSUME Lab!Mark PROVE LabInv'
  <2>1. pc = "mark" /\ UNCHANGED <<tree, cut, disturbed>> BY <1>3 DEF Lab!Mark
  <2>2. Verifying' BY <1>0, <1>01, <2>1, VerifyingStill
  <2>3. \/ d = "http" /\ marker' = [marker EXCEPT !["http"] = archive] /\ Lab!Done
        \/ d = "hf" /\ marker' = [marker EXCEPT !["hf"] = revision] /\ Lab!Done
        \/ Lab!Exit /\ UNCHANGED marker
    BY <1>0, <1>3 DEF Lab!Mark
  <2>4. ToDo' /\ pc' \in {"idle", "fetch"} BY <1>01, <2>1, <2>3, Exits, Finishes
  <2>5. marker \in [Lab!Sets -> AnyVersion] /\ "http" \in Lab!Sets /\ "hf" \in Lab!Sets BY <1>01 DEF LabTypes, Lab!Sets
  <2>6. d = "http" => archive \in Versions /\ WholeHttp(tree, archive) BY <2>1 DEF Complete
  <2>7. d = "hf" => revision \in Versions /\ WholeHf(tree, revision) BY <1>01, <2>1 DEF Complete, LabTypes
  <2>8. marker' \in [Lab!Sets -> AnyVersion] BY <2>3, <2>5, <2>6, <2>7 DEF AnyVersion
  <2>9. Marked'
    <3>1. CASE d = "http" /\ marker' = [marker EXCEPT !["http"] = archive]
      <4>1. marker'["http"] = archive /\ marker'["hf"] = marker["hf"] BY <2>5, <3>1
      <4> QED BY <1>01, <2>1, <2>6, <3>1, <4>1 DEF Marked, WholeHttp, WholeHf
    <3>2. CASE d = "hf" /\ marker' = [marker EXCEPT !["hf"] = revision]
      <4>1. marker'["hf"] = revision /\ marker'["http"] = marker["http"] BY <2>5, <3>2
      <4> QED BY <1>01, <2>1, <2>7, <3>2, <4>1 DEF Marked, WholeHttp, WholeHf
    <3>3. CASE UNCHANGED marker BY <1>01, <2>1, <3>3, MarkedStill
    <3> QED BY <2>3, <3>1, <3>2, <3>3
  <2>10. LabTypes' BY <1>0, <1>01, <2>1, <2>4, <2>8 DEF LabTypes
  <2>11. OnItsWay' /\ Complete' BY <2>4 DEF OnItsWay, Complete, Unpacking
  <2> QED BY <2>2, <2>9, <2>10, <2>11
<1> HIDE DEF LabInv
<1> QED BY <1>1, <1>2, <1>3

LEMMA DieStep == ASSUME LabInv, Lab!LabAssumption, Lab!Die PROVE LabInv'
<1> USE DEF LabInv, Lab!Aside, Lab!locks, Lab!builder
<1> DEFINE d == Lab!Dataset
<1>0. /\ pc # "idle" /\ Lab!Exit
      /\ UNCHANGED <<pin, revision, upstream, snapshot, manifest, building, labCorpus>>
  BY DEF Lab!Die
<1>01. building \in BOOLEAN /\ disturbed \in BOOLEAN /\ ToDo /\ LabTypes /\ Marked /\ Verifying BY DEF LabTypes
<1>02. ToDo' /\ OnItsWay' /\ Complete'
  <2>1. ToDo' /\ pc' = "idle" BY <1>0, Exits
  <2> QED BY <2>1 DEF OnItsWay, Complete, Unpacking
<1>03. marker \in [Lab!Sets -> AnyVersion] /\ tree \in [Lab!Names -> AnyVersion] BY DEF LabTypes
<1>1. CASE Lab!At("http", "fetch") /\ archive = None
  <2>1. archive' = Partial /\ UNCHANGED <<tree, marker, cut, disturbed>>
    BY <1>1 DEF Lab!Die, Lab!At
  <2>2. Marked' /\ Verifying' BY <1>0, <1>01, <2>1, MarkedStill, VerifyingStill
  <2>3. LabTypes' BY <1>0, <1>01, <1>02, <2>1 DEF LabTypes
  <2> QED BY <1>02, <2>2, <2>3
<1>2. CASE pc = "remove"
  <2>0. d \in {"http", "hf"} /\ d \in Lab!Sets BY <1>2 DEF OnItsWay, Unpacking, Lab!Sets
  <2>1. /\ \E gone \in SUBSET Lab!Of(d) : Lab!Writes(Lab!Without(gone))
        /\ \E left \in {marker[d], None} :
              /\ marker' = [marker EXCEPT ![d] = left]
              /\ cut' = IF left # None THEN cut \cup {d} ELSE cut \ {d}
        /\ UNCHANGED archive
    BY <1>2 DEF Lab!Die, Lab!At
  <2> HIDE DEF d
  <2>2. PICK gone \in SUBSET Lab!Of(d) : Lab!Writes(Lab!Without(gone)) BY <2>1
  <2>3. PICK left \in {marker[d], None} :
              /\ marker' = [marker EXCEPT ![d] = left]
              /\ cut' = IF left # None THEN cut \cup {d} ELSE cut \ {d}
    BY <2>1
  <2>4. Verifying' /\ disturbed' \in BOOLEAN /\ tree' = Lab!Without(gone)
    BY <1>0, <1>01, <2>2, VerifyingKept
  <2>5. tree' \in [Lab!Names -> AnyVersion] /\ (\A n \in Lab!Names : n[1] # d => tree'[n] = tree[n])
    BY <1>01, <2>0, <2>4, WritesOne
  <2>6. /\ marker' \in [Lab!Sets -> AnyVersion] /\ marker'[d] = left
        /\ \A e \in Lab!Sets : e # d => marker'[e] = marker[e] /\ (e \in cut => e \in cut')
        /\ marker'[d] = None \/ d \in cut'
    BY <1>03, <2>0, <2>3 DEF AnyVersion
  <2>7. Marked' BY <1>01, <2>0, <2>5, <2>6, MarkedKept
  <2>8. LabTypes' BY <1>0, <1>01, <1>02, <2>1, <2>4, <2>5, <2>6 DEF LabTypes
  <2> QED BY <1>02, <2>4, <2>7, <2>8
<1>3. CASE pc = "extract" /\ ~(d = "http" /\ archive = Partial)
  <2>0. d \in {"http", "hf"} /\ d \in Lab!Sets /\ marker[d] = None
    BY <1>3 DEF OnItsWay, Unpacking, Lab!Sets
  <2>1. (\E some \in SUBSET Lab!Unpacked(d) : Lab!Writes(Lab!With(some))) /\ UNCHANGED <<archive, marker, cut>>
    BY <1>3 DEF Lab!Die, Lab!At
  <2>2. d = "http" => archive \in Versions
    BY <1>01, <1>3 DEF LabTypes, AnyVersion, OnItsWay, Unpacking
  <2> HIDE DEF d
  <2>3. PICK some \in SUBSET Lab!Unpacked(d) : Lab!Writes(Lab!With(some)) BY <2>1
  <2>4. Verifying' /\ disturbed' \in BOOLEAN /\ tree' = Lab!With(some)
    BY <1>0, <1>01, <2>3, VerifyingKept
  <2>5. tree' \in [Lab!Names -> AnyVersion] /\ (\A n \in Lab!Names : n[1] # d => tree'[n] = tree[n])
    BY <1>01, <2>0, <2>2, <2>4, WritesOne
  <2>6. Marked' BY <1>01, <2>0, <2>1, <2>5, MarkedKept
  <2>7. LabTypes' BY <1>0, <1>01, <1>02, <2>1, <2>4, <2>5 DEF LabTypes
  <2> QED BY <1>02, <2>4, <2>6, <2>7
<1>4. CASE /\ ~(Lab!At("http", "fetch") /\ archive = None) /\ pc # "remove"
           /\ ~(pc = "extract" /\ ~(d = "http" /\ archive = Partial))
  <2>1. UNCHANGED <<archive, tree, marker, cut, disturbed>> BY <1>4 DEF Lab!Die
  <2>2. Marked' /\ Verifying' BY <1>0, <1>01, <2>1, MarkedStill, VerifyingStill
  <2>3. LabTypes' BY <1>0, <1>01, <1>02, <2>1 DEF LabTypes
  <2> QED BY <1>02, <2>2, <2>3
<1> HIDE DEF LabInv
<1> QED BY <1>1, <1>2, <1>3, <1>4

LEMMA OutsideStep ==
  ASSUME LabInv, Lab!LabAssumption, Lab!Change \/ \E v \in Versions : Lab!Adopt(v)
  PROVE  LabInv'
<1> USE DEF LabInv, Lab!locks, Lab!builder, Lab!labctl
<1>0. building \in BOOLEAN /\ disturbed \in BOOLEAN /\ ToDo /\ LabTypes /\ Marked /\ Verifying
      /\ marker \in [Lab!Sets -> AnyVersion] /\ tree \in [Lab!Names -> AnyVersion]
  BY DEF LabTypes
<1>1. ASSUME Lab!Change PROVE LabInv'
  <2>1. UNCHANGED <<snapshot, tree, marker, todo, forced, pc, manifest, building, labCorpus, deaths, cut>>
    BY <1>1 DEF Lab!Change
  <2>2. /\ upstream' \in Versions /\ pin' \in AnyVersion /\ revision' \in Versions
        /\ archive' = archive \/ archive' = None
        /\ disturbed' = disturbed \/ disturbed' = (disturbed \/ building)
        /\ pc # "idle" => UNCHANGED <<pin, revision, archive>>
    BY <1>0, <1>1 DEF Lab!Change, LabTypes, AnyVersion
  <2>3. disturbed' \in BOOLEAN /\ (~disturbed' => ~disturbed) BY <1>0, <2>2
  <2>4. Verifying' BY <1>0, <2>1, <2>3 DEF Verifying, Lab!FilesHold, Lab!CorpusBound
  <2>5. Marked' BY <1>0, <2>1, MarkedStill
  <2>6. LabTypes' BY <1>0, <2>1, <2>2, <2>3 DEF LabTypes, ToDo, AnyVersion
  <2>7. OnItsWay' BY <2>1, <2>2 DEF OnItsWay, Unpacking, Lab!Dataset, Lab!PinHolds
  <2>8. Complete' BY <2>1, <2>2 DEF Complete, Lab!Dataset, WholeHttp, WholeHf
  <2> QED BY <2>4, <2>5, <2>6, <2>7, <2>8
<1>2. ASSUME NEW v \in Versions, Lab!Adopt(v) PROVE LabInv'
  <2> DEFINE t == [tree EXCEPT ![<<"op", "op">>] = v]
  <2>1. /\ Lab!Writes(t) /\ marker' = [marker EXCEPT !["op"] = v] /\ pc = "idle"
        /\ UNCHANGED <<pin, revision, upstream, archive, snapshot, todo, pc, manifest, building, labCorpus, cut>>
    BY <1>2 DEF Lab!Adopt, Lab!Aside
  <2>2. t \in [Lab!Names -> AnyVersion] /\ (\A n \in Lab!Names : n[1] # "op" => t[n] = tree[n])
    <3>1. t \in [Lab!Names -> AnyVersion] BY <1>0 DEF AnyVersion
    <3>2. ASSUME NEW n \in Lab!Names, n[1] # "op" PROVE t[n] = tree[n]
      <4>1. n # <<"op", "op">> BY <3>2
      <4> QED BY <1>0, <4>1
    <3> QED BY <3>1, <3>2
  <2> HIDE DEF t
  <2>3. Verifying' /\ disturbed' \in BOOLEAN /\ tree' = t BY <1>0, <2>1, VerifyingKept
  <2>4. marker' \in [Lab!Sets -> AnyVersion] /\ \A e \in Lab!Sets : e # "op" => marker'[e] = marker[e]
    BY <1>0, <2>1 DEF AnyVersion
  <2>5. "op" \in Lab!Sets BY DEF Lab!Sets
  <2>6. Marked' BY <1>0, <2>1, <2>2, <2>3, <2>4, <2>5, MarkedKept
  <2>7. LabTypes' BY <1>0, <2>1, <2>2, <2>3, <2>4 DEF LabTypes, ToDo
  <2>8. OnItsWay' /\ Complete' BY <2>1 DEF OnItsWay, Complete, Unpacking
  <2> QED BY <2>3, <2>6, <2>7, <2>8
<1> HIDE DEF LabInv
<1> QED BY <1>1, <1>2

LEMMA CorpusStep ==
  ASSUME LabInv, (\E ds \in Lab!Profiles : Lab!Scan(ds)) \/ Lab!StartBuild \/ Lab!ReadFiles
  PROVE  LabInv'
<1> USE DEF LabInv, Lab!locks, Lab!store, Lab!labctl
<1>1. UNCHANGED <<pin, revision, catalog, upstream, archive, snapshot, seal, tree, marker, todo, forced, pc, cut>>
  BY DEF Lab!Scan, Lab!StartBuild, Lab!ReadFiles
<1>2. building' \in BOOLEAN /\ disturbed' \in BOOLEAN BY DEF LabTypes, Lab!Scan, Lab!StartBuild, Lab!ReadFiles
<1>3. LabTypes' BY <1>1, <1>2 DEF LabTypes, ToDo
<1>4. OnItsWay' BY <1>1 DEF OnItsWay, Lab!Dataset, Lab!PinHolds
<1>5. Complete' BY <1>1 DEF Complete, Lab!Dataset, WholeHttp, WholeHf
<1>6. Marked' BY <1>1, MarkedStill
<1>7. Verifying'
  <2>1. ASSUME NEW ds \in Lab!Profiles, Lab!Scan(ds) PROVE Verifying'
    <3> DEFINE S == UNION {Lab!Found(e) : e \in Lab!Range(ds)}
    <3>1. manifest'.files = [n \in S |-> tree[n]] /\ labCorpus' = None /\ building' = building /\ ~building
      BY <2>1 DEF Lab!Scan
    <3> HIDE DEF S
    <3>2. manifest'.files = [n \in DOMAIN manifest'.files |-> manifest'.files[n]] BY <3>1
    <3>3. Lab!CorpusBound' BY <3>1 DEF Lab!CorpusBound
    <3> QED BY <3>1, <3>2, <3>3 DEF Verifying
  <2>2. ASSUME Lab!StartBuild PROVE Verifying'
    <3>1. manifest # None /\ Lab!FilesHold(manifest) /\ labCorpus' = None /\ UNCHANGED manifest
      BY <2>2 DEF Lab!StartBuild
    <3>2. Lab!FilesHold(manifest)' BY <1>1, <3>1 DEF Lab!FilesHold
    <3> QED BY <3>1, <3>2 DEF Verifying, Lab!CorpusBound
  <2>3. ASSUME Lab!ReadFiles PROVE Verifying'
    <3> DEFINE ns == DOMAIN manifest.files
    <3>1. /\ building /\ building' = FALSE /\ UNCHANGED <<manifest, disturbed>>
          /\ labCorpus' = None \/ labCorpus' = [n \in ns |-> tree[n]]
      BY <2>3 DEF Lab!ReadFiles, Lab!ReadAgain
    <3>2. manifest # None /\ manifest.files = [n \in ns |-> manifest.files[n]] BY <3>1 DEF Verifying
    <3>3. ASSUME labCorpus' # None, ~disturbed PROVE labCorpus' = manifest.files
      <4>1. \A n \in ns : tree[n] = manifest.files[n] BY <3>1, <3>3 DEF Verifying, Lab!FilesHold
      <4> HIDE DEF ns
      <4> QED BY <3>1, <3>2, <3>3, <4>1
    <3> QED BY <3>1, <3>2, <3>3 DEF Verifying, Lab!CorpusBound
  <2> QED BY <2>1, <2>2, <2>3
<1> QED BY <1>3, <1>4, <1>5, <1>6, <1>7

LEMMA LabStep == ASSUME LabInv, Lab!LabAssumption, Lab!Next PROVE LabInv'
BY LabctlStep, UnpackStep, DieStep, OutsideStep, CorpusStep DEF Lab!Next

\* Under a marker every member of the archive it names is there, nothing the lock does not pin is unpacked,
\* and a corpus is made of what its manifest names, while downloads, removals and builds are cut short and
\* caches, locks and seals change: for all versions, members and numbers of deaths (labctl.py).
THEOREM LabDataKeptHolds == SumSpec => []LabDataKept
<1> DEFINE Inv == which = "lab" => LabInv
<1>0. Lab!LabAssumption BY Bounds
<1>1. SumInit => Inv BY <1>0, LabStarts DEF SumInit
<1>2. Inv /\ [SumNext]_sumVars => Inv'
  <2> SUFFICES ASSUME Inv, [SumNext]_sumVars, which' = "lab" PROVE LabInv' OBVIOUS
  <2>1. CASE UNCHANGED sumVars BY <2>1, LabStays DEF sumVars
  <2>2. CASE SumNext
    <3>1. which = "lab" BY <2>2 DEF SumNext
    <3>2. LabInv /\ Lab!Next BY <2>2, <3>1 DEF SumNext
    <3> QED BY <1>0, <3>2, LabStep
  <2> QED BY <2>1, <2>2
<1>3. Inv => LabDataKept BY LabInvSound DEF LabDataKept
<1> QED BY <1>1, <1>2, <1>3, PTL DEF SumSpec

(***************************************************************************)
(* The public corpora                                                      *)
(***************************************************************************)
\* What a bootstrap has unpacked so far is what its lock pins.
CleanNext == {"b noise", "b index", "b verify"}
SlrNext == {"b dns", "b clean"} \cup CleanNext
Bootstrapped ==
    /\ data = [f \in Public!Files |-> data[f]] /\ "index" \in DOMAIN publicSeal
    /\ publicPc \in SlrNext => slr = lock
    /\ publicPc \in CleanNext => data["clean"] = lock
    /\ publicPc \in {"b index", "b verify"} => data["noise"] = lock
    /\ publicPc = "b verify" => publicSeal.index.of = data
PublicInv == Bootstrapped /\ Public!CorpusSealed /\ Public!ReadyPinned

LEMMA PublicStarts == ASSUME Public!Init PROVE PublicInv
<1>1. Bootstrapped BY DEF Public!Init, Bootstrapped, SlrNext, CleanNext, Public!Files, Public!NoSeal
<1>2. Public!CorpusSealed /\ Public!ReadyPinned
  BY DEF Public!Init, Public!CorpusSealed, Public!Built, Public!ReadyPinned
<1> QED BY <1>1, <1>2 DEF PublicInv

\* Reports are compared field by field, and no result is taken for one that is missing.
LEMMA PairsAreSound == ASSUME Public!PublicAssumption PROVE Public!PairSound
<1> SUFFICES ASSUME NEW bm \in Metric \cup {None}, NEW cm \in Metric \cup {None},
                    NEW gate \in {"passed", "regressed", "incomplete"},
                    Public!Decision(baseline, publicCorpus, bm, cm, gate) = "qualified"
             PROVE  /\ [f \in {"aec", "slr", "data"} |-> baseline[f]] = [f \in {"aec", "slr", "data"} |-> publicCorpus[f]]
                    /\ gate = "passed" /\ (bm = None <=> cm = None) /\ (bm # None => cm >= bm - MaxRegression)
  BY DEF Public!PairSound
<1>1. ~(~Public!SameIdentity(baseline, publicCorpus) \/ ~(bm = None <=> cm = None) \/ gate = "incomplete")
      /\ ~((bm # None /\ bm - cm > MaxRegression) \/ gate = "regressed")
  BY DEF Public!Decision
<1>2. baseline = publicCorpus BY <1>1 DEF Public!SameIdentity
<1>3. bm # None => bm \in Int /\ cm \in Int /\ MaxRegression \in Int BY <1>1 DEF Public!PublicAssumption
<1> QED BY <1>1, <1>2, <1>3

\* What a builder that has looked writes down.
LEMMA SealedIsWritten ==
  ASSUME NEW b \in {"full", "compact", "public"}, Public!Written(b), Public!CorpusSealed,
         publicSeal.lock = lock, Public!AecThere, Public!SlrSealed,
         b = "full" => Public!DnsSealed
  PROVE  Public!CorpusSealed'
<1> DEFINE c == Public!Corpus(b)
<1>1. c.aec = c.lock /\ c.slr \in {None, c.seal.slr} /\ c.lock = c.seal.lock /\ c.by = b /\ c.seal = publicSeal
      /\ c.data = Public!FromDns(b)
  BY DEF Public!Corpus, Public!AecThere, Public!SlrSealed, Public!FromSlr
<1>2. b # "public" => c.data = [f \in DOMAIN c.data |-> c.seal.index.of[f]]
  <2>1. CASE b = "full"
    <3>1. \A f \in Public!Mixed(b) : data[f] = index[publicSeal.index.file][f] BY DEF Public!Written, Public!Attested
    <3>2. publicSeal.index.of = index[publicSeal.index.file] BY <2>1 DEF Public!DnsSealed, Public!Content
    <3>3. \A f \in Public!Mixed(b) : data[f] = c.seal.index.of[f] BY <1>1, <3>1, <3>2
    <3> HIDE DEF c
    <3> QED BY <1>1, <3>3 DEF Public!FromDns
  <2>2. CASE b = "compact"
    <3>1. Public!Mixed(b) = {} BY <2>2 DEF Public!Mixed
    <3> HIDE DEF c
    <3> QED BY <1>1, <3>1 DEF Public!FromDns
  <2> QED BY <2>1, <2>2
<1>3. Public!Built' \subseteq Public!Built \cup {c}
  BY DEF Public!Written, Public!Built
<1> HIDE DEF c
<1> QED BY <1>1, <1>2, <1>3 DEF Public!CorpusSealed

LEMMA PublicStays == ASSUME PublicInv, UNCHANGED publicVars PROVE PublicInv'
BY DEF PublicInv, publicVars, Bootstrapped, Public!CorpusSealed, Public!Built, Public!ReadyPinned

LEMMA PublicStep == ASSUME PublicInv, Public!Next PROVE PublicInv'
<1> USE DEF PublicInv, Public!Rest, Public!Quiet, Public!Goto, Public!End, Public!results, Public!cache, Public!command,
            SlrNext, CleanNext
<1>1. CASE \/ \E p \in {"compact", "full"}, c \in {"aec", "verify"} : Public!Start(p, c)
           \/ Public!Start("full", "b aec") \/ Public!PrepareAec \/ \E allowed \in BOOLEAN : Public!PrepareSlr(allowed)
           \/ Public!SealSlr \/ Public!PrepareDns \/ Public!PrepareIndex \/ Public!SealIndex \/ Public!Verify
           \/ Public!BootstrapAec \/ Public!Change \/ Public!Die
  <2> USE DEF Public!Start, Public!PrepareAec, Public!PrepareSlr, Public!SealSlr, Public!PrepareDns, Public!PrepareIndex,
              Public!SealIndex, Public!Verify, Public!BootstrapAec, Public!Change, Public!Die
  <2>1. publicPc' \in {"aec", "verify", "b aec", "slr", "seal slr", "dns", "index", "seal index", "idle", "b slr"}
    BY <1>1
  <2>2. ready' = None BY <1>1
  <2>3. UNCHANGED <<baseline, publicCorpus>> BY <1>1
  <2>4. UNCHANGED data \/ \E f \in Public!Files, v \in Versions \cup {None} : data' = [data EXCEPT ![f] = v] BY <1>1
  <2>8. DOMAIN publicSeal' = DOMAIN publicSeal BY <1>1 DEF Public!Sealed
  <2>5. Bootstrapped' BY <2>1, <2>4, <2>8 DEF Bootstrapped
  <2>6. Public!CorpusSealed' BY <2>3 DEF Public!CorpusSealed, Public!Built
  <2>7. Public!ReadyPinned' BY <2>2 DEF Public!ReadyPinned
  <2> QED BY <2>5, <2>6, <2>7
<1>2. CASE Public!BootstrapSlr \/ Public!BootstrapDns \/ Public!BootstrapArchive("b clean", "clean", "b noise")
           \/ Public!BootstrapArchive("b noise", "noise", "b index") \/ Public!BootstrapIndex
  <2> USE DEF Public!BootstrapSlr, Public!BootstrapDns, Public!BootstrapArchive, Public!BootstrapIndex, Public!Pinned
  <2>1. ready' = None /\ UNCHANGED <<lock, baseline, publicCorpus>> BY <1>2
  <2>2. Bootstrapped'
    <3>1. CASE Public!BootstrapSlr BY <3>1 DEF Bootstrapped, Public!Sealed
    <3>2. CASE Public!BootstrapDns BY <3>2 DEF Bootstrapped
    <3>3. CASE Public!BootstrapArchive("b clean", "clean", "b noise")
      BY <3>3 DEF Bootstrapped, Public!Files
    <3>4. CASE Public!BootstrapArchive("b noise", "noise", "b index")
      BY <3>4 DEF Bootstrapped, Public!Files
    <3>5. CASE Public!BootstrapIndex BY <3>5 DEF Bootstrapped
    <3> QED BY <1>2, <3>1, <3>2, <3>3, <3>4, <3>5
  <2>3. Public!CorpusSealed' BY <2>1 DEF Public!CorpusSealed, Public!Built
  <2>4. Public!ReadyPinned' BY <2>1 DEF Public!ReadyPinned
  <2> QED BY <2>2, <2>3, <2>4
<1>3. CASE Public!BootstrapVerify
  <2> USE <1>3 DEF Public!BootstrapVerify
  <2>1. publicPc = "b verify" /\ publicPc' = "idle" /\ UNCHANGED <<lock, slr, data, baseline, publicCorpus>> OBVIOUS
  <2>2. slr = lock /\ data["clean"] = lock /\ data["noise"] = lock /\ publicSeal.index.of = data
    BY <2>1 DEF Bootstrapped
  <2>3. ready' = None \/ ready' = [lock |-> lock, slr |-> slr, data |-> data, index |-> publicSeal.index.of] OBVIOUS
  <2>4. Bootstrapped' BY <2>1 DEF Bootstrapped
  <2>5. Public!CorpusSealed' BY <2>1 DEF Public!CorpusSealed, Public!Built
  <2>6. Public!ReadyPinned' BY <2>2, <2>3 DEF Public!ReadyPinned
  <2> QED BY <2>4, <2>5, <2>6
<1>4. CASE Public!BuildFull \/ Public!BuildCompact \/ Public!BuildPublic
  <2>1. UNCHANGED <<lock, aec, audio, dns, data, slr, index, publicSeal, publicPc, profile, ready>>
    BY <1>4 DEF Public!BuildFull, Public!BuildCompact, Public!BuildPublic, Public!Written
  <2>2. Bootstrapped' /\ Public!ReadyPinned' BY <2>1 DEF Bootstrapped, Public!ReadyPinned
  <2>3. PICK b \in {"full", "compact", "public"} :
          /\ Public!Written(b) /\ publicSeal.lock = lock /\ Public!AecThere /\ Public!SlrSealed
          /\ b = "full" => Public!DnsSealed
    BY <1>4 DEF Public!BuildFull, Public!BuildCompact, Public!BuildPublic, Public!Verifies, Public!VerifiesLocally
  <2>4. Public!CorpusSealed' BY <2>3, SealedIsWritten
  <2> QED BY <2>2, <2>4
<1> HIDE DEF PublicInv
<1> QED BY <1>1, <1>2, <1>3, <1>4 DEF Public!Next

\* A public corpus is of the revision its lock names and of what its seal names, a cache that is READY holds
\* pinned recordings under every name its archives have and an index of whatever else was in its tree, and a
\* candidate is qualified on the recordings of its baseline: for all versions, metrics and bounds.
THEOREM PublicDataBoundHolds == SumSpec => []PublicDataBound
<1> DEFINE Inv == which = "public" => PublicInv
<1>0. Public!PublicAssumption BY Bounds
<1>1. SumInit => Inv BY PublicStarts DEF SumInit
<1>2. Inv /\ [SumNext]_sumVars => Inv'
  <2> SUFFICES ASSUME Inv, [SumNext]_sumVars, which' = "public" PROVE PublicInv' OBVIOUS
  <2>1. CASE UNCHANGED sumVars BY <2>1, PublicStays DEF sumVars
  <2>2. CASE SumNext
    <3>1. which = "public" BY <2>2 DEF SumNext
    <3>2. PublicInv /\ Public!Next BY <2>2, <3>1 DEF SumNext
    <3> QED BY <3>2, PublicStep
  <2> QED BY <2>1, <2>2
<1>3. Inv => PublicDataBound BY <1>0, PairsAreSound DEF PublicDataBound, PublicInv, Public!PublicDataBound
<1> QED BY <1>1, <1>2, <1>3, PTL DEF SumSpec

(***************************************************************************)
(* The corpora of research and hosted validation                           *)
(***************************************************************************)
\* Quotient and remainder by any positive number are the unique ones.
LEMMA CorpusRemainder ==
    ASSUME NEW d \in Nat \ {0}, NEW q \in Int, NEW r \in 0 .. d - 1
    PROVE  (d * q + r) % d = r
<1>1. d * q + r \in Int
  OBVIOUS
<1>. DEFINE x == d * q + r
           p == x \div d
           s == x % d
<1>2. p \in Int /\ s \in 0 .. d - 1 /\ x = d * p + s
  BY <1>1, Z3T(30)
<1>3. CASE q >= p + 1
  <2>1. d * q >= d * (p + 1)
    BY <1>2, <1>3, Z3T(30)
  <2>. QED
    BY <1>2, <2>1, Z3T(30)
<1>4. CASE p >= q + 1
  <2>1. d * p >= d * (q + 1)
    BY <1>2, <1>4, Z3T(30)
  <2>. QED
    BY <1>2, <2>1, Z3T(30)
<1>5. CASE p = q
  BY <1>2, <1>5, Z3T(30)
<1>. QED
  BY <1>2, <1>3, <1>4, <1>5

\* Division with remainder, by any positive number.
LEMMA CorpusDivision ==
    ASSUME NEW d \in Nat \ {0}, NEW x \in Int
    PROVE  x \div d \in Int /\ x % d \in 0 .. d - 1 /\ x = d * (x \div d) + (x % d)
BY Z3T(30)

\* The noise domains of a corpus repeat with the period of their number: what falls on one of them
\* is, one apart at the most, as often on every other.
LEMMA DomainsApart ==
  ASSUME NEW d \in Nat \ {0}, NEW i \in Nat, NEW j \in Nat, i < j, j - i < d
  PROVE  i % d # j % d
<1>1. i = d * (i \div d) + (i % d) /\ i \div d \in Int /\ i % d \in 0 .. d - 1 BY CorpusDivision
<1>2. j = d * (j \div d) + (j % d) /\ j \div d \in Int /\ j % d \in 0 .. d - 1 BY CorpusDivision
<1>3. ASSUME i % d = j % d PROVE FALSE
  <2> DEFINE k == (j \div d) - (i \div d)
  <2>1. k \in Int /\ j - i = d * k BY <1>1, <1>2, <1>3, Z3T(30)
  <2>2. CASE k <= 0 BY <2>1, <2>2, Z3T(30)
  <2>3. CASE k >= 1
    <3>1. d * k >= d BY <2>1, <2>3, Z3T(30)
    <3> QED BY <2>1, <3>1
  <2> QED BY <2>1, <2>2, <2>3
<1> QED BY <1>3

\* The cases of a run of length m, started at c, that fall on domain a.
Falls(m, c, d, a) == {i \in 0 .. m - 1 : (i + c) % d = a}

LEMMA FallsBalanced ==
  ASSUME NEW m \in Nat, NEW c \in Nat, NEW d \in Nat \ {0}, NEW a \in 0 .. d - 1, NEW b \in 0 .. d - 1
  PROVE  Cardinality(Falls(m, c, d, a)) - Cardinality(Falls(m, c, d, b)) <= 1
<1> DEFINE A == Falls(m, c, d, a)
           Z == Falls(m, c, d, b)
           k == IF b >= a THEN b - a ELSE b - a + d
           Over == {i \in A : i + k >= m}
<1>1. k \in Nat /\ k < d /\ k = IF b >= a THEN b - a ELSE b - a + d OBVIOUS
<1>0. ASSUME NEW n \in Nat, n % d = a PROVE (n + k) % d = b
  <2> DEFINE q == n \div d
  <2>1. n = d * q + a /\ q \in Int BY <1>0, CorpusDivision
  <2>2. CASE b >= a
    <3>1. n + k = d * q + b BY <2>1, <2>2
    <3> HIDE DEF q, k
    <3> QED BY <2>1, <3>1, CorpusRemainder
  <2>3. CASE b < a
    <3>1. d * (q + 1) = d * q + d BY <2>1, Z3T(30)
    <3>2. n + k = d * (q + 1) + b /\ q + 1 \in Int BY <2>1, <2>3, <3>1
    <3> HIDE DEF q, k
    <3> QED BY <3>2, CorpusRemainder
  <2> QED BY <2>2, <2>3
<1>2. A \subseteq 0 .. m - 1 /\ Z \subseteq 0 .. m - 1 BY DEF Falls
<1>3. IsFiniteSet(A) /\ IsFiniteSet(Z) /\ Cardinality(A) \in Nat /\ Cardinality(Z) \in Nat
  <2>1. IsFiniteSet(0 .. m - 1) BY FS_Interval
  <2> HIDE DEF A, Z
  <2>2. IsFiniteSet(A) /\ IsFiniteSet(Z) BY <1>2, <2>1, FS_Subset
  <2> QED BY <2>2, FS_CardinalityType
<1>4. \A i \in A : i \in Nat /\ i < m /\ (i + c) % d = a BY DEF Falls
<1>5. \A i \in A : i + k < m => i + k \in Z
  <2> SUFFICES ASSUME NEW i \in A, i + k < m PROVE i + k \in Z OBVIOUS
  <2>1. i \in Nat /\ i + c \in Nat /\ (i + c) % d = a BY <1>4
  <2> DEFINE x == i + c
  <2>2. x \in Nat /\ x % d = a BY <2>1
  <2> HIDE DEF k, A, x
  <2>6. (x + k) % d = b BY <1>0, <2>2
  <2>3. (i + c) + k = (i + k) + c BY <1>1, <2>1
  <2>4. i + k \in 0 .. m - 1 BY <1>1, <2>1
  <2> QED BY <2>3, <2>4, <2>6 DEF Falls, x
<1>6. \A i, j \in Over : ~(i < j)
  <2> SUFFICES ASSUME NEW i \in Over, NEW j \in Over, i < j PROVE FALSE OBVIOUS
  <2>1. i \in A /\ j \in A /\ i + k >= m OBVIOUS
  <2>2. i \in Nat /\ j \in Nat /\ j < m /\ (i + c) % d = a /\ (j + c) % d = a
    <3> HIDE DEF A, k, Over
    <3> QED BY <1>4, <2>1
  <2>3. i + c \in Nat /\ j + c \in Nat /\ i + c < j + c /\ (j + c) - (i + c) < d
    <3> HIDE DEF A, k, Over
    <3> QED BY <1>1, <2>1, <2>2
  <2>4. (i + c) % d # (j + c) % d
    <3> HIDE DEF A, k, Over
    <3> QED BY <2>3, DomainsApart
  <2> QED BY <2>2, <2>4
<1> HIDE DEF k, A, Z
<1>7. \A i, j \in Over : i = j
  <2> SUFFICES ASSUME NEW i \in Over, NEW j \in Over PROVE i = j OBVIOUS
  <2>1. i \in Nat /\ j \in Nat BY <1>4
  <2>2. ~(i < j) /\ ~(j < i) BY <1>6
  <2> QED BY <2>1, <2>2
<1>8. PICK z : Over \subseteq {z}
  <2>1. CASE Over = {} BY <2>1
  <2>2. CASE Over # {}
    <3>1. PICK z : z \in Over BY <2>2
    <3> QED BY <1>7, <3>1
  <2> QED BY <2>1, <2>2
<1>9. \A i \in A \ {z} : i + k \in Z
  <2> SUFFICES ASSUME NEW i \in A \ {z} PROVE i + k \in Z OBVIOUS
  <2>1. i \in A /\ i \in Nat /\ ~(i + k >= m) BY <1>4, <1>8
  <2>2. i + k < m BY <1>1, <2>1
  <2> QED BY <1>5, <2>1, <2>2
<1> DEFINE f == [i \in A \ {z} |-> i + k]
<1>10. f \in Injection(A \ {z}, Z)
  <2>1. f \in [A \ {z} -> Z] BY <1>9
  <2>2. \A i, j \in A \ {z} : f[i] = f[j] => i = j
    <3> SUFFICES ASSUME NEW i \in A \ {z}, NEW j \in A \ {z}, i + k = j + k PROVE i = j OBVIOUS
    <3>1. i \in Nat /\ j \in Nat BY <1>4
    <3> QED BY <1>1, <3>1
  <2> QED BY <2>1, <2>2 DEF Injection, IsInjective
<1>11. Cardinality(A \ {z}) <= Cardinality(Z)
  <2> HIDE DEF f
  <2> QED BY <1>3, <1>10, FS_Injection
<1>12. Cardinality(A \ {z}) = Cardinality(A) \/ Cardinality(A \ {z}) = Cardinality(A) - 1
  BY <1>3, FS_RemoveElement
<1>13. Cardinality(A) - Cardinality(Z) <= 1 BY <1>3, <1>11, <1>12
<1> QED BY <1>13 DEF A, Z

LEMMA BuiltCardinality == ASSUME NEW S PROVE Built!Cardinality(S) = Cardinality(S)
  BY DEF Built!Cardinality, Cardinality

\* Of the mixes and of the noise-only cases, whatever the seed.
LEMMA Balanced ==
  ASSUME Built!CorporaAssumption, NEW seed \in Nat,
         NEW s \in {Built!MixDomains(seed), Built!NoiseDomains(seed)},
         NEW a \in 0 .. Domains - 1, NEW b \in 0 .. Domains - 1
  PROVE  Built!Times(s, a) - Built!Times(s, b) <= 1
<1>1. Domains \in Nat \ {0} /\ Mixes \in Nat /\ Noises \in Nat BY DEF Built!CorporaAssumption
<1>2. PICK m \in Nat, c \in Nat : s = [i \in 0 .. m - 1 |-> (i + c) % Domains]
  <2>1. CASE s = Built!MixDomains(seed)
    BY <1>1, <2>1 DEF Built!MixDomains, Built!DomainFor
  <2>2. CASE s = Built!NoiseDomains(seed)
    <3>1. seed + 17 \in Nat OBVIOUS
    <3> QED BY <1>1, <2>2, <3>1 DEF Built!NoiseDomains, Built!DomainFor
  <2> QED BY <2>1, <2>2
<1>3. ASSUME NEW e PROVE Built!Times(s, e) = Cardinality(Falls(m, c, Domains, e))
  <2>1. {i \in DOMAIN s : s[i] = e} = Falls(m, c, Domains, e) BY <1>2 DEF Falls
  <2> QED BY <2>1, BuiltCardinality DEF Built!Times
<1> QED BY <1>1, <1>3, FallsBalanced

(***************************************************************************)
(* Types, and what the command that runs has done so far.                  *)
(***************************************************************************)
CorpusBuilding == {"build", "corpus", "manifest"}
CorporaTypes ==
    /\ builtLock \in Versions /\ builder \in Versions
    /\ builtTree \in [Roles -> Versions \cup {None}]
    /\ files \in [Cases -> Built!AnyCorpus \cup {None}]
    /\ builtCorpus \in Built!AnyCorpus \cup {None}
    /\ builtPc \in {"idle", "materialize", "remove"} \cup CorpusBuilding
\* A document is of what was unpacked last; one that unpacks has unpacked what its lock pins.
Unpacked ==
    /\ ~torn /\ doc # None => \A r \in Roles : builtTree[r] = doc.lock
    /\ builtPc = "materialize" => job = builtLock /\ \A r \in at : builtTree[r] = builtLock
\* A build is of the generator that is there, and has written the cases it is through with.
Made ==
    builtPc \in CorpusBuilding =>
        /\ job \in Built!AnyCorpus /\ job.builder = builder
        /\ job.kind = "development v3" => job.seed \in Seeds
        /\ job.kind \in Built!Development /\ ~torn => \A r \in Roles : job.of[r] = job.lock
        /\ \A c \in at : files[c] = job
        /\ builtPc = "manifest" => builtCorpus = job
\* Nothing is built over a generated corpus, or in what one has written.
Fresh ==
    builtCorpus # None /\ builtCorpus.kind = "motion" => builtPc \notin {"build", "corpus"}
\* What is there of a manifest of a generator, and of a compaction that removes.
Bound ==
    /\ builtManifest # None /\ builtManifest.kind = "motion" =>
         builtManifest.corpus.builder = builtManifest.builder
    /\ builtPc = "remove" => policy # None /\ policy.corpus = builtCorpus
CorporaInv == CorporaTypes /\ Unpacked /\ Made /\ Fresh /\ Bound /\ Built!GeneratedWhole /\ Built!SealRebuilds

LEMMA CorpusHolds == ASSUME Built!CorporaAssumption, CorporaInv PROVE Built!CorpusSound
<1>1. Built!CorpusOfLock BY DEF CorporaInv, Made, CorpusBuilding, Built!CorpusOfLock
<1>2. Built!DomainsBalanced
  <2> SUFFICES ASSUME builtPc = "build", job.kind = "development v3",
                      NEW s \in {Built!MixDomains(job.seed), Built!NoiseDomains(job.seed)},
                      NEW a \in 0 .. Domains - 1, NEW b \in 0 .. Domains - 1
               PROVE  Built!Times(s, a) - Built!Times(s, b) <= 1
    BY DEF Built!DomainsBalanced
  <2>1. job.seed \in Nat BY DEF CorporaInv, Made, CorpusBuilding, Built!CorporaAssumption
  <2> QED BY <2>1, Balanced
<1> QED BY <1>1, <1>2 DEF CorporaInv, Built!CorpusSound

LEMMA CorporaStart == ASSUME Built!CorporaAssumption, Built!Init PROVE CorporaInv
<1>1. (CHOOSE v \in Versions : TRUE) \in Versions BY DEF Built!CorporaAssumption
<1>2. builtLock \in Versions /\ builder \in Versions /\ builtPc = "idle" /\ doc = None /\ builtCorpus = None
      /\ builtManifest = None /\ policy = None /\ builtTree = [r \in Roles |-> None]
      /\ files = [c \in Cases |-> None]
  BY <1>1 DEF Built!Init, Built!NoFiles
<1>3. CorporaTypes BY <1>2 DEF CorporaTypes
<1> QED BY <1>2, <1>3 DEF CorporaInv, Unpacked, Made, CorpusBuilding, Fresh, Bound, Built!GeneratedWhole, Built!SealRebuilds

LEMMA CorporaStay ==
  ASSUME CorporaInv, UNCHANGED corporaVars
  PROVE  CorporaInv'
<1>1. CorporaTypes' /\ Unpacked' /\ Fresh' /\ Bound'
  BY DEF CorporaInv, CorporaTypes, Unpacked, CorpusBuilding, Fresh, Bound, corporaVars
<1>2. Made' BY DEF CorporaInv, Made, CorpusBuilding, corporaVars
<1>3. Built!GeneratedWhole' BY DEF CorporaInv, Built!GeneratedWhole, corporaVars
<1>4. Built!SealRebuilds'
  BY DEF CorporaInv, Built!SealRebuilds, Built!HasFiles, Built!NoFiles, corporaVars
<1> QED BY <1>1, <1>2, <1>3, <1>4 DEF CorporaInv

\* What is handed to a builder is a corpus of one of the kinds, of the generator that is there.
LEMMA MadeTypes ==
  ASSUME Built!CorporaAssumption, CorporaTypes, NEW seed \in Seeds, NEW made \in Built!Corpora(seed)
  PROVE  /\ made \in Built!AnyCorpus /\ made.builder = builder
         /\ made.kind = "development v3" => made.seed \in Seeds
         /\ made.kind \in Built!Development => made.of = builtTree /\ made.lock = builtLock
<1>1. builtTree \in Built!AnyOf /\ Built!Checked \in Built!AnyOf /\ None \in Built!AnyOf
  BY DEF CorporaTypes, Built!AnyOf, Built!Checked
<1>2. [r \in {"clean"} |-> builtTree["clean"]] \in Built!AnyOf
  BY DEF CorporaTypes, Built!AnyOf, Built!CorporaAssumption
<1>3. builder \in Versions /\ builtLock \in Versions BY DEF CorporaTypes
<1> DEFINE Is(kind, of) == \E s \in Seeds \cup {None}, l \in Versions \cup {None} : made = Built!Made(kind, s, of, l)
<1>4. ASSUME NEW kind \in Built!Kinds, NEW of \in Built!AnyOf, NEW s \in Seeds \cup {None},
             NEW l \in Versions \cup {None}, made = Built!Made(kind, s, of, l)
      PROVE  /\ made \in Built!AnyCorpus /\ made.builder = builder
             /\ made.kind = kind /\ made.seed = s /\ made.of = of /\ made.lock = l
  BY <1>3, <1>4 DEF Built!Made, Built!AnyCorpus
<1>5. /\ made \in Built!AnyCorpus /\ made.builder = builder
      /\ \/ made.kind \in {"development v2", "development v3"} /\ made.seed \in Seeds
            /\ made.of = builtTree /\ made.lock = builtLock
         \/ made.kind \notin {"development v2", "development v3"}
  <2>1. CASE made = Built!DevelopmentV2(seed) BY <1>1, <1>3, <1>4, <2>1 DEF Built!DevelopmentV2, Built!Kinds
  <2>2. CASE made = Built!DevelopmentV3(seed) BY <1>1, <1>3, <1>4, <2>2 DEF Built!DevelopmentV3, Built!Kinds
  <2>3. CASE made = Built!RealClips BY <1>1, <1>3, <1>4, <2>3 DEF Built!RealClips, Built!Kinds
  <2>4. CASE made = Built!AecClips BY <1>1, <1>3, <1>4, <2>4 DEF Built!AecClips, Built!Kinds
  <2>5. CASE made = Built!MeasuredRooms(seed) BY <1>1, <1>3, <1>4, <2>5 DEF Built!MeasuredRooms, Built!Kinds
  <2>6. CASE made = Built!CleanSpeech(seed) BY <1>2, <1>3, <1>4, <2>6 DEF Built!CleanSpeech, Built!Kinds
  <2>7. CASE made = Built!Motion(seed) BY <1>1, <1>3, <1>4, <2>7 DEF Built!Motion, Built!Kinds
  <2>8. CASE made = Built!Smoke(seed) BY <1>1, <1>3, <1>4, <2>8 DEF Built!Smoke, Built!Kinds
  <2>9. CASE made = Built!Robustness(seed) BY <1>1, <1>3, <1>4, <2>9 DEF Built!Robustness, Built!Kinds
  <2>10. CASE made = Built!Transitions(seed) BY <1>1, <1>3, <1>4, <2>10 DEF Built!Transitions, Built!Kinds
  <2> QED
    BY <2>1, <2>2, <2>3, <2>4, <2>5, <2>6, <2>7, <2>8, <2>9, <2>10 DEF Built!Corpora
<1> QED BY <1>5 DEF Built!Development

\* Materializing: what is unpacked is what the lock pins, or the command ends.
LEMMA MaterializeStep ==
  ASSUME CorporaInv,
         Built!Materialize \/ (\E r \in Roles : Built!Unpack(r)) \/ Built!WriteDocument
  PROVE  CorporaInv'
<1>1. UNCHANGED <<builtLock, builder, files, builtCorpus, builtManifest, policy>>
  BY DEF Built!Materialize, Built!Unpack, Built!WriteDocument, Built!World, Built!output, Built!data
<1>2. builtPc \in {"idle", "materialize"} /\ builtPc' \in {"idle", "materialize"}
  BY DEF Built!Materialize, Built!Unpack, Built!WriteDocument, Built!End
<1>3. /\ builtTree' \in [Roles -> Versions \cup {None}]
      /\ (~torn' /\ doc' # None => \A r \in Roles : builtTree'[r] = doc'.lock)
      /\ builtPc' = "materialize" => job' = builtLock' /\ \A r \in at' : builtTree'[r] = builtLock'
  <2>1. CASE Built!Materialize
    <3>1. UNCHANGED <<builtTree, doc, torn>> /\ job' = builtLock /\ at' = {} BY <2>1 DEF Built!Materialize, Built!data
    <3> QED BY <1>1, <3>1 DEF CorporaInv, CorporaTypes, Unpacked
  <2>2. ASSUME NEW r \in Roles, Built!Unpack(r)
        PROVE  /\ builtTree' \in [Roles -> Versions \cup {None}]
               /\ (~torn' /\ doc' # None => \A x \in Roles : builtTree'[x] = doc'.lock)
               /\ builtPc' = "materialize" => job' = builtLock' /\ \A x \in at' : builtTree'[x] = builtLock'
    <3>1. builtPc = "materialize" /\ UNCHANGED doc BY <2>2 DEF Built!Unpack
    <3>2. PICK v \in Versions :
             IF v = job THEN /\ builtTree' = [builtTree EXCEPT ![r] = v] /\ at' = at \cup {r}
                             /\ torn' = TRUE /\ UNCHANGED <<builtPc, job>>
             ELSE Built!End /\ UNCHANGED <<builtTree, torn>>
      BY <2>2 DEF Built!Unpack
    <3>3. CASE v = job
      <4>1. builtTree' = [builtTree EXCEPT ![r] = v] /\ at' = at \cup {r} /\ torn' = TRUE /\ job' = job
        BY <3>2, <3>3
      <4>2. builtTree \in [Roles -> Versions \cup {None}] BY DEF CorporaInv, CorporaTypes
      <4>3. job = builtLock /\ \A x \in at : builtTree[x] = builtLock BY <3>1 DEF CorporaInv, Unpacked
      <4>4. builtTree' \in [Roles -> Versions \cup {None}] BY <4>1, <4>2
      <4>5. builtTree'[r] = builtLock BY <3>3, <4>1, <4>2, <4>3
      <4>6. \A x \in at : builtTree'[x] = builtLock
        <5> SUFFICES ASSUME NEW x \in at PROVE builtTree'[x] = builtLock OBVIOUS
        <5>1. CASE x = r BY <4>5, <5>1
        <5>2. CASE x # r BY <4>1, <4>2, <4>3, <5>2
        <5> QED BY <5>1, <5>2
      <4> QED BY <1>1, <4>1, <4>3, <4>4, <4>5, <4>6
    <3>4. CASE v # job BY <3>1, <3>2, <3>4 DEF Built!End, CorporaInv, CorporaTypes, Unpacked
    <3> QED BY <3>3, <3>4
  <2>3. CASE Built!WriteDocument
    <3>1. /\ UNCHANGED builtTree /\ builtPc = "materialize" /\ builtPc' = "idle"
          /\ at = Roles /\ doc' = [lock |-> builtLock]
      BY <2>3 DEF Built!WriteDocument, Built!End
    <3> QED BY <3>1 DEF CorporaInv, CorporaTypes, Unpacked
  <2> QED BY <2>1, <2>2, <2>3
<1>4. CorporaTypes' BY <1>1, <1>2, <1>3 DEF CorporaInv, CorporaTypes
<1>5. Unpacked' BY <1>3 DEF Unpacked
<1>6. Made' /\ Fresh' /\ Bound' BY <1>1, <1>2 DEF CorporaInv, Made, CorpusBuilding, Fresh, Bound
<1>7. Built!GeneratedWhole' BY <1>1 DEF CorporaInv, Built!GeneratedWhole
<1>8. Built!SealRebuilds' BY <1>1 DEF CorporaInv, Built!SealRebuilds, Built!HasFiles, Built!NoFiles
<1> QED BY <1>4, <1>5, <1>6, <1>7, <1>8 DEF CorporaInv

\* A build starts on a document of this very lock, and a generator in an output of its own.
LEMMA BuildStep ==
  ASSUME Built!CorporaAssumption, CorporaInv, NEW seed \in Seeds, NEW made \in Built!Corpora(seed), Built!Build(made)
  PROVE  CorporaInv'
<1>1. UNCHANGED <<builtLock, builder, builtTree, doc, torn, files, builtCorpus, builtManifest, policy>>
      /\ builtPc = "idle" /\ builtPc' = "build" /\ job' = made /\ at' = {}
  BY DEF Built!Build, Built!World, Built!output, Built!data
<1>2. CorporaTypes' BY <1>1 DEF CorporaInv, CorporaTypes, CorpusBuilding
<1>3. Unpacked' BY <1>1 DEF CorporaInv, Unpacked
<1>4. Made'
  <2>1. /\ made \in Built!AnyCorpus /\ made.builder = builder
        /\ made.kind = "development v3" => made.seed \in Seeds
        /\ made.kind \in Built!Development => made.of = builtTree /\ made.lock = builtLock
    BY MadeTypes DEF CorporaInv
  <2>2. made.kind \in Built!Development /\ ~torn => \A r \in Roles : made.of[r] = made.lock
    <3> SUFFICES ASSUME made.kind \in Built!Development, ~torn PROVE \A r \in Roles : made.of[r] = made.lock OBVIOUS
    <3>1. doc # None /\ doc.lock = builtLock BY DEF Built!Build, Built!DevelopmentReady, Built!MaterializedFor
    <3>2. \A r \in Roles : builtTree[r] = doc.lock BY <3>1 DEF CorporaInv, Unpacked
    <3> QED BY <2>1, <3>1, <3>2
  <2> QED BY <1>1, <2>1, <2>2 DEF Made
<1>5. Fresh'
  <2>1. builtCorpus # None /\ builtCorpus.kind = "motion" => made.kind = "motion" BY DEF Built!Build, Built!Own
  <2>2. made.kind = "motion" => builtCorpus = None BY DEF Built!Build, Built!FreshOutput
  <2> QED BY <1>1, <2>1, <2>2 DEF Fresh
<1>6. Bound' BY <1>1 DEF CorporaInv, Bound
<1>7. Built!GeneratedWhole' BY <1>1 DEF CorporaInv, Built!GeneratedWhole
<1>8. Built!SealRebuilds' BY <1>1 DEF CorporaInv, Built!SealRebuilds, Built!HasFiles, Built!NoFiles
<1> QED BY <1>2, <1>3, <1>4, <1>5, <1>6, <1>7, <1>8 DEF CorporaInv

\* A case is written over what is there, never over a generated corpus.
LEMMA CaseStep ==
  ASSUME Built!CorporaAssumption, CorporaInv, NEW c \in Cases, Built!WriteCase(c)
  PROVE  CorporaInv'
<1>1. UNCHANGED <<builtLock, builder, builtTree, doc, torn, builtCorpus, builtManifest, policy>> /\ builtPc = "build"
  BY DEF Built!WriteCase, Built!World, Built!data
<1>2. CASE files' = [files EXCEPT ![c] = job] /\ at' = at \cup {c} /\ UNCHANGED <<builtPc, job>>
  <2>1. job \in Built!AnyCorpus /\ files \in [Cases -> Built!AnyCorpus \cup {None}] /\ \A x \in at : files[x] = job
    BY <1>1 DEF CorporaInv, CorporaTypes, Made, CorpusBuilding
  <2>2. files' \in [Cases -> Built!AnyCorpus \cup {None}] /\ files'[c] = job BY <1>2, <2>1
  <2>3. \A x \in at' : files'[x] = job BY <1>2, <2>1
  <2>4. CorporaTypes' BY <1>1, <1>2, <2>2 DEF CorporaInv, CorporaTypes
  <2>5. Unpacked' BY <1>1, <1>2 DEF CorporaInv, Unpacked
  <2>6. Made' BY <1>1, <1>2, <2>3 DEF CorporaInv, Made, CorpusBuilding
  <2>7. Fresh' /\ Bound' BY <1>1, <1>2 DEF CorporaInv, Fresh, Bound
  <2>8. Built!GeneratedWhole' BY <1>1 DEF CorporaInv, Fresh, Built!GeneratedWhole
  <2>9. Built!HasFiles'
    <3>1. job # None BY <2>1 DEF Built!CorporaAssumption
    <3>2. Built!NoFiles'[c] = None BY DEF Built!NoFiles
    <3> QED BY <2>2, <3>1, <3>2 DEF Built!HasFiles
  <2>10. Built!SealRebuilds' BY <1>1, <2>9 DEF CorporaInv, Built!SealRebuilds
  <2> QED BY <2>4, <2>5, <2>6, <2>7, <2>8, <2>10 DEF CorporaInv
<1>3. CASE Built!End /\ UNCHANGED files
  <2>1. builtPc' = "idle" /\ UNCHANGED files BY <1>3 DEF Built!End
  <2>2. CorporaTypes' BY <1>1, <2>1 DEF CorporaInv, CorporaTypes
  <2>3. Unpacked' /\ Made' /\ Fresh' /\ Bound'
    BY <1>1, <2>1 DEF CorporaInv, Unpacked, Made, CorpusBuilding, Fresh, Bound
  <2>4. Built!GeneratedWhole' BY <1>1, <2>1 DEF CorporaInv, Built!GeneratedWhole
  <2>5. Built!SealRebuilds' BY <1>1, <2>1 DEF CorporaInv, Built!SealRebuilds, Built!HasFiles, Built!NoFiles
  <2> QED BY <2>2, <2>3, <2>4, <2>5 DEF CorporaInv
<1> QED BY <1>2, <1>3 DEF Built!WriteCase

\* corpus.json is written when every case of it is, and the manifests beside it name what made it.
LEMMA RecordsStep ==
  ASSUME Built!CorporaAssumption, CorporaInv, Built!WriteManifest \/ Built!WriteCorpus \/ Built!WriteGenerated
  PROVE  CorporaInv'
<1>1. UNCHANGED <<builtLock, builder, builtTree, doc, torn, files, policy>> /\ builtPc \in CorpusBuilding
  BY DEF Built!WriteManifest, Built!WriteCorpus, Built!WriteGenerated, Built!World, Built!data, CorpusBuilding
<1>2. job \in Built!AnyCorpus /\ job.builder = builder /\ \A c \in at : files[c] = job
  BY <1>1 DEF CorporaInv, Made
<1>3. CASE Built!WriteManifest
  <2>1. UNCHANGED <<builtCorpus, job, at>> /\ builtPc = "build" /\ builtPc' = "corpus"
        /\ builtManifest' = [kind |-> job.kind, lock |-> job.lock] /\ job.kind \in Built!Sourced
    BY <1>3 DEF Built!WriteManifest
  <2>2. CorporaTypes' BY <1>1, <2>1 DEF CorporaInv, CorporaTypes, CorpusBuilding
  <2>3. Unpacked' BY <1>1, <2>1 DEF CorporaInv, Unpacked
  <2>4. Made' BY <1>1, <2>1 DEF CorporaInv, Made, CorpusBuilding
  <2>5. Fresh' BY <2>1 DEF CorporaInv, Fresh
  <2>6. Bound' BY <1>1, <2>1 DEF CorporaInv, Bound, Built!Sourced, Built!Pinned
  <2>7. Built!GeneratedWhole' BY <1>1, <2>1 DEF CorporaInv, Built!GeneratedWhole
  <2>8. Built!SealRebuilds' BY <1>1, <2>1 DEF CorporaInv, Built!SealRebuilds, Built!HasFiles, Built!NoFiles
  <2> QED BY <2>2, <2>3, <2>4, <2>5, <2>6, <2>7, <2>8 DEF CorporaInv
<1>4. CASE Built!WriteCorpus
  <2>1. /\ UNCHANGED builtManifest /\ at = Cases /\ builtCorpus' = job /\ builtPc \in {"build", "corpus"}
        /\ \/ job.kind = "motion" /\ builtPc' = "manifest" /\ UNCHANGED <<job, at>>
           \/ builtPc' = "idle"
    BY <1>4 DEF Built!WriteCorpus, Built!End
  <2>2. CorporaTypes' BY <1>1, <1>2, <2>1 DEF CorporaInv, CorporaTypes, CorpusBuilding
  <2>3. Unpacked' BY <1>1, <2>1 DEF CorporaInv, Unpacked
  <2>4. Made' BY <1>1, <1>2, <2>1 DEF CorporaInv, Made, CorpusBuilding
  <2>5. Fresh' BY <2>1 DEF Fresh
  <2>6. Bound' BY <1>1, <2>1 DEF CorporaInv, Bound
  <2>7. Built!GeneratedWhole' BY <1>1, <1>2, <2>1 DEF Built!GeneratedWhole
  <2>8. Built!HasFiles'
    <3>1. PICK c \in Cases : TRUE BY DEF Built!CorporaAssumption
    <3>2. files[c] # None BY <1>2, <2>1 DEF Built!CorporaAssumption
    <3>3. Built!NoFiles[c] = None BY DEF Built!NoFiles
    <3> QED BY <1>1, <3>2, <3>3 DEF Built!HasFiles, Built!NoFiles
  <2>9. Built!SealRebuilds' BY <1>1, <2>8 DEF CorporaInv, Built!SealRebuilds
  <2> QED BY <2>2, <2>3, <2>4, <2>5, <2>6, <2>7, <2>9 DEF CorporaInv
<1>5. CASE Built!WriteGenerated
  <2>1. UNCHANGED builtCorpus /\ builtPc = "manifest" /\ builtPc' = "idle"
        /\ builtManifest' = [kind |-> "motion", builder |-> builder, seed |-> job.seed, corpus |-> builtCorpus]
    BY <1>5 DEF Built!WriteGenerated, Built!End
  <2>2. builtCorpus = job BY <2>1 DEF CorporaInv, Made, CorpusBuilding
  <2>3. CorporaTypes' BY <1>1, <2>1 DEF CorporaInv, CorporaTypes
  <2>4. Unpacked' BY <1>1, <2>1 DEF CorporaInv, Unpacked
  <2>5. Made' /\ Fresh' BY <2>1 DEF Made, CorpusBuilding, Fresh
  <2>6. Bound' BY <1>1, <1>2, <2>1, <2>2 DEF Bound
  <2>7. Built!GeneratedWhole' BY <1>1, <2>1 DEF CorporaInv, Built!GeneratedWhole
  <2>8. Built!SealRebuilds' BY <1>1, <2>1 DEF CorporaInv, Built!SealRebuilds, Built!HasFiles, Built!NoFiles
  <2> QED BY <2>3, <2>4, <2>5, <2>6, <2>7, <2>8 DEF CorporaInv
<1> QED BY <1>3, <1>4, <1>5

\* Payload is removed after the policy that binds it is written.
LEMMA CompactStep ==
  ASSUME Built!CorporaAssumption, CorporaInv, (\E mode \in Built!Modes : Built!Compact(mode)) \/ Built!Remove
  PROVE  CorporaInv'
<1>1. UNCHANGED <<builtLock, builder, builtTree, doc, torn, builtCorpus, builtManifest>>
  BY DEF Built!Compact, Built!Remove, Built!World, Built!data, Built!output
<1>2. ASSUME NEW mode \in Built!Modes, Built!Compact(mode) PROVE CorporaInv'
  <2> DEFINE seed == IF mode = "external-source" THEN None ELSE builtManifest.seed
             sealed == [mode |-> mode, corpus |-> builtCorpus, builder |-> builder, lock |-> builtLock, seed |-> seed]
  <2>1. UNCHANGED files /\ builtPc' = "remove" /\ policy' = sealed /\ Built!Compactable(mode)
    BY <1>2 DEF Built!Compact, Built!output
  <2>2. builtCorpus \in Built!AnyCorpus BY <2>1 DEF Built!Compactable, CorporaInv, CorporaTypes
  <2>3. mode # "external-source" =>
           /\ builtManifest # None /\ builtManifest.kind = "motion" /\ builtManifest.builder = builder
           /\ builtManifest.corpus = builtCorpus /\ builtCorpus.seed = builtManifest.seed
    BY <2>1 DEF Built!Compactable, Built!Generated
  <2>4. seed \in Seeds \cup {None} BY <2>2, <2>3 DEF Built!AnyCorpus
  <2>5. sealed \in Built!AnyPolicy
    <3> HIDE DEF seed
    <3> QED BY <2>2, <2>4 DEF Built!AnyPolicy, CorporaInv, CorporaTypes
  <2>6. sealed # None BY <2>5 DEF Built!CorporaAssumption
  <2>7. CorporaTypes' BY <1>1, <2>1 DEF CorporaInv, CorporaTypes
  <2>8. Unpacked' BY <1>1, <2>1 DEF CorporaInv, Unpacked
  <2>9. Made' /\ Fresh' BY <2>1 DEF Made, CorpusBuilding, Fresh
  <2>10. sealed.corpus = builtCorpus /\ sealed.mode = mode /\ sealed.seed = seed /\ sealed.builder = builder OBVIOUS
  <2>11. mode = "deterministic-generator" => builtCorpus.builder = builder /\ builtCorpus.seed = seed
    BY <2>3 DEF CorporaInv, Bound
  <2> HIDE DEF sealed, seed
  <2>12. Bound' BY <1>1, <2>1, <2>6, <2>10 DEF CorporaInv, Bound
  <2>13. Built!GeneratedWhole' BY <1>1, <2>1 DEF CorporaInv, Built!GeneratedWhole
  <2>14. Built!SealRebuilds'
    BY <1>1, <2>1, <2>6, <2>10, <2>11 DEF Built!SealRebuilds
  <2> QED BY <2>7, <2>8, <2>9, <2>12, <2>13, <2>14 DEF CorporaInv
<1>3. CASE Built!Remove
  <2>1. UNCHANGED policy /\ builtPc = "remove" /\ builtPc' \in {"idle", "remove"}
    BY <1>3 DEF Built!Remove, Built!End, Built!command
  <2>2. PICK k \in DOMAIN files : files' = [files EXCEPT ![k] = None] BY <1>3 DEF Built!Remove
  <2>3. files \in [Cases -> Built!AnyCorpus \cup {None}] BY DEF CorporaInv, CorporaTypes
  <2>4. files' \in [Cases -> Built!AnyCorpus \cup {None}] /\ \A c \in Cases : files'[c] \in {None, files[c]}
    BY <2>2, <2>3
  <2>5. CorporaTypes' BY <1>1, <2>1, <2>4 DEF CorporaInv, CorporaTypes
  <2>6. Unpacked' BY <1>1, <2>1 DEF CorporaInv, Unpacked
  <2>7. Made' /\ Fresh' BY <2>1 DEF Made, CorpusBuilding, Fresh
  <2>8. policy # None /\ policy.corpus = builtCorpus BY <2>1 DEF CorporaInv, Bound
  <2>9. Bound' BY <1>1, <2>1, <2>8 DEF CorporaInv, Bound
  <2>10. Built!GeneratedWhole' BY <1>1, <2>4 DEF CorporaInv, Built!GeneratedWhole
  <2>11. Built!SealRebuilds' BY <1>1, <2>1, <2>8 DEF CorporaInv, Built!SealRebuilds
  <2> QED BY <2>5, <2>6, <2>7, <2>9, <2>10, <2>11 DEF CorporaInv
<1> QED BY <1>2, <1>3

\* Edits come between commands; a command that dies leaves what it has written.
LEMMA BetweenStep ==
  ASSUME CorporaInv, Built!Change \/ Built!Die
  PROVE  CorporaInv'
<1>1. UNCHANGED <<builtTree, doc, torn>> /\ builtPc' = "idle"
  BY DEF Built!Change, Built!Die, Built!End, Built!data, Built!command
<1>2. Unpacked' /\ Made' /\ Fresh' BY <1>1 DEF CorporaInv, Unpacked, Made, CorpusBuilding, Fresh
<1>3. CASE UNCHANGED <<files, builtCorpus, builtManifest, policy>>
  <2>1. builtLock' \in Versions /\ builder' \in Versions BY DEF Built!Change, Built!Die, CorporaInv, CorporaTypes
  <2>2. CorporaTypes' BY <1>1, <1>3, <2>1 DEF CorporaInv, CorporaTypes
  <2>3. Bound' BY <1>1, <1>3 DEF CorporaInv, Bound
  <2>4. Built!GeneratedWhole' BY <1>3 DEF CorporaInv, Built!GeneratedWhole
  <2>5. Built!SealRebuilds' BY <1>3 DEF CorporaInv, Built!SealRebuilds, Built!HasFiles, Built!NoFiles
  <2> QED BY <1>2, <2>2, <2>3, <2>4, <2>5 DEF CorporaInv
<1>4. CASE /\ files' = Built!NoFiles /\ builtCorpus' = None /\ builtManifest' = None /\ policy' = None
           /\ UNCHANGED <<builtLock, builder>>
  <2>1. CorporaTypes' BY <1>1, <1>4 DEF CorporaInv, CorporaTypes, Built!NoFiles
  <2>2. Bound' /\ Built!GeneratedWhole' /\ Built!SealRebuilds'
    BY <1>1, <1>4 DEF Bound, Built!GeneratedWhole, Built!SealRebuilds
  <2> QED BY <1>2, <2>1, <2>2 DEF CorporaInv
<1> QED BY <1>3, <1>4 DEF Built!Change, Built!Die, Built!output

LEMMA CorporaStep ==
  ASSUME Built!CorporaAssumption, CorporaInv, Built!Next
  PROVE  CorporaInv'
<1>1. CASE \E seed \in Seeds : \E made \in Built!Corpora(seed) : Built!Build(made) BY <1>1, BuildStep
<1>2. CASE \E c \in Cases : Built!WriteCase(c) BY <1>2, CaseStep
<1> QED BY <1>1, <1>2, MaterializeStep, RecordsStep, CompactStep, BetweenStep DEF Built!Next

\* A development corpus is of the lock it names and balanced over its noise domains, a generated one
\* is whole and of the generator that is sealed, and payload goes only where it can be rebuilt: for
\* every catalog, number of domains and of cases, edits and deaths (build_corpus.py, compact).
THEOREM CorpusSoundHolds == SumSpec => []CorpusSound
<1> DEFINE Inv == which = "corpora" => CorporaInv
<1>1. Built!CorporaAssumption BY Bounds
<1>2. SumInit => Inv BY <1>1, CorporaStart DEF SumInit
<1>3. Inv /\ [SumNext]_sumVars => Inv'
  <2> SUFFICES ASSUME Inv, [SumNext]_sumVars, which' = "corpora" PROVE CorporaInv' OBVIOUS
  <2>1. which = "corpora" BY DEF SumNext, sumVars
  <2>2. CASE UNCHANGED corporaVars BY <2>1, <2>2, CorporaStay
  <2>3. CASE Built!Next BY <1>1, <2>1, <2>3, CorporaStep
  <2> QED BY <2>1, <2>2, <2>3 DEF SumNext, sumVars
<1>4. Inv => CorpusSound BY <1>1, CorpusHolds DEF CorpusSound
<1> QED BY <1>2, <1>3, <1>4, PTL DEF SumSpec

(***************************************************************************)
(* How fast the echo canceller recovers                                    *)
(***************************************************************************)
LEMMA StudyBounds ==
  /\ None \notin Int /\ None # "within" /\ None # "over"
  /\ Halves \in Nat /\ HoldLength \in Nat /\ HoldLength >= 2
  /\ HoldLength \div 2 \in Nat /\ HoldLength = 2 * (HoldLength \div 2)
  /\ \A e \in Energies : e[1] \in Nat /\ e[2] \in Nat
  /\ Stages \in Seq(STRING) /\ Len(Stages) \in Nat /\ Len(Stages) >= 2 /\ IsFiniteSet(Compared) /\ MinDelta \in Nat \ {0}
<1>1. HoldLength \in Nat \ {0} /\ HoldLength % 2 = 0 BY RecoveryAssumption DEF RecoveryAssumption
<1>2. HoldLength >= 2 /\ HoldLength \div 2 \in Nat /\ HoldLength = 2 * (HoldLength \div 2) BY <1>1
<1>3. \A e \in Energies : e[1] \in Nat /\ e[2] \in Nat BY RecoveryAssumption DEF RecoveryAssumption
<1>4. None \notin Int /\ None # "within" /\ None # "over" /\ Halves \in Nat /\ MinDelta \in Nat \ {0} /\ IsFiniteSet(Compared)
  BY RecoveryAssumption DEF RecoveryAssumption
<1>5. Stages \in Seq(STRING) /\ Len(Stages) >= 2 BY RecoveryAssumption DEF RecoveryAssumption
<1>6. Len(Stages) \in Nat BY <1>5
<1> QED BY <1>1, <1>2, <1>3, <1>4, <1>5, <1>6

\* The first of a set of times, and the last of those that are bounded.
LEMMA FirstOf ==
  ASSUME NEW S, S \subseteq Nat
  PROVE  /\ S # {} => First(S) \in S /\ \A j \in S : First(S) <= j
         /\ S = {} => First(S) = None
<1>1. CASE S # {}
  <2>1. \E i \in S : \A j \in S : i <= j BY <1>1, LeastNumber
  <2> QED BY <1>1, <2>1 DEF First
<1>2. CASE S = {} BY <1>2 DEF First
<1> QED BY <1>1, <1>2

LEMMA LastOf ==
  ASSUME NEW n \in Nat, NEW S, S \subseteq 0 .. n
  PROVE  /\ S # {} => Last(S) \in S /\ \A j \in S : Last(S) >= j
         /\ S = {} => Last(S) = None
<1>1. CASE S # {}
  <2> DEFINE short == {n - i : i \in S}
  <2>1. short \subseteq Nat /\ short # {}
    <3>1. \A i \in S : n - i \in Nat OBVIOUS
    <3> QED BY <1>1, <3>1
  <2>2. PICK x \in short : \A y \in short : x <= y
    <3> HIDE DEF short
    <3> QED BY <2>1, LeastNumber
  <2>3. PICK i \in S : x = n - i BY <2>2
  <2>4. ASSUME NEW j \in S PROVE i >= j
    <3>1. n - j \in short OBVIOUS
    <3>2. x <= n - j BY <2>2, <3>1
    <3>3. i \in 0 .. n /\ j \in 0 .. n OBVIOUS
    <3> QED BY <2>3, <3>2, <3>3
  <2>5. \E k \in S : \A j \in S : k >= j BY <2>4
  <2> HIDE DEF short
  <2> QED BY <1>1, <2>5 DEF Last
<1>2. CASE S = {} BY <1>2 DEF Last
<1> QED BY <1>1, <1>2

\* What a contract may measure: a time within the interval, no recovery, or an output without echo.
Measures == (0 .. Halves) \cup {None}
LEMMA MeasuresATime ==
  ASSUME NEW series, DOMAIN series \subseteq 0 .. Halves, NEW d, NEW required,
         MeasureGeometry(series, d, required) # Failure
  PROVE  /\ ~ Broken(series)
         /\ MeasureGeometry(series, d, required) = First({i \in DOMAIN series : Holds(series, d, required, i)})
         /\ MeasureGeometry(series, d, required) \in Measures
         /\ MeasureGeometry(series, d, required) # None =>
                /\ MeasureGeometry(series, d, required) \in DOMAIN series
                /\ Holds(series, d, required, MeasureGeometry(series, d, required))
         /\ \A i \in DOMAIN series : Holds(series, d, required, i) =>
                MeasureGeometry(series, d, required) # None /\ MeasureGeometry(series, d, required) <= i
<1> DEFINE found == {i \in DOMAIN series : Holds(series, d, required, i)}
<1>1. ~ Broken(series) /\ MeasureGeometry(series, d, required) = First(found) BY DEF MeasureGeometry
<1>2. found \subseteq Nat /\ found \subseteq 0 .. Halves BY StudyBounds
<1>3. found # {} => First(found) \in found /\ \A j \in found : First(found) <= j
  <2> HIDE DEF found
  <2> QED BY <1>2, FirstOf
<1>4. found = {} => First(found) = None
  <2> HIDE DEF found
  <2> QED BY <1>2, FirstOf
<1>5. First(found) # None => First(found) \in found BY <1>3, <1>4
<1>6. First(found) \in Measures BY <1>2, <1>3, <1>4 DEF Measures
<1>7. \A i \in found : First(found) # None /\ First(found) <= i BY <1>2, <1>3, StudyBounds
<1> QED BY <1>1, <1>5, <1>6, <1>7

\* A window without echo breaks its series; in the others the energies decide.
LEMMA WindowsOne ==
  ASSUME NEW s \in Signals, NEW series, NEW i \in DOMAIN series, i \in 0 .. Halves - 1, series[i] = Window(s, i, 1),
         ~ Broken(series), series[i] = "within"
  PROVE  s[i][1] <= s[i][2]
<1>1. series[i] # None BY DEF Broken
<1> QED BY <1>1 DEF Window
LEMMA WindowsTwo ==
  ASSUME NEW s \in Signals, NEW series, NEW i \in DOMAIN series, i \in 0 .. Halves - 2, series[i] = Window(s, i, 2),
         ~ Broken(series), s[i][1] <= s[i][2], s[i + 1][1] <= s[i + 1][2]
  PROVE  series[i] = "within"
<1>1. series[i] # None BY DEF Broken
<1>2. s[i] \in Energies /\ s[i + 1] \in Energies BY StudyBounds DEF Signals
<1>3. s[i][1] \in Nat /\ s[i][2] \in Nat /\ s[i + 1][1] \in Nat /\ s[i + 1][2] \in Nat BY <1>2, StudyBounds
<1>4. s[i][1] + s[i + 1][1] <= s[i][2] + s[i + 1][2] BY <1>3
<1> QED BY <1>1, <1>4 DEF Window

\* Short windows that hold make long windows at the same stride that hold ...
LEMMA LongerSees ==
  ASSUME NEW s \in Signals, ~ Broken(GeometrySeries(s, 1, 1)), ~ Broken(GeometrySeries(s, 2, 1)),
         NEW i \in DOMAIN GeometrySeries(s, 1, 1), Holds(GeometrySeries(s, 1, 1), 1, HoldLength, i)
  PROVE  i \in DOMAIN GeometrySeries(s, 2, 1) /\ Holds(GeometrySeries(s, 2, 1), 1, HoldLength - 1, i)
<1> DEFINE one == GeometrySeries(s, 1, 1)
           two == GeometrySeries(s, 2, 1)
<1>1. DOMAIN one = 0 .. Halves - 1 /\ \A j \in DOMAIN one : one[j] = Window(s, j, 1)
  BY StudyBounds DEF GeometrySeries
<1>2. DOMAIN two = 0 .. Halves - 2 /\ \A j \in DOMAIN two : two[j] = Window(s, j, 2)
  BY StudyBounds DEF GeometrySeries
<1>3. ~ Broken(one) /\ ~ Broken(two) /\ i \in DOMAIN one /\ Holds(one, 1, HoldLength, i) OBVIOUS
<1> HIDE DEF one, two
<1>4. \A k \in 0 .. HoldLength - 1 : i + k \in DOMAIN one /\ one[i + k] = "within"
  <2> TAKE k \in 0 .. HoldLength - 1
  <2>1. i + k * 1 = i + k BY <1>1, <1>3, StudyBounds
  <2> QED BY <1>3, <2>1 DEF Holds
<1>5. \A k \in 0 .. HoldLength - 1 : s[i + k][1] <= s[i + k][2]
  <2> TAKE k \in 0 .. HoldLength - 1
  <2>1. i + k \in DOMAIN one /\ i + k \in 0 .. Halves - 1 /\ one[i + k] = "within" /\ one[i + k] = Window(s, i + k, 1) BY <1>1, <1>4
  <2> QED BY <1>3, <2>1, WindowsOne
<1>6. ASSUME NEW k \in 0 .. HoldLength - 2 PROVE i + k \in DOMAIN two /\ two[i + k] = "within"
  <2>1. k \in 0 .. HoldLength - 1 /\ k + 1 \in 0 .. HoldLength - 1 BY StudyBounds
  <2>2. i \in Int /\ i + (k + 1) = (i + k) + 1 BY <1>1, <1>3, StudyBounds
  <2>3. i + k \in 0 .. Halves - 1 /\ i + (k + 1) \in 0 .. Halves - 1 BY <1>1, <1>4, <2>1
  <2>4. i + k \in 0 .. Halves - 2 BY <2>2, <2>3, StudyBounds
  <2>5. s[i + k][1] <= s[i + k][2] /\ s[(i + k) + 1][1] <= s[(i + k) + 1][2] BY <1>5, <2>1, <2>2
  <2> QED BY <1>2, <1>3, <2>4, <2>5, WindowsTwo
<1>7. i \in DOMAIN two
  <2>1. i + 0 \in DOMAIN two BY <1>6, StudyBounds
  <2>2. i \in Int BY <1>1, <1>3, StudyBounds
  <2> QED BY <2>1, <2>2
<1>8. Holds(two, 1, HoldLength - 1, i)
  <2> SUFFICES ASSUME NEW k \in 0 .. (HoldLength - 1) - 1 PROVE i + k * 1 \in DOMAIN two /\ two[i + k * 1] = "within"
    BY DEF Holds
  <2>1. k \in 0 .. HoldLength - 2 /\ i + k * 1 = i + k BY <1>1, <1>3, StudyBounds
  <2> QED BY <1>6, <2>1
<1> QED BY <1>7, <1>8 DEF two

\* ... and what holds at every stride holds at every second one, from an even half on.
LEMMA CoarserSees ==
  ASSUME NEW s, ~ Broken(GeometrySeries(s, 2, 1)),
         NEW i \in DOMAIN GeometrySeries(s, 2, 1), i % 2 = 0, Holds(GeometrySeries(s, 2, 1), 1, HoldLength - 1, i)
  PROVE  i \in DOMAIN GeometrySeries(s, 2, 2) /\ Holds(GeometrySeries(s, 2, 2), 2, HoldLength \div 2, i)
<1> DEFINE fine == GeometrySeries(s, 2, 1)
           coarse == GeometrySeries(s, 2, 2)
<1>1. DOMAIN fine = 0 .. Halves - 2 /\ \A j \in DOMAIN fine : fine[j] = Window(s, j, 2)
  BY StudyBounds DEF GeometrySeries
<1>2. DOMAIN coarse = {j \in 0 .. Halves - 2 : j % 2 = 0} /\ \A j \in DOMAIN coarse : coarse[j] = Window(s, j, 2)
  BY DEF GeometrySeries
<1>3. i \in DOMAIN fine /\ Holds(fine, 1, HoldLength - 1, i) OBVIOUS
<1> HIDE DEF fine, coarse
<1>4. i \in 0 .. Halves - 2 /\ i \in DOMAIN coarse BY <1>1, <1>2, <1>3
<1>5. ASSUME NEW k \in 0 .. (HoldLength \div 2) - 1 PROVE i + k * 2 \in DOMAIN coarse /\ coarse[i + k * 2] = "within"
  <2>1. k * 2 \in 0 .. (HoldLength - 1) - 1 /\ (k * 2) * 1 = k * 2 BY StudyBounds
  <2>2. i + k * 2 \in DOMAIN fine /\ fine[i + k * 2] = "within" BY <1>3, <2>1 DEF Holds
  <2>3. (i + k * 2) % 2 = 0 BY <1>4, StudyBounds
  <2> QED BY <1>1, <1>2, <2>2, <2>3
<1>6. Holds(coarse, 2, HoldLength \div 2, i) BY <1>5 DEF Holds
<1> QED BY <1>4, <1>6 DEF coarse


\* Where every half has echo, so has every window.
LEMMA UnbrokenTwo ==
  ASSUME NEW s \in Signals, ~ Broken(GeometrySeries(s, 1, 1))
  PROVE  ~ Broken(GeometrySeries(s, 2, 1))
<1> DEFINE one == GeometrySeries(s, 1, 1)
           two == GeometrySeries(s, 2, 1)
<1>1. DOMAIN one = 0 .. Halves - 1 /\ \A j \in DOMAIN one : one[j] = Window(s, j, 1)
  BY StudyBounds DEF GeometrySeries
<1>2. DOMAIN two = 0 .. Halves - 2 /\ \A j \in DOMAIN two : two[j] = Window(s, j, 2)
  BY StudyBounds DEF GeometrySeries
<1>3. ~ Broken(one) OBVIOUS
<1> HIDE DEF one, two
<1>4. ASSUME NEW i \in DOMAIN two PROVE two[i] # None
  <2>1. i \in DOMAIN one /\ i + 1 \in 0 .. Halves - 1 /\ i \in 0 .. Halves - 2 BY <1>1, <1>2, StudyBounds
  <2>2. s[i] \in Energies /\ s[i + 1] \in Energies BY <2>1, StudyBounds DEF Signals
  <2>3. s[i][2] \in Nat /\ s[i + 1][2] \in Nat BY <2>2, StudyBounds
  <2>4. one[i] # None BY <1>3, <2>1 DEF Broken
  <2>5. s[i][2] # 0 BY <1>1, <2>1, <2>4 DEF Window
  <2>6. s[i][2] + s[i + 1][2] # 0 BY <2>3, <2>5
  <2> QED BY <1>2, <2>6, StudyBounds DEF Window
<1>5. ~ Broken(two) BY <1>4 DEF Broken
<1> QED BY <1>5 DEF two

\* The times of one output under the three geometries, and on the two grids.
LEMMA OneDomain == ASSUME NEW s, NEW n \in {1, 2}, NEW d PROVE DOMAIN GeometrySeries(s, n, d) \subseteq 0 .. Halves
  BY StudyBounds DEF GeometrySeries

LEMMA LongerIsNoLater ==
  ASSUME NEW s \in Signals, NEW short, NEW long, short # Failure, long # Failure,
         short = MeasureGeometry(GeometrySeries(s, 1, 1), 1, HoldLength),
         long = MeasureGeometry(GeometrySeries(s, 2, 1), 1, HoldLength - 1)
  PROVE  NoLater(long, short)
<1> DEFINE one == GeometrySeries(s, 1, 1)
           two == GeometrySeries(s, 2, 1)
<1>1. DOMAIN one \subseteq 0 .. Halves /\ DOMAIN two \subseteq 0 .. Halves BY OneDomain
<1>2. SUFFICES ASSUME short # None PROVE long # None /\ long <= short BY DEF NoLater
<1>3. ~ Broken(one) /\ short \in DOMAIN one /\ Holds(one, 1, HoldLength, short)
  <2> HIDE DEF one, two
  <2>1. short = MeasureGeometry(one, 1, HoldLength) BY DEF one
  <2> QED BY <1>1, <1>2, <2>1, MeasuresATime
<1>4. ~ Broken(two) /\ \A i \in DOMAIN two : Holds(two, 1, HoldLength - 1, i) => long # None /\ long <= i
  <2> HIDE DEF one, two
  <2>1. long = MeasureGeometry(two, 1, HoldLength - 1) BY DEF two
  <2> QED BY <1>1, <2>1, MeasuresATime
<1>5. short \in DOMAIN two /\ Holds(two, 1, HoldLength - 1, short) BY <1>3, <1>4, LongerSees
<1> HIDE DEF one, two
<1> QED BY <1>4, <1>5

LEMMA CoarserIsNoLater ==
  ASSUME NEW s \in Signals, NEW fine, NEW coarse, fine # Failure, coarse # Failure,
         fine = MeasureGeometry(GeometrySeries(s, 2, 1), 1, HoldLength - 1),
         coarse = MeasureGeometry(GeometrySeries(s, 2, 2), 2, HoldLength \div 2),
         fine # None, fine % 2 = 0
  PROVE  NoLater(coarse, fine)
<1> DEFINE one == GeometrySeries(s, 2, 1)
           two == GeometrySeries(s, 2, 2)
<1>1. DOMAIN one \subseteq 0 .. Halves /\ DOMAIN two \subseteq 0 .. Halves BY OneDomain
<1>3. ~ Broken(one) /\ fine \in DOMAIN one /\ Holds(one, 1, HoldLength - 1, fine)
  <2> HIDE DEF one, two
  <2>1. fine = MeasureGeometry(one, 1, HoldLength - 1) BY DEF one
  <2> QED BY <1>1, <2>1, MeasuresATime
<1>4. \A i \in DOMAIN two : Holds(two, 2, HoldLength \div 2, i) => coarse # None /\ coarse <= i
  <2> HIDE DEF one, two
  <2>1. coarse = MeasureGeometry(two, 2, HoldLength \div 2) BY DEF two
  <2> QED BY <1>1, <2>1, MeasuresATime
<1>5. fine \in DOMAIN two /\ Holds(two, 2, HoldLength \div 2, fine) BY <1>3, CoarserSees
<1> HIDE DEF one, two
<1> QED BY <1>4, <1>5 DEF NoLater

LEMMA GridIsNoLater ==
  ASSUME NEW s \in Signals, NEW fine, NEW coarse, fine # Failure, coarse # Failure,
         fine = MeasureGrid(s, 1, HoldLength), coarse = MeasureGrid(s, 2, HoldLength \div 2),
         fine # None, fine % 2 = 0
  PROVE  NoLater(coarse, fine)
<1> DEFINE one == GeometrySeries(s, 1, 1)
           fourth == GeometrySeries(s, 2, 1)
           two == GeometrySeries(s, 2, 2)
<1>0. fine = MeasureGeometry(one, 1, HoldLength) /\ coarse = MeasureGeometry(two, 2, HoldLength \div 2)
  BY DEF MeasureGrid, GridSeries, GeometrySeries
<1>1. DOMAIN one \subseteq 0 .. Halves /\ DOMAIN two \subseteq 0 .. Halves BY OneDomain
<1>3. ~ Broken(one) /\ fine \in DOMAIN one /\ Holds(one, 1, HoldLength, fine)
  <2> HIDE DEF one, two
  <2> QED BY <1>0, <1>1, MeasuresATime
<1>4. \A i \in DOMAIN two : Holds(two, 2, HoldLength \div 2, i) => coarse # None /\ coarse <= i
  <2> HIDE DEF one, two
  <2> QED BY <1>0, <1>1, MeasuresATime
<1>5. ~ Broken(fourth) BY <1>3, UnbrokenTwo
<1>6. fine \in DOMAIN fourth /\ Holds(fourth, 1, HoldLength - 1, fine) BY <1>3, <1>5, LongerSees
<1>7. fine \in DOMAIN two /\ Holds(two, 2, HoldLength \div 2, fine) BY <1>5, <1>6, CoarserSees
<1> HIDE DEF one, two
<1> QED BY <1>4, <1>7 DEF NoLater

\* The rows a study may leave for a case.
LEMMA GeometryRows ==
  ASSUME NEW r \in RowsOf["geometry"]
  PROVE  /\ NoLater(r["100w-50s"], r["50w-50s"])
         /\ r["100w-50s"] # None /\ r["100w-50s"] % 2 = 0 => NoLater(r["100w-100s"], r["100w-50s"])
<1>1. PICK s \in Signals : r = GeometryRow(s) /\ \A g \in DOMAIN r : r[g] # Failure
  BY DEF RowsOf, Studies, Unbroken
<1>2. DOMAIN r = {"100w-100s", "100w-50s", "50w-50s"} BY <1>1 DEF GeometryRow, Measured, GeometryContract
<1>3. GeometryContract["100w-100s"] = <<2, 2, HoldLength \div 2>> /\ GeometryContract["100w-50s"] = <<2, 1, HoldLength - 1>>
      /\ GeometryContract["50w-50s"] = <<1, 1, HoldLength>> /\ DOMAIN GeometryContract = {"100w-100s", "100w-50s", "50w-50s"}
  BY DEF GeometryContract
<1>4. r["100w-100s"] = MeasureGeometry(GeometrySeries(s, 2, 2), 2, HoldLength \div 2)
  BY <1>1, <1>3 DEF GeometryRow, Measured
<1>5. r["100w-50s"] = MeasureGeometry(GeometrySeries(s, 2, 1), 1, HoldLength - 1)
  BY <1>1, <1>3 DEF GeometryRow, Measured
<1>6. r["50w-50s"] = MeasureGeometry(GeometrySeries(s, 1, 1), 1, HoldLength)
  BY <1>1, <1>3 DEF GeometryRow, Measured
<1>7. r["100w-100s"] # Failure /\ r["100w-50s"] # Failure /\ r["50w-50s"] # Failure BY <1>1, <1>2
<1>8. NoLater(r["100w-50s"], r["50w-50s"]) BY <1>5, <1>6, <1>7, LongerIsNoLater
<1>9. r["100w-50s"] # None /\ r["100w-50s"] % 2 = 0 => NoLater(r["100w-100s"], r["100w-50s"])
  BY <1>4, <1>5, <1>7, CoarserIsNoLater
<1> QED BY <1>8, <1>9

LEMMA ResolutionRows ==
  ASSUME NEW r \in RowsOf["resolution"]
  PROVE  r["50ms"] # None /\ r["50ms"] % 2 = 0 => NoLater(r["100ms"], r["50ms"])
<1>1. PICK s \in Signals : r = ResolutionRow(s) /\ \A g \in DOMAIN r : r[g] # Failure
  BY DEF RowsOf, Studies, Unbroken
<1>2. ResolutionContract["100ms"] = <<2, HoldLength \div 2>> /\ ResolutionContract["50ms"] = <<1, HoldLength>>
  BY DEF ResolutionContract
<1>3. DOMAIN r = {"100ms", "50ms"} /\ r["100ms"] = MeasureGrid(s, 2, HoldLength \div 2) /\ r["50ms"] = MeasureGrid(s, 1, HoldLength)
  BY <1>1, <1>2 DEF ResolutionRow
<1>4. r["100ms"] # Failure /\ r["50ms"] # Failure BY <1>1, <1>3
<1> QED BY <1>3, <1>4, GridIsNoLater

LEMMA ConfirmationRows ==
  ASSUME NEW r \in RowsOf["confirmation"], NEW g \in {"100w-100s", "100w-50s"}
  PROVE  r[g] \in Measures
<1>1. PICK s \in Signals : r = ConfirmationRow(s) /\ \A h \in DOMAIN r : r[h] # Failure
  BY DEF RowsOf, Studies, Unbroken
<1>2. DOMAIN ConfirmationContract = {"100w-100s", "100w-50s"} BY DEF ConfirmationContract
<1> DEFINE c == ConfirmationContract[g]
<1>3. c[1] = 2 /\ g \in DOMAIN r /\ r[g] = MeasureGeometry(GeometrySeries(s, c[1], c[2]), c[2], c[3])
  BY <1>1, <1>2 DEF ConfirmationRow, Measured, ConfirmationContract
<1>4. DOMAIN GeometrySeries(s, c[1], c[2]) \subseteq 0 .. Halves
  <2> HIDE DEF c
  <2> QED BY <1>3, OneDomain
<1>5. r[g] # Failure BY <1>1, <1>3
<1> DEFINE series == GeometrySeries(s, c[1], c[2])
           d == c[2]
           required == c[3]
<1>6. r[g] = MeasureGeometry(series, d, required) /\ DOMAIN series \subseteq 0 .. Halves BY <1>3, <1>4
<1> HIDE DEF c, series, d, required
<1>7. MeasureGeometry(series, d, required) # Failure BY <1>5, <1>6
<1>8. MeasureGeometry(series, d, required) \in Measures BY ONLY <1>6, <1>7, MeasuresATime
<1> QED BY <1>6, <1>8

LEMMA RebaselineRows ==
  ASSUME NEW st \in {"rebaseline", "echo", "sign", "side"}, NEW r \in RowsOf[st]
  PROVE  r["100w-50s"] \in Measures
<1>1. RowsOf[st] = Unbroken({RebaselineRow(s) : s \in Signals}) BY DEF RowsOf, Studies
<1>2. PICK s \in Signals : r = RebaselineRow(s) /\ \A h \in DOMAIN r : r[h] # Failure
  BY <1>1 DEF Unbroken
<1>3. RebaselineContract["100w-50s"] = <<2, 1, HoldLength - 1>> /\ DOMAIN RebaselineContract = {"100w-50s"}
  BY DEF RebaselineContract
<1>4. DOMAIN r = {"100w-50s"} /\ r["100w-50s"] = MeasureGeometry(GeometrySeries(s, 2, 1), 1, HoldLength - 1)
  BY <1>2, <1>3 DEF RebaselineRow, Measured
<1>5. DOMAIN GeometrySeries(s, 2, 1) \subseteq 0 .. Halves BY OneDomain
<1>6. r["100w-50s"] # Failure BY <1>2, <1>4
<1> QED BY <1>4, <1>5, <1>6, MeasuresATime

\* What the gain study measures lies on a grid of whole windows.
LEMMA GainRows ==
  ASSUME NEW r \in RowsOf["gain"], r["100w-100s"] # None
  PROVE  r["100w-100s"] \in Nat /\ r["100w-100s"] % 2 = 0
<1>1. RowsOf["gain"] = Unbroken({StageRow(s) : s \in Signals}) BY DEF RowsOf, Studies
<1>2. PICK s \in Signals : r = StageRow(s) /\ \A h \in DOMAIN r : r[h] # Failure BY <1>1 DEF Unbroken
<1> DEFINE series == LatencySeries(s)
<1>3. DOMAIN series = {j \in 0 .. Halves - 2 : j % 2 = 0} /\ DOMAIN series \subseteq 0 .. Halves
  BY StudyBounds DEF LatencySeries
<1>4. r["100w-100s"] = MeasureGeometry(series, 2, HoldWindows) /\ r["100w-100s"] # Failure BY <1>2 DEF StageRow
<1> HIDE DEF series
<1>5. r["100w-100s"] \in DOMAIN series BY <1>3, <1>4, MeasuresATime
<1> QED BY <1>3, <1>5

\* The files of a study are of its cases, and a finding is the conclusion from all of them.
CasesOf(st) == CASE st \in {"stages", "rebaseline"} -> {Stages[i] : i \in 1 .. Len(Stages)}
                 [] st = "confirmation" -> Compared
                 [] st \in {"echo", "gain", "sign"} -> {"RES", "NS"}
                 [] st = "side" -> {"AEC", "RES", "NS"}
                 [] OTHER -> {"full"}
FileOf(st, rows) ==
    CASE st = "resolution" -> ResolutionSeed(rows) [] st = "geometry" -> GeometrySeed(rows)
      [] st = "confirmation" -> ConfirmationSeed(rows) [] st = "stages" -> StagesSeed(rows)
      [] st = "rebaseline" -> RebaselineSeed(rows) [] st = "echo" -> EchoSeed(rows)
      [] st = "gain" -> GainSeed(rows) [] st = "sign" -> SignSeed(rows)
      [] st = "side" -> SideSeed(rows) [] OTHER -> VariabilitySeed(rows)
FilesMade(st, made) ==
    /\ st \in Studies /\ made = [s \in FreshSeeds |-> made[s]]
    /\ \A s \in FreshSeeds : made[s] # None => \E rows \in [CasesOf(st) -> RowsOf[st]] : made[s] = FileOf(st, rows)
\* The times of a case over the seeds, and their spread.
TimesIn(made, p, g) == {made[s].rows[p][g] : s \in FreshSeeds} \ {None}
SpreadIn(made, p, g) == Minus(Last(TimesIn(made, p, g)), First(TimesIn(made, p, g)))
ConfirmedIn(made) ==
    /\ \A s \in FreshSeeds, p \in Compared : \A g \in DOMAIN ConfirmationContract : made[s].rows[p][g] # None
    /\ \E p \in Compared : SpreadIn(made, p, "100w-50s") < SpreadIn(made, p, "100w-100s")
BoundariesIn(made) == [i \in 1 .. Len(Stages) - 1 |-> ClassifyBoundary({made[s].deltas[i] : s \in FreshSeeds})]
SignsIn(made) == [c \in {"extension", "neutral", "contraction", "censored"} |-> {s \in FreshSeeds : made[s].class = c}]
Concluded(st, made, found) ==
    found # None =>
        /\ \A s \in FreshSeeds : made[s] # None
        /\ st = "confirmation" /\ found.confirmed => ConfirmedIn(made)
        /\ st = "rebaseline" => found.boundaries = BoundariesIn(made)
        /\ st = "sign" => found = SignsIn(made)
        /\ st = "gain" => (found.confirmed <=> \A s \in FreshSeeds : made[s].confirmed)
StudyInv == FilesMade(study, items) /\ Concluded(study, items, finding)

LEMMA SpreadsIn == /\ \A p, g : RangeOrNone(p, g) = SpreadIn(items, p, g)
                   /\ Profiles = CasesOf(study) /\ \A rows : ItemOf(rows) = FileOf(study, rows)
  BY DEF RangeOrNone, Times, SpreadIn, TimesIn, Profiles, CasesOf, ItemOf, FileOf

LEMMA NestedGeometries == ASSUME FilesMade(study, items) PROVE GeometriesNested
<1> SUFFICES ASSUME NEW s \in Done
             PROVE  /\ study = "geometry" => \A p \in Profiles :
                          LET t == items[s].rows[p] IN
                          /\ NoLater(t["100w-50s"], t["50w-50s"])
                          /\ t["100w-50s"] # None /\ t["100w-50s"] % 2 = 0 => NoLater(t["100w-100s"], t["100w-50s"])
                    /\ study = "resolution" => \A p \in Profiles :
                          LET t == items[s].rows[p] IN
                          t["50ms"] # None /\ t["50ms"] % 2 = 0 => NoLater(t["100ms"], t["50ms"])
  BY DEF GeometriesNested
<1>1. PICK rows \in [CasesOf(study) -> RowsOf[study]] : items[s] = FileOf(study, rows) BY DEF FilesMade, Done
<1>2. CASE study = "geometry"
  <2>1. items[s].rows = rows BY <1>1, <1>2 DEF FileOf, GeometrySeed
  <2>2. \A p \in Profiles : items[s].rows[p] \in RowsOf["geometry"] BY <1>1, <1>2, <2>1, SpreadsIn
  <2> QED BY <1>2, <2>2, GeometryRows
<1>3. CASE study = "resolution"
  <2>1. items[s].rows = rows BY <1>1, <1>3 DEF FileOf, ResolutionSeed
  <2>2. \A p \in Profiles : items[s].rows[p] \in RowsOf["resolution"] BY <1>1, <1>3, <2>1, SpreadsIn
  <2> QED BY <1>3, <2>2, ResolutionRows
<1> QED BY <1>2, <1>3

\* What is added up over a set is well defined, and no less of what is nowhere less.
AddsUp(f, add) ==
    add = [S \in SUBSET DOMAIN f |->
              IF S = {} THEN 0 ELSE LET x == CHOOSE x \in S : TRUE IN f[x] + add[S \ {x}]]
Small(f, n) == {S \in SUBSET DOMAIN f : Cardinality(S) <= n}
AddsUpTo(f, add, n) ==
    add = [S \in Small(f, n) |-> IF S = {} THEN 0 ELSE LET x == CHOOSE x \in S : TRUE IN f[x] + add[S \ {x}]]

LEMMA OneLess ==
  ASSUME NEW f, IsFiniteSet(DOMAIN f), NEW n \in Nat, NEW S \in Small(f, n), S # {}, NEW x \in S
  PROVE  n - 1 \in Nat /\ S \ {x} \in Small(f, n - 1) /\ S \ {x} \in Small(f, n) /\ Cardinality(S \ {x}) < Cardinality(S)
         /\ Cardinality(S \ {x}) \in Nat /\ Cardinality(S) \in Nat
<1>1. IsFiniteSet(S) /\ S \in SUBSET DOMAIN f /\ Cardinality(S) <= n BY FS_Subset DEF Small
<1>2. Cardinality(S) \in Nat /\ Cardinality(S) # 0 BY <1>1, FS_CardinalityType, FS_EmptySet
<1>3. IsFiniteSet(S \ {x}) /\ Cardinality(S \ {x}) = Cardinality(S) - 1 BY <1>1, FS_RemoveElement
<1>4. S \ {x} \in SUBSET DOMAIN f BY <1>1
<1>5. Cardinality(S \ {x}) \in Nat BY <1>3, FS_CardinalityType
<1>6. n - 1 \in Nat /\ Cardinality(S \ {x}) <= n - 1 /\ Cardinality(S \ {x}) <= n BY <1>1, <1>2, <1>3
<1> QED BY <1>2, <1>3, <1>4, <1>5, <1>6 DEF Small

LEMMA SmallestIsEmpty == ASSUME NEW f, IsFiniteSet(DOMAIN f), NEW S \in Small(f, 0) PROVE S = {}
<1>1. IsFiniteSet(S) /\ Cardinality(S) <= 0 BY FS_Subset DEF Small
<1>2. Cardinality(S) = 0 BY <1>1, FS_CardinalityType
<1> QED BY <1>1, <1>2, FS_EmptySet

LEMMA SumRuns == ASSUME NEW f, IsFiniteSet(DOMAIN f), NEW n \in Nat PROVE \E add : AddsUpTo(f, add, n)
<1> DEFINE never == {k \in 0 .. n : ~ \E add : AddsUpTo(f, add, k)}
<1>1. SUFFICES ASSUME never # {} PROVE FALSE
  <2>1. n \in 0 .. n OBVIOUS
  <2> QED BY <2>1
<1>2. PICK m \in never : \A y \in never : m <= y
  <2>1. never \subseteq Nat OBVIOUS
  <2> HIDE DEF never
  <2> QED BY <1>1, <2>1, LeastNumber
<1>3. m \in 0 .. n /\ ~ \E add : AddsUpTo(f, add, m) OBVIOUS
<1>4. m # 0
  <2> DEFINE add == [S \in Small(f, 0) |-> 0]
  <2>1. \A S \in Small(f, 0) : S = {} BY SmallestIsEmpty
  <2>2. add = [S \in Small(f, 0) |-> IF S = {} THEN 0 ELSE LET x == CHOOSE x \in S : TRUE IN f[x] + add[S \ {x}]]
    BY <2>1
  <2> HIDE DEF add
  <2>3. AddsUpTo(f, add, 0) BY <2>2 DEF AddsUpTo
  <2> QED BY <1>3, <2>3
<1>5. m - 1 \in 0 .. n BY <1>3, <1>4
<1>6. PICK add : AddsUpTo(f, add, m - 1)
  <2>1. ~(m <= m - 1) BY <1>3
  <2>2. m - 1 \notin never BY <1>2, <2>1
  <2> QED BY <1>5, <2>2
<1> HIDE DEF never
<1> DEFINE more == [S \in Small(f, m) |->
                       IF S \in Small(f, m - 1) THEN add[S]
                       ELSE IF S = {} THEN 0 ELSE LET x == CHOOSE x \in S : TRUE IN f[x] + add[S \ {x}]]
<1>7. \A S \in Small(f, m - 1) :
          add[S] = IF S = {} THEN 0 ELSE LET x == CHOOSE x \in S : TRUE IN f[x] + add[S \ {x}]
  BY <1>6 DEF AddsUpTo
<1>8. \A S \in Small(f, m) : more[S] = IF S = {} THEN 0 ELSE LET x == CHOOSE x \in S : TRUE IN f[x] + more[S \ {x}]
  <2> TAKE S \in Small(f, m)
  <2>1. CASE S = {}
    <3>1. more[S] = 0 BY <1>7, <2>1
    <3> QED BY <2>1, <3>1
  <2>2. CASE S # {}
    <3> DEFINE x == CHOOSE x \in S : TRUE
    <3>1. x \in S BY <2>2
    <3>2. S \ {x} \in Small(f, m - 1) /\ S \ {x} \in Small(f, m)
      <4>1. m \in Nat BY <1>3
      <4> HIDE DEF x, more
      <4> QED BY <2>2, <3>1, <4>1, OneLess
    <3>3. more[S \ {x}] = add[S \ {x}] BY <3>2
    <3>4. more[S] = f[x] + add[S \ {x}] BY <1>7, <2>2
    <3> QED BY <2>2, <3>3, <3>4
  <2> QED BY <2>1, <2>2
<1>9. more = [S \in Small(f, m) |-> more[S]] OBVIOUS
<1> HIDE DEF more
<1>10. AddsUpTo(f, more, m) BY <1>8, <1>9 DEF AddsUpTo
<1> QED BY <1>3, <1>10

LEMMA SumIsAdded ==
  ASSUME NEW f, IsFiniteSet(DOMAIN f)
  PROVE  \E add : AddsUp(f, add) /\ SumOf(f) = add[DOMAIN f]
<1> DEFINE n == Cardinality(DOMAIN f)
<1>1. n \in Nat BY FS_CardinalityType
<1>2. Small(f, n) = SUBSET DOMAIN f
  <2>1. \A S \in SUBSET DOMAIN f : Cardinality(S) <= n BY FS_Subset
  <2> QED BY <2>1 DEF Small
<1>3. \E add : AddsUpTo(f, add, n)
  <2> HIDE DEF n
  <2> QED BY <1>1, SumRuns
<1>4. \E add : AddsUp(f, add) BY <1>2, <1>3 DEF AddsUp, AddsUpTo
<1> DEFINE sum == CHOOSE add : AddsUp(f, add)
<1>5. AddsUp(f, sum) BY <1>4
<1>6. SumOf(f) = sum[DOMAIN f] BY DEF SumOf, AddsUp
<1> QED BY <1>5, <1>6

LEMMA SumsCompare ==
  ASSUME NEW f, NEW g, DOMAIN f = DOMAIN g, IsFiniteSet(DOMAIN f),
         \A x \in DOMAIN f : f[x] \in Int /\ g[x] \in Int /\ f[x] <= g[x]
  PROVE  SumOf(f) \in Int /\ SumOf(g) \in Int /\ SumOf(f) <= SumOf(g)
<1>1. PICK a : AddsUp(f, a) /\ SumOf(f) = a[DOMAIN f] BY SumIsAdded
<1>2. PICK b : AddsUp(g, b) /\ SumOf(g) = b[DOMAIN f] BY SumIsAdded
<1> DEFINE Fine(S) == a[S] \in Int /\ b[S] \in Int /\ a[S] <= b[S]
<1> DEFINE bad == {Cardinality(S) : S \in {S \in SUBSET DOMAIN f : ~ Fine(S)}}
<1>3. \A S \in SUBSET DOMAIN f :
          /\ a[S] = IF S = {} THEN 0 ELSE LET x == CHOOSE x \in S : TRUE IN f[x] + a[S \ {x}]
          /\ b[S] = IF S = {} THEN 0 ELSE LET x == CHOOSE x \in S : TRUE IN g[x] + b[S \ {x}]
  BY <1>1, <1>2 DEF AddsUp
<1>4. bad = {}
  <2>1. SUFFICES ASSUME bad # {} PROVE FALSE OBVIOUS
  <2>2. \A S \in SUBSET DOMAIN f : IsFiniteSet(S) /\ Cardinality(S) \in Nat BY FS_Subset, FS_CardinalityType
  <2>3. bad \subseteq Nat BY <2>2
  <2>4. PICK k \in bad : \A y \in bad : k <= y
    <3> HIDE DEF bad
    <3> QED BY <2>1, <2>3, LeastNumber
  <2>5. PICK S \in SUBSET DOMAIN f : k = Cardinality(S) /\ ~ Fine(S) BY <2>4
  <2>6. CASE S = {}
    <3>1. a[S] = 0 BY <1>3, <2>6
    <3>2. b[S] = 0 BY <1>3, <2>6
    <3> QED BY <2>5, <3>1, <3>2
  <2>7. CASE S # {}
    <3> DEFINE x == CHOOSE x \in S : TRUE
    <3>1. x \in S BY <2>7
    <3>2. S \ {x} \in SUBSET DOMAIN f /\ Cardinality(S \ {x}) < Cardinality(S)
          /\ Cardinality(S \ {x}) \in Nat /\ Cardinality(S) \in Nat
      <4>1. Cardinality(S) \in Nat /\ S \in Small(f, Cardinality(S)) BY <2>2 DEF Small
      <4> HIDE DEF x
      <4> QED BY <2>7, <3>1, <4>1, OneLess
    <3>3. Fine(S \ {x})
      <4>1. Cardinality(S \ {x}) \notin bad
        <5>1. ~(k <= Cardinality(S \ {x})) BY <2>5, <3>2
        <5> HIDE DEF bad, x
        <5> QED BY <2>4, <5>1
      <4> QED BY <3>2, <4>1
    <3>4. a[S] = f[x] + a[S \ {x}] /\ b[S] = g[x] + b[S \ {x}] BY <1>3, <2>7
    <3>5. f[x] \in Int /\ g[x] \in Int /\ f[x] <= g[x] BY <3>1
    <3> HIDE DEF x
    <3> QED BY <2>5, <3>3, <3>4, <3>5
  <2> QED BY <2>6, <2>7
<1>5. Fine(DOMAIN f)
  <2>1. DOMAIN f \in SUBSET DOMAIN f OBVIOUS
  <2>2. Cardinality(DOMAIN f) \notin bad
    <3> HIDE DEF bad
    <3> QED BY <1>4
  <2> QED BY <2>1, <2>2
<1> QED BY <1>1, <1>2, <1>5

\* A confirmed geometry was compared on every seed, and spreads less on some stage.
LEMMA CensoredNone ==
  ASSUME FilesMade("confirmation", items), NEW s \in FreshSeeds, items[s] # None,
         NEW g \in {"100w-100s", "100w-50s"}, items[s].censored[g] = 0
  PROVE  \A p \in Compared : items[s].rows[p][g] # None
<1>1. PICK rows \in [CasesOf("confirmation") -> RowsOf["confirmation"]] : items[s] = FileOf("confirmation", rows)
  BY DEF FilesMade
<1>2. CasesOf("confirmation") = Compared BY DEF CasesOf
<1>3. items[s] = ConfirmationSeed(rows) BY <1>1 DEF FileOf
<1>4. DOMAIN ConfirmationContract = {"100w-100s", "100w-50s"} BY DEF ConfirmationContract
<1>5. Cardinality(Censored(rows, g)) = 0 BY <1>3, <1>4 DEF ConfirmationSeed
<1>6. IsFiniteSet(Censored(rows, g))
  <2>1. Censored(rows, g) \in SUBSET Compared BY <1>1, <1>2 DEF Censored
  <2> QED BY <2>1, StudyBounds, FS_Subset
<1>7. Censored(rows, g) = {} BY <1>5, <1>6, FS_EmptySet
<1>8. items[s].rows = rows BY <1>3 DEF ConfirmationSeed
<1> QED BY <1>1, <1>2, <1>7, <1>8 DEF Censored

LEMMA TimesTyped ==
  ASSUME FilesMade("confirmation", items), \A s \in FreshSeeds : items[s] # None,
         NEW p \in Compared, NEW g \in {"100w-100s", "100w-50s"}
  PROVE  /\ TimesIn(items, p, g) \subseteq 0 .. Halves
         /\ SpreadIn(items, p, g) # None => SpreadIn(items, p, g) \in Int
<1>1. ASSUME NEW s \in FreshSeeds PROVE items[s].rows[p][g] \in Measures
  <2>1. PICK rows \in [CasesOf("confirmation") -> RowsOf["confirmation"]] : items[s] = FileOf("confirmation", rows)
    BY DEF FilesMade
  <2>2. CasesOf("confirmation") = Compared BY DEF CasesOf
  <2>3. items[s].rows = rows BY <2>1 DEF FileOf, ConfirmationSeed
  <2>4. rows[p] \in RowsOf["confirmation"] BY <2>1, <2>2
  <2> QED BY <2>3, <2>4, ConfirmationRows
<1>2. TimesIn(items, p, g) \subseteq 0 .. Halves BY <1>1 DEF TimesIn, Measures
<1> DEFINE times == TimesIn(items, p, g)
<1>3. SpreadIn(items, p, g) = Minus(Last(times), First(times)) BY DEF SpreadIn
<1> HIDE DEF times
<1>4. times \subseteq 0 .. Halves BY <1>2 DEF times
<1>5. times \subseteq Nat BY <1>4, StudyBounds
<1>6. times # {} => Last(times) \in times /\ First(times) \in times BY <1>4, <1>5, FirstOf, LastOf, StudyBounds
<1>7. times = {} => Minus(Last(times), First(times)) = None BY <1>4, <1>5, LastOf, StudyBounds DEF Minus
<1>8. times # {} => Last(times) \in Int /\ First(times) \in Int
  <2>1. \A i \in times : i \in Int BY <1>5
  <2> QED BY <1>6, <2>1
<1>9. Minus(Last(times), First(times)) # None => Minus(Last(times), First(times)) \in Int
  BY <1>7, <1>8 DEF Minus
<1> QED BY <1>2, <1>3, <1>9

LEMMA ConfirmationHolds ==
  ASSUME study = "confirmation", FilesMade(study, items), \A s \in FreshSeeds : items[s] # None, ConfirmationAll.confirmed
  PROVE  ConfirmedIn(items)
<1> DEFINE range(g) == [p \in Compared |-> SpreadIn(items, p, g)]
           known == {p \in Compared : \A g \in DOMAIN ConfirmationContract : range(g)[p] # None}
           added(g) == SumOf([p \in known |-> range(g)[p]])
<1>1. DOMAIN ConfirmationContract = {"100w-100s", "100w-50s"} BY DEF ConfirmationContract
<1>2. Profiles = Compared /\ \A p, g : RangeOrNone(p, g) = SpreadIn(items, p, g) BY SpreadsIn DEF CasesOf
<1>3. /\ \A s \in FreshSeeds, g \in DOMAIN ConfirmationContract : items[s].censored[g] = 0
      /\ added("100w-50s") < added("100w-100s")
  BY <1>2 DEF ConfirmationAll
<1>4. \A s \in FreshSeeds, p \in Compared : \A g \in DOMAIN ConfirmationContract : items[s].rows[p][g] # None
  BY <1>1, <1>3, CensoredNone
<1>5. \A p \in known : SpreadIn(items, p, "100w-100s") \in Int /\ SpreadIn(items, p, "100w-50s") \in Int
  BY <1>1, TimesTyped
<1> DEFINE f == [p \in known |-> SpreadIn(items, p, "100w-100s")]
           h == [p \in known |-> SpreadIn(items, p, "100w-50s")]
<1>6. added("100w-100s") = SumOf(f) /\ added("100w-50s") = SumOf(h)
  <2>1. f = [p \in known |-> range("100w-100s")[p]] /\ h = [p \in known |-> range("100w-50s")[p]] OBVIOUS
  <2> HIDE DEF f, h, range, known
  <2> QED BY <2>1
<1>7. IsFiniteSet(known)
  <2>1. known \in SUBSET Compared OBVIOUS
  <2> HIDE DEF known
  <2> QED BY <2>1, StudyBounds, FS_Subset
<1>8. ASSUME \A p \in known : ~ (SpreadIn(items, p, "100w-50s") < SpreadIn(items, p, "100w-100s")) PROVE FALSE
  <2>1. DOMAIN f = known /\ DOMAIN h = known OBVIOUS
  <2>2. \A p \in known : f[p] \in Int /\ h[p] \in Int /\ f[p] <= h[p] BY <1>5, <1>8
  <2> HIDE DEF f, h, known, added
  <2>3. SumOf(f) \in Int /\ SumOf(h) \in Int /\ SumOf(f) <= SumOf(h) BY <1>7, <2>1, <2>2, SumsCompare
  <2>4. SumOf(h) < SumOf(f) BY <1>3, <1>6
  <2> QED BY <2>3, <2>4
<1>9. \E p \in Compared : SpreadIn(items, p, "100w-50s") < SpreadIn(items, p, "100w-100s") BY <1>8
<1> QED BY <1>4, <1>9 DEF ConfirmedIn

LEMMA ConfirmedHolds == ASSUME StudyInv PROVE ConfirmedOnAll
<1> SUFFICES ASSUME study = "confirmation", finding # None, finding.confirmed
             PROVE  /\ \A s \in FreshSeeds, p \in Profiles : \A g \in DOMAIN ConfirmationContract : items[s].rows[p][g] # None
                    /\ \E p \in Profiles : RangeOrNone(p, "100w-50s") < RangeOrNone(p, "100w-100s")
  BY DEF ConfirmedOnAll
<1>1. ConfirmedIn(items) BY DEF StudyInv, Concluded
<1>2. Profiles = Compared BY SpreadsIn DEF CasesOf
<1>3. \A p, g : RangeOrNone(p, g) = SpreadIn(items, p, g) BY SpreadsIn
<1> QED BY <1>1, <1>2, <1>3 DEF ConfirmedIn

\* Boundaries add up.
LEMMA StepsAddUp ==
  ASSUME NEW n \in Nat, n >= 2, NEW d \in Nat, NEW times, \A i \in 1 .. n : times[i] \in Measures,
         \A i \in 1 .. n - 1 : Minus(times[i + 1], times[i]) # None /\ Minus(times[i + 1], times[i]) >= d
  PROVE  Minus(times[n], times[1]) # None /\ Minus(times[n], times[1]) >= d * (n - 1)
<1> DEFINE Far(k) == times[k] # None /\ times[1] # None /\ times[k] - times[1] >= d * (k - 1)
<1> DEFINE bad == {k \in 2 .. n : ~ Far(k)}
<1>1. \A i \in 1 .. n : times[i] # None => times[i] \in Int BY StudyBounds DEF Measures
<1>2. \A i \in 1 .. n - 1 : times[i] # None /\ times[i + 1] # None /\ times[i + 1] - times[i] >= d
  <2> TAKE i \in 1 .. n - 1
  <2>1. times[i] # None /\ times[i + 1] # None BY DEF Minus
  <2>2. Minus(times[i + 1], times[i]) = times[i + 1] - times[i] BY <2>1 DEF Minus
  <2> QED BY <2>1, <2>2
<1>3. bad = {}
  <2>1. SUFFICES ASSUME bad # {} PROVE FALSE OBVIOUS
  <2>2. bad \subseteq Nat OBVIOUS
  <2>3. PICK k \in bad : \A y \in bad : k <= y
    <3> HIDE DEF bad
    <3> QED BY <2>1, <2>2, LeastNumber
  <2>4. k \in 2 .. n /\ ~ Far(k) OBVIOUS
  <2>5. CASE k = 2
    <3>1. 1 \in 1 .. n - 1 /\ 1 + 1 = 2 OBVIOUS
    <3>2. times[1] # None /\ times[2] # None /\ times[2] - times[1] >= d BY <1>2, <3>1
    <3>3. d * (2 - 1) = d OBVIOUS
    <3> QED BY <2>4, <2>5, <3>2, <3>3
  <2>6. CASE k # 2
    <3>1. k - 1 \in 2 .. n /\ k - 1 \in 1 .. n - 1 /\ (k - 1) + 1 = k /\ ~(k <= k - 1) BY <2>4, <2>6
    <3>2. k - 1 \notin bad
      <4> HIDE DEF bad
      <4> QED BY <2>3, <3>1
    <3>3. Far(k - 1) BY <3>1, <3>2
    <3>4. times[k] # None /\ times[k] - times[k - 1] >= d BY <1>2, <3>1
    <3>5. times[k] \in Int /\ times[k - 1] \in Int /\ times[1] \in Int
      <4>1. k \in 1 .. n /\ k - 1 \in 1 .. n /\ 1 \in 1 .. n BY <3>1, <2>4
      <4> QED BY <1>1, <3>3, <3>4, <4>1
    <3>6. d * (k - 1) = d * ((k - 1) - 1) + d BY <2>4, Z3T(30)
    <3>7. d * ((k - 1) - 1) \in Int /\ d * (k - 1) \in Int BY <2>4
    <3>8. times[k] - times[1] >= d * (k - 1) BY <3>3, <3>4, <3>5, <3>6, <3>7
    <3> QED BY <2>4, <3>3, <3>4, <3>8
  <2> QED BY <2>5, <2>6
<1>4. Far(n)
  <2>1. n \in 2 .. n /\ n \notin bad
    <3> HIDE DEF bad
    <3> QED BY <1>3
  <2> QED BY <2>1
<1>5. Minus(times[n], times[1]) = times[n] - times[1] BY <1>4 DEF Minus
<1>6. Minus(times[n], times[1]) # None
  <2>1. n \in 1 .. n /\ 1 \in 1 .. n OBVIOUS
  <2>2. times[n] \in Int /\ times[1] \in Int BY <1>1, <1>4, <2>1
  <2> QED BY <1>5, <2>2, StudyBounds
<1> QED BY <1>4, <1>5, <1>6

LEMMA StillAddUp ==
  ASSUME NEW n \in Nat, n >= 2, NEW times, \A i \in 1 .. n : times[i] \in Measures,
         \A i \in 1 .. n - 1 : Minus(times[i + 1], times[i]) = 0
  PROVE  Minus(times[n], times[1]) = 0
<1> DEFINE bad == {k \in 2 .. n : ~ (times[k] # None /\ times[k] = times[1])}
<1>1. \A i \in 1 .. n : times[i] # None => times[i] \in Int BY StudyBounds DEF Measures
<1>2. \A i \in 1 .. n - 1 : times[i] # None /\ times[i + 1] # None /\ times[i + 1] = times[i]
  <2> TAKE i \in 1 .. n - 1
  <2>0. Minus(times[i + 1], times[i]) # None BY StudyBounds
  <2>1. times[i] # None /\ times[i + 1] # None BY <2>0 DEF Minus
  <2>2. Minus(times[i + 1], times[i]) = times[i + 1] - times[i] BY <2>1 DEF Minus
  <2>3. times[i] \in Int /\ times[i + 1] \in Int
    <3>1. i \in 1 .. n /\ i + 1 \in 1 .. n OBVIOUS
    <3> QED BY <1>1, <2>1, <3>1
  <2> QED BY <2>1, <2>2, <2>3
<1>3. bad = {}
  <2>1. SUFFICES ASSUME bad # {} PROVE FALSE OBVIOUS
  <2>2. bad \subseteq Nat OBVIOUS
  <2>3. PICK k \in bad : \A y \in bad : k <= y
    <3> HIDE DEF bad
    <3> QED BY <2>1, <2>2, LeastNumber
  <2>4. k \in 2 .. n /\ ~ (times[k] # None /\ times[k] = times[1]) OBVIOUS
  <2>5. k - 1 \in 1 .. n - 1 /\ (k - 1) + 1 = k /\ ~(k <= k - 1) BY <2>4
  <2>6. times[k] # None /\ times[k] = times[k - 1] BY <1>2, <2>5
  <2>7. k - 1 \notin bad
    <3> HIDE DEF bad
    <3> QED BY <2>3, <2>5
  <2>8. times[k - 1] = times[1] BY <2>4, <2>5, <2>7
  <2> QED BY <2>4, <2>6, <2>8
<1>4. times[n] # None /\ times[n] = times[1]
  <2>1. n \in 2 .. n /\ n \notin bad
    <3> HIDE DEF bad
    <3> QED BY <1>3
  <2> QED BY <2>1
<1>5. times[n] \in Int BY <1>1, <1>4
<1> QED BY <1>4, <1>5 DEF Minus

LEMMA ClassesSay ==
  ASSUME NEW deltas
  PROVE  /\ ClassifyBoundary(deltas) = "repeatable_extension" => None \notin deltas /\ \A d \in deltas : d >= MinDelta
         /\ ClassifyBoundary(deltas) = "stable_zero" => deltas = {0}
<1>1. CASE None \in deltas BY <1>1 DEF ClassifyBoundary
<1>2. CASE None \notin deltas
  <2>1. CASE \A d \in deltas : d >= MinDelta BY <1>2, <2>1 DEF ClassifyBoundary
  <2>2. CASE ~ \A d \in deltas : d >= MinDelta BY <1>2, <2>2 DEF ClassifyBoundary
  <2> QED BY <2>1, <2>2
<1> QED BY <1>1, <1>2

LEMMA TelescopeHolds == ASSUME StudyInv PROVE BoundariesTelescope
<1> SUFFICES ASSUME study = "rebaseline", finding # None
             PROVE  LET whole(s) == Between(items[s].rows, "100w-50s", Stages[1], Stages[Len(Stages)])
                        all(c) == \A i \in DOMAIN finding.boundaries : finding.boundaries[i] = c IN
                    /\ all("repeatable_extension") =>
                          \A s \in FreshSeeds : whole(s) # None /\ whole(s) >= MinDelta * (Len(Stages) - 1)
                    /\ all("stable_zero") => \A s \in FreshSeeds : whole(s) = 0
  BY DEF BoundariesTelescope
<1> DEFINE n == Len(Stages)
           all(c) == \A i \in DOMAIN finding.boundaries : finding.boundaries[i] = c
           whole(s) == Between(items[s].rows, "100w-50s", Stages[1], Stages[n])
           times(s) == [i \in 1 .. n |-> items[s].rows[Stages[i]]["100w-50s"]]
<1>0. n \in Nat /\ n >= 2 /\ MinDelta \in Nat BY StudyBounds
<1>1. finding.boundaries = BoundariesIn(items) /\ \A s \in FreshSeeds : items[s] # None BY DEF StudyInv, Concluded
<1>2. DOMAIN finding.boundaries = 1 .. n - 1
      /\ \A i \in 1 .. n - 1 : finding.boundaries[i] = ClassifyBoundary({items[s].deltas[i] : s \in FreshSeeds})
  BY <1>1 DEF BoundariesIn
<1>3. ASSUME NEW s \in FreshSeeds
      PROVE  /\ \A i \in 1 .. n : times(s)[i] \in Measures
             /\ \A i \in 1 .. n - 1 : items[s].deltas[i] = Minus(times(s)[i + 1], times(s)[i])
             /\ whole(s) = Minus(times(s)[n], times(s)[1])
  <2>1. PICK rows \in [CasesOf("rebaseline") -> RowsOf["rebaseline"]] : items[s] = FileOf("rebaseline", rows)
    BY <1>1 DEF StudyInv, FilesMade
  <2>2. items[s] = RebaselineSeed(rows) BY <2>1 DEF FileOf
  <2>3. items[s].rows = rows /\ items[s].deltas = [i \in 1 .. n - 1 |-> Between(rows, "100w-50s", Stages[i], Stages[i + 1])]
    BY <2>2 DEF RebaselineSeed
  <2>4. \A i \in 1 .. n : Stages[i] \in CasesOf("rebaseline") BY DEF CasesOf
  <2>5. \A i \in 1 .. n : rows[Stages[i]]["100w-50s"] \in Measures BY <2>1, <2>4, RebaselineRows
  <2>6. \A i \in 1 .. n : times(s)[i] = rows[Stages[i]]["100w-50s"] BY <2>3
  <2>7. \A i \in 1 .. n - 1 : i \in 1 .. n /\ i + 1 \in 1 .. n BY <1>0
  <2>8. \A i \in 1 .. n - 1 : items[s].deltas[i] = Minus(times(s)[i + 1], times(s)[i])
    <3> HIDE DEF times, n
    <3> QED BY <2>3, <2>6, <2>7 DEF Between
  <2>9. whole(s) = Minus(times(s)[n], times(s)[1])
    <3>1. 1 \in 1 .. n /\ n \in 1 .. n BY <1>0
    <3> HIDE DEF times, n
    <3> QED BY <2>3, <2>6, <3>1 DEF Between
  <2> QED BY <2>5, <2>6, <2>8, <2>9
<1> HIDE DEF times, n, whole
<1>4. ASSUME all("repeatable_extension"), NEW s \in FreshSeeds PROVE whole(s) # None /\ whole(s) >= MinDelta * (n - 1)
  <2>1. \A i \in 1 .. n - 1 : Minus(times(s)[i + 1], times(s)[i]) # None /\ Minus(times(s)[i + 1], times(s)[i]) >= MinDelta
    <3> TAKE i \in 1 .. n - 1
    <3>1. ClassifyBoundary({items[x].deltas[i] : x \in FreshSeeds}) = "repeatable_extension" BY <1>2, <1>4
    <3>2. items[s].deltas[i] \in {items[x].deltas[i] : x \in FreshSeeds} OBVIOUS
    <3>3. items[s].deltas[i] # None /\ items[s].deltas[i] >= MinDelta BY <3>1, <3>2, ClassesSay
    <3> QED BY <1>3, <3>3
  <2> QED BY <1>0, <1>3, <2>1, StepsAddUp
<1>5. ASSUME all("stable_zero"), NEW s \in FreshSeeds PROVE whole(s) = 0
  <2>1. \A i \in 1 .. n - 1 : Minus(times(s)[i + 1], times(s)[i]) = 0
    <3> TAKE i \in 1 .. n - 1
    <3>1. ClassifyBoundary({items[x].deltas[i] : x \in FreshSeeds}) = "stable_zero" BY <1>2, <1>5
    <3>2. items[s].deltas[i] \in {items[x].deltas[i] : x \in FreshSeeds} OBVIOUS
    <3>3. items[s].deltas[i] = 0 BY <3>1, <3>2, ClassesSay
    <3> QED BY <1>3, <3>3
  <2> QED BY <1>0, <1>3, <2>1, StillAddUp
<1> QED BY <1>4, <1>5 DEF whole, n

LEMMA SignsHold == ASSUME StudyInv PROVE SignsAgree
<1> SUFFICES ASSUME study = "sign", finding # None
             PROVE  /\ UNION {finding[c] : c \in DOMAIN finding} = FreshSeeds
                    /\ \A c, d \in DOMAIN finding : c # d => finding[c] \cap finding[d] = {}
                    /\ \A s \in FreshSeeds :
                          /\ s \in finding["extension"] <=> EchoSeed(items[s].rows).confirmed
                          /\ s \in finding["censored"] <=> None \in {items[s].rows[p]["100w-50s"] : p \in Profiles}
  BY DEF SignsAgree
<1> DEFINE delta(s) == Between(items[s].rows, "100w-50s", "RES", "NS")
<1>1. finding = SignsIn(items) /\ \A s \in FreshSeeds : items[s] # None BY DEF StudyInv, Concluded
<1>2. ASSUME NEW s \in FreshSeeds
      PROVE  /\ items[s].class = ClassifySign(delta(s)) /\ delta(s) \in Int \cup {None}
             /\ delta(s) = None <=> None \in {items[s].rows[p]["100w-50s"] : p \in Profiles}
  <2>1. PICK rows \in [CasesOf("sign") -> RowsOf["sign"]] : items[s] = FileOf("sign", rows)
    BY <1>1 DEF StudyInv, FilesMade
  <2>2. items[s] = SignSeed(rows) BY <2>1 DEF FileOf
  <2>3. items[s].rows = rows /\ items[s].class = ClassifySign(Between(rows, "100w-50s", "RES", "NS"))
    BY <2>2 DEF SignSeed
  <2>4. CasesOf("sign") = {"RES", "NS"} /\ Profiles = {"RES", "NS"} BY SpreadsIn DEF CasesOf
  <2>5. rows["RES"]["100w-50s"] \in Measures /\ rows["NS"]["100w-50s"] \in Measures BY <2>1, <2>4, RebaselineRows
  <2>6. delta(s) = Minus(rows["NS"]["100w-50s"], rows["RES"]["100w-50s"]) BY <2>3 DEF Between
  <2>7. rows["RES"]["100w-50s"] = None \/ rows["NS"]["100w-50s"] = None <=> None \in {items[s].rows[p]["100w-50s"] : p \in Profiles}
    BY <2>3, <2>4
  <2>8. /\ rows["RES"]["100w-50s"] # None => rows["RES"]["100w-50s"] \in Int
        /\ rows["NS"]["100w-50s"] # None => rows["NS"]["100w-50s"] \in Int
    BY <2>5, StudyBounds DEF Measures
  <2>9. delta(s) = None <=> rows["RES"]["100w-50s"] = None \/ rows["NS"]["100w-50s"] = None
    BY <2>6, <2>8, StudyBounds DEF Minus
  <2>10. delta(s) \in Int \cup {None} BY <2>6, <2>8 DEF Minus
  <2> QED BY <2>3, <2>7, <2>9, <2>10
<1>3. DOMAIN finding = {"extension", "neutral", "contraction", "censored"}
      /\ \A c \in DOMAIN finding : finding[c] = {s \in FreshSeeds : items[s].class = c}
  BY <1>1 DEF SignsIn
<1> HIDE DEF delta
<1>4. \A s \in FreshSeeds :
          /\ items[s].class = "censored" <=> delta(s) = None
          /\ items[s].class = "extension" <=> delta(s) # None /\ delta(s) >= 1
          /\ items[s].class \in {"extension", "neutral", "contraction", "censored"}
  <2> TAKE s \in FreshSeeds
  <2>1. items[s].class = ClassifySign(delta(s)) /\ delta(s) \in Int \cup {None} BY <1>2
  <2>2. CASE delta(s) = None
    <3>1. items[s].class = "censored" BY <2>1, <2>2 DEF ClassifySign
    <3> QED BY <2>2, <3>1
  <2>3. CASE delta(s) # None
    <3>1. delta(s) \in Int BY <2>1, <2>3
    <3>2. CASE delta(s) >= 1
      <4>1. items[s].class = "extension" BY <2>1, <2>3, <3>1, <3>2 DEF ClassifySign
      <4> QED BY <2>3, <3>2, <4>1
    <3>3. CASE delta(s) <= -1
      <4>1. items[s].class = "contraction" BY <2>1, <2>3, <3>1, <3>3 DEF ClassifySign
      <4> QED BY <2>3, <3>1, <3>3, <4>1
    <3>4. CASE delta(s) = 0
      <4>1. items[s].class = "neutral" BY <2>1, <2>3, <3>4 DEF ClassifySign
      <4> QED BY <2>3, <3>4, <4>1
    <3> QED BY <3>1, <3>2, <3>3, <3>4
  <2> QED BY <2>2, <2>3
<1>5. UNION {finding[c] : c \in DOMAIN finding} = FreshSeeds BY <1>3, <1>4
<1>6. \A c, d \in DOMAIN finding : c # d => finding[c] \cap finding[d] = {} BY <1>3
<1>7. ASSUME NEW s \in FreshSeeds
      PROVE  /\ s \in finding["extension"] <=> EchoSeed(items[s].rows).confirmed
             /\ s \in finding["censored"] <=> None \in {items[s].rows[p]["100w-50s"] : p \in Profiles}
  <2>1. s \in finding["extension"] <=> delta(s) # None /\ delta(s) >= 1 BY <1>3, <1>4
  <2>2. EchoSeed(items[s].rows).confirmed <=> delta(s) # None /\ delta(s) >= 1 BY DEF EchoSeed, delta
  <2>3. s \in finding["censored"] <=> delta(s) = None BY <1>3, <1>4
  <2> QED BY <1>2, <2>1, <2>2, <2>3
<1> QED BY <1>5, <1>6, <1>7

LEMMA GainHolds == ASSUME StudyInv PROVE GainAsksOneStep
<1> DEFINE t(s, p) == items[s].rows[p]["100w-100s"]
           later(s) == t(s, "RES") # None /\ t(s, "NS") # None /\ t(s, "RES") < t(s, "NS")
<1>1. SUFFICES ASSUME study = "gain", finding # None
               PROVE  finding.confirmed <=> \A s \in FreshSeeds : later(s)
  BY DEF GainAsksOneStep
<1>2. (finding.confirmed <=> \A s \in FreshSeeds : items[s].confirmed) /\ \A s \in FreshSeeds : items[s] # None
  BY <1>1 DEF StudyInv, Concluded
<1>3. ASSUME NEW s \in FreshSeeds PROVE items[s].confirmed <=> later(s)
  <2>1. PICK rows \in [CasesOf("gain") -> RowsOf["gain"]] : items[s] = FileOf("gain", rows)
    BY <1>1, <1>2 DEF StudyInv, FilesMade
  <2> DEFINE delta == Minus(rows["NS"]["100w-100s"], rows["RES"]["100w-100s"])
  <2>2. items[s] = GainSeed(rows) BY <2>1 DEF FileOf
  <2>3. items[s].rows = rows /\ (items[s].confirmed <=> delta # None /\ delta >= 2)
    <3>1. GainSeed(rows).rows = rows /\ (GainSeed(rows).confirmed <=> delta # None /\ delta >= 2)
      BY DEF GainSeed, Between
    <3> QED BY <2>2, <3>1
  <2>4. CasesOf("gain") = {"RES", "NS"} BY DEF CasesOf
  <2> DEFINE res == rows["RES"]["100w-100s"]
             ns == rows["NS"]["100w-100s"]
  <2>5. (res # None => res \in Nat /\ res % 2 = 0) /\ (ns # None => ns \in Nat /\ ns % 2 = 0)
    BY <2>1, <2>4, GainRows
  <2>6. t(s, "RES") = res /\ t(s, "NS") = ns /\ delta = Minus(ns, res) BY <2>3
  <2> HIDE DEF res, ns, delta, t
  <2>7. CASE res # None /\ ns # None
    <3>1. delta = ns - res /\ delta \in Int BY <2>5, <2>6, <2>7 DEF Minus
    <3>2. ns - res >= 2 <=> res < ns BY <2>5, <2>7
    <3> QED BY <2>3, <2>6, <2>7, <3>1, <3>2, StudyBounds
  <2>8. CASE res = None \/ ns = None
    <3>1. delta = None BY <2>6, <2>8 DEF Minus
    <3> QED BY <2>3, <2>6, <2>8, <3>1
  <2> QED BY <2>7, <2>8
<1> QED BY <1>2, <1>3

LEMMA StudyStarts == ASSUME StudyInit PROVE StudyInv
  BY DEF StudyInit, StudyInv, FilesMade, Concluded

LEMMA StudyStays == ASSUME StudyInv, UNCHANGED studyVars PROVE StudyInv'
<1>1. study' = study /\ items' = items /\ finding' = finding BY DEF studyVars
<1> QED BY <1>1 DEF StudyInv

LEMMA StudyStep == ASSUME StudyInv, StudyNext PROVE StudyInv'
<1>1. CASE \E seed \in FreshSeeds, cases, reported \in CaseSets, passed \in BOOLEAN : RunSeed(seed, cases, reported, passed)
  <2>1. PICK seed \in FreshSeeds : /\ items[seed] = None /\ study' = study /\ finding' = finding
                                   /\ \E rows \in [Profiles -> RowsOf[study]] : items' = [items EXCEPT ![seed] = ItemOf(rows)]
    BY <1>1 DEF RunSeed
  <2>2. PICK rows \in [CasesOf(study) -> RowsOf[study]] : items' = [items EXCEPT ![seed] = FileOf(study, rows)]
    BY <2>1, SpreadsIn
  <2>3. FilesMade(study, items') BY <2>2 DEF StudyInv, FilesMade
  <2>4. finding = None BY <2>1 DEF StudyInv, Concluded
  <2>5. Concluded(study', items', finding') BY <2>1, <2>4 DEF Concluded
  <2> QED BY <2>1, <2>3, <2>5 DEF StudyInv
<1>2. CASE Aggregate
  <2>1. study' = study /\ items' = items /\ \A s \in FreshSeeds : items[s] # None BY <1>2 DEF Aggregate, FreshOnly
  <2>2. ASSUME study = "confirmation", finding'.confirmed PROVE ConfirmedIn(items)
    <3>1. finding' = ConfirmationAll BY <1>2, <2>2 DEF Aggregate
    <3>2. ConfirmationAll.confirmed BY <2>2, <3>1
    <3> QED BY <2>1, <2>2, <3>2, ConfirmationHolds DEF StudyInv
  <2>3. study = "rebaseline" => finding'.boundaries = BoundariesIn(items)
    BY <1>2 DEF Aggregate, RebaselineAll, BoundariesIn
  <2>4. study = "sign" => finding' = SignsIn(items) BY <1>2 DEF Aggregate, SignAll, SignsIn
  <2>5. study = "gain" => (finding'.confirmed <=> \A s \in FreshSeeds : items[s].confirmed)
    BY <1>2 DEF Aggregate, GainAll
  <2>6. Concluded(study, items, finding') BY <2>1, <2>2, <2>3, <2>4, <2>5 DEF Concluded
  <2> QED BY <2>1, <2>6 DEF StudyInv
<1> QED BY <1>1, <1>2 DEF StudyNext

\* The times of one output under longer windows or a coarser stride are no later, a confirmed geometry was
\* compared on every seed and spreads less somewhere, boundaries that all extend or stay add up over the
\* stages, every seed has one sign, an extension where the echo path's confirmation would confirm it, and the
\* gain's hypothesis is confirmed exactly where every seed saw it: for every interval, hold, set of seeds
\* and stages, and whatever the outputs are (aec_*recovery*.py).
THEOREM RecoverySoundHolds == SumSpec => []RecoverySound
<1>1. SumInit => StudyInv BY StudyStarts DEF SumInit
<1>2. StudyInv /\ [SumNext]_sumVars => StudyInv'
  <2> SUFFICES ASSUME StudyInv, [SumNext]_sumVars PROVE StudyInv' OBVIOUS
  <2>1. StudyNext \/ UNCHANGED studyVars BY DEF SumNext, sumVars
  <2> QED BY <2>1, StudyStep, StudyStays
<1>3. StudyInv => RecoverySound
  <2> SUFFICES ASSUME StudyInv PROVE RecoverySound OBVIOUS
  <2>1. GeometriesNested BY NestedGeometries DEF StudyInv
  <2> QED BY <2>1, ConfirmedHolds, TelescopeHolds, SignsHold, GainHolds DEF RecoverySound
<1> QED BY <1>1, <1>2, <1>3, PTL DEF SumSpec
=============================================================================
