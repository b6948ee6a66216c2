-------------------------------- MODULE VadHold --------------------------------
(***************************************************************************)
(* How the voice activity detector holds its decision, and the changes to  *)
(* it that were selected, patched into ap_vad.c and judged: the shipping   *)
(* rule, the confidence-tiered hold in the form its lane selected and in   *)
(* the form that was patched, and the bounded hysteresis as its lane       *)
(* emulates it and as it was patched.  All of them hear the same           *)
(* probabilities, and only the range a probability falls into matters.     *)
(***************************************************************************)
EXTENDS Integers

CONSTANTS Weak, Strong, VeryStrong,  \* hold frames: 6, 8 and 10
          Budget                     \* subthreshold_budget_frames
ASSUME HoldAssumption == /\ Weak \in Nat /\ Strong \in Nat /\ VeryStrong \in Nat /\ Budget \in Nat
                         /\ 0 < Weak /\ Weak <= Strong /\ Strong <= VeryStrong

VARIABLES hold,    \* the remaining hold of each rule
          origin,  \* the lane's bounded hysteresis: the hold goes back to a strong frame
          budget,  \* and the frames it may still freeze
          spare,   \* the budget of the patched one
          tail,    \* history: frames each candidate has now stayed active beyond the shipping rule
          heard    \* history: a strong frame was heard since the bounded rule was last idle

holdVars == <<hold, origin, budget, spare, tail, heard>>

\* A probability, by the thresholds it passes: 0.70, 0.50, the decision threshold, the release one.
Levels == {"veryStrong", "strong", "weak", "release", "none"}
Loud == {"veryStrong", "strong"}
Rules == {"shipping", "selected", "tiered", "bounded", "patched"}
Candidates == Rules \ {"shipping"}

AtLeast(a, b) == IF a >= b THEN a ELSE b
Fewer(n) == IF n > 0 THEN n - 1 ELSE 0

Init == /\ hold = [r \in Rules |-> 0] /\ origin = FALSE /\ budget = 0 /\ spare = 0
        /\ tail = [r \in Candidates |-> 0] /\ heard = FALSE

(***************************************************************************)
(* The rules                                                               *)
(***************************************************************************)
Shipping(h, level) == CASE level \in Loud     -> Strong
                        [] level = "weak"     -> AtLeast(h, Weak)
                        [] OTHER              -> Fewer(h)
\* vad_stage_lane_v1: a strong frame does not shorten the hold of a very strong one.
Selected(h, level) == CASE level = "veryStrong" -> VeryStrong
                        [] level = "strong"      -> AtLeast(h, Strong)
                        [] level = "weak"        -> AtLeast(h, Weak)
                        [] OTHER                 -> Fewer(h)
\* Mutant of Tiered: a weak frame restarts the hold.
TieredRestarted(h, level) == CASE level = "veryStrong" -> VeryStrong
                               [] level = "strong"      -> Strong
                               [] level = "weak"        -> Weak
                               [] OTHER                 -> Fewer(h)
\* The source candidate: it does.
Tiered(h, level) == CASE level = "veryStrong" -> VeryStrong
                      [] level = "strong"      -> Strong
                      [] level = "weak"        -> AtLeast(h, Weak)
                      [] OTHER                 -> Fewer(h)

\* A frame between release and decision threshold freezes the hold, as long as the budget lasts.
Freezes(level) == level = "release" /\ hold.bounded > 0 /\ origin /\ budget > 0
Bounded(level) == CASE level \in Loud  -> Strong
                    [] level = "weak"  -> AtLeast(hold.bounded, Weak)
                    [] Freezes(level)  -> AtLeast(hold.bounded, 2)
                    [] OTHER           -> Fewer(hold.bounded)
\* Mutant of BudgetLeft: a weak frame pays the budget back.
BudgetRefilled(level) == CASE Bounded(level) = 0 -> 0
                           [] level \in Loud \cup {"weak"} -> Budget
                           [] Freezes(level)     -> budget - 1
                           [] OTHER              -> budget
\* Mutant of BudgetLeft: a frozen frame costs nothing.
BudgetUnspent(level) == CASE Bounded(level) = 0 -> 0
                          [] level \in Loud     -> Budget
                          [] OTHER              -> budget
BudgetLeft(level) == CASE Bounded(level) = 0 -> 0
                       [] level \in Loud     -> Budget
                       [] Freezes(level)     -> budget - 1
                       [] OTHER              -> budget
Originates(level) == Bounded(level) # 0 /\ (level \in Loud \/ origin)

\* The patch to ap_vad.c keeps no origin: it has a budget only after a strong frame.
PatchFreezes(level) == level = "release" /\ hold.patched > 0 /\ spare > 0
Patched(level) == CASE level \in Loud      -> Strong
                    [] level = "weak"      -> AtLeast(hold.patched, Weak)
                    [] PatchFreezes(level) -> AtLeast(hold.patched, 2)
                    [] OTHER               -> Fewer(hold.patched)
SpareLeft(level) == CASE Patched(level) = 0  -> 0
                      [] level \in Loud      -> Budget
                      [] PatchFreezes(level) -> spare - 1
                      [] OTHER               -> spare

After(level) == [shipping |-> Shipping(hold.shipping, level), selected |-> Selected(hold.selected, level),
                 tiered |-> Tiered(hold.tiered, level), bounded |-> Bounded(level), patched |-> Patched(level)]
Active(r) == hold[r] > 0

\* One frame through every rule.
Hear(level) ==
    /\ hold' = After(level)
    /\ origin' = Originates(level) /\ budget' = BudgetLeft(level) /\ spare' = SpareLeft(level)
    /\ tail' = [r \in Candidates |-> IF After(level)[r] > 0 /\ After(level).shipping = 0 THEN tail[r] + 1 ELSE 0]
    /\ heard' = (Bounded(level) # 0 /\ (heard \/ level \in Loud))

Next == \E level \in Levels : Hear(level)
Spec == Init /\ [][Next]_holdVars

(***************************************************************************)
(* Properties                                                              *)
(***************************************************************************)
TypeOK == /\ hold \in [Rules -> Nat] /\ origin \in BOOLEAN /\ budget \in 0..Budget /\ spare \in 0..Budget
          /\ tail \in [Candidates -> Nat] /\ heard \in BOOLEAN
\* Whatever is heard, no candidate lets go of a frame the shipping rule holds: what the evaluations
\* demand of the corpora (require_no_active_contraction) is true of every input.
NoContraction == \A r \in Candidates : Active("shipping") => Active(r)
\* Without a strong frame the bounded rule is the shipping rule (weak_only_path_must_match_shipping).
WeakPathKept == ~heard => hold.bounded = hold.shipping
\* The patched source does what its lane emulated, frame by frame (candidate_policy_conformance), and
\* on a path without a strong frame what the shipping source does.
PatchConforms == hold.patched = hold.bounded /\ spare = budget /\ WeakPathKept
\* It stays active for at most two frames per unit of budget beyond the shipping rule - a freeze of
\* the last held frame makes it two - and a tiered hold for the difference of its two holds.
TailBounded == /\ tail.bounded <= 2 * Budget
               /\ tail.tiered <= VeryStrong - Strong /\ tail.selected <= VeryStrong - Strong
\* The comment of candidate_trace, "Freeze rather than decrement the existing hold for a bounded
\* number of frames": violated, a frozen last frame is a hold of two.
TailWithinBudget == tail.bounded <= Budget
\* What was patched and judged is what the lane had selected: violated, the lane keeps the longer
\* hold through a strong frame and the patch cuts it.
PatchIsSelected == hold.tiered = hold.selected
=============================================================================
