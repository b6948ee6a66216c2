----------------------------- MODULE VadConfirmation -----------------------------
(***************************************************************************)
(* The judges of the two VAD candidates: the evaluations on fresh corpora, *)
(* the confirmation on independent ones and the one on a public meeting.   *)
(* Each runs the shipping and the candidate build over labelled speech,    *)
(* compares what they decided and adds up its violations.  A corpus is one *)
(* case here; percentages are compared as the fractions they are.          *)
(***************************************************************************)
EXTENDS VadHold, FiniteSets

CONSTANTS Regression, FalseRise, PublicFalseRise,  \* tolerances: 3, 2 and 1 percent
          MaxFrames, MaxCorpora   \* bounds: frames of a corpus, corpora of a judge
ASSUME JudgeAssumption == /\ Regression \in Nat /\ FalseRise \in Nat /\ PublicFalseRise \in Nat
                          /\ MaxFrames \in Nat /\ MaxCorpora \in Nat \ {0}

VARIABLES judge, build,    \* who judges, and which rule the candidate build really runs
          corpus, frame,   \* how far it got
          count,           \* of this corpus: frames with speech and without, and what each build
                           \* called speech of them
          event, events,   \* who has answered in this stretch of speech, and how often whom
          total,           \* count and events of the corpora before
          seen,            \* of all corpora: changed, contracted, mismatched, violated, benefit
          gained,          \* history: somewhere the candidate found more speech
          verdict

confirmationVars == <<judge, build, corpus, frame, count, event, events, total, seen, gained, verdict>>
allVars == <<holdVars, confirmationVars>>

Judges == {"tiered", "bounded", "confirmation", "public"}
\* Whose emulation a judge holds the candidate to.
Policy(j) == IF j = "bounded" THEN "bounded" ELSE "tiered"
Sides == {"base", "candidate"}
NoCount == [speech |-> 0, silence |-> 0, hit |-> [s \in Sides |-> 0], false |-> [s \in Sides |-> 0]]
NoEvents == [all |-> 0, hit |-> [s \in Sides |-> 0]]
NothingSeen == {}
Decided(s) == IF s = "base" THEN "shipping" ELSE build

ConfirmationInit ==
    /\ Init /\ judge \in Judges /\ build \in Rules
    /\ corpus = 1 /\ frame = 0 /\ count = NoCount /\ event = {} /\ events = NoEvents
    /\ total = [count |-> NoCount, events |-> NoEvents] /\ seen = NothingSeen /\ gained = FALSE
    /\ verdict = "none"

(***************************************************************************)
(* One frame of a corpus                                                   *)
(***************************************************************************)
Sees(level, speech) == [s \in Sides |-> IF After(level)[Decided(s)] > 0 THEN 1 ELSE 0]
Plus(c, d) == [s \in Sides |-> c[s] + d[s]]
\* What the traces differ in, as the judges add it up.
Differences(level) ==
    LET b == After(level).shipping > 0  c == After(level)[build] > 0  p == After(level)[Policy(judge)] > 0 IN
    {x \in {"changed", "contracted", "mismatched"} :
        CASE x = "changed" -> b # c [] x = "contracted" -> b /\ ~c [] OTHER -> p # c}
Frame(level, speech) ==
    /\ verdict = "none" /\ corpus <= MaxCorpora /\ frame < MaxFrames /\ frame' = frame + 1 /\ Hear(level)
    /\ LET active == Sees(level, speech)
           answered == event \cup {s \in Sides : active[s] = 1} IN
         IF speech
         THEN /\ count' = [count EXCEPT !.speech = @ + 1, !.hit = Plus(@, active)]
              /\ event' = answered \cup {"speech"}
              /\ events' = [events EXCEPT !.all = IF "speech" \in event THEN @ ELSE @ + 1,
                              !.hit = [s \in Sides |-> IF s \in answered \ event THEN @[s] + 1 ELSE @[s]]]
         ELSE /\ count' = [count EXCEPT !.silence = @ + 1, !.false = Plus(@, active)]
              /\ event' = {} /\ events' = events
    /\ seen' = seen \cup Differences(level)
    /\ UNCHANGED <<judge, build, corpus, total, gained, verdict>>

(***************************************************************************)
(* The gates                                                               *)
(***************************************************************************)
\* More than the given percentage of the whole, with the rounding allowance of 1e-12.
Exceeds(part, whole, percent) == 100 * part > percent * whole
Recall(c, percent) == Exceeds(c.hit["base"] - c.hit["candidate"], c.speech, percent)
MoreFalse(c, percent) == Exceeds(c.false["candidate"] - c.false["base"], c.silence, percent)
\* f1 is 2 * hit / (hit + false + speech).
F1Weight(c, s) == c.hit[s] + c.false[s] + c.speech
F1Gap(c, s, t) == 2 * (c.hit[s] * F1Weight(c, t) - c.hit[t] * F1Weight(c, s))
F1Drop(c, percent) == Exceeds(F1Gap(c, "base", "candidate"), F1Weight(c, "base") * F1Weight(c, "candidate"), percent)
EventDrop(e) == e.hit["candidate"] < e.hit["base"]

Regressed(c) == Recall(c, Regression) \/ F1Drop(c, Regression) \/ MoreFalse(c, Regression)
ConfirmationFails(c, e) == Regressed(c) \/ EventDrop(e) \/ MoreFalse(c, FalseRise)
WindowFails(c) == Recall(c, 0) \/ F1Drop(c, Regression) \/ MoreFalse(c, PublicFalseRise)
CorpusFails(c, e) == CASE judge = "public"       -> WindowFails(c)
                       [] judge = "confirmation" -> ConfirmationFails(c, e)
                       [] OTHER                  -> Regressed(c)
\* benefit: what got better in one corpus, not offset by what got worse in it or in another.
Benefits(c, e) == \/ 2 * (c.hit["candidate"] - c.hit["base"]) * 100 >= c.speech
                  \/ Exceeds(F1Gap(c, "candidate", "base"), F1Weight(c, "base") * F1Weight(c, "candidate"), 0)
                  \/ e.hit["candidate"] > e.hit["base"]
                  \/ c.false["candidate"] < c.false["base"]

Added(t, c) == [speech |-> t.speech + c.speech, silence |-> t.silence + c.silence,
                hit |-> Plus(t.hit, c.hit), false |-> Plus(t.false, c.false)]
\* The cases' own thresholds, the onset delays and the release tails may fail a corpus as well.
CorpusDone(other) ==
    /\ verdict = "none" /\ corpus <= MaxCorpora /\ count.speech > 0 /\ count.silence > 0
    /\ seen' = seen \cup (IF other \/ CorpusFails(count, events) THEN {"violated"} ELSE {})
                    \cup (IF Benefits(count, events) THEN {"benefit"} ELSE {})
    /\ gained' = (gained \/ count.hit["candidate"] > count.hit["base"])
    /\ total' = [count |-> Added(total.count, count),
                 events |-> [all |-> total.events.all + events.all, hit |-> Plus(total.events.hit, events.hit)]]
    /\ corpus' = corpus + 1 /\ frame' = 0 /\ count' = NoCount /\ event' = {} /\ events' = NoEvents
    \* The next corpus is heard by fresh processors.
    /\ hold' = [r \in Rules |-> 0] /\ origin' = FALSE /\ budget' = 0 /\ spare' = 0
    /\ tail' = [r \in Candidates |-> 0] /\ heard' = FALSE
    /\ UNCHANGED <<judge, build, verdict>>

TieredPasses == seen \cap {"mismatched", "violated"} = {} /\ "changed" \in seen
BoundedPasses == seen \cap {"mismatched", "contracted", "violated"} = {} /\ "changed" \in seen
\* Mutant of ConfirmationPasses: it is enough that the candidate did something.
ConfirmationExercised == "violated" \notin seen /\ "changed" \in seen
ConfirmationPasses == "violated" \notin seen /\ "changed" \in seen /\ "benefit" \in seen
\* apply_gates: over all windows, recall must have improved.
PublicPasses ==
    /\ seen \cap {"contracted", "violated"} = {} /\ "changed" \in seen
    /\ LET c == total.count IN
         /\ 1000 * (c.hit["candidate"] - c.hit["base"]) >= 5 * c.speech
         /\ ~F1Drop(c, FalseRise) /\ ~MoreFalse(c, PublicFalseRise) /\ ~EventDrop(total.events)
Passes == CASE judge = "tiered" -> TieredPasses [] judge = "bounded" -> BoundedPasses
            [] judge = "confirmation" -> ConfirmationPasses [] OTHER -> PublicPasses
Decide == /\ verdict = "none" /\ corpus > MaxCorpora
          /\ verdict' = IF Passes THEN "pass" ELSE "reject"
          /\ UNCHANGED <<holdVars, judge, build, corpus, frame, count, event, events, total, seen, gained>>

ConfirmationNext == \/ \E level \in Levels, speech \in BOOLEAN : Frame(level, speech)
                    \/ \E other \in BOOLEAN : CorpusDone(other)
                    \/ Decide
ConfirmationSpec == ConfirmationInit /\ [][ConfirmationNext]_allVars

(***************************************************************************)
(* Properties                                                              *)
(***************************************************************************)
\* A confirmation, synthetic or public, passes only if the candidate build found speech the shipping
\* build missed: since no rule lets go of a frame, neither fewer false activations nor a better f1,
\* both of which count as a benefit, can stand in for that.
ConfirmedDetectsMore == verdict = "pass" /\ judge \in {"confirmation", "public"} => gained
=============================================================================
