-------------------------- MODULE BeamformerHealth --------------------------
(***************************************************************************)
(* The route health of the two-microphone beamformer                       *)
(* (src/frontend/ap_beamformer.c): which channel is trusted when one is    *)
(* contaminated.  FULL quality tracks the direction, LITE (and a build     *)
(* without tracking) keeps it fixed, SAFE bypasses the beamformer.  What   *)
(* the frames contain is an input: an observation is the verdict of the    *)
(* coherence, energy and roughness tests and the channel with more energy. *)
(***************************************************************************)
EXTENDS Integers

CONSTANT TrackingBuilt  \* AP_BUILD_BF_DIRECTION_TRACKING

BuildAssumption == TrackingBuilt \in BOOLEAN

Qualities == {"SAFE", "LITE", "FULL"}
Channels == {0, 1}
ArmUpdates == 2        \* AP_BF_HARD_ARM_UPDATES
RecoverUpdates == 8    \* AP_BF_FALLBACK_RECOVER_UPDATES

\* The tests' verdicts: no energy or not finite; the narrow contamination (which
\* is severe); severe only; past the soft thresholds only; past the hard ones
\* (which are softer than none); none of these.
Verdicts == {"invalid", "contaminated", "severe", "better", "recovered", "none"}
Observations == [verdict : Verdicts, strong : Channels]

VARIABLES quality,     \* the pipeline's quality
          active,      \* fallback_active
          hard,        \* fallback_hard_fault
          trusted,     \* fallback_strong_channel
          armed,       \* fallback_hard_arm_count
          recovering,  \* fallback_recovery_count
          tick,        \* counter, modulo 4
          phase,       \* fixed_health_counter
          \* history, for the properties only:
          mode,        \* "tracking" or "fixed": the last processed frame's,
                       \* "none" if evidence must start anew
          against,     \* the channel the last contaminated observations blame
          blames,      \* how many in a row, in this mode
          clears       \* recovered observations in a row, in this mode

route == <<active, hard, trusted, armed, recovering>>
history == <<mode, against, blames, clears>>
vars == <<quality, route, tick, phase, history>>

NoEvidence == mode' = "none" /\ blames' = 0 /\ clears' = 0 /\ against' = 0

\* ap_beamformer_init
Fresh ==
    /\ active' = FALSE /\ hard' = FALSE /\ trusted' = 0 /\ armed' = 0 /\ recovering' = 0
    /\ tick' = 3 /\ phase' = 3
    /\ NoEvidence

Init ==
    /\ quality = "FULL"
    /\ active = FALSE /\ hard = FALSE /\ trusted = 0 /\ armed = 0 /\ recovering = 0
    /\ tick = 3 /\ phase = 3
    /\ mode = "none" /\ blames = 0 /\ clears = 0 /\ against = 0

\* A discontinuity starts the beamformer over, a reset of the pipeline also
\* puts its quality back.
Discontinuity == Fresh /\ UNCHANGED quality
Reset == Fresh /\ quality' = "FULL"

\* ap_pipeline_set_quality: entering or leaving SAFE.
CrossesSafe(q) == quality # q /\ "SAFE" \in {quality, q}

SetQuality(q) ==
    /\ quality' = q
    /\ IF CrossesSafe(q) THEN armed' = 0 /\ recovering' = 0 /\ phase' = 3
                         ELSE UNCHANGED <<armed, recovering, phase>>
    /\ IF "SAFE" \in {quality, q} /\ quality # q THEN NoEvidence ELSE UNCHANGED history
    /\ UNCHANGED <<active, hard, trusted, tick>>

-----------------------------------------------------------------------------
Released(r) == [r EXCEPT !.active = FALSE, !.hard = FALSE, !.armed = 0, !.recovering = 0]
Confirmed(r, channel) ==
    [r EXCEPT !.active = TRUE, !.hard = TRUE, !.trusted = channel, !.armed = 0,
              !.recovering = 0]
Unfinished(r) == [r EXCEPT !.armed = 0, !.recovering = 0]

\* Mutant of Recovered: a missed recovery does not start the count again.
RecoveredInTotal(r, ok) ==
    IF ~ok THEN r
    ELSE IF r.recovering + 1 >= RecoverUpdates THEN Released(r)
    ELSE [r EXCEPT !.recovering = @ + 1]

\* Eight recoveries in a row end the fallback.
Recovered(r, ok) ==
    IF ~ok THEN [r EXCEPT !.recovering = 0]
    ELSE IF r.recovering + 1 >= RecoverUpdates THEN Released(r)
    ELSE [r EXCEPT !.recovering = @ + 1]

\* ap_beamformer_update_fallback
Armed(r, obs) ==
    IF r.hard \/ obs.verdict # "contaminated" \/ r.trusted = 1 - obs.strong
    THEN [r EXCEPT !.armed = 0]
    ELSE IF r.armed + 1 >= ArmUpdates THEN Confirmed(r, 1 - obs.strong)
    ELSE [r EXCEPT !.armed = @ + 1]
UpdateFallback(r, obs) ==
    IF r.active
    THEN LET a == Armed(r, obs)
         IN  Recovered(a, obs.verdict = "recovered" \/ (~a.hard /\ obs.verdict = "better"))
    ELSE IF obs.verdict \in {"contaminated", "severe"}
    THEN [r EXCEPT !.active = TRUE, !.hard = FALSE, !.trusted = obs.strong,
                   !.armed = IF obs.verdict = "contaminated" THEN 1 ELSE 0,
                   !.recovering = 0]
    ELSE r

\* Mutant of Blamed: the arm count does not ask which channel is blamed.
BlamedAny(r, target) ==
    IF r.armed = 0 THEN [r EXCEPT !.trusted = target, !.armed = 1]
    ELSE Confirmed(r, target)

\* ap_beamformer_update_fixed_health
Blamed(r, target) ==
    IF r.armed = 0 \/ r.trusted # target THEN [r EXCEPT !.trusted = target, !.armed = 1]
    ELSE Confirmed(r, target)
UpdateFixedHealth(r, obs) ==
    IF obs.verdict = "invalid" THEN Unfinished(r)
    ELSE IF r.hard THEN Recovered([r EXCEPT !.armed = 0], obs.verdict = "recovered")
    ELSE IF obs.verdict = "contaminated"
    THEN Blamed([r EXCEPT !.recovering = 0], 1 - obs.strong)
    ELSE Unfinished(r)

-----------------------------------------------------------------------------
Route == [active |-> active, hard |-> hard, trusted |-> trusted, armed |-> armed,
          recovering |-> recovering]
Becomes(r) ==
    /\ active' = r.active /\ hard' = r.hard /\ trusted' = r.trusted
    /\ armed' = r.armed /\ recovering' = r.recovering

\* What the history remembers of a frame of a mode, observed or not.
Remember(m, seen, obs) ==
    LET same  == mode = m
        blame == seen /\ obs.verdict = "contaminated"
        again == same /\ blames > 0 /\ against = obs.strong
        past  == IF same THEN clears ELSE 0
    IN  /\ mode' = m
        /\ against' = IF blame THEN obs.strong ELSE against
        /\ blames' = IF blame THEN (IF again THEN 2 ELSE 1)
                     ELSE IF seen \/ ~same THEN 0 ELSE blames
        /\ clears' = IF ~seen THEN past
                     ELSE IF obs.verdict # "recovered" THEN 0
                     ELSE IF past < RecoverUpdates THEN past + 1 ELSE past

Tracks == quality = "FULL" /\ TrackingBuilt

\* Mutant of Carried: the soft route crosses the mode change.
CarriedSoft(r, entering) == IF entering THEN Unfinished(r) ELSE r

\* A fixed frame drops the evidence of another mode and an unconfirmed route.
Carried(r, entering) ==
    LET kept == IF entering THEN Unfinished(r) ELSE r
    IN  IF kept.active /\ ~kept.hard THEN Released(kept) ELSE kept

ProcessTracking(obs) ==
    LET kept == IF phase # 3 THEN Unfinished(Route) ELSE Route
        seen == tick = 3
    IN  /\ quality # "SAFE" /\ Tracks
        /\ obs.verdict # "invalid"
        /\ phase' = 3
        /\ tick' = (tick + 1) % 4
        /\ Becomes(IF seen THEN UpdateFallback(kept, obs) ELSE kept)
        /\ Remember("tracking", seen, obs)
        /\ UNCHANGED quality

ProcessFixed(obs) ==
    LET kept == Carried(Route, phase = 3)
        seen == phase \in {3, 7}
    IN  /\ quality # "SAFE" /\ ~Tracks
        /\ phase' = 4 + ((phase + 1) % 4)
        /\ Becomes(IF seen THEN UpdateFixedHealth(kept, obs) ELSE kept)
        /\ Remember("fixed", seen, obs)
        /\ UNCHANGED <<quality, tick>>

Next ==
    \/ \E obs \in Observations : ProcessTracking(obs) \/ ProcessFixed(obs)
    \/ \E q \in Qualities : SetQuality(q)
    \/ Discontinuity
    \/ Reset

Spec == Init /\ [][Next]_vars

-----------------------------------------------------------------------------
\* The counts stay under their thresholds: an observation that reaches one acts
\* on it at once.
TypeOK ==
    /\ quality \in Qualities
    /\ active \in BOOLEAN /\ hard \in BOOLEAN /\ trusted \in Channels
    /\ armed \in 0 .. ArmUpdates - 1 /\ recovering \in 0 .. RecoverUpdates - 1
    /\ tick \in 0 .. 3 /\ phase \in 3 .. 7
    /\ mode \in {"none", "tracking", "fixed"} /\ against \in Channels
    /\ blames \in 0 .. 2 /\ clears \in 0 .. RecoverUpdates

\* API_CONTRACT.md: "Two valid observations supporting the same trustworthy
\* channel confirm the route".  No other way leads to a hard route, and the
\* two were made in a row, in one mode, with no bypass or restart between.
HardRouteEarned ==
    [][~hard /\ hard' => blames' = 2 /\ against' = 1 - trusted']_vars

\* API_CONTRACT.md: "eight consecutive valid recovery observations release it":
\* nothing but these, or a restart of the beamformer, gives up a hard route or
\* changes the channel it trusts; mode changes and SAFE keep it.
HardRouteKept ==
    [][hard => \/ hard' /\ trusted' = trusted
               \/ clears' = RecoverUpdates
               \/ Discontinuity \/ Reset]_vars

\* "An unconfirmed soft route has no fixed-direction authority": once a fixed
\* frame has been processed, the fallback is active only for a hard route, and
\* two observations in a row that blame the same channel always have made one.
FixedRouteAuthority ==
    mode = "fixed" => (active <=> hard) /\ (blames = 2 => hard)
=============================================================================
