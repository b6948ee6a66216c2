------------------------------ MODULE SyncDelay ------------------------------
(***************************************************************************)
(* Render/capture alignment (src/sync/ap_sync.c): the delay the echo       *)
(* canceller reads its reference at, corrected by acoustic searches, by    *)
(* hardware timestamps and by resets.  What a search finds (its best delay *)
(* and how good the peak is) is an input; floating-point credit decides    *)
(* only how many samples, at most MaxSlips, an observation moves the delay *)
(* by.                                                                     *)
(***************************************************************************)
EXTENDS Integers, Sequences

CONSTANTS MaxDelay,      \* max_delay_ms in samples
          InitialDelay,  \* initial_delay_samples
          Delays,        \* the delays a search or a timestamp can report
          JumpLimit,     \* rate / 50: farther than this is another route
          Tolerance,     \* coarse_step: how far confirmations may differ
          MaxSlew,       \* rate / 1000: step without drift compensation
          SearchPeriod,  \* frames between two searches
          RenderNeeded,  \* frames of render before the first search
          RolloverAt     \* capture_total starts again after this many frames


SyncAssumption ==
    /\ MaxDelay \in Nat /\ InitialDelay \in 0 .. MaxDelay
    /\ Delays \subseteq 0 .. MaxDelay
    /\ {JumpLimit, Tolerance, MaxSlew, SearchPeriod, RenderNeeded, RolloverAt}
         \subseteq Nat \ {0}

Confirmations == 3   \* AP_SYNC_ROUTE_CONFIRMATIONS
MaxSlips == 4        \* corrections per accepted observation
None == -1

VARIABLES delay,          \* delay_samples
          rendered,       \* render_total in frames, as far as the search asks
          captured,       \* capture_total in frames
          counter,        \* delay_update_counter
          candidate,      \* route_candidate_delay
          confirmed,      \* route_candidate_confirmations
          basis,          \* have_last_best_delay
          basisAt,        \* last_best_capture_total
          \* history, for the properties only:
          event,          \* what the last step did to the delay
          integrated,     \* the frames of drift the last step integrated
          owed,           \* the frames really captured since the accepted peak before
          epochs,         \* the far peaks of the last searches in a row
          evidence,       \* those that led to the last step's jump
          age,            \* frames captured since the last accepted peak, None if
                          \* the peak cannot be differenced against any more
          heard           \* what the last search found, and without drift or with

vars == <<delay, rendered, captured, counter, candidate, confirmed, basis, basisAt,
          event, integrated, owed, epochs, evidence, age, heard>>

Peaks == [peak : Delays, quality : {"ambiguous", "unique"}, drift : BOOLEAN]
Silence == [peak |-> None, quality |-> "weak", drift |-> FALSE]

Distance(a, b) == IF a > b THEN a - b ELSE b - a
Clamp(x, lo, hi) == IF x < lo THEN lo ELSE IF x > hi THEN hi ELSE x

\* What the last step did; only drift and jumps are followed up.
Did(what) ==
    /\ event' = what
    /\ what # "drift" => integrated' = 0 /\ owed' = None
    /\ what # "jump" => evidence' = <<>>

Init ==
    /\ delay = InitialDelay /\ rendered = 0 /\ captured = 0 /\ counter = 0
    /\ candidate = 0 /\ confirmed = 0 /\ basis = FALSE /\ basisAt = 0
    /\ event = "none" /\ integrated = 0 /\ owed = None
    /\ epochs = <<>> /\ evidence = <<>> /\ age = None /\ heard = Silence

\* ap_sync_reset: everything but initial_delay_samples starts over.
Reset ==
    /\ delay' = InitialDelay /\ rendered' = 0 /\ captured' = 0 /\ counter' = 0
    /\ candidate' = 0 /\ confirmed' = 0 /\ basis' = FALSE /\ basisAt' = 0
    /\ epochs' = <<>> /\ age' = None /\ heard' = Silence
    /\ Did("none")

PushRender ==
    /\ rendered' = Clamp(rendered + 1, 0, RenderNeeded)
    /\ Did("none")
    /\ UNCHANGED <<delay, captured, counter, candidate, confirmed, basis, basisAt,
                   epochs, age, heard>>

-----------------------------------------------------------------------------
\* Mutant of Forget: a timestamp leaves the confirmations of a candidate.
ForgetNothing == UNCHANGED confirmed

\* An observation that is no far peak ends the candidate's run.
Forget == confirmed' = 0

\* Mutant of Anchor: the time of the observation is not kept.
AnchorValueOnly(known) == basis' = known /\ UNCHANGED basisAt

\* last_best_delay is observed now; known if the next one may be differenced
\* against it.
Anchor(known) == basis' = known /\ basisAt' = captured'

\* ap_sync_observe_timestamps: authoritative at once, but no acoustic lag.
Timestamp(observed) ==
    /\ delay' = observed
    /\ Forget
    /\ captured' = captured
    /\ Anchor(FALSE)
    /\ epochs' = <<>> /\ age' = None /\ heard' = Silence
    /\ Did("none")
    /\ UNCHANGED <<rendered, counter, candidate>>

-----------------------------------------------------------------------------
\* ap_sync_advance_capture_time: another rate, or a counter that cannot take
\* the frame, starts a new time and drops the basis.
RollsOver(newRate) == newRate \/ captured = RolloverAt
Advance(newRate) == captured' = (IF RollsOver(newRate) THEN 0 ELSE captured) + 1
Known(newRate, tracking, drift) == basis /\ ~RollsOver(newRate) /\ tracking /\ drift
Aged(newRate, tracking, drift) ==
    IF age = None \/ RollsOver(newRate) \/ ~tracking \/ ~drift
    THEN None ELSE age + 1

\* The frames that are no search: tracking is off, there is not enough render
\* yet, or it is not the tenth frame.
Searches(tracking) == tracking /\ rendered = RenderNeeded /\ counter + 1 = SearchPeriod
Waits(newRate, tracking, drift) ==
    /\ ~Searches(tracking)
    /\ Advance(newRate)
    /\ counter' = IF tracking /\ rendered = RenderNeeded THEN counter + 1 ELSE counter
    /\ basis' = Known(newRate, tracking, drift)
    /\ basisAt' = IF RollsOver(newRate) THEN 0 ELSE basisAt
    /\ age' = Aged(newRate, tracking, drift)
    /\ Did("none")
    /\ UNCHANGED <<delay, rendered, candidate, confirmed, epochs, heard>>

\* What every search does to the clock.
Searched(newRate) ==
    /\ Searches(TRUE)
    /\ Advance(newRate)
    /\ counter' = 0
    /\ UNCHANGED rendered

\* Nothing correlates, or the near peak has a rival elsewhere: the observation
\* is rejected and the basis stays where it was.
Rejected(newRate, drift, what) ==
    /\ Searched(newRate)
    /\ Forget
    /\ basis' = Known(newRate, TRUE, drift)
    /\ basisAt' = IF RollsOver(newRate) THEN 0 ELSE basisAt
    /\ age' = Aged(newRate, TRUE, drift)
    /\ epochs' = <<>> /\ heard' = what
    /\ Did("none")
    /\ UNCHANGED <<delay, candidate>>

\* ap_sync_confirm_route_candidate: the first far peak, or one too far from
\* the candidate, is a new candidate.
StartsOver(peak) == confirmed = 0 \/ Distance(peak, candidate) > Tolerance
Far(peak) == Distance(peak, delay) > JumpLimit

FarPeak(newRate, drift, what) ==
    /\ Searched(newRate)
    /\ Far(what.peak)
    /\ heard' = what
    /\ IF ~StartsOver(what.peak) /\ confirmed + 1 = Confirmations
       THEN /\ delay' = candidate /\ confirmed' = 0
            /\ Anchor(drift)
            /\ age' = (IF drift THEN 0 ELSE None)
            /\ epochs' = <<>> /\ evidence' = Append(epochs, what.peak)
            /\ Did("jump")
            /\ UNCHANGED candidate
       ELSE /\ candidate' = (IF StartsOver(what.peak) THEN what.peak ELSE candidate)
            /\ confirmed' = (IF StartsOver(what.peak) THEN 1 ELSE confirmed + 1)
            /\ basis' = Known(newRate, TRUE, drift)
            /\ basisAt' = (IF RollsOver(newRate) THEN 0 ELSE basisAt)
            /\ age' = Aged(newRate, TRUE, drift)
            /\ epochs' = (IF Len(epochs) < Confirmations - 1 THEN Append(epochs, what.peak)
                          ELSE Append(Tail(epochs), what.peak))
            /\ Did("none")
            /\ UNCHANGED delay

\* Mutant of SlipTargets: only the credit limits the slips.
SlipTargetsAnywhere == (delay - MaxSlips) .. (delay + MaxSlips)

\* ap_sync_apply_drift integrates the capture time since the last observation,
\* or a nominal 100 ms if there is none, and the credit slips up to MaxSlips
\* samples in one direction within the envelope.
Elapsed(newRate) ==
    IF Known(newRate, TRUE, TRUE) /\ captured' > basisAt THEN captured' - basisAt
    ELSE SearchPeriod
SlipTargets == Clamp(delay - MaxSlips, 0, MaxDelay) .. Clamp(delay + MaxSlips, 0, MaxDelay)

DriftPeak(newRate, what) ==
    /\ Searched(newRate)
    /\ Forget
    /\ integrated' = Elapsed(newRate) /\ owed' = Aged(newRate, TRUE, TRUE)
    /\ Anchor(TRUE)
    /\ delay' \in SlipTargets
    /\ age' = 0
    /\ epochs' = <<>> /\ heard' = what
    /\ Did("drift")
    /\ UNCHANGED candidate

\* Mutant of Slewed: rounding up instead of down.
SlewedUp(old, best) == Clamp((7 * old + best + 8) \div 8, old - MaxSlew, old + MaxSlew)

\* Without drift compensation: one eighth of the way, at most max_slew.
Slewed(old, best) == Clamp((7 * old + best) \div 8, old - MaxSlew, old + MaxSlew)
SlewPeak(newRate, what) ==
    /\ Searched(newRate)
    /\ Forget
    /\ delay' = Slewed(delay, what.peak)
    /\ basis' = FALSE
    /\ basisAt' = (IF RollsOver(newRate) THEN 0 ELSE basisAt)
    /\ age' = None
    /\ epochs' = <<>> /\ heard' = what
    /\ Did("none")
    /\ UNCHANGED candidate

\* ap_sync_track_delay at the end of a search: a far peak needs no rival test.
Found(newRate, what) ==
    \/ FarPeak(newRate, what.drift, what)
    \/ ~Far(what.peak) /\ what.quality = "ambiguous" /\ Rejected(newRate, what.drift, what)
    \/ ~Far(what.peak) /\ what.quality = "unique" /\ what.drift /\ DriftPeak(newRate, what)
    \/ ~Far(what.peak) /\ what.quality = "unique" /\ ~what.drift /\ SlewPeak(newRate, what)

Track(newRate, tracking, drift) ==
    \/ Waits(newRate, tracking, drift)
    \/ tracking /\ Rejected(newRate, drift, [Silence EXCEPT !.drift = drift])
    \/ tracking /\ \E what \in {q \in Peaks : q.drift = drift} : Found(newRate, what)

Next ==
    \/ PushRender
    \/ Reset
    \/ \E observed \in Delays : Timestamp(observed)
    \/ \E newRate, tracking, drift \in BOOLEAN : Track(newRate, tracking, drift)

Spec == Init /\ [][Next]_vars

\* Capture and render frames keep arriving, as the audio clock makes them, with
\* tracking enabled.
FairSpec ==
    /\ Spec
    /\ WF_vars(PushRender)
    /\ WF_vars(\E newRate, drift \in BOOLEAN : Track(newRate, TRUE, drift))

-----------------------------------------------------------------------------
\* The delay never leaves the envelope the reference ring was sized for,
\* however slips, slews, jumps, timestamps and resets follow each other.
TypeOK ==
    /\ delay \in 0 .. MaxDelay
    /\ rendered \in 0 .. RenderNeeded
    /\ captured \in 0 .. RolloverAt /\ basisAt \in 0 .. RolloverAt
    /\ counter \in 0 .. SearchPeriod - 1
    /\ candidate \in 0 .. MaxDelay
    /\ confirmed \in 0 .. Confirmations - 1
    /\ basis \in BOOLEAN
    /\ heard \in Peaks \cup {[Silence EXCEPT !.drift = d] : d \in BOOLEAN}

\* API_CONTRACT.md: "a large correlation route-change candidate must remain
\* consistent for three search epochs before it is committed": the three last
\* searches, with no reset, timestamp, rejected or near peak between them, lie
\* within Tolerance of where the jump goes.
RouteJumpEarned ==
    event = "jump" =>
        /\ Len(evidence) = Confirmations
        /\ \A i \in DOMAIN evidence : Distance(evidence[i], delay) <= Tolerance

\* API_CONTRACT.md: drift "uses the capture samples processed between
\* successful acoustic lag observations, including frames whose correlations
\* were rejected"; a basis invalidated by a flag, a timestamp, a rate change, a
\* rollover or a reset is never differenced against.
DriftTimeExact ==
    event = "drift" => integrated = IF owed = None THEN SearchPeriod ELSE owed

\* With one peak heard for ever and no drift compensation the delay ends up at
\* the peak, or less than the eight samples under it that the integer division
\* cannot close, wherever it was before.
TrackingConverges ==
    \A p \in Delays :
        <>[](heard = [peak |-> p, quality |-> "unique", drift |-> FALSE]) =>
            <>[](delay \in p - 7 .. p)
=============================================================================
