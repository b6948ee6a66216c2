--------------------------- MODULE QualityProofs ---------------------------
(***************************************************************************)
(* Proofs about what adapts to load and to the room: the overload          *)
(* controller for every recovery threshold, the tracking of the delay for  *)
(* every envelope, tolerance, search period and counter range, and the     *)
(* route health of the beamformer with and without direction tracking.     *)
(***************************************************************************)
EXTENDS MC_Quality, SequenceTheorems, TLAPS

(***************************************************************************)
(* The overload controller                                                 *)
(***************************************************************************)
\* A streak is no longer than the run of like frames that has not moved the
\* quality yet, and a move leaves no streak.
StreaksEarned ==
    /\ auto # "no" => overloadStreak = 0 /\ healthyStreak = 0
    /\ overloadStreak > 0 => alike.kind = "over" /\ alike.count >= overloadStreak
    /\ healthyStreak > 0 => alike.kind = "healthy" /\ alike.count >= healthyStreak

OverloadInv == TypeOK /\ MovesEarned /\ StreaksEarned

LEMMA KeepBound == Keep \in Nat /\ Keep >= 3 /\ Keep >= RecoverFrames
  BY RecoverAssumption DEF Keep

\* A step without a frame the controller sees keeps the run of like frames,
\* unless the last step has spent it.
LEMMA KeptRun ==
    ASSUME OverloadInv
    PROVE  /\ Kept \in [kind : {"over", "healthy"}, count : 0 .. Keep]
           /\ Kept.kind = alike.kind
           /\ overloadStreak > 0 => Kept = alike
           /\ healthyStreak > 0 => Kept = alike
<1>1. CASE auto = "no"
  BY <1>1 DEF OverloadInv, TypeOK, Kept
<1>2. CASE auto # "no"
  <2>1. Kept = [kind |-> alike.kind, count |-> 0]
    BY <1>2 DEF OverloadInv, TypeOK, Kept
  <2> QED BY <1>2, <2>1, KeepBound DEF OverloadInv, TypeOK, StreaksEarned
<1> QED BY <1>1, <1>2

\* A frame the controller sees makes the run of like frames one longer, or starts one.
LEMMA ObservedRun ==
    ASSUME OverloadInv, NEW kind \in {"over", "healthy"}, Observe(kind)
    PROVE  /\ last' = kind /\ alike' \in [kind : {"over", "healthy"}, count : 1 .. Keep]
           /\ alike'.kind = kind
           /\ Kept.kind = kind /\ Kept.count < Keep => alike'.count = Kept.count + 1
           /\ Kept.kind = kind /\ Kept.count >= Keep => alike'.count = Keep
           /\ auto' \in {"no", "down", "up"}
           /\ quality' = quality => auto' = "no"
  BY KeptRun, KeepBound DEF Observe, OverloadInv, TypeOK, Qualities, SAFE, FULL

LEMMA InitInv == Init => OverloadInv
  BY RecoverAssumption, KeepBound
  DEF Init, OverloadInv, TypeOK, MovesEarned, StreaksEarned, Qualities, SAFE, FULL

LEMMA OverFrameInv == ASSUME OverloadInv, OverFrame PROVE OverloadInv'
<1>1. /\ healthyStreak' = 0 /\ Observe("over")
      /\ overloadStreak' = IF overloadStreak + 1 >= 3 THEN 0 ELSE overloadStreak + 1
      /\ quality' = IF overloadStreak + 1 >= 3
                    THEN IF quality = FULL THEN LITE ELSE SAFE ELSE quality
  BY DEF OverFrame
<1>2. quality \in 0 .. 2 /\ overloadStreak \in 0 .. 2
  BY DEF OverloadInv, TypeOK, Qualities, SAFE, FULL
<1>3. /\ last' = "over" /\ alike' \in [kind : {"over", "healthy"}, count : 1 .. Keep]
      /\ alike'.kind = "over" /\ auto' \in {"no", "down", "up"}
      /\ Kept.kind = "over" /\ Kept.count < Keep => alike'.count = Kept.count + 1
      /\ Kept.kind = "over" /\ Kept.count >= Keep => alike'.count = Keep
      /\ quality' = quality => auto' = "no"
  BY <1>1, ObservedRun
<1>4. alike'.count > overloadStreak
  <2>1. CASE overloadStreak = 0
    BY <1>3, <2>1, KeepBound
  <2>2. CASE overloadStreak > 0
    <3>1. Kept.kind = "over" /\ Kept.count >= overloadStreak /\ Kept.count \in 0 .. Keep
      BY <2>2, KeptRun DEF OverloadInv, StreaksEarned
    <3> QED BY <1>2, <1>3, <3>1, KeepBound
  <2> QED BY <1>2, <2>1, <2>2
<1>5. auto' # "up"
  BY <1>1, <1>2 DEF Observe, SAFE, LITE, FULL
<1>6. TypeOK'
  BY <1>1, <1>2, <1>3, RecoverAssumption, KeepBound DEF TypeOK, Qualities, SAFE, LITE, FULL
<1>7. MovesEarned'
  BY <1>1, <1>2, <1>3, <1>4, <1>5, KeepBound DEF MovesEarned
<1>8. StreaksEarned'
  BY <1>1, <1>2, <1>3, <1>4, KeepBound DEF StreaksEarned
<1> QED BY <1>6, <1>7, <1>8 DEF OverloadInv

LEMMA HealthyFrameInv == ASSUME OverloadInv, HealthyFrame PROVE OverloadInv'
<1>1. /\ overloadStreak' = 0 /\ Observe("healthy")
      /\ healthyStreak' = IF healthyStreak + 1 >= RecoverFrames THEN 0 ELSE healthyStreak + 1
      /\ quality' = IF healthyStreak + 1 >= RecoverFrames
                    THEN IF quality = SAFE THEN LITE ELSE FULL ELSE quality
  BY DEF HealthyFrame
<1>2. quality \in 0 .. 2 /\ healthyStreak \in 0 .. RecoverFrames - 1
  BY DEF OverloadInv, TypeOK, Qualities, SAFE, FULL
<1>3. /\ last' = "healthy" /\ alike' \in [kind : {"over", "healthy"}, count : 1 .. Keep]
      /\ alike'.kind = "healthy" /\ auto' \in {"no", "down", "up"}
      /\ Kept.kind = "healthy" /\ Kept.count < Keep => alike'.count = Kept.count + 1
      /\ Kept.kind = "healthy" /\ Kept.count >= Keep => alike'.count = Keep
      /\ quality' = quality => auto' = "no"
  BY <1>1, ObservedRun
<1>4. alike'.count > healthyStreak
  <2>1. CASE healthyStreak = 0
    BY <1>3, <2>1, KeepBound
  <2>2. CASE healthyStreak > 0
    <3>1. Kept.kind = "healthy" /\ Kept.count >= healthyStreak /\ Kept.count \in 0 .. Keep
      BY <2>2, KeptRun DEF OverloadInv, StreaksEarned
    <3> QED BY <1>2, <1>3, <3>1, RecoverAssumption, KeepBound
  <2> QED BY <1>2, <2>1, <2>2
<1>5. auto' # "down"
  BY <1>1, <1>2 DEF Observe, SAFE, LITE, FULL
<1>6. TypeOK'
  BY <1>1, <1>2, <1>3, RecoverAssumption, KeepBound DEF TypeOK, Qualities, SAFE, LITE, FULL
<1>7. MovesEarned'
  BY <1>1, <1>2, <1>3, <1>4, <1>5, RecoverAssumption, KeepBound DEF MovesEarned
<1>8. StreaksEarned'
  BY <1>1, <1>2, <1>3, <1>4, RecoverAssumption, KeepBound DEF StreaksEarned
<1> QED BY <1>6, <1>7, <1>8 DEF OverloadInv

\* A failed frame or a command: the controller sees nothing and forgets nothing.
LEMMA UnseenInv == ASSUME OverloadInv, FailedFrame \/ Command PROVE OverloadInv'
<1>1. /\ auto' = "no" /\ last' \in {"failed", "command"} /\ alike' = Kept
      /\ UNCHANGED <<overloadStreak, healthyStreak>> /\ quality' \in Qualities
  BY DEF FailedFrame, Command, SetQuality, Reset, Commanded, OverloadInv, TypeOK,
         Qualities, SAFE, FULL
<1>2. TypeOK'
  BY <1>1, KeptRun DEF OverloadInv, TypeOK
<1>3. MovesEarned' /\ StreaksEarned'
  BY <1>1, KeptRun DEF OverloadInv, MovesEarned, StreaksEarned
<1> QED BY <1>2, <1>3 DEF OverloadInv

-----------------------------------------------------------------------------
\* The inductive invariant holds of every reachable state, whatever mixture of
\* misses, healthy frames, failures and commands led to it.
THEOREM OverloadInvariant == Spec => []OverloadInv
<1>1. OverloadInv /\ [Next]_vars => OverloadInv'
  <2> SUFFICES ASSUME OverloadInv, [Next]_vars PROVE OverloadInv'
    OBVIOUS
  <2>1. CASE OverFrame
    BY <2>1, OverFrameInv
  <2>2. CASE HealthyFrame
    BY <2>2, HealthyFrameInv
  <2>3. CASE FailedFrame \/ Command
    BY <2>3, UnseenInv
  <2>4. CASE UNCHANGED vars
    BY <2>4 DEF vars, OverloadInv, TypeOK, MovesEarned, StreaksEarned
  <2> QED BY <2>1, <2>2, <2>3, <2>4 DEF Next, Frame
<1> QED BY <1>1, InitInv, PTL DEF Spec

\* The streaks never reach their thresholds between two frames.
THEOREM OverloadTypeCorrect == Spec => []TypeOK
<1>1. OverloadInv => TypeOK
  BY DEF OverloadInv
<1> QED BY <1>1, OverloadInvariant, PTL

\* The controller never moves the quality without a full run of like frames of
\* which no earlier move was made.
THEOREM OverloadMovesEarned == Spec => []MovesEarned
<1>1. OverloadInv => MovesEarned
  BY DEF OverloadInv
<1> QED BY <1>1, OverloadInvariant, PTL

(***************************************************************************)
(* The tracking of the delay                                               *)
(***************************************************************************)
SyncBounds ==
    /\ MaxDelay \in Nat /\ InitialDelay \in 0 .. MaxDelay /\ Delays \subseteq 0 .. MaxDelay
    /\ JumpLimit \in Nat \ {0} /\ Tolerance \in Nat \ {0} /\ MaxSlew \in Nat \ {0}
    /\ SearchPeriod \in Nat \ {0} /\ RenderNeeded \in Nat \ {0} /\ RolloverAt \in Nat \ {0}

\* The basis is what may be differenced against, and it is as old as what has been captured since.
BasisTimed == /\ basis <=> age # Delay!None
              /\ basis => age = captured - basisAt /\ age >= 0
\* The searches that confirmed the candidate were the last ones, and each of them is near it.
Near(peak) == Delay!Distance(peak, candidate) <= Tolerance
CandidateConfirmed ==
    /\ epochs \in Seq(Delays) /\ Len(epochs) <= 2
    /\ confirmed <= Len(epochs)
    /\ confirmed >= 1 => Near(epochs[Len(epochs)])
    /\ confirmed = 2 => Near(epochs[1])
DelayInv == /\ Delay!TypeOK /\ BasisTimed /\ CandidateConfirmed
            /\ Delay!RouteJumpEarned /\ Delay!DriftTimeExact

LEMMA SyncBounded == SyncBounds
<1>1. /\ JumpLimit \in Nat \ {0} /\ Tolerance \in Nat \ {0} /\ MaxSlew \in Nat \ {0}
      /\ SearchPeriod \in Nat \ {0} /\ RenderNeeded \in Nat \ {0} /\ RolloverAt \in Nat \ {0}
  BY BuildAndSync DEF Delay!SyncAssumption
<1> QED BY <1>1, BuildAndSync DEF Delay!SyncAssumption, SyncBounds

Heard == Delay!Peaks \cup {[Delay!Silence EXCEPT !.drift = d] : d \in BOOLEAN}
LEMMA SilenceIsHeard == Delay!Silence \in Heard
<1> DEFINE silence(d) == [peak |-> Delay!None, quality |-> "weak", drift |-> d]
<1>1. \A d : [silence(FALSE) EXCEPT !.drift = d] = silence(d) OBVIOUS
<1>2. Delay!Silence = silence(FALSE) BY DEF Delay!Silence
<1> HIDE DEF silence
<1>3. [Delay!Silence EXCEPT !.drift = FALSE] = Delay!Silence BY <1>1, <1>2
<1>4. FALSE \in BOOLEAN OBVIOUS
<1> QED BY <1>3, <1>4 DEF Heard
LEMMA BasisLost ==
  ASSUME basis' = FALSE, age' = Delay!None
  PROVE  BasisTimed' /\ basis' \in BOOLEAN
BY DEF BasisTimed
LEMMA BasisTaken ==
  ASSUME basis' = TRUE, age' = 0, captured' \in Nat, basisAt' = captured'
  PROVE  BasisTimed' /\ basis' \in BOOLEAN
<1>1. ASSUME NEW a, NEW c \in Nat, NEW b, a = 0, b = c PROVE a # Delay!None /\ a = c - b /\ a >= 0
  BY <1>1 DEF Delay!None
<1>2. age' # Delay!None /\ age' = captured' - basisAt' /\ age' >= 0 BY <1>1
<1> QED BY <1>2 DEF BasisTimed
\* Searches kept in a sequence of at most two.
LEMMA OneMore ==
  ASSUME NEW D, NEW s \in Seq(D), NEW x \in D
  PROVE  /\ Append(s, x) \in Seq(D) /\ Len(Append(s, x)) = Len(s) + 1 /\ Append(s, x)[Len(s) + 1] = x
         /\ \A i \in 1 .. Len(s) : Append(s, x)[i] = s[i]
<1>1. Append(s, x) \in Seq(D) BY AppendProperties
<1>2. Len(Append(s, x)) = Len(s) + 1 BY AppendProperties
<1>3. Append(s, x)[Len(s) + 1] = x BY AppendProperties
<1>4. \A i \in 1 .. Len(s) : Append(s, x)[i] = s[i] BY AppendProperties
<1> QED BY <1>1, <1>2, <1>3, <1>4
LEMMA TailOfTwo ==
  ASSUME NEW D, NEW s \in Seq(D), Len(s) = 2
  PROVE  Tail(s) \in Seq(D) /\ Len(Tail(s)) = 1 /\ Tail(s)[1] = s[2]
OBVIOUS
LEMMA OneThenAnother ==
  ASSUME NEW D, NEW t \in Seq(D), Len(t) = 1, NEW x \in D
  PROVE  Append(t, x) \in Seq(D) /\ Len(Append(t, x)) = 2 /\ Append(t, x)[1] = t[1] /\ Append(t, x)[2] = x
<1>0. /\ Append(t, x) \in Seq(D) /\ Len(Append(t, x)) = Len(t) + 1 /\ Append(t, x)[Len(t) + 1] = x
      /\ \A i \in 1 .. Len(t) : Append(t, x)[i] = t[i]
  <2>1. Append(t, x) \in Seq(D) BY AppendProperties
  <2>2. Len(Append(t, x)) = Len(t) + 1 BY AppendProperties
  <2>3. Append(t, x)[Len(t) + 1] = x BY OneMore
  <2>4. \A i \in 1 .. Len(t) : Append(t, x)[i] = t[i] BY OneMore
  <2> QED BY <2>1, <2>2, <2>3, <2>4
<1>1. PICK u : u = Append(t, x) OBVIOUS
<1>2. /\ u \in Seq(D) /\ Len(u) = Len(t) + 1 /\ u[Len(t) + 1] = x
      /\ \A i \in 1 .. Len(t) : u[i] = t[i]
  BY <1>0, <1>1, Zenon
<1>3. PICK n : n = Len(t) OBVIOUS
<1>4. n = 1 BY <1>3
<1>5. Len(u) = n + 1 /\ u[n + 1] = x /\ \A i \in 1 .. n : u[i] = t[i] BY <1>2, <1>3, Zenon
<1>6. Len(u) = 2 /\ u[2] = x /\ u[1] = t[1] BY <1>4, <1>5
<1> QED BY <1>1, <1>2, <1>6
LEMMA OneForAnother ==
  ASSUME NEW s \in Seq(Delays), Len(s) = 2, NEW x \in Delays
  PROVE  /\ Append(Tail(s), x) \in Seq(Delays) /\ Len(Append(Tail(s), x)) = 2
         /\ Append(Tail(s), x)[1] = s[2] /\ Append(Tail(s), x)[2] = x
<1>1. Tail(s) \in Seq(Delays) /\ Len(Tail(s)) = 1 /\ Tail(s)[1] = s[2] BY TailOfTwo
<1>2. /\ Append(Tail(s), x) \in Seq(Delays) /\ Len(Append(Tail(s), x)) = 2
      /\ Append(Tail(s), x)[1] = Tail(s)[1] /\ Append(Tail(s), x)[2] = x
  <2>1. PICK t \in Seq(Delays) : t = Tail(s) BY <1>1
  <2>2. Len(t) = 1 BY <1>1, <2>1
  <2>3. /\ Append(t, x) \in Seq(Delays) /\ Len(Append(t, x)) = 2
        /\ Append(t, x)[1] = t[1] /\ Append(t, x)[2] = x
    BY <2>2, OneThenAnother
  <2> QED BY <2>1, <2>3, Zenon
<1> QED BY <1>1, <1>2, Zenon
LEMMA ThreeInARow ==
  ASSUME NEW D, NEW s \in Seq(D), Len(s) = 2, NEW x \in D
  PROVE  Len(Append(s, x)) = 3 /\ Append(s, x)[1] = s[1] /\ Append(s, x)[2] = s[2] /\ Append(s, x)[3] = x
<1>0. /\ Len(Append(s, x)) = Len(s) + 1 /\ Append(s, x)[Len(s) + 1] = x
      /\ \A i \in 1 .. Len(s) : Append(s, x)[i] = s[i]
  <2>1. Len(Append(s, x)) = Len(s) + 1 BY AppendProperties
  <2>2. Append(s, x)[Len(s) + 1] = x BY OneMore
  <2>3. \A i \in 1 .. Len(s) : Append(s, x)[i] = s[i]
    <3>1. \A q \in Seq(D) : \A i \in 1 .. Len(q) : Append(q, x)[i] = q[i] BY OneMore
    <3> QED BY <3>1, Zenon
  <2> QED BY <2>1, <2>2, <2>3
<1>1. PICK u : u = Append(s, x) OBVIOUS
<1>2. /\ Len(u) = Len(s) + 1 /\ u[Len(s) + 1] = x
      /\ \A i \in 1 .. Len(s) : u[i] = s[i]
  BY <1>0, <1>1, Zenon
<1>3. PICK n : n = Len(s) OBVIOUS
<1>4. n = 2 BY <1>3
<1>5. Len(u) = n + 1 /\ u[n + 1] = x /\ \A i \in 1 .. n : u[i] = s[i] BY <1>2, <1>3, Zenon
<1>6. Len(u) = 3 /\ u[3] = x /\ u[1] = s[1] /\ u[2] = s[2] BY <1>4, <1>5
<1> QED BY <1>1, <1>6
LEMMA AtMostTwo ==
  ASSUME NEW D, NEW s \in Seq(D), Len(s) <= 2
  PROVE  Len(s) < 2 \/ Len(s) = 2
<1>1. PICK n \in Nat : n = Len(s) OBVIOUS
<1> QED BY <1>1
LEMMA TypesNow ==
  ASSUME delay \in 0 .. MaxDelay, rendered \in 0 .. RenderNeeded, captured \in 0 .. RolloverAt,
         basisAt \in 0 .. RolloverAt, counter \in 0 .. SearchPeriod - 1, candidate \in 0 .. MaxDelay,
         confirmed \in 0 .. 2, basis \in BOOLEAN, heard \in Heard
  PROVE  Delay!TypeOK
BY DEF Delay!TypeOK, Heard, Delay!Confirmations
LEMMA TypesNext ==
  ASSUME delay' \in 0 .. MaxDelay, rendered' \in 0 .. RenderNeeded, captured' \in 0 .. RolloverAt,
         basisAt' \in 0 .. RolloverAt, counter' \in 0 .. SearchPeriod - 1, candidate' \in 0 .. MaxDelay,
         confirmed' \in 0 .. 2, basis' \in BOOLEAN, heard' \in Heard
  PROVE  Delay!TypeOK'
BY DEF Delay!TypeOK, Heard, Delay!Confirmations
LEMMA TypesKnown ==
  ASSUME DelayInv
  PROVE  /\ delay \in 0 .. MaxDelay /\ rendered \in 0 .. RenderNeeded /\ captured \in 0 .. RolloverAt
         /\ basisAt \in 0 .. RolloverAt /\ counter \in 0 .. SearchPeriod - 1 /\ candidate \in 0 .. MaxDelay
         /\ confirmed \in 0 .. 2 /\ basis \in BOOLEAN /\ heard \in Heard
BY DEF DelayInv, Delay!TypeOK, Heard, Delay!Confirmations

LEMMA DelayInitially == Delay!Init => DelayInv
<1> SUFFICES ASSUME Delay!Init PROVE DelayInv
  OBVIOUS
<1> USE SyncBounded DEF Delay!Init, SyncBounds
<1>1. Delay!TypeOK
  <2>1. heard \in Heard BY SilenceIsHeard
  <2>2. confirmed \in 0 .. 2 /\ counter \in 0 .. SearchPeriod - 1 OBVIOUS
  <2>3. basis \in BOOLEAN OBVIOUS
  <2>4. /\ delay \in 0 .. MaxDelay /\ rendered \in 0 .. RenderNeeded /\ captured \in 0 .. RolloverAt
        /\ basisAt \in 0 .. RolloverAt /\ candidate \in 0 .. MaxDelay
    OBVIOUS
  <2> QED BY <2>1, <2>2, <2>3, <2>4, TypesNow
<1>2. BasisTimed /\ CandidateConfirmed BY DEF BasisTimed, CandidateConfirmed
<1>3. Delay!RouteJumpEarned /\ Delay!DriftTimeExact BY DEF Delay!RouteJumpEarned, Delay!DriftTimeExact
<1> QED BY <1>1, <1>2, <1>3 DEF DelayInv

\* The clock of the capture side.
LEMMA ClockAdvances ==
  ASSUME DelayInv, NEW newRate \in BOOLEAN, Delay!Advance(newRate)
  PROVE  /\ captured' \in 1 .. RolloverAt
         /\ ~Delay!RollsOver(newRate) => captured' = captured + 1
<1> USE SyncBounded DEF SyncBounds
<1>1. captured \in 0 .. RolloverAt BY DEF DelayInv, Delay!TypeOK
<1>2. CASE Delay!RollsOver(newRate) BY <1>1, <1>2 DEF Delay!Advance
<1>3. CASE ~Delay!RollsOver(newRate)
  <2>1. captured # RolloverAt BY <1>3 DEF Delay!RollsOver
  <2> QED BY <1>1, <1>3, <2>1 DEF Delay!Advance
<1> QED BY <1>2, <1>3

\* A frame that leaves the basis where it was, or gives it up.
LEMMA BasisAges ==
  ASSUME DelayInv, NEW newRate \in BOOLEAN, NEW tracking \in BOOLEAN, NEW drift \in BOOLEAN, Delay!Advance(newRate),
         basis' = Delay!Known(newRate, tracking, drift),
         basisAt' = IF Delay!RollsOver(newRate) THEN 0 ELSE basisAt,
         age' = Delay!Aged(newRate, tracking, drift)
  PROVE  BasisTimed' /\ basis' \in BOOLEAN /\ basisAt' \in 0 .. RolloverAt
<1> USE SyncBounded DEF SyncBounds
<1>1. captured \in 0 .. RolloverAt /\ basisAt \in 0 .. RolloverAt /\ basis \in BOOLEAN BY DEF DelayInv, Delay!TypeOK
<1>2. BasisTimed BY DEF DelayInv
<1>3. basis' \in BOOLEAN BY <1>1 DEF Delay!Known
<1>4. basisAt' \in 0 .. RolloverAt BY <1>1
<1>5. CASE basis'
  <2>1. basis /\ ~Delay!RollsOver(newRate) /\ tracking /\ drift BY <1>5 DEF Delay!Known
  <2>2. age # Delay!None /\ age = captured - basisAt /\ age >= 0 BY <1>2, <2>1 DEF BasisTimed
  <2>3. age' = age + 1 BY <2>1, <2>2 DEF Delay!Aged
  <2>4. captured' = captured + 1 /\ basisAt' = basisAt BY <2>1, ClockAdvances
  <2> QED BY <1>1, <1>3, <1>4, <1>5, <2>2, <2>3, <2>4 DEF BasisTimed, Delay!None
<1>6. CASE ~basis'
  <2>1. ~(basis /\ ~Delay!RollsOver(newRate) /\ tracking /\ drift) BY <1>6 DEF Delay!Known
  <2>2. age' = Delay!None BY <1>2, <2>1 DEF Delay!Aged, BasisTimed
  <2> QED BY <1>3, <1>4, <1>6, <2>2 DEF BasisTimed
<1> QED BY <1>5, <1>6

\* The counter of the frames between two searches.
LEMMA CounterCycles ==
  ASSUME DelayInv, counter' \in {0, counter} \/ (counter + 1 # SearchPeriod /\ counter' = counter + 1)
  PROVE  counter' \in 0 .. SearchPeriod - 1
BY SyncBounded DEF DelayInv, Delay!TypeOK, SyncBounds

\* A step that neither jumps nor integrates drift.
LEMMA NoEvent ==
  ASSUME Delay!Did("none")
  PROVE  Delay!RouteJumpEarned' /\ Delay!DriftTimeExact'
BY DEF Delay!Did, Delay!RouteJumpEarned, Delay!DriftTimeExact

\* A candidate given up leaves nothing confirmed.
LEMMA CandidateGivenUp ==
  ASSUME Delay!Forget, epochs' = <<>>
  PROVE  CandidateConfirmed' /\ confirmed' \in 0 .. 2
BY DEF Delay!Forget, CandidateConfirmed, Delay!Confirmations

\* Render frames, resets and timestamps.
LEMMA OutsideKeepsDelay ==
  ASSUME DelayInv, Delay!PushRender \/ Delay!Reset \/ \E observed \in Delays : Delay!Timestamp(observed)
  PROVE  DelayInv'
<1> USE SyncBounded DEF SyncBounds
<1>1. CASE Delay!PushRender
  <2>1. UNCHANGED <<delay, captured, counter, candidate, confirmed, basis, basisAt, epochs, age, heard>>
        /\ rendered' = Delay!Clamp(rendered + 1, 0, RenderNeeded) /\ Delay!Did("none")
    BY <1>1 DEF Delay!PushRender
  <2>2. rendered' \in 0 .. RenderNeeded BY <2>1 DEF DelayInv, Delay!TypeOK, Delay!Clamp
  <2>3. Delay!TypeOK' BY <2>1, <2>2, TypesKnown, TypesNext
  <2>4. BasisTimed' BY <2>1 DEF DelayInv, BasisTimed
  <2>5. CandidateConfirmed' BY <2>1 DEF DelayInv, CandidateConfirmed, Near
  <2> QED BY <2>1, <2>3, <2>4, <2>5, NoEvent DEF DelayInv
<1>2. CASE Delay!Reset
  <2>1. /\ delay' = InitialDelay /\ rendered' = 0 /\ captured' = 0 /\ counter' = 0
        /\ candidate' = 0 /\ confirmed' = 0 /\ basis' = FALSE /\ basisAt' = 0
        /\ epochs' = <<>> /\ age' = Delay!None /\ heard' = Delay!Silence /\ Delay!Did("none")
    BY <1>2 DEF Delay!Reset
  <2>2. heard' \in Heard BY <2>1, SilenceIsHeard
  <2>3. BasisTimed' /\ basis' \in BOOLEAN BY <2>1, BasisLost
  <2>4. /\ delay' \in 0 .. MaxDelay /\ rendered' \in 0 .. RenderNeeded /\ captured' \in 0 .. RolloverAt
        /\ basisAt' \in 0 .. RolloverAt /\ candidate' \in 0 .. MaxDelay /\ confirmed' \in 0 .. 2
        /\ counter' \in 0 .. SearchPeriod - 1
    BY <2>1
  <2>5. Delay!TypeOK' BY <2>2, <2>3, <2>4, TypesNext
  <2>6. CandidateConfirmed' BY <2>1 DEF CandidateConfirmed
  <2> QED BY <2>1, <2>3, <2>5, <2>6, NoEvent DEF DelayInv
<1>3. ASSUME NEW observed \in Delays, Delay!Timestamp(observed) PROVE DelayInv'
  <2>1. /\ delay' = observed /\ Delay!Forget /\ captured' = captured /\ basis' = FALSE /\ basisAt' = captured'
        /\ epochs' = <<>> /\ age' = Delay!None /\ heard' = Delay!Silence /\ Delay!Did("none")
        /\ UNCHANGED <<rendered, counter, candidate>>
    BY <1>3 DEF Delay!Timestamp, Delay!Anchor
  <2>2. heard' \in Heard BY <2>1, SilenceIsHeard
  <2>3. CandidateConfirmed' /\ confirmed' \in 0 .. 2 BY <2>1, CandidateGivenUp
  <2>4. Delay!TypeOK' BY <2>1, <2>2, <2>3, TypesKnown, TypesNext
  <2>5. BasisTimed' BY <2>1 DEF BasisTimed
  <2> QED BY <2>1, <2>3, <2>4, <2>5, NoEvent DEF DelayInv
<1> QED BY <1>1, <1>2, <1>3

LEMMA WaitsKeepsDelay ==
  ASSUME DelayInv, NEW newRate \in BOOLEAN, NEW tracking \in BOOLEAN, NEW drift \in BOOLEAN,
         Delay!Waits(newRate, tracking, drift)
  PROVE  DelayInv'
<1> USE SyncBounded DEF SyncBounds, Delay!Waits
<1>1. captured' \in 1 .. RolloverAt BY ClockAdvances
<1>2. BasisTimed' /\ basis' \in BOOLEAN /\ basisAt' \in 0 .. RolloverAt BY BasisAges
<1>3. counter' \in 0 .. SearchPeriod - 1 BY CounterCycles DEF Delay!Searches
<1>4. UNCHANGED <<delay, rendered, candidate, confirmed, epochs, heard>> OBVIOUS
<1>5. CandidateConfirmed' BY <1>4 DEF DelayInv, CandidateConfirmed, Near
<1>6. Delay!TypeOK' BY <1>1, <1>2, <1>3, <1>4, TypesKnown, TypesNext
<1> QED BY <1>2, <1>5, <1>6, NoEvent DEF DelayInv

LEMMA RejectedKeepsDelay ==
  ASSUME DelayInv, NEW newRate \in BOOLEAN, NEW drift \in BOOLEAN,
         NEW what \in Heard,
         Delay!Rejected(newRate, drift, what)
  PROVE  DelayInv'
<1> USE SyncBounded DEF SyncBounds, Delay!Rejected, Delay!Searched
<1>1. captured' \in 1 .. RolloverAt BY ClockAdvances
<1>2. BasisTimed' /\ basis' \in BOOLEAN /\ basisAt' \in 0 .. RolloverAt BY BasisAges
<1>3. counter' \in 0 .. SearchPeriod - 1 BY CounterCycles
<1>4. UNCHANGED <<delay, rendered, candidate>> /\ heard' = what OBVIOUS
<1>5. CandidateConfirmed' /\ confirmed' \in 0 .. 2 BY CandidateGivenUp
<1>6. Delay!TypeOK' BY <1>1, <1>2, <1>3, <1>4, <1>5, TypesKnown, TypesNext
<1> QED BY <1>2, <1>5, <1>6, NoEvent DEF DelayInv

\* Three searches in a row near one another make the jump; a far peak that is alone is a candidate.
LEMMA FarPeakKeepsDelay ==
  ASSUME DelayInv, NEW newRate \in BOOLEAN, NEW what \in Delay!Peaks, NEW drift \in BOOLEAN,
         Delay!FarPeak(newRate, drift, what)
  PROVE  DelayInv'
<1> USE SyncBounded DEF SyncBounds
<1> DEFINE peak == what.peak
           jumps == ~Delay!StartsOver(peak) /\ confirmed + 1 = Delay!Confirmations
<1>1. peak \in Delays /\ peak \in Nat /\ what \in Heard
  <2>1. peak \in Delays /\ what \in Heard BY DEF Delay!Peaks, Heard
  <2> HIDE DEF peak
  <2> QED BY <2>1
<1> HIDE DEF peak
<1>2. /\ Delay!Advance(newRate) /\ counter' = 0 /\ UNCHANGED rendered /\ heard' = what
  BY DEF Delay!FarPeak, Delay!Searched
<1>3. captured' \in 1 .. RolloverAt BY <1>2, ClockAdvances
<1>4. /\ delay \in 0 .. MaxDelay /\ candidate \in 0 .. MaxDelay /\ confirmed \in 0 .. 2
      /\ rendered \in 0 .. RenderNeeded
  BY TypesKnown
<1>5. /\ epochs \in Seq(Delays) /\ Len(epochs) <= 2 /\ confirmed <= Len(epochs)
      /\ confirmed >= 1 => Near(epochs[Len(epochs)])
      /\ confirmed = 2 => Near(epochs[1])
  BY DEF DelayInv, CandidateConfirmed
<1>6. CASE jumps
  <2>1. /\ delay' = candidate /\ confirmed' = 0 /\ basis' = drift /\ basisAt' = captured'
        /\ age' = (IF drift THEN 0 ELSE Delay!None) /\ epochs' = <<>> /\ evidence' = Append(epochs, peak)
        /\ Delay!Did("jump") /\ UNCHANGED candidate
    BY <1>6 DEF Delay!FarPeak, Delay!Anchor, peak
  <2>2. confirmed = 2 /\ Near(peak) BY <1>1, <1>4, <1>6 DEF Delay!Confirmations, Delay!StartsOver, Near, Delay!Distance
  <2>3. Len(epochs) = 2 /\ Near(epochs[1]) /\ Near(epochs[2])
    <3>1. Len(epochs) = 2 BY <1>5, <2>2
    <3> QED BY <1>5, <2>2, <3>1
  <2>4. Len(evidence') = 3 /\ \A i \in 1 .. 3 : evidence'[i] \in {epochs[1], epochs[2], peak}
    <3>1. evidence' = Append(epochs, peak) BY <2>1
    <3>2. epochs \in Seq(Delays) BY <1>5
    <3>3. Len(evidence') = 3 /\ evidence'[1] = epochs[1] /\ evidence'[2] = epochs[2] /\ evidence'[3] = peak
      BY <1>1, <2>3, <3>1, <3>2, ThreeInARow
    <3> QED BY <3>3
  <2>5. Delay!RouteJumpEarned'
    <3>1. DOMAIN evidence' = 1 .. 3 BY <1>1, <1>5, <2>1, <2>4
    <3> QED BY <2>1, <2>2, <2>3, <2>4, <3>1 DEF Delay!RouteJumpEarned, Near, Delay!Confirmations, Delay!Distance
  <2>6. Delay!DriftTimeExact' BY <2>1 DEF Delay!DriftTimeExact, Delay!Did
  <2>7. BasisTimed' /\ basis' \in BOOLEAN
    <3>1. CASE drift BY <1>3, <2>1, <3>1, BasisTaken
    <3>2. CASE ~drift BY <2>1, <3>2, BasisLost
    <3> QED BY <3>1, <3>2
  <2>8. Delay!TypeOK'
    <3>1. /\ delay' \in 0 .. MaxDelay /\ captured' \in 0 .. RolloverAt /\ basisAt' \in 0 .. RolloverAt
          /\ candidate' \in 0 .. MaxDelay /\ confirmed' \in 0 .. 2 /\ counter' \in 0 .. SearchPeriod - 1
          /\ rendered' \in 0 .. RenderNeeded
      BY <1>2, <1>3, <1>4, <2>1
    <3> QED BY <1>1, <1>2, <2>7, <3>1, TypesNext
  <2>9. CandidateConfirmed' BY <2>1 DEF CandidateConfirmed
  <2> QED BY <2>5, <2>6, <2>7, <2>8, <2>9 DEF DelayInv
<1>7. CASE ~jumps
  <2>1. /\ candidate' = (IF Delay!StartsOver(peak) THEN peak ELSE candidate)
        /\ confirmed' = (IF Delay!StartsOver(peak) THEN 1 ELSE confirmed + 1)
        /\ basis' = Delay!Known(newRate, TRUE, drift)
        /\ basisAt' = (IF Delay!RollsOver(newRate) THEN 0 ELSE basisAt)
        /\ age' = Delay!Aged(newRate, TRUE, drift)
        /\ epochs' = (IF Len(epochs) < Delay!Confirmations - 1 THEN Append(epochs, peak)
                      ELSE Append(Tail(epochs), peak))
        /\ Delay!Did("none") /\ UNCHANGED delay
    BY <1>7 DEF Delay!FarPeak, peak
  <2>2. BasisTimed' /\ basis' \in BOOLEAN /\ basisAt' \in 0 .. RolloverAt BY <1>2, <2>1, BasisAges
  <2>3. /\ epochs' \in Seq(Delays) /\ Len(epochs') \in 1 .. 2 /\ epochs'[Len(epochs')] = peak
        /\ Len(epochs) >= 1 => Len(epochs') = 2 /\ epochs'[1] = epochs[Len(epochs)]
    <3>1. CASE Len(epochs) < 2
      <4>1. epochs' = Append(epochs, peak) BY <2>1, <3>1 DEF Delay!Confirmations
      <4> QED BY <1>1, <1>5, <3>1, <4>1
    <3>2. CASE Len(epochs) = 2
      <4>1. epochs' = Append(Tail(epochs), peak) BY <2>1, <3>2 DEF Delay!Confirmations
      <4> QED BY <1>1, <1>5, <3>2, <4>1, OneForAnother
    <3>3. Len(epochs) < 2 \/ Len(epochs) = 2 BY <1>5, AtMostTwo
    <3> QED BY <3>1, <3>2, <3>3
  <2>4. CASE Delay!StartsOver(peak)
    <3>1. candidate' = peak /\ confirmed' = 1 BY <2>1, <2>4
    <3>2. Near(peak)' BY <1>1, <3>1 DEF Near, Delay!Distance
    <3>3. CandidateConfirmed' BY <2>3, <3>1, <3>2 DEF CandidateConfirmed, Near
    <3>4. Delay!TypeOK' BY <1>1, <1>2, <1>3, <1>4, <2>1, <2>2, <3>1, TypesKnown, TypesNext
    <3> QED BY <2>1, <2>2, <3>3, <3>4, NoEvent DEF DelayInv
  <2>5. CASE ~Delay!StartsOver(peak)
    <3>1. candidate' = candidate /\ confirmed' = confirmed + 1 BY <2>1, <2>5
    <3>2. confirmed = 1 /\ Near(peak)
      BY <1>1, <1>4, <1>7, <2>5 DEF Delay!StartsOver, Delay!Confirmations, Near, Delay!Distance
    <3>3. Len(epochs) >= 1 /\ Near(epochs[Len(epochs)]) BY <1>5, <3>2
    <3>4. CandidateConfirmed'
      <4>1. confirmed' = 2 /\ Len(epochs') = 2 /\ epochs'[1] = epochs[Len(epochs)] /\ epochs'[2] = peak
        <5>1. Len(epochs') = 2 /\ epochs'[1] = epochs[Len(epochs)] BY <2>3, <3>3
        <5>2. epochs'[2] = peak BY <2>3, <5>1
        <5> QED BY <3>1, <3>2, <5>1, <5>2
      <4>2. Near(epochs[1])' /\ Near(epochs[2])' BY <3>1, <3>2, <3>3, <4>1 DEF Near
      <4>3. confirmed' <= Len(epochs') /\ epochs[Len(epochs)]' = epochs[2]' BY <4>1
      <4> QED BY <2>3, <4>2, <4>3 DEF CandidateConfirmed, Near
    <3>5. Delay!TypeOK'
      <4>1. /\ delay' \in 0 .. MaxDelay /\ captured' \in 0 .. RolloverAt
            /\ candidate' \in 0 .. MaxDelay /\ confirmed' \in 0 .. 2 /\ counter' \in 0 .. SearchPeriod - 1
            /\ rendered' \in 0 .. RenderNeeded
        BY <1>2, <1>3, <1>4, <2>1, <3>1, <3>2
      <4> QED BY <1>1, <1>2, <2>2, <4>1, TypesNext
    <3> QED BY <2>1, <2>2, <3>4, <3>5, NoEvent DEF DelayInv
  <2> QED BY <2>4, <2>5
<1> QED BY <1>6, <1>7

\* The drift is integrated over what was captured since the last peak that was accepted.
LEMMA DriftPeakKeepsDelay ==
  ASSUME DelayInv, NEW newRate \in BOOLEAN, NEW what \in Delay!Peaks, Delay!DriftPeak(newRate, what)
  PROVE  DelayInv'
<1> USE SyncBounded DEF SyncBounds
<1>1. /\ Delay!Advance(newRate) /\ counter' = 0 /\ UNCHANGED <<rendered, candidate>> /\ heard' = what
      /\ Delay!Forget /\ integrated' = Delay!Elapsed(newRate) /\ owed' = Delay!Aged(newRate, TRUE, TRUE)
      /\ basis' = TRUE /\ basisAt' = captured' /\ delay' \in Delay!SlipTargets /\ age' = 0 /\ epochs' = <<>>
      /\ Delay!Did("drift")
  BY DEF Delay!DriftPeak, Delay!Searched, Delay!Anchor
<1>2. captured' \in 1 .. RolloverAt BY <1>1, ClockAdvances
<1>3. CandidateConfirmed' /\ confirmed' \in 0 .. 2 BY <1>1, CandidateGivenUp
<1>4. delay' \in 0 .. MaxDelay
  <2>1. delay \in 0 .. MaxDelay BY TypesKnown
  <2>2. delay' \in Delay!Clamp(delay - 4, 0, MaxDelay) .. Delay!Clamp(delay + 4, 0, MaxDelay)
    BY <1>1 DEF Delay!SlipTargets, Delay!MaxSlips
  <2>3. Delay!Clamp(delay - 4, 0, MaxDelay) \in 0 .. MaxDelay /\ Delay!Clamp(delay + 4, 0, MaxDelay) \in 0 .. MaxDelay
    BY <2>1 DEF Delay!Clamp
  <2> QED BY <2>2, <2>3
<1>5. BasisTimed' /\ basis' \in BOOLEAN BY <1>1, <1>2, BasisTaken
<1>6. Delay!TypeOK'
  <2>1. /\ captured' \in 0 .. RolloverAt /\ basisAt' \in 0 .. RolloverAt /\ candidate' \in 0 .. MaxDelay
        /\ counter' \in 0 .. SearchPeriod - 1 /\ rendered' \in 0 .. RenderNeeded
    BY <1>1, <1>2, TypesKnown
  <2>2. heard' \in Heard BY <1>1 DEF Heard
  <2> QED BY <1>3, <1>4, <1>5, <2>1, <2>2, TypesNext
<1>7. Delay!RouteJumpEarned' BY <1>1 DEF Delay!Did, Delay!RouteJumpEarned
<1>8. Delay!DriftTimeExact'
  <2>1. captured \in 0 .. RolloverAt /\ basisAt \in 0 .. RolloverAt BY DEF DelayInv, Delay!TypeOK
  <2>2. BasisTimed BY DEF DelayInv
  <2>3. CASE Delay!Known(newRate, TRUE, TRUE)
    <3>1. basis /\ ~Delay!RollsOver(newRate) BY <2>3 DEF Delay!Known
    <3>2. age # Delay!None /\ age = captured - basisAt /\ age >= 0 /\ captured' = captured + 1
      BY <1>1, <2>2, <3>1, ClockAdvances DEF BasisTimed
    <3>3. owed' = age + 1 BY <1>1, <3>1, <3>2 DEF Delay!Aged
    <3>4. integrated' = captured' - basisAt BY <1>1, <2>1, <2>3, <3>2 DEF Delay!Elapsed
    <3> QED BY <2>1, <3>2, <3>3, <3>4 DEF Delay!DriftTimeExact, Delay!None
  <2>4. CASE ~Delay!Known(newRate, TRUE, TRUE)
    <3>1. owed' = Delay!None BY <1>1, <2>2, <2>4 DEF Delay!Known, Delay!Aged, BasisTimed
    <3>2. integrated' = SearchPeriod BY <1>1, <2>4 DEF Delay!Elapsed
    <3> QED BY <3>1, <3>2 DEF Delay!DriftTimeExact
  <2> QED BY <2>3, <2>4
<1> QED BY <1>3, <1>5, <1>6, <1>7, <1>8 DEF DelayInv

LEMMA SlewStaysInside ==
  ASSUME NEW old \in 0 .. MaxDelay, NEW best \in 0 .. MaxDelay
  PROVE  Delay!Slewed(old, best) \in 0 .. MaxDelay
<1> USE SyncBounded DEF SyncBounds
<1> DEFINE x == (7 * old + best) \div 8
<1>1. x \in 0 .. MaxDelay OBVIOUS
<1> HIDE DEF x
<1>2. Delay!Clamp(x, old - MaxSlew, old + MaxSlew) \in 0 .. MaxDelay BY <1>1 DEF Delay!Clamp
<1> QED BY <1>2 DEF Delay!Slewed, x

LEMMA SlewPeakKeepsDelay ==
  ASSUME DelayInv, NEW newRate \in BOOLEAN, NEW what \in Delay!Peaks, Delay!SlewPeak(newRate, what)
  PROVE  DelayInv'
<1> USE SyncBounded DEF SyncBounds
<1>1. /\ Delay!Advance(newRate) /\ counter' = 0 /\ UNCHANGED <<rendered, candidate>> /\ heard' = what
      /\ Delay!Forget /\ delay' = Delay!Slewed(delay, what.peak) /\ basis' = FALSE
      /\ basisAt' = (IF Delay!RollsOver(newRate) THEN 0 ELSE basisAt) /\ age' = Delay!None /\ epochs' = <<>>
      /\ Delay!Did("none")
  BY DEF Delay!SlewPeak, Delay!Searched
<1>2. captured' \in 1 .. RolloverAt BY <1>1, ClockAdvances
<1>3. CandidateConfirmed' /\ confirmed' \in 0 .. 2 BY <1>1, CandidateGivenUp
<1>4. delay' \in 0 .. MaxDelay
  <2>1. delay \in 0 .. MaxDelay /\ what.peak \in 0 .. MaxDelay BY DEF DelayInv, Delay!TypeOK, Delay!Peaks
  <2> QED BY <1>1, <2>1, SlewStaysInside
<1>5. BasisTimed' /\ basis' \in BOOLEAN BY <1>1, BasisLost
<1>6. Delay!TypeOK'
  <2>1. /\ captured' \in 0 .. RolloverAt /\ basisAt' \in 0 .. RolloverAt /\ candidate' \in 0 .. MaxDelay
        /\ counter' \in 0 .. SearchPeriod - 1 /\ rendered' \in 0 .. RenderNeeded
    BY <1>1, <1>2, TypesKnown
  <2>2. heard' \in Heard BY <1>1 DEF Heard
  <2> QED BY <1>3, <1>4, <1>5, <2>1, <2>2, TypesNext
<1> QED BY <1>1, <1>3, <1>5, <1>6, NoEvent DEF DelayInv

LEMMA TrackKeepsDelay ==
  ASSUME DelayInv, NEW newRate \in BOOLEAN, NEW tracking \in BOOLEAN, NEW drift \in BOOLEAN,
         Delay!Track(newRate, tracking, drift)
  PROVE  DelayInv'
<1>1. CASE Delay!Waits(newRate, tracking, drift) BY <1>1, WaitsKeepsDelay
<1>2. CASE Delay!Rejected(newRate, drift, [Delay!Silence EXCEPT !.drift = drift])
  <2>1. [Delay!Silence EXCEPT !.drift = drift] \in Heard BY DEF Heard
  <2> QED BY <1>2, <2>1, RejectedKeepsDelay
<1>3. ASSUME NEW what \in Delay!Peaks, what.drift = drift, Delay!Found(newRate, what) PROVE DelayInv'
  <2>1. what \in Heard BY DEF Heard
  <2>2. CASE Delay!FarPeak(newRate, what.drift, what) BY <1>3, <2>2, FarPeakKeepsDelay
  <2>3. CASE Delay!Rejected(newRate, what.drift, what) BY <1>3, <2>1, <2>3, RejectedKeepsDelay
  <2>4. CASE Delay!DriftPeak(newRate, what) BY <2>4, DriftPeakKeepsDelay
  <2>5. CASE Delay!SlewPeak(newRate, what) BY <2>5, SlewPeakKeepsDelay
  <2> QED BY <1>3, <2>2, <2>3, <2>4, <2>5 DEF Delay!Found
<1> QED BY <1>1, <1>2, <1>3 DEF Delay!Track

\* The delay stays in the envelope of the reference ring, jumps only after three agreeing searches
\* with nothing between them, and drift is integrated over exactly what was captured since the last
\* usable lag: for every delay, tolerance, period and range of the capture counter.
THEOREM DelayTrustedHolds == SumSpec => []DelayTrusted
<1> DEFINE Safe == which = "delay" => DelayInv
<1>1. SumInit => Safe
  BY DelayInitially DEF SumInit
<1>2. ASSUME Safe, [SumNext]_sumVars PROVE Safe'
  <2> USE <1>2
  <2>1. CASE which = "delay" /\ Delay!Next /\ UNCHANGED which
    BY <2>1, OutsideKeepsDelay, TrackKeepsDelay DEF Delay!Next
  <2>2. CASE UNCHANGED <<which, delayVars>>
    BY <2>2 DEF delayVars, DelayInv, Delay!TypeOK, BasisTimed, CandidateConfirmed, Near, Delay!RouteJumpEarned,
                Delay!DriftTimeExact
  <2> QED BY <2>1, <2>2 DEF SumNext, sumVars
<1>3. Safe => DelayTrusted
  BY DEF DelayTrusted, DelayInv
<1> QED BY <1>1, <1>2, <1>3, PTL DEF SumSpec

(***************************************************************************)
(* The route health                                                        *)
(***************************************************************************)
\* A hard route is in force.  Whoever has armed has the evidence for it, and from which side the fault
\* was seen depends on the path that saw it: the tracking path arms on the channel it takes for the
\* good one, the fixed path on the other.  A recovery count is of the last observations in a row, and
\* outside a mode there is neither.
ArmedEarned ==
    armed > 0 => /\ blames > 0 /\ ~hard
                 /\ mode = "tracking" => active /\ against = trusted
                 /\ mode = "fixed" => ~active /\ against = 1 - trusted
FixedEarned ==
    mode = "fixed" => /\ active <=> hard
                      /\ blames = 2 => hard
                      /\ blames > 0 /\ ~hard => armed = 1 /\ trusted = 1 - against
RouteInv ==
    /\ Route!TypeOK
    /\ hard => active
    /\ mode = "fixed" <=> phase # 3
    /\ mode = "none" => armed = 0 /\ recovering = 0
    /\ hard => recovering <= clears
    /\ ArmedEarned /\ FixedEarned

\* A route as the update functions take it.
RouteRec == [active : BOOLEAN, hard : BOOLEAN, trusted : 0 .. 1, armed : 0 .. 1, recovering : 0 .. 7]
Sane(r) == /\ r \in RouteRec
           /\ r.hard => r.active /\ r.armed = 0

\* What counting one more recovery can do to a route.
Counted(r, ok, n) ==
    \/ /\ n.active = r.active /\ n.hard = r.hard /\ n.trusted = r.trusted /\ n.armed = r.armed
       /\ \/ ~ok /\ n.recovering = 0
          \/ ok /\ r.recovering < 7 /\ n.recovering = r.recovering + 1
    \/ /\ ok /\ r.recovering = 7 /\ n.trusted = r.trusted
       /\ n.active = FALSE /\ n.hard = FALSE /\ n.armed = 0 /\ n.recovering = 0
\* What arming can do to a soft route (a hard one is left as it is).
ArmedOf(r, obs, n) ==
    \/ /\ n.active = r.active /\ n.hard = r.hard /\ n.trusted = r.trusted
       /\ n.recovering = r.recovering /\ n.armed = 0
    \/ /\ ~r.hard /\ obs.verdict = "contaminated" /\ r.armed = 1 /\ r.trusted = obs.strong
       /\ n.active = TRUE /\ n.hard = TRUE /\ n.trusted = 1 - obs.strong
       /\ n.armed = 0 /\ n.recovering = 0
    \/ /\ ~r.hard /\ obs.verdict = "contaminated" /\ r.trusted = obs.strong
       /\ n.active = r.active /\ n.hard = r.hard /\ n.trusted = r.trusted
       /\ n.recovering = r.recovering /\ n.armed = 1

LEMMA RecoveredResult ==
  ASSUME NEW r \in RouteRec, NEW ok \in BOOLEAN, NEW n, n = Route!Recovered(r, ok)
  PROVE  n \in RouteRec /\ Counted(r, ok, n)
<1> USE DEF Counted
<1>1. CASE ~ok
  <2>1. n = [r EXCEPT !.recovering = 0] BY <1>1 DEF Route!Recovered
  <2> QED BY <1>1, <2>1 DEF RouteRec
<1>2. CASE ok /\ r.recovering < 7
  <2>1. n = [r EXCEPT !.recovering = r.recovering + 1]
    BY <1>2 DEF Route!Recovered, Route!RecoverUpdates, RouteRec
  <2>2. r.recovering + 1 \in 0 .. 7 BY <1>2 DEF RouteRec
  <2>3. n.recovering = r.recovering + 1 BY <2>1 DEF RouteRec
  <2>4. n.active = r.active /\ n.hard = r.hard /\ n.trusted = r.trusted /\ n.armed = r.armed
    BY <2>1 DEF RouteRec
  <2>5. n \in RouteRec BY <2>1, <2>2 DEF RouteRec
  <2> QED BY <1>2, <2>3, <2>4, <2>5
<1>3. CASE ok /\ r.recovering = 7
  <2>1. n = Route!Released(r) BY <1>3 DEF Route!Recovered, Route!RecoverUpdates
  <2>2. n = [r EXCEPT !.active = FALSE, !.hard = FALSE, !.armed = 0, !.recovering = 0]
    BY <2>1 DEF Route!Released
  <2>3. n.active = FALSE /\ n.hard = FALSE /\ n.armed = 0 /\ n.recovering = 0 /\ n.trusted = r.trusted
    BY <2>2 DEF RouteRec
  <2>4. n \in RouteRec
    <3> DEFINE m == [r EXCEPT !.active = FALSE, !.hard = FALSE]
    <3>1. m \in RouteRec BY Zenon DEF RouteRec
    <3>2. n = [m EXCEPT !.armed = 0, !.recovering = 0] BY <2>2
    <3> HIDE DEF m
    <3> QED BY <3>1, <3>2, 0 \in 0 .. 1, 0 \in 0 .. 7 DEF RouteRec
  <2> QED BY <1>3, <2>3, <2>4
<1>4. r.recovering \in 0 .. 7 BY DEF RouteRec
<1>5. r.recovering < 7 \/ r.recovering = 7 BY <1>4
<1> QED BY <1>1, <1>2, <1>3, <1>5

LEMMA ArmedResult ==
  ASSUME NEW r \in RouteRec, NEW obs \in Route!Observations, NEW n, n = Route!Armed(r, obs)
  PROVE  n \in RouteRec /\ ArmedOf(r, obs, n)
<1> USE DEF ArmedOf
<1>0. obs.strong \in {0, 1} /\ r.trusted \in 0 .. 1 /\ r.armed \in 0 .. 1
  BY DEF Route!Observations, Route!Channels, RouteRec
<1>1. CASE r.hard \/ obs.verdict # "contaminated" \/ r.trusted = 1 - obs.strong
  <2>1. n = [r EXCEPT !.armed = 0] BY <1>1 DEF Route!Armed
  <2> QED BY <2>1 DEF RouteRec
<1>2. CASE ~(r.hard \/ obs.verdict # "contaminated" \/ r.trusted = 1 - obs.strong) /\ r.armed = 1
  <2>1. n = Route!Confirmed(r, 1 - obs.strong) BY <1>2 DEF Route!Armed, Route!ArmUpdates
  <2>2. n = [r EXCEPT !.active = TRUE, !.hard = TRUE, !.trusted = 1 - obs.strong, !.armed = 0, !.recovering = 0]
    BY <2>1 DEF Route!Confirmed
  <2>3. 1 - obs.strong \in 0 .. 1 BY <1>0
  <2>4. n \in RouteRec
    <3> DEFINE m == [r EXCEPT !.active = TRUE, !.hard = TRUE]
    <3>1. m \in RouteRec BY Zenon DEF RouteRec
    <3> DEFINE t == 1 - obs.strong
    <3>2. n = [m EXCEPT !.trusted = t, !.armed = 0, !.recovering = 0] BY <2>2
    <3>3. t \in 0 .. 1 BY <2>3
    <3> HIDE DEF m, t
    <3> QED BY <3>1, <3>2, <3>3, 0 \in 0 .. 1, 0 \in 0 .. 7 DEF RouteRec
  <2>5. /\ n.active = TRUE /\ n.hard = TRUE /\ n.trusted = 1 - obs.strong
        /\ n.armed = 0 /\ n.recovering = 0 BY <2>2 DEF RouteRec
  <2>6. r.trusted = obs.strong BY <1>0, <1>2
  <2> QED BY <1>2, <2>4, <2>5, <2>6
<1>3. CASE ~(r.hard \/ obs.verdict # "contaminated" \/ r.trusted = 1 - obs.strong) /\ r.armed = 0
  <2>1. n = [r EXCEPT !.armed = r.armed + 1] BY <1>3 DEF Route!Armed, Route!ArmUpdates
  <2>2. r.armed + 1 = 1 BY <1>3
  <2>3. n = [r EXCEPT !.armed = 1] BY <2>1, <2>2
  <2>4. n \in RouteRec BY <2>3 DEF RouteRec
  <2>5. /\ n.active = r.active /\ n.hard = r.hard /\ n.trusted = r.trusted
        /\ n.recovering = r.recovering /\ n.armed = 1 BY <2>3 DEF RouteRec
  <2>6. r.trusted = obs.strong BY <1>0, <1>3
  <2> QED BY <1>3, <2>4, <2>5, <2>6
<1>4. r.armed = 0 \/ r.armed = 1 BY <1>0
<1> QED BY <1>1, <1>2, <1>3, <1>4

\* What one observation of the tracking path does.
LEMMA FallbackResult ==
  ASSUME NEW r, Sane(r), r.armed > 0 => r.active, NEW obs \in Route!Observations,
         NEW n, n = Route!UpdateFallback(r, obs)
  PROVE  /\ n \in RouteRec
         /\ n.hard => n.active /\ n.armed = 0
         /\ r.hard => \/ n.hard /\ n.trusted = r.trusted
                         /\ \/ n.recovering = 0
                            \/ obs.verdict = "recovered" /\ n.recovering = r.recovering + 1
                      \/ obs.verdict = "recovered" /\ r.recovering = 7
         /\ ~r.hard /\ n.hard => /\ obs.verdict = "contaminated" /\ r.armed = 1 /\ r.trusted = obs.strong
                                 /\ n.trusted = 1 - obs.strong /\ n.recovering = 0
         /\ n.armed > 0 => ~n.hard /\ n.active /\ obs.verdict = "contaminated" /\ n.trusted = obs.strong
<1>0. r \in RouteRec /\ (r.hard => r.active /\ r.armed = 0) BY DEF Sane
<1>1. CASE r.active
  <2> DEFINE a == Route!Armed(r, obs)
             ok == obs.verdict = "recovered" \/ (~a.hard /\ obs.verdict = "better")
  <2>1. n = Route!Recovered(a, ok) BY <1>1 DEF Route!UpdateFallback
  <2>2. ok \in BOOLEAN OBVIOUS
  <2>3. ok => obs.verdict \in {"recovered", "better"} OBVIOUS
  <2>4. a.hard /\ ok => obs.verdict = "recovered" OBVIOUS
  <2>5. a = Route!Armed(r, obs) OBVIOUS
  <2> HIDE DEF a, ok
  <2>6. a \in RouteRec /\ ArmedOf(r, obs, a) BY <1>0, <2>5, ArmedResult
  <2>7. ArmedOf(r, obs, a) BY <2>6
  <2>8. n \in RouteRec /\ Counted(a, ok, n) BY <2>1, <2>2, <2>6, RecoveredResult
  <2>9. Counted(a, ok, n) BY <2>8
  <2> USE DEF ArmedOf, Counted
  <2>10. CASE /\ a.active = r.active /\ a.hard = r.hard /\ a.trusted = r.trusted
              /\ a.recovering = r.recovering /\ a.armed = 0
    <3>1. n.hard => n.active /\ n.armed = 0 BY <1>0, <1>1, <2>9, <2>10
    <3>2. r.hard => \/ n.hard /\ n.trusted = r.trusted
                       /\ \/ n.recovering = 0
                          \/ obs.verdict = "recovered" /\ n.recovering = r.recovering + 1
                    \/ obs.verdict = "recovered" /\ r.recovering = 7
      BY <2>4, <2>9, <2>10
    <3>3. ~(~r.hard /\ n.hard) BY <2>9, <2>10
    <3>4. n.armed = 0 BY <2>9, <2>10
    <3> QED BY <2>8, <3>1, <3>2, <3>3, <3>4
  <2>11. CASE obs.verdict = "contaminated" /\ ~r.hard
    <3>1. ~ok BY <2>3, <2>11
    <3>2. n.active = a.active /\ n.hard = a.hard /\ n.trusted = a.trusted /\ n.armed = a.armed /\ n.recovering = 0
      BY <2>9, <3>1
    <3>3. n.hard => n.active /\ n.armed = 0 BY <1>1, <2>7, <2>11, <3>2
    <3>4. n.hard => /\ r.armed = 1 /\ r.trusted = obs.strong /\ n.trusted = 1 - obs.strong
      BY <2>7, <2>11, <3>2
    <3>5. ASSUME n.armed > 0 PROVE ~n.hard /\ n.active /\ n.trusted = obs.strong
      <4>1. ~r.hard /\ r.trusted = obs.strong /\ a.active = r.active /\ a.hard = r.hard /\ a.trusted = r.trusted
        BY <2>7, <3>2, <3>5
      <4> QED BY <1>1, <3>2, <4>1
    <3> QED BY <2>8, <2>11, <3>2, <3>3, <3>4, <3>5
  <2> QED BY <2>7, <2>10, <2>11
<1>2. CASE ~r.active /\ obs.verdict \in {"contaminated", "severe"}
  <2> DEFINE c == IF obs.verdict = "contaminated" THEN 1 ELSE 0
             t == obs.strong
  <2>1. n = [r EXCEPT !.active = TRUE, !.hard = FALSE, !.trusted = t, !.armed = c, !.recovering = 0]
    BY <1>2 DEF Route!UpdateFallback
  <2>2. c \in 0 .. 1 /\ t \in 0 .. 1 BY DEF Route!Observations, Route!Channels
  <2>3. c > 0 => obs.verdict = "contaminated" OBVIOUS
  <2>4. t = obs.strong OBVIOUS
  <2> HIDE DEF c, t
  <2>5. n \in RouteRec
    <3> DEFINE m == [r EXCEPT !.active = TRUE, !.hard = FALSE]
    <3>1. m \in RouteRec BY <1>0, Zenon DEF RouteRec
    <3>2. n = [m EXCEPT !.trusted = t, !.armed = c, !.recovering = 0] BY <2>1
    <3> HIDE DEF m
    <3> QED BY <2>2, <3>1, <3>2, 0 \in 0 .. 7 DEF RouteRec
  <2>6. n.active = TRUE /\ n.hard = FALSE /\ n.trusted = t /\ n.armed = c BY <1>0, <2>1 DEF RouteRec
  <2>7. ~r.hard BY <1>0, <1>2
  <2> QED BY <2>3, <2>4, <2>5, <2>6, <2>7
<1>3. CASE ~r.active /\ obs.verdict \notin {"contaminated", "severe"}
  <2>1. n = r BY <1>3 DEF Route!UpdateFallback
  <2>2. ~r.hard /\ ~(r.armed > 0) BY <1>0, <1>3
  <2> QED BY <1>0, <2>1, <2>2
<1> QED BY <1>1, <1>2, <1>3

\* What one observation of the fixed path does.
LEMMA FixedResult ==
  ASSUME NEW r, Sane(r), r.active => r.hard, NEW obs \in Route!Observations,
         NEW n, n = Route!UpdateFixedHealth(r, obs)
  PROVE  /\ n \in RouteRec
         /\ n.hard <=> n.active
         /\ r.hard => \/ n.hard /\ n.trusted = r.trusted
                         /\ \/ n.recovering = 0
                            \/ obs.verdict = "recovered" /\ n.recovering = r.recovering + 1
                      \/ obs.verdict = "recovered" /\ r.recovering = 7
         /\ ~r.hard /\ n.hard => /\ obs.verdict = "contaminated" /\ r.armed = 1 /\ r.trusted = 1 - obs.strong
                                 /\ n.trusted = 1 - obs.strong /\ n.recovering = 0
         /\ n.armed > 0 => ~n.hard /\ obs.verdict = "contaminated" /\ n.trusted = 1 - obs.strong
         /\ ~r.hard /\ obs.verdict = "contaminated" => \/ n.hard
                                                       \/ /\ n.armed = 1 /\ n.trusted = 1 - obs.strong
                                                          /\ ~(r.armed = 1 /\ r.trusted = 1 - obs.strong)
<1>0. r \in RouteRec /\ (r.hard => r.active /\ r.armed = 0) BY DEF Sane
<1>a. r.active \in BOOLEAN /\ r.hard \in BOOLEAN BY <1>0 DEF RouteRec
<1>b. r.hard <=> r.active BY <1>0
<1>c. r.active = r.hard BY <1>a, <1>b
<1>1. CASE obs.verdict = "invalid" \/ (~r.hard /\ obs.verdict # "contaminated")
  <2>1. n = Route!Unfinished(r) BY <1>1 DEF Route!UpdateFixedHealth
  <2>2. n = [r EXCEPT !.armed = 0, !.recovering = 0] BY <2>1 DEF Route!Unfinished
  <2>3. n \in RouteRec BY <1>0, <2>2, 0 \in 0 .. 1, 0 \in 0 .. 7 DEF RouteRec
  <2>4. n.active = r.active /\ n.hard = r.hard /\ n.trusted = r.trusted /\ n.armed = 0 /\ n.recovering = 0
    BY <1>0, <2>2 DEF RouteRec
  <2> QED BY <1>1, <1>b, <2>3, <2>4
<1>2. CASE obs.verdict # "invalid" /\ r.hard
  <2> DEFINE m == [r EXCEPT !.armed = 0]
             ok == obs.verdict = "recovered"
  <2>1. n = Route!Recovered(m, ok) BY <1>2 DEF Route!UpdateFixedHealth
  <2>2. m \in RouteRec BY <1>0, 0 \in 0 .. 1 DEF RouteRec
  <2>3. m.active = r.active /\ m.hard = r.hard /\ m.trusted = r.trusted /\ m.recovering = r.recovering /\ m.armed = 0
    BY <1>0 DEF RouteRec
  <2>4. ok \in BOOLEAN /\ (ok <=> obs.verdict = "recovered") OBVIOUS
  <2> HIDE DEF m, ok
  <2>5. n \in RouteRec /\ Counted(m, ok, n) BY <2>1, <2>2, <2>4, RecoveredResult
  <2>6. \/ /\ n.active = r.active /\ n.hard = r.hard /\ n.trusted = r.trusted /\ n.armed = 0
           /\ \/ n.recovering = 0
              \/ obs.verdict = "recovered" /\ n.recovering = r.recovering + 1
        \/ /\ obs.verdict = "recovered" /\ r.recovering = 7
           /\ n.active = FALSE /\ n.hard = FALSE /\ n.armed = 0
    BY <2>3, <2>4, <2>5 DEF Counted
  <2>7. n.hard <=> n.active BY <1>2, <1>b, <2>6
  <2>8. ~(n.armed > 0) BY <2>6
  <2>9. \/ n.hard /\ n.trusted = r.trusted
           /\ \/ n.recovering = 0
              \/ obs.verdict = "recovered" /\ n.recovering = r.recovering + 1
        \/ obs.verdict = "recovered" /\ r.recovering = 7
    BY <1>2, <2>6
  <2> QED BY <1>2, <2>5, <2>7, <2>8, <2>9
<1>3. CASE obs.verdict = "contaminated" /\ ~r.hard
  <2> DEFINE m == [r EXCEPT !.recovering = 0]
             t == 1 - obs.strong
  <2>1. n = Route!Blamed(m, t) BY <1>3 DEF Route!UpdateFixedHealth
  <2>2. m \in RouteRec BY <1>0, 0 \in 0 .. 7 DEF RouteRec
  <2>3. m.active = r.active /\ m.hard = r.hard /\ m.trusted = r.trusted /\ m.recovering = 0 /\ m.armed = r.armed
    BY <1>0 DEF RouteRec
  <2>4. t \in 0 .. 1 BY DEF Route!Observations, Route!Channels
  <2>5. t = 1 - obs.strong OBVIOUS
  <2>6. m.armed = 0 \/ m.armed = 1 BY <2>2 DEF RouteRec
  <2> HIDE DEF m, t
  <2>7. CASE m.armed = 0 \/ m.trusted # t
    <3>1. n = [m EXCEPT !.trusted = t, !.armed = 1] BY <2>1, <2>7 DEF Route!Blamed
    <3>2. n \in RouteRec BY <2>2, <2>4, <3>1, 1 \in 0 .. 1 DEF RouteRec
    <3>3. n.active = r.active /\ n.hard = r.hard /\ n.trusted = t /\ n.armed = 1
      BY <2>2, <2>3, <3>1 DEF RouteRec
    <3>4. ~(r.armed = 1 /\ r.trusted = t) BY <2>3, <2>7
    <3> QED BY <1>3, <1>b, <2>5, <3>2, <3>3, <3>4
  <2>8. CASE m.armed = 1 /\ m.trusted = t
    <3>1. n = Route!Confirmed(m, t) BY <2>1, <2>8 DEF Route!Blamed
    <3>2. n = [m EXCEPT !.active = TRUE, !.hard = TRUE, !.trusted = t, !.armed = 0, !.recovering = 0]
      BY <3>1 DEF Route!Confirmed
    <3>3. n \in RouteRec
      <4> DEFINE o == [m EXCEPT !.active = TRUE, !.hard = TRUE]
      <4>1. o \in RouteRec BY <2>2, Zenon DEF RouteRec
      <4>2. n = [o EXCEPT !.trusted = t, !.armed = 0, !.recovering = 0] BY <3>2
      <4> HIDE DEF o
      <4> QED BY <2>4, <4>1, <4>2, 0 \in 0 .. 1, 0 \in 0 .. 7 DEF RouteRec
    <3>4. n.active = TRUE /\ n.hard = TRUE /\ n.trusted = t /\ n.armed = 0 /\ n.recovering = 0
      BY <2>2, <3>2 DEF RouteRec
    <3> QED BY <1>3, <2>3, <2>5, <2>8, <3>3, <3>4
  <2> QED BY <2>6, <2>7, <2>8
<1> QED BY <1>1, <1>2, <1>3

\* What a step may do to a hard route.
RouteChange ==
    /\ ~hard /\ hard' => blames' = 2 /\ against' = 1 - trusted'
    /\ hard => \/ hard' /\ trusted' = trusted
               \/ clears' = Route!RecoverUpdates

LEMMA TrackingKeepsRoute ==
  ASSUME RouteInv, NEW obs \in Route!Observations, Route!ProcessTracking(obs)
  PROVE  RouteInv' /\ RouteChange
<1> DEFINE kept == IF phase # 3 THEN Route!Unfinished(Route!Route) ELSE Route!Route
           seen == tick = 3
           n == IF seen THEN Route!UpdateFallback(kept, obs) ELSE kept
<1>1. /\ phase' = 3 /\ tick' = (tick + 1) % 4 /\ Route!Becomes(n) /\ Route!Remember("tracking", seen, obs)
      /\ routeQuality' = routeQuality /\ obs.verdict # "invalid"
  BY DEF Route!ProcessTracking
<1>2. /\ routeQuality \in Route!Qualities
      /\ active \in BOOLEAN /\ hard \in BOOLEAN /\ trusted \in 0 .. 1 /\ armed \in 0 .. 1 /\ recovering \in 0 .. 7
      /\ tick \in 0 .. 3 /\ phase \in 3 .. 7
      /\ mode \in {"none", "tracking", "fixed"} /\ against \in {0, 1} /\ blames \in 0 .. 2 /\ clears \in 0 .. 8
  BY DEF RouteInv, Route!TypeOK, Route!Channels, Route!ArmUpdates, Route!RecoverUpdates
<1>3. /\ hard => active
      /\ mode = "fixed" <=> phase # 3
      /\ mode = "none" => armed = 0 /\ recovering = 0
      /\ hard => recovering <= clears
  BY DEF RouteInv
<1>4. /\ Route!Route \in RouteRec /\ Route!Route.active = active /\ Route!Route.hard = hard
      /\ Route!Route.trusted = trusted /\ Route!Route.armed = armed /\ Route!Route.recovering = recovering
  BY <1>2 DEF Route!Route, RouteRec
<1>5. /\ kept \in RouteRec /\ kept.active = active /\ kept.hard = hard /\ kept.trusted = trusted
      /\ phase = 3 => kept.armed = armed /\ kept.recovering = recovering
      /\ phase # 3 => kept.armed = 0 /\ kept.recovering = 0
  <2> DEFINE r == Route!Route
  <2> HIDE DEF r
  <2>1. CASE phase = 3 BY <1>4, <2>1
  <2>2. CASE phase # 3
    <3>1. kept = [Route!Route EXCEPT !.armed = 0, !.recovering = 0] BY <2>2 DEF Route!Unfinished
    <3>2. kept \in RouteRec BY <1>4, <3>1, 0 \in 0 .. 1, 0 \in 0 .. 7 DEF RouteRec
    <3> QED BY <1>4, <2>2, <3>1, <3>2 DEF RouteRec
  <2> QED BY <2>1, <2>2
<1>6. active' = n.active /\ hard' = n.hard /\ trusted' = n.trusted /\ armed' = n.armed /\ recovering' = n.recovering
  BY <1>1 DEF Route!Becomes
<1>7. obs.strong \in {0, 1} BY DEF Route!Observations, Route!Channels
<1>8. /\ kept.armed > 0 => /\ ~hard /\ active /\ mode = "tracking" /\ blames > 0 /\ against = trusted
      /\ hard => kept.recovering <= clears /\ (mode # "tracking" => kept.recovering = 0)
  BY <1>2, <1>3, <1>5 DEF RouteInv, ArmedEarned
<1>9. Sane(kept) /\ (kept.armed > 0 => kept.active) BY <1>3, <1>5, <1>8, <1>2 DEF Sane
<1>10. /\ mode' = "tracking"
       /\ against' = IF seen /\ obs.verdict = "contaminated" THEN obs.strong ELSE against
       /\ blames' = IF seen /\ obs.verdict = "contaminated"
                    THEN (IF mode = "tracking" /\ blames > 0 /\ against = obs.strong THEN 2 ELSE 1)
                    ELSE IF seen \/ mode # "tracking" THEN 0 ELSE blames
       /\ clears' = LET past == IF mode = "tracking" THEN clears ELSE 0 IN
                    IF ~seen THEN past
                    ELSE IF obs.verdict # "recovered" THEN 0
                    ELSE IF past < 8 THEN past + 1 ELSE past
  BY <1>1 DEF Route!Remember, Route!RecoverUpdates
<1>11. tick' \in 0 .. 3 BY <1>1, <1>2
<1>12. against' \in {0, 1} /\ blames' \in 0 .. 2 /\ clears' \in 0 .. 8 BY <1>2, <1>7, <1>10
<1> HIDE DEF kept
<1>13. /\ n \in RouteRec /\ (n.hard => n.active)
       /\ n.hard => n.recovering <= clears'
       /\ n.armed > 0 => blames' > 0 /\ ~n.hard /\ n.active /\ against' = n.trusted
       /\ ~hard /\ n.hard => blames' = 2 /\ against' = 1 - n.trusted
       /\ hard => (n.hard /\ n.trusted = trusted) \/ clears' = 8
  <2>1. CASE ~seen
    <3>1. n = kept BY <2>1
    <3>2. against' = against /\ (mode = "tracking" => blames' = blames /\ clears' = clears)
          /\ (mode # "tracking" => blames' = 0 /\ clears' = 0) BY <1>10, <2>1
    <3>3. hard => kept.recovering <= clears' BY <1>8, <3>2
    <3>4. kept.armed > 0 => blames' > 0 /\ ~hard /\ active /\ against' = trusted BY <1>8, <3>2
    <3> QED BY <1>3, <1>5, <3>1, <3>3, <3>4
  <2>2. CASE seen
    <3>0. n = Route!UpdateFallback(kept, obs) BY <2>2
    <3> HIDE DEF n, seen
    <3>1. /\ n \in RouteRec /\ (n.hard => n.active /\ n.armed = 0)
          /\ hard => \/ n.hard /\ n.trusted = trusted
                        /\ \/ n.recovering = 0
                           \/ obs.verdict = "recovered" /\ n.recovering = kept.recovering + 1
                     \/ obs.verdict = "recovered" /\ kept.recovering = 7
          /\ ~hard /\ n.hard => /\ obs.verdict = "contaminated" /\ kept.armed = 1 /\ kept.trusted = obs.strong
                                /\ n.trusted = 1 - obs.strong /\ n.recovering = 0
          /\ n.armed > 0 => ~n.hard /\ n.active /\ obs.verdict = "contaminated" /\ n.trusted = obs.strong
      BY <1>5, <1>9, <3>0, FallbackResult
    <3>2. /\ obs.verdict = "contaminated" =>
               /\ against' = obs.strong /\ blames' > 0
               /\ mode = "tracking" /\ blames > 0 /\ against = obs.strong => blames' = 2
          /\ obs.verdict = "recovered" /\ mode = "tracking" =>
               clears' = (IF clears < 8 THEN clears + 1 ELSE clears)
          /\ obs.verdict = "recovered" => clears' > 0
      BY <1>2, <1>10, <2>2
    <3>3. ASSUME ~hard, n.hard PROVE blames' = 2 /\ against' = 1 - n.trusted /\ n.recovering <= clears'
      BY <1>5, <1>7, <1>8, <1>12, <3>1, <3>2, <3>3
    <3>4. ASSUME n.armed > 0 PROVE blames' > 0 /\ ~n.hard /\ n.active /\ against' = n.trusted
      BY <3>1, <3>2, <3>4
    <3>5. ASSUME hard PROVE (n.hard /\ n.trusted = trusted) \/ clears' = 8
      BY <1>2, <1>8, <3>1, <3>2, <3>5
    <3>6. ASSUME hard, n.hard PROVE n.recovering <= clears'
      <4>0. n.recovering \in 0 .. 7 /\ kept.recovering \in 0 .. 7 BY <1>5, <3>1 DEF RouteRec
      <4>1. \/ n.recovering = 0
            \/ obs.verdict = "recovered" /\ n.recovering = kept.recovering + 1
            \/ obs.verdict = "recovered" /\ kept.recovering = 7
        BY <3>1, <3>6
      <4>2. CASE n.recovering = 0 BY <1>12, <4>2
      <4>3. CASE obs.verdict = "recovered" /\ n.recovering = kept.recovering + 1
        BY <1>2, <1>8, <1>12, <3>2, <3>6, <4>0, <4>3
      <4>4. CASE obs.verdict = "recovered" /\ kept.recovering = 7
        BY <1>2, <1>8, <1>12, <3>2, <3>6, <4>0, <4>4
      <4> QED BY <4>1, <4>2, <4>3, <4>4
    <3> QED BY <3>1, <3>3, <3>4, <3>5, <3>6
  <2> QED BY <2>1, <2>2
<1> HIDE DEF n, seen
<1>14. RouteChange BY <1>6, <1>13 DEF RouteChange, Route!RecoverUpdates
<1>15. /\ active' \in BOOLEAN /\ hard' \in BOOLEAN /\ trusted' \in 0 .. 1
       /\ armed' \in 0 .. 1 /\ recovering' \in 0 .. 7
  BY <1>6, <1>13 DEF RouteRec
<1>16. Route!TypeOK'
  BY <1>1, <1>2, <1>10, <1>11, <1>12, <1>15
  DEF Route!TypeOK, Route!Channels, Route!ArmUpdates, Route!RecoverUpdates
<1>17. ArmedEarned' BY <1>6, <1>10, <1>13 DEF ArmedEarned
<1>18. FixedEarned' BY <1>10 DEF FixedEarned
<1>19. (hard' => active') /\ (hard' => recovering' <= clears') BY <1>6, <1>13
<1>20. (mode' = "fixed" <=> phase' # 3) /\ mode' # "none" BY <1>1, <1>10
<1> QED BY <1>14, <1>16, <1>17, <1>18, <1>19, <1>20 DEF RouteInv

LEMMA FixedKeepsRoute ==
  ASSUME RouteInv, NEW obs \in Route!Observations, Route!ProcessFixed(obs)
  PROVE  RouteInv' /\ RouteChange
<1> DEFINE cur == Route!Route
           dropped == IF phase = 3 THEN Route!Unfinished(cur) ELSE cur
           kept == Route!Carried(cur, phase = 3)
           seen == phase \in {3, 7}
           n == IF seen THEN Route!UpdateFixedHealth(kept, obs) ELSE kept
<1>1. /\ phase' = 4 + ((phase + 1) % 4) /\ tick' = tick /\ Route!Becomes(n) /\ Route!Remember("fixed", seen, obs)
      /\ routeQuality' = routeQuality
  BY DEF Route!ProcessFixed
<1>2. /\ routeQuality \in Route!Qualities
      /\ active \in BOOLEAN /\ hard \in BOOLEAN /\ trusted \in 0 .. 1 /\ armed \in 0 .. 1 /\ recovering \in 0 .. 7
      /\ tick \in 0 .. 3 /\ phase \in 3 .. 7
      /\ mode \in {"none", "tracking", "fixed"} /\ against \in {0, 1} /\ blames \in 0 .. 2 /\ clears \in 0 .. 8
  BY DEF RouteInv, Route!TypeOK, Route!Channels, Route!ArmUpdates, Route!RecoverUpdates
<1>3. /\ hard => active
      /\ mode = "fixed" <=> phase # 3
      /\ hard => recovering <= clears
  BY DEF RouteInv
<1>a. /\ active => hard \/ mode # "fixed"
      /\ mode = "fixed" /\ blames = 2 => hard
      /\ mode = "fixed" /\ blames > 0 /\ ~hard => armed = 1 /\ trusted = 1 - against
  BY DEF RouteInv, FixedEarned
<1>b. armed > 0 => blames > 0 /\ ~hard /\ (mode = "fixed" => against = 1 - trusted)
  BY DEF RouteInv, ArmedEarned
<1>4. /\ cur \in RouteRec /\ cur.active = active /\ cur.hard = hard
      /\ cur.trusted = trusted /\ cur.armed = armed /\ cur.recovering = recovering
  BY <1>2 DEF Route!Route, RouteRec
<1> HIDE DEF cur
<1>5. /\ dropped \in RouteRec /\ dropped.active = active /\ dropped.hard = hard /\ dropped.trusted = trusted
      /\ phase # 3 => dropped.armed = armed /\ dropped.recovering = recovering
      /\ phase = 3 => dropped.armed = 0 /\ dropped.recovering = 0
  <2>1. CASE phase # 3 BY <1>4, <2>1
  <2>2. CASE phase = 3
    <3>1. dropped = [cur EXCEPT !.armed = 0, !.recovering = 0] BY <2>2 DEF Route!Unfinished
    <3>2. dropped \in RouteRec BY <1>4, <3>1, 0 \in 0 .. 1, 0 \in 0 .. 7 DEF RouteRec
    <3> QED BY <1>4, <2>2, <3>1, <3>2 DEF RouteRec
  <2> QED BY <2>1, <2>2
<1>6. /\ kept \in RouteRec /\ kept.trusted = trusted
      /\ kept.hard <=> hard
      /\ kept.active <=> hard
      /\ phase # 3 => kept.armed = armed /\ kept.recovering = recovering
      /\ phase = 3 => kept.armed = 0 /\ kept.recovering = 0
  <2>0. kept = IF dropped.active /\ ~dropped.hard THEN Route!Released(dropped) ELSE dropped
    BY DEF Route!Carried
  <2> HIDE DEF dropped, kept
  <2>1. CASE active /\ ~hard
    <3>1. kept = Route!Released(dropped) BY <1>5, <2>0, <2>1
    <3>2. kept = [dropped EXCEPT !.active = FALSE, !.hard = FALSE, !.armed = 0, !.recovering = 0]
      BY <3>1 DEF Route!Released
    <3>3. kept.active = FALSE /\ kept.hard = FALSE /\ kept.armed = 0 /\ kept.recovering = 0 /\ kept.trusted = dropped.trusted
      BY <1>5, <3>2 DEF RouteRec
    <3>4. kept \in RouteRec
      <4> DEFINE m == [dropped EXCEPT !.active = FALSE, !.hard = FALSE]
      <4>1. m \in RouteRec BY <1>5, Zenon DEF RouteRec
      <4>2. kept = [m EXCEPT !.armed = 0, !.recovering = 0] BY <3>2
      <4> HIDE DEF m
      <4> QED BY <4>1, <4>2, 0 \in 0 .. 1, 0 \in 0 .. 7 DEF RouteRec
    <3>5. phase = 3 BY <1>3, <1>a, <2>1
    <3> QED BY <1>5, <2>1, <3>3, <3>4, <3>5
  <2>2. CASE ~(active /\ ~hard)
    <3>1. kept = dropped BY <1>5, <2>0, <2>2
    <3>2. (dropped.hard <=> hard) /\ (dropped.active <=> hard) BY <1>3, <1>5, <2>2
    <3> QED BY <1>5, <3>1, <3>2
  <2> QED BY <2>1, <2>2
<1>7. active' = n.active /\ hard' = n.hard /\ trusted' = n.trusted /\ armed' = n.armed /\ recovering' = n.recovering
  BY <1>1 DEF Route!Becomes
<1>8. obs.strong \in {0, 1} BY DEF Route!Observations, Route!Channels
<1> HIDE DEF kept, dropped
<1>9. Sane(kept)
  <2>1. kept.hard => kept.armed = 0 BY <1>2, <1>6, <1>b
  <2> QED BY <1>6, <2>1 DEF Sane
<1>c. kept.active => kept.hard BY <1>6
<1>10. /\ mode' = "fixed"
       /\ against' = IF seen /\ obs.verdict = "contaminated" THEN obs.strong ELSE against
       /\ blames' = IF seen /\ obs.verdict = "contaminated"
                    THEN (IF mode = "fixed" /\ blames > 0 /\ against = obs.strong THEN 2 ELSE 1)
                    ELSE IF seen \/ mode # "fixed" THEN 0 ELSE blames
       /\ clears' = LET past == IF mode = "fixed" THEN clears ELSE 0 IN
                    IF ~seen THEN past
                    ELSE IF obs.verdict # "recovered" THEN 0
                    ELSE IF past < 8 THEN past + 1 ELSE past
  BY <1>1 DEF Route!Remember, Route!RecoverUpdates
<1>11. phase' \in 4 .. 7 BY <1>1, <1>2
<1>12. against' \in {0, 1} /\ blames' \in 0 .. 2 /\ clears' \in 0 .. 8 BY <1>2, <1>8, <1>10
<1>13. /\ n \in RouteRec /\ (n.hard <=> n.active)
       /\ n.hard => n.recovering <= clears'
       /\ n.armed > 0 => blames' > 0 /\ ~n.hard /\ against' = 1 - n.trusted
       /\ blames' = 2 => n.hard
       /\ blames' > 0 /\ ~n.hard => n.armed = 1 /\ n.trusted = 1 - against'
       /\ ~hard /\ n.hard => blames' = 2 /\ against' = 1 - n.trusted
       /\ hard => (n.hard /\ n.trusted = trusted) \/ clears' = 8
  <2>1. CASE ~seen
    <3>1. n = kept /\ phase # 3 BY <2>1
    <3>2. mode = "fixed" BY <1>3, <3>1
    <3>3. against' = against /\ blames' = blames /\ clears' = clears BY <1>10, <2>1, <3>2
    <3>4. (n.hard <=> hard) /\ (n.active <=> hard) /\ n.armed = armed /\ n.recovering = recovering /\ n.trusted = trusted
          /\ n \in RouteRec
      BY <1>6, <3>1
    <3> QED BY <1>2, <1>3, <1>a, <1>b, <3>2, <3>3, <3>4
  <2>2. CASE seen
    <3>0. n = Route!UpdateFixedHealth(kept, obs) BY <2>2
    <3> HIDE DEF n, seen
    <3>1. /\ n \in RouteRec /\ (n.hard <=> n.active)
          /\ kept.hard => \/ n.hard /\ n.trusted = kept.trusted
                             /\ \/ n.recovering = 0
                                \/ obs.verdict = "recovered" /\ n.recovering = kept.recovering + 1
                          \/ obs.verdict = "recovered" /\ kept.recovering = 7
          /\ ~kept.hard /\ n.hard => /\ obs.verdict = "contaminated" /\ kept.armed = 1 /\ kept.trusted = 1 - obs.strong
                                     /\ n.trusted = 1 - obs.strong /\ n.recovering = 0
          /\ n.armed > 0 => ~n.hard /\ obs.verdict = "contaminated" /\ n.trusted = 1 - obs.strong
          /\ ~kept.hard /\ obs.verdict = "contaminated" =>
                \/ n.hard
                \/ n.armed = 1 /\ n.trusted = 1 - obs.strong /\ ~(kept.armed = 1 /\ kept.trusted = 1 - obs.strong)
      BY <1>9, <1>c, <3>0, FixedResult
    <3>2. /\ obs.verdict = "contaminated" =>
               /\ against' = obs.strong /\ blames' > 0
               /\ blames' = 2 <=> mode = "fixed" /\ blames > 0 /\ against = obs.strong
          /\ obs.verdict # "contaminated" => blames' = 0
          /\ obs.verdict = "recovered" /\ mode = "fixed" =>
               clears' = (IF clears < 8 THEN clears + 1 ELSE clears)
          /\ obs.verdict = "recovered" => clears' > 0
      BY <1>2, <1>10, <2>2
    <3>3. (kept.armed = 1 => mode = "fixed" /\ blames > 0 /\ against = 1 - trusted)
          /\ (kept.recovering > 0 => mode = "fixed" /\ kept.recovering = recovering)
      BY <1>3, <1>6, <1>b, <1>2
    <3>4. ASSUME ~hard, n.hard PROVE blames' = 2 /\ against' = 1 - n.trusted /\ n.recovering <= clears'
      <4>1. obs.verdict = "contaminated" /\ kept.armed = 1 /\ trusted = 1 - obs.strong
            /\ n.trusted = 1 - obs.strong /\ n.recovering = 0
        BY <1>6, <3>1, <3>4
      <4>2. against = obs.strong BY <1>2, <1>8, <3>3, <4>1
      <4> QED BY <1>8, <1>12, <3>2, <3>3, <4>1, <4>2
    <3>5. ASSUME n.armed > 0 PROVE blames' > 0 /\ ~n.hard /\ against' = 1 - n.trusted
      BY <1>8, <3>1, <3>2, <3>5
    <3>6. ASSUME hard PROVE (n.hard /\ n.trusted = trusted) \/ clears' = 8
      BY <1>2, <1>3, <1>6, <3>1, <3>2, <3>3, <3>6
    <3>7. ASSUME hard, n.hard PROVE n.recovering <= clears'
      <4>0. n.recovering \in 0 .. 7 /\ kept.recovering \in 0 .. 7 BY <1>6, <3>1 DEF RouteRec
      <4>1. \/ n.recovering = 0
            \/ obs.verdict = "recovered" /\ n.recovering = kept.recovering + 1
            \/ obs.verdict = "recovered" /\ kept.recovering = 7
        BY <1>6, <3>1, <3>7
      <4>2. CASE n.recovering = 0 BY <1>12, <4>2
      <4>3. CASE obs.verdict = "recovered" /\ n.recovering = kept.recovering + 1
        BY <1>2, <1>3, <1>12, <3>2, <3>3, <3>7, <4>0, <4>3
      <4>4. CASE obs.verdict = "recovered" /\ kept.recovering = 7
        BY <1>2, <1>3, <1>12, <3>2, <3>3, <3>7, <4>0, <4>4
      <4> QED BY <4>1, <4>2, <4>3, <4>4
    <3>8. ASSUME blames' = 2, ~n.hard PROVE FALSE
      <4>1. obs.verdict = "contaminated" /\ mode = "fixed" /\ blames > 0 /\ against = obs.strong
        BY <3>2, <3>8
      <4>2. ~hard BY <1>6, <3>1, <3>8, <4>1
      <4>3. armed = 1 /\ trusted = 1 - obs.strong BY <1>a, <4>1, <4>2
      <4>4. phase # 3 BY <1>3, <4>1
      <4> QED BY <1>6, <3>1, <3>8, <4>1, <4>2, <4>3, <4>4
    <3>9. ASSUME blames' > 0, ~n.hard PROVE n.armed = 1 /\ n.trusted = 1 - against'
      <4>1. obs.verdict = "contaminated" /\ against' = obs.strong BY <3>2, <3>9
      <4>2. ~kept.hard BY <3>1, <3>9, <4>1
      <4> QED BY <3>1, <3>9, <4>1, <4>2
    <3> QED BY <3>1, <3>4, <3>5, <3>6, <3>7, <3>8, <3>9
  <2> QED BY <2>1, <2>2
<1> HIDE DEF n, seen
<1>14. RouteChange BY <1>7, <1>13 DEF RouteChange, Route!RecoverUpdates
<1>15. /\ active' \in BOOLEAN /\ hard' \in BOOLEAN /\ trusted' \in 0 .. 1
       /\ armed' \in 0 .. 1 /\ recovering' \in 0 .. 7
  BY <1>7, <1>13 DEF RouteRec
<1>16. Route!TypeOK'
  BY <1>1, <1>2, <1>10, <1>11, <1>12, <1>15
  DEF Route!TypeOK, Route!Channels, Route!ArmUpdates, Route!RecoverUpdates
<1>17. ArmedEarned'
  <2>1. armed' > 0 => blames' > 0 /\ ~hard' /\ ~active' /\ against' = 1 - trusted' BY <1>7, <1>13
  <2> QED BY <1>10, <2>1 DEF ArmedEarned
<1>18. FixedEarned' BY <1>7, <1>10, <1>13 DEF FixedEarned
<1>19. (hard' => active') /\ (hard' => recovering' <= clears') BY <1>7, <1>13
<1>20. (mode' = "fixed" <=> phase' # 3) /\ mode' # "none" BY <1>10, <1>11
<1> QED BY <1>14, <1>16, <1>17, <1>18, <1>19, <1>20 DEF RouteInv

\* A change of mode across SAFE drops what has been collected, other changes leave it; neither touches
\* the route.
LEMMA QualityKeepsRoute ==
  ASSUME RouteInv, NEW q \in Route!Qualities, Route!SetQuality(q)
  PROVE  RouteInv' /\ RouteChange
<1>1. /\ routeQuality' = q /\ UNCHANGED <<active, hard, trusted, tick>>
      /\ \/ /\ armed' = 0 /\ recovering' = 0 /\ phase' = 3
            /\ mode' = "none" /\ blames' = 0 /\ clears' = 0 /\ against' = 0
         \/ UNCHANGED <<armed, recovering, phase, mode, against, blames, clears>>
  BY DEF Route!SetQuality, Route!CrossesSafe, Route!NoEvidence, Route!history
<1>2. RouteChange BY <1>1 DEF RouteChange
<1>3. Route!TypeOK'
  BY <1>1 DEF RouteInv, Route!TypeOK, Route!Channels, Route!ArmUpdates, Route!RecoverUpdates
<1>4. CASE UNCHANGED <<armed, recovering, phase, mode, against, blames, clears>>
  BY <1>1, <1>2, <1>3, <1>4 DEF RouteInv, ArmedEarned, FixedEarned
<1>5. CASE /\ armed' = 0 /\ recovering' = 0 /\ phase' = 3
           /\ mode' = "none" /\ blames' = 0 /\ clears' = 0 /\ against' = 0
  <2>1. (hard' => active') /\ (hard' => recovering' <= clears') BY <1>1, <1>5 DEF RouteInv
  <2>2. ArmedEarned' /\ FixedEarned' BY <1>5 DEF ArmedEarned, FixedEarned
  <2>3. (mode' = "fixed" <=> phase' # 3) /\ (mode' = "none" => armed' = 0 /\ recovering' = 0) BY <1>5
  <2> QED BY <1>2, <1>3, <2>1, <2>2, <2>3 DEF RouteInv
<1> QED BY <1>1, <1>4, <1>5

LEMMA FreshRoute ==
  ASSUME Route!Fresh, routeQuality' \in Route!Qualities
  PROVE  RouteInv'
<1>1. /\ active' = FALSE /\ hard' = FALSE /\ trusted' = 0 /\ armed' = 0 /\ recovering' = 0 /\ tick' = 3 /\ phase' = 3
      /\ mode' = "none" /\ blames' = 0 /\ clears' = 0 /\ against' = 0
  BY DEF Route!Fresh, Route!NoEvidence
<1>2. Route!TypeOK'
  <2>1. active' \in BOOLEAN /\ hard' \in BOOLEAN BY <1>1
  <2>2. /\ trusted' \in {0, 1} /\ armed' \in 0 .. 1 /\ recovering' \in 0 .. 7 /\ tick' \in 0 .. 3 /\ phase' \in 3 .. 7
        /\ mode' \in {"none", "tracking", "fixed"} /\ against' \in {0, 1} /\ blames' \in 0 .. 2 /\ clears' \in 0 .. 8
    BY <1>1
  <2> QED BY <2>1, <2>2 DEF Route!TypeOK, Route!Channels, Route!ArmUpdates, Route!RecoverUpdates
<1>3. ArmedEarned' /\ FixedEarned' BY <1>1 DEF ArmedEarned, FixedEarned
<1> QED BY <1>1, <1>2, <1>3 DEF RouteInv

\* A hard route is earned by two observations in a row against one channel, and given up only after
\* eight recovered ones or by starting over; the fixed direction has authority only over a hard route:
\* in every mixture of modes, bypasses and observations, with and without direction tracking.
THEOREM RouteEarnedAndKeptHolds == SumSpec => RouteEarnedAndKept
<1> DEFINE Safe == which = "route" => RouteInv
           Earned == ~hard /\ hard' => blames' = 2 /\ against' = 1 - trusted'
           KeptOn == hard => \/ hard' /\ trusted' = trusted
                             \/ clears' = Route!RecoverUpdates
                             \/ Route!Discontinuity \/ Route!Reset
<1>1. SumInit => Safe
  <2> SUFFICES ASSUME SumInit PROVE RouteInv OBVIOUS
  <2>1. Route!Init BY DEF SumInit
  <2>2. Route!TypeOK
    <3>1. active \in BOOLEAN /\ hard \in BOOLEAN BY <2>1 DEF Route!Init
    <3>2. /\ routeQuality \in {"SAFE", "LITE", "FULL"}
          /\ trusted \in {0, 1} /\ armed \in 0 .. 1 /\ recovering \in 0 .. 7 /\ tick \in 0 .. 3 /\ phase \in 3 .. 7
          /\ mode \in {"none", "tracking", "fixed"} /\ against \in {0, 1} /\ blames \in 0 .. 2 /\ clears \in 0 .. 8
      BY <2>1 DEF Route!Init
    <3> QED BY <3>1, <3>2
            DEF Route!TypeOK, Route!Qualities, Route!Channels, Route!ArmUpdates, Route!RecoverUpdates
  <2> QED BY <2>1, <2>2 DEF Route!Init, RouteInv, ArmedEarned, FixedEarned
<1>2. ASSUME Safe, [SumNext]_sumVars PROVE Safe' /\ [Earned]_(Route!vars) /\ [KeptOn]_(Route!vars)
  <2> USE <1>2
  <2>1. CASE which = "route" /\ Route!Next /\ UNCHANGED which
    <3>1. RouteInv BY <2>1
    <3>2. ASSUME NEW obs \in Route!Observations, Route!ProcessTracking(obs) \/ Route!ProcessFixed(obs)
          PROVE  RouteInv' /\ RouteChange
      BY <3>1, <3>2, TrackingKeepsRoute, FixedKeepsRoute
    <3>3. ASSUME NEW q \in Route!Qualities, Route!SetQuality(q) PROVE RouteInv' /\ RouteChange
      BY <3>1, <3>3, QualityKeepsRoute
    <3>4. ASSUME Route!Discontinuity \/ Route!Reset PROVE RouteInv' /\ Earned /\ KeptOn
      <4>1. Route!Fresh /\ routeQuality' \in Route!Qualities
        BY <3>1, <3>4 DEF Route!Discontinuity, Route!Reset, RouteInv, Route!TypeOK, Route!Qualities
      <4>2. RouteInv' BY <4>1, FreshRoute
      <4>3. ~hard' BY <4>1 DEF Route!Fresh
      <4> QED BY <3>4, <4>2, <4>3
    <3>5. RouteInv' /\ Earned /\ KeptOn BY <2>1, <3>2, <3>3, <3>4 DEF Route!Next, RouteChange
    <3> QED BY <3>5
  <2>2. CASE UNCHANGED <<which, routeVars>>
    <3>1. UNCHANGED Route!vars
      BY <2>2 DEF routeVars, Route!vars, Route!route, Route!history
    <3>2. Safe'
      BY <2>2 DEF routeVars, RouteInv, Route!TypeOK, ArmedEarned, FixedEarned
    <3> QED BY <3>1, <3>2
  <2> QED BY <2>1, <2>2 DEF SumNext, sumVars
<1>3. Safe => (which = "route" => Route!FixedRouteAuthority)
  BY DEF RouteInv, FixedEarned, Route!FixedRouteAuthority
<1>4. SumSpec => [][Earned]_(Route!vars)
  BY <1>1, <1>2, PTL DEF SumSpec
<1>5. SumSpec => [][KeptOn]_(Route!vars)
  BY <1>1, <1>2, PTL DEF SumSpec
<1>6. SumSpec => [](which = "route" => Route!FixedRouteAuthority)
  BY <1>1, <1>2, <1>3, PTL DEF SumSpec
<1> QED BY <1>4, <1>5, <1>6 DEF RouteEarnedAndKept, Route!HardRouteEarned, Route!HardRouteKept
=============================================================================
