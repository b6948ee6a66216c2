------------------------ MODULE PipelineEpochProofs ------------------------
(***************************************************************************)
(* Proofs about PipelineEpoch for every number of frames, more than one,   *)
(* that makes an AEC converged, and every number of faults.                *)
(***************************************************************************)
EXTENDS PipelineEpoch, TLAPS

Metrics == [faults : [Faults -> Nat], frames : 0 .. ConvergedFrames,
            valid : BOOLEAN, erle : ErleLevels]

\* What the history knows of the pipeline, running or not.
EpochInv ==
    /\ given => Converged(metrics)
    /\ told = 1 => Converged(metrics)

\* The worker lags behind the pipeline by a boundary at most: what it holds to
\* be converged is, or was until a boundary no frame has followed.
ConvergedLag ==
    running => /\ Converged(metrics) => base.converged
               /\ base.converged => Converged(metrics) \/ metrics.frames = 0

PipelineInv == /\ EpochTypeOK /\ FaultsTold /\ ConvergedToldOnce /\ CollapseWithinReset
               /\ EpochInv /\ ConvergedLag

-----------------------------------------------------------------------------
\* The kinds of faults a boundary and a frame count.
LEMMA CountedFaults ==
    ASSUME NEW b \in Boundaries, NEW missing \in 0 .. 2
    PROVE  /\ Happened(b, missing) \in [Faults -> 0 .. 2]
           /\ \A faults \in [Faults -> Nat] :
                /\ Counted(faults, b, missing) \in [Faults -> Nat]
                /\ \A f \in Faults :
                     Counted(faults, b, missing)[f] = faults[f] + Happened(b, missing)[f]
<1>1. Jumps(b) \in 0 .. 2 /\ Resets(b) \in 0 .. 2
  BY DEF Boundaries, Jumps, Resets
<1>2. Happened(b, missing) \in [Faults -> 0 .. 2]
  BY <1>1 DEF Happened
<1> QED BY <1>2 DEF Counted

\* The faults of a boundary and those of the frame after it add up.
LEMMA CountedTogether ==
    ASSUME NEW faults \in [Faults -> Nat], NEW b \in Boundaries, NEW missing \in 0 .. 2
    PROVE  /\ Counted(Counted(faults, b, 0), "none", missing) = Counted(faults, b, missing)
           /\ Counted(faults, "none", 0) = faults
<1>1. "none" \in Boundaries /\ 0 \in 0 .. 2
  BY DEF Boundaries
<1>2. \A f \in Faults : /\ Happened(b, 0)[f] + Happened("none", missing)[f]
                              = Happened(b, missing)[f]
                         /\ Happened("none", 0)[f] = 0
  BY DEF Happened, Jumps, Resets, Boundaries, Faults
<1>3. Counted(faults, b, 0) \in [Faults -> Nat]
      /\ \A f \in Faults : Counted(faults, b, 0)[f] = faults[f] + Happened(b, 0)[f]
  BY <1>1, CountedFaults
<1>4. \A f \in Faults : /\ Happened(b, 0)[f] \in Nat
                         /\ Happened("none", missing)[f] \in Nat
  BY <1>1, CountedFaults
<1>5. \A f \in Faults :
        Counted(Counted(faults, b, 0), "none", missing)[f] = Counted(faults, b, missing)[f]
  BY <1>2, <1>3, <1>4 DEF Counted
<1> QED BY <1>2, <1>5 DEF Counted

\* A boundary counts its faults, begins a convergence epoch and keeps the rest.
LEMMA CrossedMetrics ==
    ASSUME NEW m \in Metrics, NEW b \in Boundaries
    PROVE  /\ Crossed(m, b) \in Metrics
           /\ Crossed(m, b).faults = Counted(m.faults, b, 0)
           /\ b = "none" => Crossed(m, b) = m
           /\ b # "none" => /\ Crossed(m, b).frames = 0
                            /\ ~Crossed(m, b).valid
                            /\ ~Converged(Crossed(m, b))
<1>1. m.faults \in [Faults -> Nat] /\ Counted(m.faults, b, 0) \in [Faults -> Nat]
  BY CountedFaults DEF Metrics
<1>2. CASE b = "none"
  <2>1. Counted(m.faults, b, 0) = m.faults
    BY <1>1, <1>2, CountedTogether
  <2> QED BY <1>2, <2>1 DEF Crossed
<1>3. CASE b # "none"
  <2>1. Crossed(m, b) = [faults |-> Counted(m.faults, b, 0), frames |-> 0,
                         valid |-> FALSE, erle |-> 0]
    BY <1>3 DEF Crossed, NewEpoch, Metrics
  <2> QED BY <1>1, <1>3, <2>1, EpochAssumption DEF Metrics, Converged, ErleLevels
<1> QED BY <1>2, <1>3

\* A processed frame counts its underruns and at most one frame of convergence.
LEMMA ProcessedMetrics ==
    ASSUME NEW m \in Metrics, NEW missing \in 0 .. 2, NEW erle \in Measured
    PROVE  /\ Processed(m, missing, erle) \in Metrics
           /\ Processed(m, missing, erle).faults = Counted(m.faults, "none", missing)
           /\ Converged(m) => Converged(Processed(m, missing, erle))
           /\ Converged(Processed(m, missing, erle)) => Converged(m) \/ m.frames > 0
<1>. DEFINE faults == Counted(m.faults, "none", missing)
<1>1. faults \in [Faults -> Nat]
  BY CountedFaults DEF Metrics, Boundaries
<1>2. CASE erle = NoErle
  <2>1. Processed(m, missing, erle)
          = [faults |-> faults, frames |-> m.frames, valid |-> FALSE, erle |-> m.erle]
    BY <1>2 DEF Processed, Metrics
  <2> QED BY <1>1, <2>1 DEF Metrics, Converged
<1>3. CASE erle # NoErle
  <2>1. Processed(m, missing, erle)
          = [faults |-> faults, frames |-> IF Converged(m) THEN m.frames ELSE m.frames + 1,
             valid |-> TRUE, erle |-> erle]
    BY <1>3 DEF Processed, Metrics
  <2>2. erle \in ErleLevels
    BY <1>3 DEF Measured
  <2> QED BY <1>1, <2>1, <2>2, EpochAssumption DEF Metrics, Converged
<1> QED BY <1>2, <1>3

\* A boundary and a frame together.
LEMMA FrameMetrics ==
    ASSUME NEW m \in Metrics, NEW b \in Boundaries, NEW missing \in 0 .. 2,
           NEW erle \in Measured
    PROVE  LET n == Processed(Crossed(m, b), missing, erle)
           IN  /\ n \in Metrics
               /\ n.faults = Counted(m.faults, b, missing)
               /\ b # "none" => ~Converged(n)
               /\ b = "none" /\ Converged(m) => Converged(n)
               /\ b = "none" /\ Converged(n) => Converged(m) \/ m.frames > 0
<1>. DEFINE c == Crossed(m, b)
            n == Processed(c, missing, erle)
<1>1. c \in Metrics /\ c.faults = Counted(m.faults, b, 0)
      /\ (b = "none" => c = m) /\ (b # "none" => c.frames = 0 /\ ~Converged(c))
  BY CrossedMetrics
<1>2. n \in Metrics /\ n.faults = Counted(c.faults, "none", missing)
      /\ (Converged(c) => Converged(n)) /\ (Converged(n) => Converged(c) \/ c.frames > 0)
  BY <1>1, ProcessedMetrics
<1>3. Counted(Counted(m.faults, b, 0), "none", missing) = Counted(m.faults, b, missing)
  BY CountedTogether DEF Metrics
<1> QED BY <1>1, <1>2, <1>3

-----------------------------------------------------------------------------
LEMMA TypedMetrics ==
    ASSUME EpochTypeOK
    PROVE  metrics \in Metrics /\ base.faults \in [Faults -> Nat] /\ untold \in [Faults -> Nat]
  BY EpochAssumption DEF EpochTypeOK, Metrics

LEMMA ZeroMetrics ==
    /\ Zero \in Metrics /\ Bounded(Zero) /\ ~Converged(Zero) /\ ~Zero.valid
    /\ Zero.faults = None /\ Zero.erle = 0
    /\ None \in [Faults -> 0 .. MaxCount] /\ 0 \in ErleLevels
  BY EpochAssumption DEF Zero, None, Metrics, Converged, ErleLevels, Bounded

\* What EpochTypeOK says of metrics, of base and of untold.
LEMMA BoundedMetrics ==
    ASSUME NEW m \in Metrics, Bounded(m)
    PROVE  /\ m \in [faults : [Faults -> 0 .. MaxCount], frames : 0 .. ConvergedFrames,
                      valid : BOOLEAN, erle : ErleLevels]
           /\ m.faults \in [Faults -> 0 .. MaxCount]
           /\ Converged(m) \in BOOLEAN /\ m.valid \in BOOLEAN /\ m.erle \in ErleLevels
<1>1. m.faults \in [Faults -> 0 .. MaxCount]
  BY EpochAssumption DEF Metrics, Bounded
<1> QED BY <1>1 DEF Metrics, Converged

\* Rebasing leaves nothing untold.
LEMMA RebasedBase ==
    ASSUME NEW m \in Metrics, Bounded(m)
    PROVE  /\ Rebased(m) \in [faults : [Faults -> 0 .. MaxCount], converged : BOOLEAN,
                               erle : ErleLevels]
           /\ Rebased(m).faults = m.faults
           /\ Rebased(m).converged = Converged(m)
           /\ ~m.valid => Rebased(m).erle = 0
           /\ \A f \in Faults : m.faults[f] - m.faults[f] = None[f]
<1>1. m.faults \in [Faults -> 0 .. MaxCount] /\ Converged(m) \in BOOLEAN
      /\ m.erle \in ErleLevels
  BY BoundedMetrics
<1>2. (IF m.valid THEN m.erle ELSE 0) \in ErleLevels
  BY <1>1 DEF ErleLevels
<1>3. \A f \in Faults : m.faults[f] - m.faults[f] = None[f]
  BY <1>1, EpochAssumption DEF None
<1> QED BY <1>1, <1>2, <1>3 DEF Rebased

LEMMA InitInv == EpochInit => PipelineInv
<1> SUFFICES ASSUME EpochInit PROVE PipelineInv
  OBVIOUS
<1> USE DEF EpochInit
<1>1. EpochTypeOK
  <2>1. metrics \in [faults : [Faults -> 0 .. MaxCount], frames : 0 .. ConvergedFrames,
                     valid : BOOLEAN, erle : ErleLevels]
    BY ZeroMetrics, BoundedMetrics
  <2>2. base \in [faults : [Faults -> 0 .. MaxCount], converged : BOOLEAN, erle : ErleLevels]
    BY ZeroMetrics
  <2>3. running \in BOOLEAN /\ given \in BOOLEAN /\ heard \in BOOLEAN
    OBVIOUS
  <2>4. untold \in [Faults -> 0 .. MaxCount] /\ told \in 0 .. 1
    BY ZeroMetrics
  <2> QED BY <2>1, <2>2, <2>3, <2>4 DEF EpochTypeOK
<1>2. FaultsTold /\ ConvergedToldOnce /\ CollapseWithinReset /\ EpochInv /\ ConvergedLag
  BY ZeroMetrics DEF FaultsTold, ConvergedToldOnce, CollapseWithinReset, EpochInv, ConvergedLag
<1> QED BY <1>1, <1>2 DEF PipelineInv

-----------------------------------------------------------------------------
LEMMA GoodFrameInv ==
    ASSUME PipelineInv, NEW b \in Boundaries, NEW missing \in 0 .. 1, NEW erle \in Measured,
           GoodFrame(b, missing, erle)
    PROVE  PipelineInv'
<1>. DEFINE n == Processed(Crossed(metrics, b), missing, erle)
            met == IF b = "none" THEN told ELSE 0
<1>1. metrics \in Metrics /\ base.faults \in [Faults -> 0 .. MaxCount]
      /\ untold \in [Faults -> Nat] /\ missing \in 0 .. 2
  BY TypedMetrics DEF PipelineInv, EpochTypeOK
<1>2. /\ n \in Metrics
      /\ n.faults = Counted(metrics.faults, b, missing)
      /\ b # "none" => ~Converged(n)
      /\ b = "none" /\ Converged(metrics) => Converged(n)
      /\ b = "none" /\ Converged(n) => Converged(metrics) \/ metrics.frames > 0
  BY <1>1, FrameMetrics
<1>3. /\ running /\ running' /\ Bounded(n) /\ metrics' = n /\ base' = Noted(n)
      /\ untold' = [f \in Faults |-> IF f \in Announced(n) THEN 0
                                     ELSE Counted(untold, b, missing)[f]]
      /\ told' = met + (IF Announces(n) THEN 1 ELSE 0)
      /\ given' = (given /\ b = "none")
      /\ heard' = (heard \/ n.valid)
      /\ running' = running
  BY DEF GoodFrame, PipelineInv
<1>4. /\ n \in [faults : [Faults -> 0 .. MaxCount], frames : 0 .. ConvergedFrames,
                 valid : BOOLEAN, erle : ErleLevels]
      /\ n.faults \in [Faults -> 0 .. MaxCount]
      /\ Converged(n) \in BOOLEAN /\ n.valid \in BOOLEAN /\ n.erle \in ErleLevels
  BY <1>2, <1>3, BoundedMetrics
<1>5. \A f \in Faults : /\ n.faults[f] - Noted(n).faults[f] = untold'[f]
                        /\ Noted(n).faults[f] \in 0 .. MaxCount
                        /\ untold'[f] \in 0 .. MaxCount
  <2> TAKE f \in Faults
  <2>1. /\ Counted(untold, b, missing)[f] = untold[f] + Happened(b, missing)[f]
        /\ n.faults[f] = metrics.faults[f] + Happened(b, missing)[f]
        /\ Happened(b, missing)[f] \in 0 .. 2
    BY <1>1, <1>2, CountedFaults DEF Metrics
  <2>2. metrics.faults[f] - base.faults[f] = untold[f]
    BY <1>3 DEF PipelineInv, FaultsTold
  <2>3. /\ n.faults[f] \in 0 .. MaxCount /\ base.faults[f] \in 0 .. MaxCount
        /\ metrics.faults[f] \in Nat /\ untold[f] \in Nat
    BY <1>1, <1>4 DEF Metrics
  <2>4. CASE f \in Announced(n)
    <3>1. untold'[f] = 0 /\ Noted(n).faults[f] = n.faults[f]
      BY <1>3, <2>4 DEF Noted
    <3> QED BY <2>3, <3>1, EpochAssumption
  <2>5. CASE f \notin Announced(n)
    <3>1. untold'[f] = Counted(untold, b, missing)[f] /\ Noted(n).faults[f] = base.faults[f]
      BY <1>3, <2>5 DEF Noted
    <3> QED BY <2>1, <2>2, <2>3, <3>1, EpochAssumption
  <2> QED BY <2>4, <2>5
<1>6. /\ Converged(n) => told' = IF given' THEN 0 ELSE 1
      /\ ~Converged(n) => told' = 0 /\ ~given'
      /\ told' \in 0 .. 1
  <2>1. CASE b # "none"
    <3>1. ~Converged(n) /\ ~given'
      BY <1>2, <1>3, <2>1
    <3>2. told' = 0
      BY <1>3, <2>1, <3>1 DEF Announces
    <3> QED BY <3>1, <3>2
  <2>2. CASE b = "none" /\ Converged(metrics)
    <3>1. base.converged /\ Converged(n)
      BY <1>2, <1>3, <2>2 DEF PipelineInv, ConvergedLag
    <3>2. told' = told /\ given' = given
      BY <1>3, <2>2, <3>1 DEF Announces, PipelineInv, EpochTypeOK
    <3> QED BY <1>3, <2>2, <3>1, <3>2 DEF PipelineInv, ConvergedToldOnce
  <2>3. CASE b = "none" /\ ~Converged(metrics)
    <3>1. told = 0 /\ ~given
      BY <1>3, <2>3 DEF PipelineInv, ConvergedToldOnce, EpochInv
    <3>2. Converged(n) => ~base.converged
      BY <1>2, <1>3, <2>3 DEF PipelineInv, ConvergedLag
    <3>3. told' = IF Converged(n) THEN 1 ELSE 0
      BY <1>3, <2>3, <3>1, <3>2 DEF Announces
    <3>4. ~given'
      BY <1>3, <3>1
    <3>5. CASE Converged(n)
      BY <3>3, <3>4, <3>5
    <3>6. CASE ~Converged(n)
      BY <3>3, <3>4, <3>6
    <3> QED BY <3>5, <3>6
  <2> QED BY <2>1, <2>2, <2>3
<1>7. EpochTypeOK'
  <2>1. Noted(n) \in [faults : [Faults -> 0 .. MaxCount], converged : BOOLEAN, erle : ErleLevels]
    <3>1. (IF n.valid THEN n.erle ELSE base.erle) \in ErleLevels
      BY <1>4 DEF PipelineInv, EpochTypeOK
    <3>2. Noted(n).faults \in [Faults -> 0 .. MaxCount]
      BY <1>5 DEF Noted
    <3> QED BY <1>4, <3>1, <3>2 DEF Noted
  <2>2. untold' \in [Faults -> 0 .. MaxCount]
    BY <1>3, <1>5
  <2>3. running' \in BOOLEAN /\ given' \in BOOLEAN /\ heard' \in BOOLEAN
    BY <1>3, <1>4 DEF PipelineInv, EpochTypeOK
  <2> QED BY <1>3, <1>4, <1>6, <2>1, <2>2, <2>3 DEF EpochTypeOK
<1>8. FaultsTold'
  BY <1>3, <1>5 DEF FaultsTold
<1>9. ConvergedToldOnce' /\ EpochInv'
  <2>1. Converged(metrics)' = Converged(n)
    BY <1>3 DEF Converged
  <2>2. (given' => Converged(n)) /\ (told' = 1 => Converged(n))
    BY <1>6
  <2>3. ConvergedToldOnce'
    BY <1>6, <2>1 DEF ConvergedToldOnce
  <2> QED BY <2>1, <2>2, <2>3 DEF EpochInv
<1>10. CollapseWithinReset'
  BY <1>3 DEF CollapseWithinReset, PipelineInv, Noted
<1>11. ConvergedLag'
  BY <1>3 DEF ConvergedLag, Noted, Converged
<1> QED BY <1>7, <1>8, <1>9, <1>10, <1>11 DEF PipelineInv

\* A boundary the worker applies and has not told of: a command, or the metadata
\* of a frame that fails.
LEMMA BoundaryInv ==
    ASSUME PipelineInv, NEW b \in Boundaries, BadFrame(b) \/ CommandBoundary(b)
    PROVE  PipelineInv'
<1>. DEFINE n == Crossed(metrics, b)
<1>1. metrics \in Metrics /\ base.faults \in [Faults -> 0 .. MaxCount]
      /\ untold \in [Faults -> Nat]
  BY TypedMetrics DEF PipelineInv, EpochTypeOK
<1>2. /\ n \in Metrics /\ n.faults = Counted(metrics.faults, b, 0)
      /\ b = "none" => n = metrics
      /\ b # "none" => n.frames = 0 /\ ~n.valid /\ ~Converged(n)
  BY <1>1, CrossedMetrics
<1>3. /\ running /\ Bounded(n) /\ metrics' = n /\ untold' = Counted(untold, b, 0)
      /\ told' = IF b = "none" THEN told ELSE 0
      /\ given' = (given /\ b = "none")
      /\ running' = running /\ base' = base /\ heard' = heard
  BY DEF BadFrame, CommandBoundary, Begins
<1>4. n \in [faults : [Faults -> 0 .. MaxCount], frames : 0 .. ConvergedFrames,
             valid : BOOLEAN, erle : ErleLevels]
      /\ n.faults \in [Faults -> 0 .. MaxCount]
  BY <1>2, <1>3, BoundedMetrics
<1>5. \A f \in Faults : /\ n.faults[f] - base.faults[f] = untold'[f]
                        /\ untold'[f] \in 0 .. MaxCount
  <2> TAKE f \in Faults
  <2>1. /\ untold'[f] = untold[f] + Happened(b, 0)[f]
        /\ n.faults[f] = metrics.faults[f] + Happened(b, 0)[f]
        /\ Happened(b, 0)[f] \in 0 .. 2
    BY <1>1, <1>2, <1>3, CountedFaults DEF Metrics
  <2>2. metrics.faults[f] - base.faults[f] = untold[f]
    BY <1>3 DEF PipelineInv, FaultsTold
  <2>3. /\ n.faults[f] \in 0 .. MaxCount /\ base.faults[f] \in 0 .. MaxCount
        /\ metrics.faults[f] \in Nat /\ untold[f] \in Nat
    BY <1>1, <1>4 DEF Metrics
  <2> QED BY <2>1, <2>2, <2>3, EpochAssumption
<1>6. EpochTypeOK'
  <2>1. untold' \in [Faults -> 0 .. MaxCount]
    <3>1. untold' \in [Faults -> Nat]
      BY <1>1, <1>3, CountedFaults
    <3> QED BY <1>5, <3>1
  <2>2. running' \in BOOLEAN /\ given' \in BOOLEAN /\ heard' \in BOOLEAN
    BY <1>3 DEF PipelineInv, EpochTypeOK
  <2>3. told' \in 0 .. 1
    BY <1>3 DEF PipelineInv, EpochTypeOK
  <2> QED BY <1>3, <1>4, <2>1, <2>2, <2>3 DEF PipelineInv, EpochTypeOK
<1>7. FaultsTold'
  BY <1>3, <1>5 DEF FaultsTold
<1>8. CASE b = "none"
  BY <1>2, <1>3, <1>6, <1>7, <1>8
  DEF PipelineInv, ConvergedToldOnce, CollapseWithinReset, EpochInv, ConvergedLag, Converged
<1>9. CASE b # "none"
  <2>1. ~Converged(metrics)' /\ told' = 0 /\ ~given' /\ metrics'.frames = 0 /\ ~metrics'.valid
    BY <1>2, <1>3, <1>9 DEF Converged
  <2>2. ConvergedToldOnce' /\ EpochInv' /\ ConvergedLag'
    BY <2>1 DEF ConvergedToldOnce, EpochInv, ConvergedLag
  <2>3. CollapseWithinReset'
    BY <1>3 DEF PipelineInv, CollapseWithinReset
  <2> QED BY <1>6, <1>7, <2>2, <2>3 DEF PipelineInv
<1> QED BY <1>8, <1>9

\* The pipeline starts over under the worker or, stopped, under the application.
LEMMA ResetInv ==
    ASSUME PipelineInv, CommandReset \/ DirectReset
    PROVE  PipelineInv'
<1>1. /\ metrics' = Zero /\ told' = 0 /\ ~given' /\ running' = running
      /\ given' \in BOOLEAN /\ heard' \in BOOLEAN
      /\ \/ running /\ base' = Rebased(Zero) /\ untold' = None
         \/ ~running /\ base' = base /\ untold' = untold
  BY DEF CommandReset, DirectReset, PipelineInv, EpochTypeOK
<1>2. ~Converged(metrics)' /\ metrics'.frames = 0
  BY <1>1, ZeroMetrics DEF Converged, Zero
<1>3. EpochTypeOK'
  <2>1. metrics' \in [faults : [Faults -> 0 .. MaxCount], frames : 0 .. ConvergedFrames,
                      valid : BOOLEAN, erle : ErleLevels]
    BY <1>1, ZeroMetrics, BoundedMetrics
  <2>2. base' \in [faults : [Faults -> 0 .. MaxCount], converged : BOOLEAN, erle : ErleLevels]
        /\ untold' \in [Faults -> 0 .. MaxCount]
    BY <1>1, ZeroMetrics, RebasedBase DEF PipelineInv, EpochTypeOK
  <2>3. running' \in BOOLEAN
    BY <1>1 DEF PipelineInv, EpochTypeOK
  <2>4. told' \in 0 .. 1
    BY <1>1
  <2> QED BY <1>1, <2>1, <2>2, <2>3, <2>4 DEF EpochTypeOK
<1>4. FaultsTold'
  BY <1>1, ZeroMetrics, RebasedBase DEF FaultsTold
<1>5. ConvergedToldOnce' /\ EpochInv' /\ ConvergedLag'
  <2>1. told' # 1
    BY <1>1
  <2>2. running' => ~base'.converged
    BY <1>1, ZeroMetrics, RebasedBase
  <2> QED BY <1>1, <1>2, <2>1, <2>2 DEF ConvergedToldOnce, EpochInv, ConvergedLag
<1>6. CollapseWithinReset'
  BY <1>1, ZeroMetrics, RebasedBase DEF CollapseWithinReset
<1> QED BY <1>3, <1>4, <1>5, <1>6 DEF PipelineInv

\* Stopping hands over whatever has not been told.
LEMMA StopWorkerInv == ASSUME PipelineInv, StopWorker PROVE PipelineInv'
<1>1. /\ running' = FALSE /\ untold' = None
      /\ UNCHANGED <<metrics, base, told, given, heard>>
  BY DEF StopWorker
<1>2. EpochTypeOK'
  <2>1. untold' \in [Faults -> 0 .. MaxCount]
    BY <1>1, ZeroMetrics
  <2>2. running' \in BOOLEAN
    BY <1>1
  <2> QED BY <1>1, <2>1, <2>2 DEF PipelineInv, EpochTypeOK
<1>3. EpochInv'
  BY <1>1 DEF PipelineInv, EpochInv, Converged
<1>4. FaultsTold' /\ ConvergedToldOnce' /\ CollapseWithinReset' /\ ConvergedLag'
  BY <1>1 DEF FaultsTold, ConvergedToldOnce, CollapseWithinReset, ConvergedLag
<1> QED BY <1>2, <1>3, <1>4 DEF PipelineInv

\* Starting rebases on whatever the application left, so that nothing of it is
\* untold, nothing of it is announced and nothing older is held against it.
LEMMA StartWorkerInv ==
    ASSUME PipelineInv, StartWorker
    PROVE  PipelineInv'
<1>1. /\ running' /\ base' = Rebased(metrics) /\ untold' = None
      /\ given' = (Converged(metrics) /\ told = 0)
      /\ heard' = metrics.valid
      /\ UNCHANGED <<metrics, told>>
  BY DEF StartWorker
<1>2. metrics \in Metrics /\ Bounded(metrics)
  BY TypedMetrics DEF PipelineInv, EpochTypeOK, Bounded
<1>3. /\ base' \in [faults : [Faults -> 0 .. MaxCount], converged : BOOLEAN, erle : ErleLevels]
      /\ base'.faults = metrics.faults
      /\ base'.converged = Converged(metrics)
      /\ ~metrics.valid => base'.erle = 0
      /\ \A f \in Faults : metrics.faults[f] - metrics.faults[f] = None[f]
  BY <1>1, <1>2, RebasedBase
<1>4. EpochTypeOK'
  <2>1. untold' \in [Faults -> 0 .. MaxCount]
    BY <1>1, ZeroMetrics
  <2>2. running' \in BOOLEAN /\ given' \in BOOLEAN
    BY <1>1
  <2>3. heard' \in BOOLEAN
    BY <1>1, <1>2 DEF Metrics
  <2> QED BY <1>1, <1>3, <2>1, <2>2, <2>3 DEF PipelineInv, EpochTypeOK
<1>5. FaultsTold'
  BY <1>1, <1>3 DEF FaultsTold
<1>6. ConvergedToldOnce' /\ EpochInv' /\ ConvergedLag'
  <2>1. told \in 0 .. 1 /\ (told = 1 => Converged(metrics))
    BY DEF PipelineInv, EpochTypeOK, EpochInv
  <2>2. Converged(metrics)' = Converged(metrics)
    BY <1>1 DEF Converged
  <2>3. CASE Converged(metrics)
    <3>1. given' = (told = 0) /\ told' = told /\ base'.converged
      BY <1>1, <1>3, <2>3
    <3>2. CASE told = 0
      <4>1. given' /\ told' = 0
        BY <3>1, <3>2
      <4> QED BY <2>2, <2>3, <3>1, <4>1 DEF ConvergedToldOnce, EpochInv, ConvergedLag
    <3>3. CASE told = 1
      <4>1. told' = 1 /\ ~(Converged(metrics) /\ told = 0)
        BY <1>1, <3>3
      <4>2. ~given'
        BY <1>1, <4>1
      <4> QED BY <2>2, <2>3, <3>1, <4>1, <4>2 DEF ConvergedToldOnce, EpochInv, ConvergedLag
    <3> QED BY <2>1, <3>2, <3>3
  <2>4. CASE ~Converged(metrics)
    <3>1. ~given' /\ told' = 0 /\ ~base'.converged
      BY <1>1, <1>3, <2>1, <2>4
    <3> QED BY <1>1, <2>2, <2>4, <3>1 DEF PipelineInv, ConvergedToldOnce, EpochInv, ConvergedLag
  <2> QED BY <2>3, <2>4
<1>7. CollapseWithinReset'
  BY <1>1, <1>3 DEF CollapseWithinReset
<1> QED BY <1>4, <1>5, <1>6, <1>7 DEF PipelineInv

\* The application's frames on a stopped runtime's pipeline.
LEMMA DirectFrameInv ==
    ASSUME PipelineInv, NEW b \in Boundaries, NEW missing \in 0 .. 2, NEW erle \in Measured,
           DirectFrame(b, missing, erle)
    PROVE  PipelineInv'
<1>. DEFINE n == Processed(Crossed(metrics, b), missing, erle)
<1>1. metrics \in Metrics
  BY TypedMetrics DEF PipelineInv
<1>2. /\ n \in Metrics
      /\ b # "none" => ~Converged(n)
      /\ b = "none" /\ Converged(metrics) => Converged(n)
  BY <1>1, FrameMetrics
<1>3. /\ ~running' /\ running' = running /\ Bounded(n) /\ metrics' = n
      /\ told' = IF b = "none" THEN told ELSE 0
      /\ given' = (given /\ b = "none")
      /\ UNCHANGED <<base, untold, heard>>
  BY DEF DirectFrame, Begins
<1>4. n \in [faults : [Faults -> 0 .. MaxCount], frames : 0 .. ConvergedFrames,
             valid : BOOLEAN, erle : ErleLevels] /\ n.valid \in BOOLEAN
  BY <1>2, <1>3, BoundedMetrics
<1>5. EpochTypeOK'
  <2>1. told' \in 0 .. 1 /\ given' \in BOOLEAN /\ heard' \in BOOLEAN /\ running' \in BOOLEAN
    BY <1>3, <1>4 DEF PipelineInv, EpochTypeOK
  <2> QED BY <1>3, <1>4, <2>1 DEF PipelineInv, EpochTypeOK
<1>6. EpochInv'
  <2>1. Converged(metrics)' = Converged(n)
    BY <1>3 DEF Converged
  <2>2. (given' => Converged(n)) /\ (told' = 1 => Converged(n))
    <3>1. CASE b = "none"
      <4>1. told' = told /\ (given' => given)
        BY <1>3, <3>1
      <4>2. (given => Converged(metrics)) /\ (told = 1 => Converged(metrics))
        BY DEF PipelineInv, EpochInv
      <4> QED BY <1>2, <3>1, <4>1, <4>2
    <3>2. CASE b # "none"
      <4>1. given' = FALSE /\ told' = 0
        BY <1>3, <3>2
      <4> QED BY <4>1
    <3> QED BY <3>1, <3>2
  <2> QED BY <2>1, <2>2 DEF EpochInv
<1>7. FaultsTold' /\ ConvergedToldOnce' /\ CollapseWithinReset' /\ ConvergedLag'
  BY <1>3 DEF FaultsTold, ConvergedToldOnce, CollapseWithinReset, ConvergedLag
<1> QED BY <1>5, <1>6, <1>7 DEF PipelineInv

LEMMA NextInv == PipelineInv /\ [EpochNext]_epochVars => PipelineInv'
<1> SUFFICES ASSUME PipelineInv, [EpochNext]_epochVars PROVE PipelineInv'
  OBVIOUS
<1>1. CASE \E b \in Boundaries, erle \in Measured, missing \in 0 .. 1 :
             GoodFrame(b, missing, erle)
  BY <1>1, GoodFrameInv
<1>2. CASE \E b \in Boundaries : BadFrame(b) \/ CommandBoundary(b)
  BY <1>2, BoundaryInv
<1>3. CASE CommandReset \/ DirectReset
  BY <1>3, ResetInv
<1>4. CASE StopWorker
  BY <1>4, StopWorkerInv
<1>5. CASE StartWorker
  BY <1>5, StartWorkerInv
<1>6. CASE \E b \in Boundaries, erle \in Measured, missing \in 0 .. 2 :
             DirectFrame(b, missing, erle)
  BY <1>6, DirectFrameInv
<1>7. CASE UNCHANGED epochVars
  <2> USE <1>7 DEF epochVars, PipelineInv
  <2>1. EpochTypeOK'
    BY DEF EpochTypeOK
  <2>2. FaultsTold' /\ CollapseWithinReset'
    BY DEF FaultsTold, CollapseWithinReset
  <2>3. ConvergedToldOnce' /\ EpochInv' /\ ConvergedLag'
    BY DEF ConvergedToldOnce, EpochInv, ConvergedLag, Converged
  <2> QED BY <2>1, <2>2, <2>3
<1> QED BY <1>1, <1>2, <1>3, <1>4, <1>5, <1>6, <1>7 DEF EpochNext

-----------------------------------------------------------------------------
\* The inductive invariant holds of every reachable state: the worker's
\* comparators follow the pipeline's counters through every boundary, failure,
\* reset, stop and start.
THEOREM PipelineInvariant == EpochSpec => []PipelineInv
<1> QED BY InitInv, NextInv, PTL DEF EpochSpec

\* The state of the pipeline and of the worker keeps its types and its bounds.
THEOREM TypeCorrect == EpochSpec => []EpochTypeOK
<1>1. PipelineInv => EpochTypeOK
  BY DEF PipelineInv
<1> QED BY <1>1, PipelineInvariant, PTL

\* No fault of a new epoch is hidden by the counters of an old one, and none is
\* announced twice: what is unannounced is what has happened.
THEOREM FaultsAreTold == EpochSpec => []FaultsTold
<1>1. PipelineInv => FaultsTold
  BY DEF PipelineInv
<1> QED BY <1>1, PipelineInvariant, PTL

\* Every convergence epoch that converges under the worker is announced once.
THEOREM ConvergedIsToldOnce == EpochSpec => []ConvergedToldOnce
<1>1. PipelineInv => ConvergedToldOnce
  BY DEF PipelineInv
<1> QED BY <1>1, PipelineInvariant, PTL

\* A collapse is announced against an ERLE the worker has had since it started or
\* was reset, the one the pipeline still reported at the start among them, and
\* never against one an earlier run of the worker or a pipeline before a RESET had.
THEOREM CollapsesAreWithinAReset == EpochSpec => []CollapseWithinReset
<1>1. PipelineInv => CollapseWithinReset
  BY DEF PipelineInv
<1> QED BY <1>1, PipelineInvariant, PTL

\* The three together, as the run of the telemetry states them.
THEOREM EverythingIsTold == EpochSpec => []ToldExactly
<1>1. PipelineInv => ToldExactly
  BY DEF PipelineInv, ToldExactly
<1> QED BY <1>1, PipelineInvariant, PTL
=============================================================================
