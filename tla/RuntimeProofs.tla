---------------------------- MODULE RuntimeProofs ----------------------------
(***************************************************************************)
(* Proofs about Runtime for rings of every depth, every ceiling of the     *)
(* semaphore above the depth of the input ring, and any number of frames,  *)
(* commands, starts and stops: RuntimeInv is inductive, and with it the    *)
(* worker never sleeps on work it was given, the pipeline never has two    *)
(* users, and the ledger of the frames balances.                           *)
(*                                                                         *)
(* One lemma per conjunct of RuntimeInv, one step per action.  The         *)
(* conjuncts need each other: a ring length cannot underflow because the   *)
(* worker picks before it releases (RingsBounded), a token is not lost to  *)
(* saturation because the rings are bounded below the ceiling.             *)
(***************************************************************************)
EXTENDS Runtime, TLAPS

\* Every action keeps the variables in their types; the one that could underflow
\* is the removal of a command.
LEMMA TypeStep ==
    ASSUME RuntimeInv, Next
    PROVE  TypeOK'
<1>. USE SizeAssumption DEF RuntimeInv, TypeOK, OwnerPc, WorkerPc,
         ProducerPc, Counters
<1>1. CASE Submit
  <2>1. CASE LoadInput
    BY <2>1 DEF LoadInput, ownerVars, workerVars, controlVars
  <2>2. CASE PushFrame
    BY <2>2 DEF PushFrame, ownerVars, workerVars, controlVars
  <2>3. CASE CountFrame
    BY <2>3 DEF CountFrame, ownerVars, workerVars, controlVars, Bump
  <2>4. CASE CountRefusal
    BY <2>4 DEF CountRefusal, ownerVars, workerVars, controlVars, Bump
  <2>5. CASE RaiseNotice
    BY <2>5 DEF RaiseNotice, ownerVars, workerVars, controlVars
  <2>6. CASE PostFrame
    BY <2>6 DEF PostFrame, ownerVars, workerVars, controlVars, Post
  <2>. QED
    BY <1>1, <2>1, <2>2, <2>3, <2>4, <2>5, <2>6 DEF Submit, FinishSubmit
<1>2. CASE Control
  <2>1. CASE LoadCommand
    BY <2>1 DEF LoadCommand, ownerVars, workerVars, producerVars
  <2>2. CASE PushCommand
    BY <2>2 DEF PushCommand, ownerVars, workerVars, producerVars
  <2>3. CASE PostCommand
    BY <2>3 DEF PostCommand, ownerVars, workerVars, producerVars, Post
  <2>. QED
    BY <1>2, <2>1, <2>2, <2>3 DEF Control, FinishCommand
<1>3. CASE Receive
  BY <1>3 DEF Receive, ownerVars, workerVars, producerVars, controlVars
<1>4. CASE Owner
  <2>1. CASE BeginUse
    BY <2>1 DEF BeginUse, ownerFrame, producerVars, controlVars
  <2>2. CASE EndUse
    BY <2>2 DEF EndUse, ownerFrame, producerVars, controlVars
  <2>3. CASE StartCheck
    BY <2>3 DEF StartCheck, ownerFrame, producerVars, controlVars
  <2>4. CASE StartRefuse
    BY <2>4 DEF StartRefuse, ownerFrame, producerVars, controlVars
  <2>5. CASE StartClaim
    BY <2>5 DEF StartClaim, ownerFrame, producerVars, controlVars
  <2>6. CASE CreateThread
    BY <2>6 DEF CreateThread, ownerFrame, producerVars, controlVars
  <2>7. CASE CreateFails
    BY <2>7 DEF CreateFails, ownerFrame, producerVars, controlVars
  <2>8. CASE StopClaim
    BY <2>8 DEF StopClaim, ownerFrame, producerVars, controlVars
  <2>9. CASE StopPost
    BY <2>9 DEF StopPost, ownerFrame, producerVars, controlVars, Post
  <2>10. CASE Join
    BY <2>10 DEF Join, ownerFrame, producerVars, controlVars
  <2>11. CASE StopDone
    BY <2>11 DEF StopDone, ownerFrame, producerVars, controlVars
  <2>. QED
    BY <1>4, <2>1, <2>2, <2>3, <2>4, <2>5, <2>6, <2>7, <2>8, <2>9, <2>10, <2>11
      DEF Owner, FinishLifecycle
<1>5. CASE Worker
  <2>1. CASE Setup
    BY <2>1 DEF Setup, workerFrame, ownerVars, producerVars, controlVars
  <2>2. CASE TakeToken
    BY <2>2 DEF TakeToken, workerFrame, ownerVars, producerVars, controlVars
  <2>3. CASE CheckState
    BY <2>3 DEF CheckState, workerFrame, ownerVars, producerVars, controlVars
  <2>4. CASE SnapshotCommands
    BY <2>4 DEF SnapshotCommands, workerFrame, ownerVars, producerVars,
      controlVars
  <2>5. CASE ApplyCommand
    BY <2>5 DEF ApplyCommand, workerFrame, ownerVars, producerVars, controlVars,
      RingsBounded
  <2>6. CASE TakeNotice
    BY <2>6 DEF TakeNotice, workerFrame, ownerVars, producerVars, controlVars
  <2>7. CASE PickNothing
    BY <2>7 DEF PickNothing, workerFrame, ownerVars, producerVars, controlVars
  <2>8. CASE PickFrame
    BY <2>8 DEF PickFrame, workerFrame, ownerVars, producerVars, controlVars
  <2>9. CASE ProcessFrame
    BY <2>9 DEF ProcessFrame, workerFrame, ownerVars, producerVars, controlVars,
      Bump
  <2>10. CASE PublishOutput
    BY <2>10 DEF PublishOutput, workerFrame, ownerVars, producerVars, controlVars
  <2>11. CASE DropOutput
    BY <2>11 DEF DropOutput, workerFrame, ownerVars, producerVars, controlVars,
      Bump
  <2>12. CASE ReleaseInput
    BY <2>12 DEF ReleaseInput, workerFrame, ownerVars, producerVars, controlVars
  <2>13. CASE Exit
    BY <2>13 DEF Exit, workerFrame, ownerVars, producerVars, controlVars
  <2>. QED
    BY <1>5, <2>1, <2>2, <2>3, <2>4, <2>5, <2>6, <2>7, <2>8, <2>9, <2>10, <2>11,
      <2>12, <2>13 DEF Worker
<1>. QED
  BY <1>1, <1>2, <1>3, <1>4, <1>5 DEF Next

\* Who may be where in each state of worker_state.
LEMMA LifecycleStep ==
    ASSUME RuntimeInv, Next
    PROVE  Lifecycle'
<1>. USE DEF RuntimeInv, TypeOK, OwnerPc, WorkerPc, Lifecycle
<1>1. CASE Submit
  BY <1>1 DEF Submit, FinishSubmit, LoadInput, PushFrame, CountFrame,
    CountRefusal, RaiseNotice, PostFrame, ownerVars, workerVars, controlVars, Post,
    Bump
<1>2. CASE Control
  BY <1>2 DEF Control, FinishCommand, LoadCommand, PushCommand, PostCommand,
    ownerVars, workerVars, producerVars, Post
<1>3. CASE Receive
  BY <1>3 DEF Receive, ownerVars, workerVars, producerVars, controlVars
<1>4. CASE Owner
  <2>1. CASE BeginUse
    BY <2>1 DEF BeginUse, ownerFrame, producerVars, controlVars
  <2>2. CASE EndUse
    BY <2>2 DEF EndUse, ownerFrame, producerVars, controlVars
  <2>3. CASE StartCheck
    BY <2>3 DEF StartCheck, ownerFrame, producerVars, controlVars
  <2>4. CASE StartRefuse
    BY <2>4 DEF StartRefuse, ownerFrame, producerVars, controlVars
  <2>5. CASE StartClaim
    BY <2>5 DEF StartClaim, ownerFrame, producerVars, controlVars
  <2>6. CASE CreateThread
    BY <2>6 DEF CreateThread, ownerFrame, producerVars, controlVars
  <2>7. CASE CreateFails
    BY <2>7 DEF CreateFails, ownerFrame, producerVars, controlVars
  <2>8. CASE StopClaim
    BY <2>8 DEF StopClaim, ownerFrame, producerVars, controlVars
  <2>9. CASE StopPost
    BY <2>9 DEF StopPost, ownerFrame, producerVars, controlVars, Post
  <2>10. CASE Join
    BY <2>10 DEF Join, ownerFrame, producerVars, controlVars
  <2>11. CASE StopDone
    BY <2>11 DEF StopDone, ownerFrame, producerVars, controlVars
  <2>. QED
    BY <1>4, <2>1, <2>2, <2>3, <2>4, <2>5, <2>6, <2>7, <2>8, <2>9, <2>10, <2>11
      DEF Owner, FinishLifecycle
<1>5. CASE Worker
  <2>1. CASE Setup
    BY <2>1 DEF Setup, workerFrame, ownerVars, producerVars, controlVars
  <2>2. CASE TakeToken
    BY <2>2 DEF TakeToken, workerFrame, ownerVars, producerVars, controlVars
  <2>3. CASE CheckState
    BY <2>3 DEF CheckState, workerFrame, ownerVars, producerVars, controlVars
  <2>4. CASE SnapshotCommands
    BY <2>4 DEF SnapshotCommands, workerFrame, ownerVars, producerVars,
      controlVars
  <2>5. CASE ApplyCommand
    BY <2>5 DEF ApplyCommand, workerFrame, ownerVars, producerVars, controlVars
  <2>6. CASE TakeNotice
    BY <2>6 DEF TakeNotice, workerFrame, ownerVars, producerVars, controlVars
  <2>7. CASE PickNothing
    BY <2>7 DEF PickNothing, workerFrame, ownerVars, producerVars, controlVars
  <2>8. CASE PickFrame
    BY <2>8 DEF PickFrame, workerFrame, ownerVars, producerVars, controlVars
  <2>9. CASE ProcessFrame
    BY <2>9 DEF ProcessFrame, workerFrame, ownerVars, producerVars, controlVars,
      Bump
  <2>10. CASE PublishOutput
    BY <2>10 DEF PublishOutput, workerFrame, ownerVars, producerVars, controlVars
  <2>11. CASE DropOutput
    BY <2>11 DEF DropOutput, workerFrame, ownerVars, producerVars, controlVars,
      Bump
  <2>12. CASE ReleaseInput
    BY <2>12 DEF ReleaseInput, workerFrame, ownerVars, producerVars, controlVars
  <2>13. CASE Exit
    BY <2>13 DEF Exit, workerFrame, ownerVars, producerVars, controlVars
  <2>. QED
    BY <1>5, <2>1, <2>2, <2>3, <2>4, <2>5, <2>6, <2>7, <2>8, <2>9, <2>10, <2>11,
      <2>12, <2>13 DEF Worker
<1>. QED
  BY <1>1, <1>2, <1>3, <1>4, <1>5 DEF Next

\* Only the producer adds to a ring and only the consumer removes, so a decision
\* taken on an index that is stale is still right when it is used.
LEMMA RingsStep ==
    ASSUME RuntimeInv, Next
    PROVE  RingsBounded'
<1>. USE SizeAssumption DEF RuntimeInv, TypeOK, RingsBounded, InputLen,
         OutputLen, InFrame
<1>1. CASE Submit
  <2>1. CASE LoadInput
    BY <2>1 DEF LoadInput, ownerVars, workerVars, controlVars
  <2>2. CASE PushFrame
    BY <2>2 DEF PushFrame, ownerVars, workerVars, controlVars
  <2>3. CASE CountFrame
    BY <2>3 DEF CountFrame, ownerVars, workerVars, controlVars, Bump
  <2>4. CASE CountRefusal
    BY <2>4 DEF CountRefusal, ownerVars, workerVars, controlVars, Bump
  <2>5. CASE RaiseNotice
    BY <2>5 DEF RaiseNotice, ownerVars, workerVars, controlVars
  <2>6. CASE PostFrame
    BY <2>6 DEF PostFrame, ownerVars, workerVars, controlVars, Post
  <2>. QED
    BY <1>1, <2>1, <2>2, <2>3, <2>4, <2>5, <2>6 DEF Submit, FinishSubmit
<1>2. CASE Control
  <2>1. CASE LoadCommand
    BY <2>1 DEF LoadCommand, ownerVars, workerVars, producerVars
  <2>2. CASE PushCommand
    BY <2>2 DEF PushCommand, ownerVars, workerVars, producerVars
  <2>3. CASE PostCommand
    BY <2>3 DEF PostCommand, ownerVars, workerVars, producerVars, Post
  <2>. QED
    BY <1>2, <2>1, <2>2, <2>3 DEF Control, FinishCommand
<1>3. CASE Receive
  BY <1>3 DEF Receive, ownerVars, workerVars, producerVars, controlVars
<1>4. CASE Owner
  <2>1. CASE BeginUse
    BY <2>1 DEF BeginUse, ownerFrame, producerVars, controlVars
  <2>2. CASE EndUse
    BY <2>2 DEF EndUse, ownerFrame, producerVars, controlVars
  <2>3. CASE StartCheck
    BY <2>3 DEF StartCheck, ownerFrame, producerVars, controlVars
  <2>4. CASE StartRefuse
    BY <2>4 DEF StartRefuse, ownerFrame, producerVars, controlVars
  <2>5. CASE StartClaim
    BY <2>5 DEF StartClaim, ownerFrame, producerVars, controlVars
  <2>6. CASE CreateThread
    BY <2>6 DEF CreateThread, ownerFrame, producerVars, controlVars, Lifecycle
  <2>7. CASE CreateFails
    BY <2>7 DEF CreateFails, ownerFrame, producerVars, controlVars
  <2>8. CASE StopClaim
    BY <2>8 DEF StopClaim, ownerFrame, producerVars, controlVars
  <2>9. CASE StopPost
    BY <2>9 DEF StopPost, ownerFrame, producerVars, controlVars, Post
  <2>10. CASE Join
    BY <2>10 DEF Join, ownerFrame, producerVars, controlVars
  <2>11. CASE StopDone
    BY <2>11 DEF StopDone, ownerFrame, producerVars, controlVars
  <2>. QED
    BY <1>4, <2>1, <2>2, <2>3, <2>4, <2>5, <2>6, <2>7, <2>8, <2>9, <2>10, <2>11
      DEF Owner, FinishLifecycle
<1>5. CASE Worker
  <2>1. CASE Setup
    BY <2>1 DEF Setup, workerFrame, ownerVars, producerVars, controlVars
  <2>2. CASE TakeToken
    BY <2>2 DEF TakeToken, workerFrame, ownerVars, producerVars, controlVars
  <2>3. CASE CheckState
    BY <2>3 DEF CheckState, workerFrame, ownerVars, producerVars, controlVars
  <2>4. CASE SnapshotCommands
    BY <2>4 DEF SnapshotCommands, workerFrame, ownerVars, producerVars,
      controlVars
  <2>5. CASE ApplyCommand
    BY <2>5 DEF ApplyCommand, workerFrame, ownerVars, producerVars, controlVars
  <2>6. CASE TakeNotice
    BY <2>6 DEF TakeNotice, workerFrame, ownerVars, producerVars, controlVars
  <2>7. CASE PickNothing
    BY <2>7 DEF PickNothing, workerFrame, ownerVars, producerVars, controlVars
  <2>8. CASE PickFrame
    BY <2>8 DEF PickFrame, workerFrame, ownerVars, producerVars, controlVars
  <2>9. CASE ProcessFrame
    BY <2>9 DEF ProcessFrame, workerFrame, ownerVars, producerVars, controlVars,
      Bump
  <2>10. CASE PublishOutput
    BY <2>10 DEF PublishOutput, workerFrame, ownerVars, producerVars, controlVars
  <2>11. CASE DropOutput
    BY <2>11 DEF DropOutput, workerFrame, ownerVars, producerVars, controlVars,
      Bump
  <2>12. CASE ReleaseInput
    BY <2>12 DEF ReleaseInput, workerFrame, ownerVars, producerVars, controlVars
  <2>13. CASE Exit
    BY <2>13 DEF Exit, workerFrame, ownerVars, producerVars, controlVars
  <2>. QED
    BY <1>5, <2>1, <2>2, <2>3, <2>4, <2>5, <2>6, <2>7, <2>8, <2>9, <2>10, <2>11,
      <2>12, <2>13 DEF Worker
<1>. QED
  BY <1>1, <1>2, <1>3, <1>4, <1>5 DEF Next

\* The token count: a step that adds work owes a token or posts it, a step that
\* takes a token serves or leaves, and a post that saturates is not needed.
LEMMA WakeupStep ==
    ASSUME RuntimeInv, Next
    PROVE  NoLostWakeup'
<1>. USE SizeAssumption DEF RuntimeInv, TypeOK, OwnerPc, WorkerPc,
         ProducerPc, Lifecycle, RingsBounded, NoLostWakeup, FrameHasToken,
         CommandHasToken, NoticeHasToken, Coming, TokensNeeded, Unstarted,
         WillStart, WillServe, MustLeave, InFrame, InputLen, OutputLen, One
<1>1. CASE Submit
  <2>1. CASE LoadInput
    BY <2>1 DEF LoadInput, ownerVars, workerVars, controlVars
  <2>2. CASE PushFrame
    BY <2>2 DEF PushFrame, ownerVars, workerVars, controlVars
  <2>3. CASE CountFrame
    BY <2>3 DEF CountFrame, ownerVars, workerVars, controlVars, Bump
  <2>4. CASE CountRefusal
    BY <2>4 DEF CountRefusal, ownerVars, workerVars, controlVars, Bump
  <2>5. CASE RaiseNotice
    BY <2>5 DEF RaiseNotice, ownerVars, workerVars, controlVars
  <2>6. CASE PostFrame
    BY <2>6 DEF PostFrame, ownerVars, workerVars, controlVars, Post
  <2>. QED
    BY <1>1, <2>1, <2>2, <2>3, <2>4, <2>5, <2>6 DEF Submit, FinishSubmit
<1>2. CASE Control
  <2>1. CASE LoadCommand
    BY <2>1 DEF LoadCommand, ownerVars, workerVars, producerVars
  <2>2. CASE PushCommand
    BY <2>2 DEF PushCommand, ownerVars, workerVars, producerVars
  <2>3. CASE PostCommand
    BY <2>3 DEF PostCommand, ownerVars, workerVars, producerVars, Post
  <2>. QED
    BY <1>2, <2>1, <2>2, <2>3 DEF Control, FinishCommand
<1>3. CASE Receive
  BY <1>3 DEF Receive, ownerVars, workerVars, producerVars, controlVars
<1>4. CASE Owner
  <2>1. CASE BeginUse
    BY <2>1 DEF BeginUse, ownerFrame, producerVars, controlVars
  <2>2. CASE EndUse
    BY <2>2 DEF EndUse, ownerFrame, producerVars, controlVars
  <2>3. CASE StartCheck
    BY <2>3 DEF StartCheck, ownerFrame, producerVars, controlVars
  <2>4. CASE StartRefuse
    BY <2>4 DEF StartRefuse, ownerFrame, producerVars, controlVars
  <2>5. CASE StartClaim
    BY <2>5 DEF StartClaim, ownerFrame, producerVars, controlVars
  <2>6. CASE CreateThread
    BY <2>6 DEF CreateThread, ownerFrame, producerVars, controlVars
  <2>7. CASE CreateFails
    BY <2>7 DEF CreateFails, ownerFrame, producerVars, controlVars
  <2>8. CASE StopClaim
    BY <2>8 DEF StopClaim, ownerFrame, producerVars, controlVars
  <2>9. CASE StopPost
    BY <2>9 DEF StopPost, ownerFrame, producerVars, controlVars, Post
  <2>10. CASE Join
    BY <2>10 DEF Join, ownerFrame, producerVars, controlVars
  <2>11. CASE StopDone
    BY <2>11 DEF StopDone, ownerFrame, producerVars, controlVars
  <2>. QED
    BY <1>4, <2>1, <2>2, <2>3, <2>4, <2>5, <2>6, <2>7, <2>8, <2>9, <2>10, <2>11
      DEF Owner, FinishLifecycle
<1>5. CASE Worker
  <2>1. CASE Setup
    BY <2>1 DEF Setup, workerFrame, ownerVars, producerVars, controlVars
  <2>2. CASE TakeToken
    BY <2>2 DEF TakeToken, workerFrame, ownerVars, producerVars, controlVars
  <2>3. CASE CheckState
    BY <2>3 DEF CheckState, workerFrame, ownerVars, producerVars, controlVars
  <2>4. CASE SnapshotCommands
    BY <2>4 DEF SnapshotCommands, workerFrame, ownerVars, producerVars,
      controlVars
  <2>5. CASE ApplyCommand
    BY <2>5 DEF ApplyCommand, workerFrame, ownerVars, producerVars, controlVars
  <2>6. CASE TakeNotice
    BY <2>6 DEF TakeNotice, workerFrame, ownerVars, producerVars, controlVars
  <2>7. CASE PickNothing
    BY <2>7 DEF PickNothing, workerFrame, ownerVars, producerVars, controlVars
  <2>8. CASE PickFrame
    BY <2>8 DEF PickFrame, workerFrame, ownerVars, producerVars, controlVars
  <2>9. CASE ProcessFrame
    BY <2>9 DEF ProcessFrame, workerFrame, ownerVars, producerVars, controlVars,
      Bump
  <2>10. CASE PublishOutput
    BY <2>10 DEF PublishOutput, workerFrame, ownerVars, producerVars, controlVars
  <2>11. CASE DropOutput
    BY <2>11 DEF DropOutput, workerFrame, ownerVars, producerVars, controlVars,
      Bump
  <2>12. CASE ReleaseInput
    BY <2>12 DEF ReleaseInput, workerFrame, ownerVars, producerVars, controlVars
  <2>13. CASE Exit
    BY <2>13 DEF Exit, workerFrame, ownerVars, producerVars, controlVars
  <2>. QED
    BY <1>5, <2>1, <2>2, <2>3, <2>4, <2>5, <2>6, <2>7, <2>8, <2>9, <2>10, <2>11,
      <2>12, <2>13 DEF Worker
<1>. QED
  BY <1>1, <1>2, <1>3, <1>4, <1>5 DEF Next

\* Each accepted frame is counted once on each of the three pages of the ledger.
LEMMA LedgerStep ==
    ASSUME RuntimeInv, Next
    PROVE  LedgerBalances'
<1>. USE DEF RuntimeInv, TypeOK, Counters, LedgerBalances, One
<1>1. CASE Submit
  <2>1. CASE LoadInput
    BY <2>1 DEF LoadInput, ownerVars, workerVars, controlVars
  <2>2. CASE PushFrame
    BY <2>2 DEF PushFrame, ownerVars, workerVars, controlVars
  <2>3. CASE CountFrame
    BY <2>3 DEF CountFrame, ownerVars, workerVars, controlVars, Bump
  <2>4. CASE CountRefusal
    BY <2>4 DEF CountRefusal, ownerVars, workerVars, controlVars, Bump
  <2>5. CASE RaiseNotice
    BY <2>5 DEF RaiseNotice, ownerVars, workerVars, controlVars
  <2>6. CASE PostFrame
    BY <2>6 DEF PostFrame, ownerVars, workerVars, controlVars, Post
  <2>. QED
    BY <1>1, <2>1, <2>2, <2>3, <2>4, <2>5, <2>6 DEF Submit, FinishSubmit
<1>2. CASE Control
  BY <1>2 DEF Control, FinishCommand, LoadCommand, PushCommand, PostCommand,
    ownerVars, workerVars, producerVars, Post
<1>3. CASE Receive
  BY <1>3 DEF Receive, ownerVars, workerVars, producerVars, controlVars
<1>4. CASE Owner
  BY <1>4 DEF Owner, FinishLifecycle, BeginUse, EndUse, StartCheck, StartRefuse,
    StartClaim, CreateThread, CreateFails, StopClaim, StopPost, Join, StopDone,
    ownerFrame, producerVars, controlVars, Post, Lifecycle, OwnerPc
<1>5. CASE Worker
  <2>1. CASE Setup
    BY <2>1 DEF Setup, workerFrame, ownerVars, producerVars, controlVars
  <2>2. CASE TakeToken
    BY <2>2 DEF TakeToken, workerFrame, ownerVars, producerVars, controlVars
  <2>3. CASE CheckState
    BY <2>3 DEF CheckState, workerFrame, ownerVars, producerVars, controlVars
  <2>4. CASE SnapshotCommands
    BY <2>4 DEF SnapshotCommands, workerFrame, ownerVars, producerVars,
      controlVars
  <2>5. CASE ApplyCommand
    BY <2>5 DEF ApplyCommand, workerFrame, ownerVars, producerVars, controlVars
  <2>6. CASE TakeNotice
    BY <2>6 DEF TakeNotice, workerFrame, ownerVars, producerVars, controlVars
  <2>7. CASE PickNothing
    BY <2>7 DEF PickNothing, workerFrame, ownerVars, producerVars, controlVars
  <2>8. CASE PickFrame
    BY <2>8 DEF PickFrame, workerFrame, ownerVars, producerVars, controlVars
  <2>9. CASE ProcessFrame
    BY <2>9 DEF ProcessFrame, workerFrame, ownerVars, producerVars, controlVars,
      Bump
  <2>10. CASE PublishOutput
    BY <2>10 DEF PublishOutput, workerFrame, ownerVars, producerVars, controlVars
  <2>11. CASE DropOutput
    <3>1. count' = [count EXCEPT !["dropped"] = @ + 1] /\ count \in [Counters -> Nat]
      BY <2>11 DEF DropOutput, Bump
    <3>2. /\ count'["dropped"] = count["dropped"] + 1
          /\ \A c \in Counters \ {"dropped"} : count'[c] = count[c]
      BY <3>1
    <3>3. /\ published' = published /\ completed' = completed
          /\ accepted' = accepted /\ ppc' = ppc
          /\ wpc = "publish" /\ wpc' = "release"
      BY <2>11 DEF DropOutput, workerFrame, producerVars
    <3>. QED
      BY <3>2, <3>3
  <2>12. CASE ReleaseInput
    BY <2>12 DEF ReleaseInput, workerFrame, ownerVars, producerVars, controlVars
  <2>13. CASE Exit
    BY <2>13 DEF Exit, workerFrame, ownerVars, producerVars, controlVars
  <2>. QED
    BY <1>5, <2>1, <2>2, <2>3, <2>4, <2>5, <2>6, <2>7, <2>8, <2>9, <2>10, <2>11,
      <2>12, <2>13 DEF Worker
<1>. QED
  BY <1>1, <1>2, <1>3, <1>4, <1>5 DEF Next

\* A refusal is pending from its notice until the worker takes and reports it.
LEMMA RefusalStep ==
    ASSUME RuntimeInv, RefusalInv, Next
    PROVE  RefusalInv'
<1>. USE SizeAssumption DEF RuntimeInv, TypeOK, Counters, RefusalInv,
         RefusalsConserved, One
<1>1. CASE Submit
  <2>1. CASE LoadInput
    BY <2>1 DEF LoadInput, ownerVars, workerVars, controlVars
  <2>2. CASE PushFrame
    BY <2>2 DEF PushFrame, ownerVars, workerVars, controlVars
  <2>3. CASE CountFrame
    BY <2>3 DEF CountFrame, ownerVars, workerVars, controlVars, Bump
  <2>4. CASE CountRefusal
    BY <2>4 DEF CountRefusal, ownerVars, workerVars, controlVars, Bump
  <2>5. CASE RaiseNotice
    BY <2>5 DEF RaiseNotice, ownerVars, workerVars, controlVars
  <2>6. CASE PostFrame
    BY <2>6 DEF PostFrame, ownerVars, workerVars, controlVars, Post
  <2>. QED
    BY <1>1, <2>1, <2>2, <2>3, <2>4, <2>5, <2>6 DEF Submit, FinishSubmit
<1>2. CASE Control
  BY <1>2 DEF Control, FinishCommand, LoadCommand, PushCommand, PostCommand,
    ownerVars, workerVars, producerVars, Post
<1>3. CASE Receive
  BY <1>3 DEF Receive, ownerVars, workerVars, producerVars, controlVars
<1>4. CASE Owner
  BY <1>4 DEF Owner, FinishLifecycle, BeginUse, EndUse, StartCheck, StartRefuse,
    StartClaim, CreateThread, CreateFails, StopClaim, StopPost, Join, StopDone,
    ownerFrame, producerVars, controlVars, Post
<1>5. CASE Worker
  <2>1. CASE Setup
    BY <2>1 DEF Setup, workerFrame, ownerVars, producerVars, controlVars
  <2>2. CASE TakeToken
    BY <2>2 DEF TakeToken, workerFrame, ownerVars, producerVars, controlVars
  <2>3. CASE CheckState
    BY <2>3 DEF CheckState, workerFrame, ownerVars, producerVars, controlVars
  <2>4. CASE SnapshotCommands
    BY <2>4 DEF SnapshotCommands, workerFrame, ownerVars, producerVars,
      controlVars
  <2>5. CASE ApplyCommand
    BY <2>5 DEF ApplyCommand, workerFrame, ownerVars, producerVars, controlVars
  <2>6. CASE TakeNotice
    BY <2>6 DEF TakeNotice, workerFrame, ownerVars, producerVars, controlVars
  <2>7. CASE PickNothing
    BY <2>7 DEF PickNothing, workerFrame, ownerVars, producerVars, controlVars
  <2>8. CASE PickFrame
    BY <2>8 DEF PickFrame, workerFrame, ownerVars, producerVars, controlVars
  <2>9. CASE ProcessFrame
    BY <2>9 DEF ProcessFrame, workerFrame, ownerVars, producerVars, controlVars,
      Bump
  <2>10. CASE PublishOutput
    BY <2>10 DEF PublishOutput, workerFrame, ownerVars, producerVars, controlVars
  <2>11. CASE DropOutput
    BY <2>11 DEF DropOutput, workerFrame, ownerVars, producerVars, controlVars,
      Bump
  <2>12. CASE ReleaseInput
    BY <2>12 DEF ReleaseInput, workerFrame, ownerVars, producerVars, controlVars
  <2>13. CASE Exit
    BY <2>13 DEF Exit, workerFrame, ownerVars, producerVars, controlVars
  <2>. QED
    BY <1>5, <2>1, <2>2, <2>3, <2>4, <2>5, <2>6, <2>7, <2>8, <2>9, <2>10, <2>11,
      <2>12, <2>13 DEF Worker
<1>. QED
  BY <1>1, <1>2, <1>3, <1>4, <1>5 DEF Next

-----------------------------------------------------------------------------
\* A step that changes nothing keeps the invariant.
LEMMA StutterStep ==
    ASSUME RuntimeInv, UNCHANGED vars
    PROVE  RuntimeInv'
<1>. USE DEF vars
<1>1. TypeOK' /\ Lifecycle' /\ LedgerBalances'
  BY DEF RuntimeInv, TypeOK, Lifecycle, LedgerBalances
<1>2. RingsBounded'
  BY DEF RuntimeInv, RingsBounded, InputLen, OutputLen, InFrame
<1>3. NoLostWakeup'
  BY DEF RuntimeInv, NoLostWakeup, FrameHasToken, CommandHasToken, NoticeHasToken,
         Coming, TokensNeeded, Unstarted, WillStart, WillServe, MustLeave, InFrame,
         InputLen
<1>. QED
  BY <1>1, <1>2, <1>3 DEF RuntimeInv

\* The stopped, empty runtime that ap_runtime_open leaves.
LEMMA InitEstablishes == Init => RuntimeInv
<1>. SUFFICES ASSUME Init PROVE RuntimeInv
  OBVIOUS
<1>. USE SizeAssumption DEF Init
<1>1. TypeOK
  <2>1. count \in [Counters -> Nat]
    OBVIOUS
  <2>2. wake \in 0 .. SemMax /\ pendingInputFull \in 0 .. PendingMax
    OBVIOUS
  <2>3. opc \in OwnerPc /\ wpc \in WorkerPc /\ ppc \in ProducerPc
    BY DEF OwnerPc, WorkerPc, ProducerPc
  <2>. QED
    BY <2>1, <2>2, <2>3 DEF TypeOK
<1>5. Lifecycle
  BY DEF Lifecycle
<1>2. RingsBounded
  BY DEF RingsBounded, InputLen, OutputLen, InFrame
<1>3. NoLostWakeup
  BY DEF NoLostWakeup, FrameHasToken, CommandHasToken, NoticeHasToken, Coming,
         TokensNeeded, Unstarted, WillStart, WillServe, MustLeave, InFrame, InputLen, One
<1>4. LedgerBalances
  BY DEF LedgerBalances, Counters, One
<1>. QED
  BY <1>1, <1>2, <1>3, <1>4, <1>5 DEF RuntimeInv

\* The inductive invariant behind every theorem below: types, the protocol of
\* worker_state, the bounds of the rings, the tokens and the ledger of
\* ap_runtime.c hold in every reachable state.
THEOREM RuntimeInvariant == Spec => []RuntimeInv
<1>1. RuntimeInv /\ [Next]_vars => RuntimeInv'
  <2>. SUFFICES ASSUME RuntimeInv, Next \/ UNCHANGED vars PROVE RuntimeInv'
    OBVIOUS
  <2>1. CASE Next
    BY <2>1, TypeStep, LifecycleStep, RingsStep, WakeupStep, LedgerStep DEF RuntimeInv
  <2>2. CASE UNCHANGED vars
    BY <2>2, StutterStep
  <2>. QED
    BY <2>1, <2>2
<1>. QED
  BY <1>1, InitEstablishes, PTL DEF Spec

\* No counter, ring length or semaphore value ever leaves the range of its C
\* type.
THEOREM RuntimeTypeCorrect == Spec => []TypeOK
<1>1. RuntimeInv => TypeOK
  BY DEF RuntimeInv
<1>. QED
  BY <1>1, RuntimeInvariant, PTL

\* worker_state of ap_runtime.c says who runs: no worker exists while it is
\* STOPPED, and exactly one, not on its way out, once RUNNING has a thread.
THEOREM RuntimeLifecycle == Spec => []Lifecycle
<1>1. RuntimeInv => Lifecycle
  BY DEF RuntimeInv
<1>. QED
  BY <1>1, RuntimeInvariant, PTL

\* The owner's direct use of the pipeline, and the resync in start, never
\* overlap with a worker thread.
THEOREM PipelineHasOneUser == Spec => []PipelineOwnership
<1>1. RuntimeInv => PipelineOwnership
  BY DEF RuntimeInv, TypeOK, Lifecycle, PipelineOwnership
<1>. QED
  BY <1>1, RuntimeInvariant, PTL

\* The input, output and command rings of ap_runtime.c never overflow and never
\* underflow, across stop and restart.
THEOREM RuntimeRingsBounded == Spec => []RingsBounded
<1>1. RuntimeInv => RingsBounded
  BY DEF RuntimeInv
<1>. QED
  BY <1>1, RuntimeInvariant, PTL

\* The worker never sleeps on a frame, a command, a notice or a stop: the
\* semaphore holds, or a running call still owes it, a token for each.
THEOREM NoWakeupIsLost == Spec => []NoLostWakeup
<1>1. RuntimeInv => NoLostWakeup
  BY DEF RuntimeInv
<1>. QED
  BY <1>1, RuntimeInvariant, PTL

\* submitted, processed, failed, published and dropped agree on every frame.
THEOREM RuntimeLedgerBalances == Spec => []LedgerBalances
<1>1. RuntimeInv => LedgerBalances
  BY DEF RuntimeInv
<1>. QED
  BY <1>1, RuntimeInvariant, PTL

\* No refusal is lost on its way to an INPUT_QUEUE_FULL event: the reported and
\* the pending never exceed the refused, and equal them below saturation.
THEOREM RuntimeRefusalsConserved == Spec => []RefusalsConserved
<1>1. Init => RefusalInv
  BY SizeAssumption DEF Init, RefusalInv, RefusalsConserved, Counters, One
<1>2. RuntimeInv /\ RefusalInv /\ [Next]_vars => RefusalInv'
  <2>. SUFFICES ASSUME RuntimeInv, RefusalInv, Next \/ UNCHANGED vars PROVE RefusalInv'
    OBVIOUS
  <2>1. CASE Next
    BY <2>1, RefusalStep
  <2>2. CASE UNCHANGED vars
    BY <2>2 DEF vars, RefusalInv, RefusalsConserved
  <2>. QED
    BY <2>1, <2>2
<1>3. RefusalInv => RefusalsConserved
  BY DEF RefusalInv
<1>. QED
  BY <1>1, <1>2, <1>3, RuntimeInvariant, PTL DEF Spec

\* Every frame and every refusal is accounted for.
THEOREM RuntimeFramesAccounted == Spec => []FramesAccounted
<1>1. LedgerBalances /\ RefusalsConserved => FramesAccounted
  BY DEF FramesAccounted
<1>. QED
  BY <1>1, RuntimeLedgerBalances, RuntimeRefusalsConserved, PTL
=============================================================================
