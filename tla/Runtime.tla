------------------------------ MODULE Runtime ------------------------------
(***************************************************************************)
(* The threads of ap_runtime.c and the one semaphore that joins them: the  *)
(* capture producer (submit_frame), the control producer (command), the    *)
(* output consumer (receive), the owner (start, stop, direct use of the    *)
(* pipeline while stopped) and the worker.  The rings are those of         *)
(* SpscRing, here reduced to how many items have entered and left them;    *)
(* frames are numbered in the order they are accepted, so the input ring   *)
(* holds the frames completed + 1 .. accepted.                             *)
(*                                                                         *)
(* Every sem_post gives the worker one token; a token lets it drain the    *)
(* commands once and start at most one frame.  Lifecycle calls are made by *)
(* one owner at a time (API_CONTRACT.md), so start and stop do not race    *)
(* each other; every other call runs at any moment.                        *)
(***************************************************************************)
EXTENDS Integers

CONSTANTS Depth,       \* AP_RT_DEPTH, of the input and of the output ring
          CmdDepth,    \* AP_RUNTIME_COMMAND_QUEUE_DEPTH
          SemMax,      \* SEM_VALUE_MAX: a post beyond it fails and is ignored
          PendingMax,  \* UINT32_MAX, where the pending notice saturates
          MaxFrames,   \* bound: frames the producer gets accepted
          MaxRejects   \* bound: submits that are refused

ASSUME SizeAssumption ==
    /\ Depth \in Nat \ {0} /\ CmdDepth \in Nat \ {0}
    /\ PendingMax \in Nat \ {0}
    /\ SemMax \in Nat /\ Depth < SemMax
    /\ MaxFrames \in Nat /\ MaxRejects \in Nat

VARIABLES workerState,      \* worker_state
          wake,             \* value of the semaphore
          opc,              \* owner: where it is in start, stop or direct use
          wpc,              \* worker thread: "none" before create, "done" after return
          drainLeft,        \* commands left of the head snapshot of this drain
          room,             \* the worker saw a free output slot when it picked the frame
          accepted,         \* in_head: frames accepted
          completed,        \* in_tail: frames the worker is done with
          published,        \* out_head: outputs published
          received,         \* out_tail: outputs taken by the consumer
          cmdLen,           \* command_head - command_tail
          pendingInputFull, \* pending_input_full
          ppc,              \* capture producer: where it is in submit_frame
          cpc,              \* control producer: where it is in ap_runtime_command
          count             \* the diagnostic counters

ownerVars == <<workerState, opc>>
workerVars == <<wpc, drainLeft, room, completed, published>>
producerVars == <<accepted, ppc>>
controlVars == <<cpc>>
vars == <<workerState, wake, opc, wpc, drainLeft, room, accepted,
          completed, published, received, cmdLen, pendingInputFull, ppc, cpc,
          count>>

\* submitted_frames, input_full_events, processed_frames, failed_frames,
\* output_drop_events, and the sum of the counts of INPUT_QUEUE_FULL events.
Counters == {"submitted", "refused", "processed", "failed", "dropped", "reported"}

\* sem_post, whose result every caller ignores.
Post == wake' = IF wake < SemMax THEN wake + 1 ELSE wake

InputLen == accepted - completed
OutputLen == published - received

Bump(c) == count' = [count EXCEPT ![c] = @ + 1]

Init ==
    /\ workerState = "STOPPED" /\ opc = "idle" /\ wpc = "none"
    /\ wake = 0 /\ drainLeft = 0 /\ room = FALSE
    /\ accepted = 0 /\ completed = 0 /\ published = 0 /\ received = 0
    /\ cmdLen = 0 /\ pendingInputFull = 0
    /\ ppc = "idle" /\ cpc = "idle"
    /\ count = [c \in Counters |-> 0]

-----------------------------------------------------------------------------
(* The capture producer: ap_runtime_submit_frame.                          *)

\* Loads in_tail; the decision it takes may be stale by the next step.
LoadInput ==
    /\ ppc = "idle"
    /\ IF InputLen < Depth
       THEN accepted < MaxFrames /\ ppc' = "fill"
       ELSE count["refused"] < MaxRejects /\ ppc' = "refuse"
    /\ UNCHANGED <<ownerVars, workerVars, wake, accepted, received, cmdLen,
                   pendingInputFull, controlVars, count>>

PushFrame ==
    /\ ppc = "fill"
    /\ accepted' = accepted + 1
    /\ ppc' = "count"
    /\ UNCHANGED <<ownerVars, workerVars, wake, received, cmdLen,
                   pendingInputFull, controlVars, count>>

CountFrame ==
    /\ ppc = "count"
    /\ Bump("submitted")
    /\ ppc' = "post"
    /\ UNCHANGED <<ownerVars, workerVars, wake, accepted, received, cmdLen,
                   pendingInputFull, controlVars>>

CountRefusal ==
    /\ ppc = "refuse"
    /\ Bump("refused")
    /\ ppc' = "notice"
    /\ UNCHANGED <<ownerVars, workerVars, wake, accepted, received, cmdLen,
                   pendingInputFull, controlVars>>

\* Mutants of RaiseNotice: a flag instead of a count, and a wakeup only for a
\* notice that finds one pending.
RaiseFlag ==
    /\ ppc = "notice"
    /\ pendingInputFull' = 1
    /\ ppc' = IF pendingInputFull = 0 THEN "post" ELSE "idle"
    /\ UNCHANGED <<ownerVars, workerVars, wake, accepted, received, cmdLen,
                   controlVars, count>>

\* The compare-and-swap loop: saturate, and wake the worker only for the
\* notice that finds none pending.
RaiseNotice ==
    /\ ppc = "notice"
    /\ pendingInputFull' = IF pendingInputFull < PendingMax
                           THEN pendingInputFull + 1 ELSE pendingInputFull
    /\ ppc' = IF pendingInputFull = 0 THEN "post" ELSE "idle"
    /\ UNCHANGED <<ownerVars, workerVars, wake, accepted, received, cmdLen,
                   controlVars, count>>

PostFrame ==
    /\ ppc = "post"
    /\ Post
    /\ ppc' = "idle"
    /\ UNCHANGED <<ownerVars, workerVars, accepted, received, cmdLen,
                   pendingInputFull, controlVars, count>>

-----------------------------------------------------------------------------
(* The control producer and the output consumer.                           *)

\* ap_runtime_command of a valid command: a full ring refuses it.
LoadCommand ==
    /\ cpc = "idle" /\ cmdLen < CmdDepth
    /\ cpc' = "fill"
    /\ UNCHANGED <<ownerVars, workerVars, wake, producerVars, received, cmdLen,
                   pendingInputFull, count>>

PushCommand ==
    /\ cpc = "fill"
    /\ cmdLen' = cmdLen + 1
    /\ cpc' = "post"
    /\ UNCHANGED <<ownerVars, workerVars, wake, producerVars, received,
                   pendingInputFull, count>>

\* Mutant of PostCommand: leave the command for the next frame to drain.
PostNothing ==
    /\ cpc = "post"
    /\ cpc' = "idle"
    /\ UNCHANGED <<ownerVars, workerVars, wake, producerVars, received, cmdLen,
                   pendingInputFull, count>>

PostCommand ==
    /\ cpc = "post"
    /\ Post
    /\ cpc' = "idle"
    /\ UNCHANGED <<ownerVars, workerVars, producerVars, received, cmdLen,
                   pendingInputFull, count>>

Receive ==
    /\ OutputLen > 0
    /\ received' = received + 1
    /\ UNCHANGED <<ownerVars, workerVars, wake, producerVars, cmdLen,
                   pendingInputFull, controlVars, count>>

-----------------------------------------------------------------------------
(* The owner: ap_runtime_start, ap_runtime_stop, and the direct calls to   *)
(* the pipeline that the contract allows while the runtime is stopped.     *)

ownerFrame == UNCHANGED <<drainLeft, room, completed, published,
                          producerVars, received, cmdLen, pendingInputFull,
                          controlVars, count>>

BeginUse ==
    /\ opc = "idle" /\ workerState = "STOPPED"
    /\ opc' = "using"
    /\ UNCHANGED <<workerState, wake, wpc>> /\ ownerFrame

EndUse ==
    /\ opc = "using"
    /\ opc' = "idle"
    /\ UNCHANGED <<workerState, wake, wpc>> /\ ownerFrame

\* The state check, then the two resyncs, which read the pipeline.
StartCheck ==
    /\ opc = "idle" /\ workerState = "STOPPED"
    /\ opc' = "resync"
    /\ UNCHANGED <<workerState, wake, wpc>> /\ ownerFrame

\* resync_tuning_projection refuses, or the state is claimed.
StartRefuse ==
    /\ opc = "resync"
    /\ opc' = "idle"
    /\ UNCHANGED <<workerState, wake, wpc>> /\ ownerFrame

StartClaim ==
    /\ opc = "resync" /\ workerState = "STOPPED"
    /\ workerState' = "RUNNING"
    /\ opc' = "create"
    /\ UNCHANGED <<wake, wpc>> /\ ownerFrame

CreateThread ==
    /\ opc = "create"
    /\ wpc' = "setup"
    /\ opc' = "idle"
    /\ UNCHANGED <<workerState, wake>> /\ ownerFrame

\* pthread_attr_setstacksize or pthread_create failed.
CreateFails ==
    /\ opc = "create"
    /\ workerState' = "STOPPED"
    /\ opc' = "idle"
    /\ UNCHANGED <<wake, wpc>> /\ ownerFrame

StopClaim ==
    /\ opc = "idle" /\ workerState = "RUNNING"
    /\ workerState' = "STOPPING"
    /\ opc' = "stopPost"
    /\ UNCHANGED <<wake, wpc>> /\ ownerFrame

\* Mutant of StopPost: rely on the tokens of queued work to wake the worker.
StopSilently ==
    /\ opc = "stopPost"
    /\ opc' = "join"
    /\ UNCHANGED <<workerState, wake, wpc>> /\ ownerFrame

StopPost ==
    /\ opc = "stopPost"
    /\ Post
    /\ opc' = "join"
    /\ UNCHANGED <<workerState, wpc>> /\ ownerFrame

\* Mutant of Join: a detached worker is not waited for.
JoinNobody ==
    /\ opc = "join"
    /\ opc' = "joined"
    /\ UNCHANGED <<workerState, wake, wpc>> /\ ownerFrame

Join ==
    /\ opc = "join" /\ wpc = "done"
    /\ wpc' = "none"
    /\ opc' = "joined"
    /\ UNCHANGED <<workerState, wake>> /\ ownerFrame

StopDone ==
    /\ opc = "joined"
    /\ workerState' = "STOPPED"
    /\ opc' = "idle"
    /\ UNCHANGED <<wake, wpc>> /\ ownerFrame

-----------------------------------------------------------------------------
(* The worker thread.                                                      *)

workerFrame == UNCHANGED <<ownerVars, producerVars, received, controlVars>>

Setup ==
    /\ wpc = "setup"
    /\ wpc' = "wait"
    /\ UNCHANGED <<wake, drainLeft, room, completed, published,
                   cmdLen, pendingInputFull, count>> /\ workerFrame

TakeToken ==
    /\ wpc = "wait" /\ wake > 0
    /\ wake' = wake - 1
    /\ wpc' = "check"
    /\ UNCHANGED <<drainLeft, room, completed, published, cmdLen,
                   pendingInputFull, count>> /\ workerFrame

CheckState ==
    /\ wpc = "check"
    /\ wpc' = IF workerState = "RUNNING" THEN "snapshot" ELSE "exit"
    /\ UNCHANGED <<wake, drainLeft, room, completed, published,
                   cmdLen, pendingInputFull, count>> /\ workerFrame

\* drain_commands loads command_head once: a refilled slot waits its turn.
SnapshotCommands ==
    /\ wpc = "snapshot"
    /\ drainLeft' = cmdLen
    /\ wpc' = "drain"
    /\ UNCHANGED <<wake, room, completed, published, cmdLen,
                   pendingInputFull, count>> /\ workerFrame

\* Mutant of ApplyCommand: apply first and compare the indices afterwards.
ApplyBeforeCheck ==
    /\ wpc = "drain"
    /\ drainLeft' = IF drainLeft > 0 THEN drainLeft - 1 ELSE 0
    /\ cmdLen' = cmdLen - 1
    /\ UNCHANGED <<wake, wpc, room, completed, published,
                   pendingInputFull, count>> /\ workerFrame

ApplyCommand ==
    /\ wpc = "drain" /\ drainLeft > 0
    /\ drainLeft' = drainLeft - 1
    /\ cmdLen' = cmdLen - 1
    /\ UNCHANGED <<wake, wpc, room, completed, published,
                   pendingInputFull, count>> /\ workerFrame

\* Mutant of TakeNotice: drain until the command ring is seen empty.
DrainUntilEmpty ==
    /\ wpc = "drain" /\ drainLeft = 0
    /\ IF cmdLen > 0
       THEN wpc' = "snapshot" /\ UNCHANGED <<pendingInputFull, count>>
       ELSE /\ wpc' = "pick" /\ pendingInputFull' = 0
            /\ count' = [count EXCEPT !["reported"] = @ + pendingInputFull]
    /\ UNCHANGED <<wake, drainLeft, room, completed, published,
                   cmdLen>> /\ workerFrame

\* The exchange with zero, and the event that reports what it took.
TakeNotice ==
    /\ wpc = "drain" /\ drainLeft = 0
    /\ pendingInputFull' = 0
    /\ count' = [count EXCEPT !["reported"] = @ + pendingInputFull]
    /\ wpc' = "pick"
    /\ UNCHANGED <<wake, drainLeft, room, completed, published,
                   cmdLen>> /\ workerFrame

\* No frame: a token of a command, of a notice or of a frame already done.
PickNothing ==
    /\ wpc = "pick" /\ InputLen = 0
    /\ wpc' = "wait"
    /\ UNCHANGED <<wake, drainLeft, room, completed, published,
                   cmdLen, pendingInputFull, count>> /\ workerFrame

\* Loads out_tail once: room is how the output ring looked at that moment.
PickFrame ==
    /\ wpc = "pick" /\ InputLen > 0
    /\ room' = (OutputLen < Depth)
    /\ wpc' = "process"
    /\ UNCHANGED <<wake, drainLeft, completed, published, cmdLen,
                   pendingInputFull, count>> /\ workerFrame

\* Metadata, push_render and process_capture: any of them may fail.
ProcessFrame ==
    /\ wpc = "process"
    /\ Bump("failed") \/ Bump("processed")
    /\ wpc' = "publish"
    /\ UNCHANGED <<wake, drainLeft, room, completed, published, cmdLen,
                   pendingInputFull>> /\ workerFrame

PublishOutput ==
    /\ wpc = "publish" /\ room
    /\ published' = published + 1
    /\ wpc' = "release"
    /\ UNCHANGED <<wake, drainLeft, room, completed, cmdLen,
                   pendingInputFull, count>> /\ workerFrame

\* Mutant of DropOutput: the drop is not counted.
DropSilently ==
    /\ wpc = "publish" /\ ~room
    /\ wpc' = "release"
    /\ UNCHANGED <<wake, drainLeft, room, completed, published,
                   cmdLen, pendingInputFull, count>> /\ workerFrame

DropOutput ==
    /\ wpc = "publish" /\ ~room
    /\ Bump("dropped")
    /\ wpc' = "release"
    /\ UNCHANGED <<wake, drainLeft, room, completed, published,
                   cmdLen, pendingInputFull>> /\ workerFrame

ReleaseInput ==
    /\ wpc = "release"
    /\ completed' = completed + 1
    /\ wpc' = "wait"
    /\ UNCHANGED <<wake, drainLeft, room, published, cmdLen,
                   pendingInputFull, count>> /\ workerFrame

Exit ==
    /\ wpc = "exit"
    /\ wpc' = "done"
    /\ UNCHANGED <<wake, drainLeft, room, completed, published,
                   cmdLen, pendingInputFull, count>> /\ workerFrame

-----------------------------------------------------------------------------
FinishSubmit == PushFrame \/ CountFrame \/ CountRefusal \/ RaiseNotice \/ PostFrame
Submit == LoadInput \/ FinishSubmit
FinishCommand == PushCommand \/ PostCommand
Control == LoadCommand \/ FinishCommand
FinishLifecycle == \/ EndUse \/ StartClaim \/ StartRefuse \/ CreateThread \/ CreateFails
                   \/ StopPost \/ Join \/ StopDone
Owner == BeginUse \/ StartCheck \/ StopClaim \/ FinishLifecycle
Worker == \/ Setup \/ TakeToken \/ CheckState \/ SnapshotCommands \/ ApplyCommand
          \/ TakeNotice \/ PickNothing \/ PickFrame \/ ProcessFrame
          \/ PublishOutput \/ DropOutput \/ ReleaseInput \/ Exit

Next == Submit \/ Control \/ Receive \/ Owner \/ Worker

\* Every thread that is inside a call, and the worker, is scheduled again;
\* nobody is obliged to call anything.
Fairness == /\ WF_vars(Worker)
            /\ WF_vars(FinishSubmit)
            /\ WF_vars(FinishCommand)
            /\ WF_vars(FinishLifecycle)

Spec == Init /\ [][Next]_vars
FairSpec == Spec /\ Fairness

-----------------------------------------------------------------------------
OwnerPc == {"idle", "using", "resync", "create", "stopPost", "join", "joined"}
WorkerPc == {"none", "setup", "wait", "check", "snapshot", "drain", "pick",
             "process", "publish", "release", "exit", "done"}
ProducerPc == {"idle", "fill", "count", "post", "refuse", "notice"}

\* The state is one the C types can hold: no counter or ring length underflows.
TypeOK ==
    /\ workerState \in {"STOPPED", "RUNNING", "STOPPING"}
    /\ opc \in OwnerPc /\ wpc \in WorkerPc /\ ppc \in ProducerPc
    /\ cpc \in {"idle", "fill", "post"}
    /\ wake \in 0 .. SemMax
    /\ drainLeft \in Nat /\ cmdLen \in Nat /\ pendingInputFull \in 0 .. PendingMax
    /\ room \in BOOLEAN
    /\ accepted \in Nat /\ completed \in Nat
    /\ published \in Nat /\ received \in Nat
    /\ count \in [Counters -> Nat]

One(b) == IF b THEN 1 ELSE 0

\* API_CONTRACT.md and the comments of resync_tuning_projection: the pipeline
\* belongs to the owner from the moment stop returns until start claims the
\* state, so the owner's direct use never overlaps with a worker thread.
PipelineOwnership == opc \in {"using", "resync"} => wpc = "none"

\* The protocol of worker_state behind it: who may be where in each state.
Lifecycle ==
    /\ workerState = "STOPPED" => opc \in {"idle", "using", "resync"} /\ wpc = "none"
    /\ workerState = "RUNNING" =>
          \/ opc = "create" /\ wpc = "none"
          \/ opc = "idle" /\ wpc \notin {"none", "exit", "done"}
    /\ workerState = "STOPPING" =>
          \/ opc \in {"stopPost", "join"} /\ wpc # "none"
          \/ opc = "joined" /\ wpc = "none"

\* The worker holds a frame it has picked and not yet released.
InFrame == wpc \in {"process", "publish", "release"}

\* Every ring stays within its depth, and a slot seen free is still free when
\* it is used, although each side decided on an index it had loaded earlier.
RingsBounded ==
    /\ InputLen \in 0 .. Depth /\ OutputLen \in 0 .. Depth /\ cmdLen <= CmdDepth
    /\ ppc = "fill" => InputLen < Depth
    /\ cpc = "fill" => cmdLen < CmdDepth
    /\ InFrame => InputLen > 0
    /\ wpc \in {"process", "publish"} /\ room => OutputLen < Depth
    /\ IF wpc = "drain" THEN drainLeft <= cmdLen ELSE drainLeft = 0

\* Tokens in the semaphore or owed to it by a call that is under way.
Coming == wake + One(ppc \in {"count", "post"}) + One(cpc = "post") + One(opc = "stopPost")

\* The token in the worker's hand will drain the commands and start a frame;
\* or the worker has been told to stop and needs one more token to leave.
WillServe == wpc = "snapshot" \/ (wpc = "check" /\ workerState = "RUNNING")
WillStart == WillServe \/ wpc \in {"drain", "pick"}
MustLeave == workerState = "STOPPING" /\ wpc \notin {"none", "check", "exit", "done"}

Unstarted == InputLen - One(InFrame)
TokensNeeded ==
    One(MustLeave) + (IF WillStart /\ Unstarted > 0 THEN Unstarted - 1 ELSE Unstarted)

\* No lost wakeup: there is a token for every frame that waits and one more for
\* a requested stop, through stops and restarts, spurious wakes and saturation
\* of the semaphore; the worker never sleeps on a frame it could process.
FrameHasToken == Coming >= TokensNeeded

\* The same for a queued command and for a pending INPUT_QUEUE_FULL notice,
\* which share one token with whatever was queued before them.
CommandHasToken ==
    cmdLen > drainLeft => WillServe \/ Coming >= 1 + One(MustLeave)
NoticeHasToken ==
    pendingInputFull > 0 =>
        WillServe \/ wpc = "drain" \/ Coming >= 1 + One(MustLeave)
NoLostWakeup == FrameHasToken /\ CommandHasToken /\ NoticeHasToken

\* The counters an operator reads agree with what happened to the frames: each
\* accepted frame is submitted once, processed or failed once, and published
\* or dropped once, whatever start and stop did in between.
LedgerBalances ==
    /\ count["submitted"] = accepted - One(ppc = "count")
    /\ count["processed"] + count["failed"] = completed + One(wpc \in {"publish", "release"})
    /\ published + count["dropped"] = completed + One(wpc = "release")

\* Aggregation of the INPUT_QUEUE_FULL notices loses none: every refusal is
\* reported or still pending, unless the pending count saturated.
RefusalsConserved ==
    LET told == count["reported"] + pendingInputFull + One(ppc = "notice")
    IN  /\ told <= count["refused"]
        /\ MaxRejects <= PendingMax => told = count["refused"]

\* Both ledgers: every frame offered is processed, dropped, queued or refused, and every refusal
\* reaches the caller or waits to.
FramesAccounted == LedgerBalances /\ RefusalsConserved

\* What the proofs need: with the bound on refusals RefusalsConserved is
\* inductive ...
RefusalInv == RefusalsConserved /\ count["refused"] + One(ppc = "refuse") <= MaxRejects

\* ... and the other properties above are inductive together.
RuntimeInv ==
    /\ TypeOK
    /\ Lifecycle
    /\ RingsBounded
    /\ NoLostWakeup
    /\ LedgerBalances

-----------------------------------------------------------------------------
\* API_CONTRACT.md: stop joins the worker "after the current frame"; neither
\* queued frames nor a control producer that keeps refilling the command ring
\* can hold it back.
StopCompletes == workerState = "STOPPING" ~> workerState = "STOPPED"

\* A runtime that is not stopped any more completes every accepted frame, the
\* ones left queued by an earlier stop included, and gets to every queued
\* command and to every pending notice of refused frames.
FrameServed(n) == accepted >= n ~> completed >= n
CommandServed == cmdLen > 0 ~> drainLeft > 0
NoticeServed == pendingInputFull > 0 ~> pendingInputFull = 0
WorkServed ==
    <>[](workerState = "RUNNING") =>
        (\A n \in 1 .. MaxFrames : FrameServed(n)) /\ CommandServed /\ NoticeServed
=============================================================================
