# TLA+ models of audio-pipeline

This directory specifies, in TLA+, what the audio-pipeline repository decides by
order, by counts, by threads and by what is left over from earlier: the real-time
runtime of the C library, the adaptive control inside the pipeline, and the Python
and workflow automation that measures, qualifies, merges, archives and delivers it.
TLC checks the models on small instances; TLAPS proves most of their safety
properties for every value of the constants. `PROJECT.json` lists the parts of the
system, the runs, the hazards, the theorems, and for each definition the lines of
the source it stands for.

The signal processing itself (filters, transforms, gains) is floating-point
arithmetic and not modelled. In the measuring code a signal or a metric is a small
number, and what is computed from it, compared and passed on is modelled.

"The runtime" is `src/platform/linux/ap_runtime.c` of the repository.

## 1. The system

### The library

| component | state | operations |
|---|---|---|
| SPSC rings: input, output, command, event | head, tail, slots | submit, command, receive, receive_event, and the worker's side |
| worker, lifecycle, wake semaphore | worker state, semaphore, pending notice, counters, thread | open, start, stop, the worker's loop |
| tuning admission | projected AGC pair, queued commands, the pipeline's tuning | validate, queue, apply, rebuild at stop and start |
| overload quality | quality and two streaks | a frame late, in time or failed; SET_QUALITY; RESET |
| flight recorder | frozen, triggered, countdown, ring of records | trigger, record, export, reset |
| 64-bit counters | two words and a sequence number | add, read |
| event plane | event ring, drop counter, critical latch | emit, receive_event, get_critical_state |
| epoch baselines | counters of the last frame reported | compare after a frame, rebase |
| delay tracking | delay, search counter, candidate, drift basis | push render, track, timestamps, reset |
| beamformer route health | route, arm and recovery counts | process in both modes, set_quality, reset |
| pipeline composition, activity, voice activity, AEC, NS, RES, AGC, resampler, kernels | filter state | process |

A capture thread submits frames, a control thread queues commands and reads
events, an output thread receives, an owner starts and stops; all of them meet one
worker over four rings and one counting semaphore. While it runs the worker alone
uses the pipeline; while it is stopped the caller does. The worker applies the
commands, takes one frame, processes it, publishes the output and only then
releases the input slot. On the way it feeds the quality controller, the event
plane, the recorder and the counters, which other threads read without stopping it.

### The automation

| component | source | state | operations |
|---|---|---|---|
| archive finalization | `i015_archive_recovery.py`, `i015_finalize.py` | branch, pull request, checks, receipt | recover, push, open, wait, merge, record |
| branch collectors | `terminal_branch_gc.py`, `research_registry.py` | live refs, list, registry, pull requests | inventory, look again, delete, confirm |
| workflow retirement | `terminal_workflow_retirement.py`, `maintenance_workflow_contract.py`, `acoustic_terminal_registry.py` | records, evidence, workflows over commits | validate a commit, run a trigger |
| evidence transport | `ci_evidence_transport.py` | tree, objects, bundle | pack, download, unpack |
| merge gate | `ci_impact.py`, `ci_failure.py`, `verify.yml` | pull requests, their runs, main | select, run, aggregate, merge |
| pin review | `workflow_pin_pr_consumer.py` and its probe | main, the bot's branch, GitHub's record | read, classify, read again, bind, decide |
| program plan | `scripts/program.py`, `promotion_governance.py` | plan, policy, reviewed documents, runner | validate a commit, run a task |
| validation engine | `run_validation.py`, `run_validation_engine.py`, `authority.py` | corpus, spec, report | evaluate, measure, judge |
| candidate search | the iteration and the optimizers | pool, reports on disk, selection | admit, run, select, hold out, decide |
| blind qualification | the blind and the resume workflows | partitions, runs, artifacts, registry | draw, measure, classify, resume |
| source authority | `source_candidate_authority_v2.py` | contract, policy, lock, runs | qualify, land, execute |
| stage lanes and judges | the AGC, NS, BF and VAD lanes, the VAD patch, its evaluations and confirmations | reports, selection, build | screen, tune, hold out, build, confirm |
| laboratory data | `labctl.py`, the scanners | cache, seal, marked trees, manifest | materialize, adopt, scan, build |
| public data | `prepare_public_validation.py`, `dataset_lock.py`, the builders, the comparison | lock, cache, seal, corpora | prepare, bootstrap, verify, build, compare |
| corpora | the hosted and generated builders, the compaction | archives, document, cases, manifests | materialize, build, compact |
| soak on a board | `hil-soak.yml`, `hil_board.py` and its tools | board file, /tmp, evidence directory | dispatch ... upload |
| SDK delivery | `ssc305_delivery.py`, `resource-gates.yml` | build tree, output directory, manifest | reference, endurance, seal, verify |
| recovery studies | `aec_*recovery*.py` | the file of each seed | run a seed, aggregate |

Not modelled: the diagnostic studies that only compute over finished reports,
device experiments, readers of dump files and records, static checks of the
documentation and of the public surface, and the test suites (section 7).

These programs run as jobs of a server, one after the other or at once, over
branches, caches, artifacts and directories that other jobs and people change
between any two of their steps. They talk through files: a lock, a seal, a marker, a
manifest, a report. What a program trusts is what an earlier one wrote, and it
may have been another one.

### What is hard about it

* Indices read early and used late, which wrap after 2^32 items; one semaphore
  for four kinds of work, with refusals coalesced and tokens that outlive a stop.
* A command admitted now and applied later, with a stop, direct changes by the
  caller and a start in between.
* Sequence locks over halves that become visible in either order; a recorder
  trigger of several steps with the worker recording between them.
* Fault counters that start over in the pipeline while the worker compares; streaks,
  confirmations and drift intervals that must not survive what invalidates them.
* Jobs that die between two requests and find at the next start what they left.
* Look and act apart: a branch pushed to between the look and the delete, main
  moving between the check and the merge, inputs hashed after they were used.
* Leftovers taken for results: reports in an output directory, an evidence
  directory that is not emptied, a marker before a removal that died, a checkout
  reused because it is there, a document older than the tree it describes.
* Retries and resumes that must not draw a second blind partition, nor count a
  missing report as an answer.
* Chains of commits each of which passes by itself.
* Boundaries: zero streaks, the last held frame, window geometries, remainders
  of domains, missing values in comparisons.

### What makes each part correct

* Rings: no slot shared, whole items in order, never more than the depth.
* Runtime: one user of the pipeline, work always has a wakeup, stop returns, each
  frame accounted for once.
* Admission: what is admitted is accepted, what is acceptable is admitted, start
  refuses only what the worker would.
* Adaptation: every move earned by its whole evidence, and it settles.
* Recorder, events, counters: a dump is what led to its trigger, each event is
  delivered or counted, each read is one true value.
* Epochs: each fault and each convergence announced once, in its own epoch.
* Repository jobs: what is merged, deleted, retired or skipped was verified as it
  was then, and the jobs end.
* Judges and searches: a verdict is about the inputs it names and follows from whole
  evidence; what is frozen earned it against the baseline.
* Data: what a manifest, seal or marker names is what was used.

`PROJECT.json` places every hazard at its line, with the properties that would
catch it.

## 2. The modules

One module per component. Modules named `MC_...` put several components into one
run: **a behaviour of such a run is one of a single component**, chosen at the start
by the variable `which`; the components share nothing, the state of the others is
pinned to a value no action reads, and each property speaks of its own component.
This is a disjoint sum, not a composition: it adds the state spaces and multiplies
nothing. The theorems about `MC_...` specifications therefore hold for each
component by itself. Where components do interact the interaction is inside one
module: the worker with its callers in `Runtime`, the pipeline with the worker in
`PipelineEpoch`, latch, recorder trigger and ring in `EventPlane`, the two
collectors in `BranchGc`, lane, patch and judge in `VadHold` / `VadConfirmation`.

| module | models | run | proofs |
|---|---|---|---|
| `BoundedFifo`, `SpscRing` | the queue a ring promises; the protocol with stale index copies and split slot accesses | `channels` | `ChannelProofs` |
| `TuningProjection` | admission across stop and start | `channels` | `ChannelProofs` |
| `PipelineEpoch` | the pipeline's counters and convergence against the worker's baselines | `channels` | `PipelineEpochProofs` |
| `Counter64` | the split counter | `channels` | `ChannelProofs` |
| `FlightRecorder` | recorder, two triggers, worker, control thread | `channels` | `ChannelProofs` |
| `EventPlane` | emission, ring, latch, readers | `channels` | `ChannelProofs` |
| `Runtime` | all threads over the semaphore | `runtime` | `RuntimeProofs` |
| `MC_RuntimeOverload` | `Runtime` under a producer that outruns the worker | `rejection_backlog` | |
| `OverloadQuality` | the quality controller | `quality` | `QualityProofs` |
| `BeamformerHealth` | route health | `quality` | `QualityProofs` |
| `SyncDelay` | delay tracking | `quality` | `QualityProofs` |
| `EvidenceTransport` | pack and unpack | `gate` | `GateProofs` |
| `VerifyGate` | selection, aggregation, versions, merge | `gate` | `GateProofs` |
| `PinScope` | the probe between two moving branches | `gate` | `GateProofs` |
| `ProgramPlan` | accepted edits and what the runner starts | `gate` | `GateProofs` |
| `EvidenceFinalization` | the archive job | `repository` | `RepositoryProofs` |
| `BranchGc` | both collectors | `repository` | `RepositoryProofs` |
| `WorkflowRetirement` | retirement, contract, registry over commits | `repository` | `RepositoryProofs` |
| `AcousticValidation` | one validation run | `research` | `ResearchProofs` |
| `CandidateSearch` | the three searches and the curriculum | `research` | `ResearchProofs` |
| `BlindQualification` | draw, measurement, verdict, resume | `research` | `ResearchProofs` |
| `SourceAuthority` | qualification, lock, execution | `research` | `ResearchProofs` |
| `VadHold`, `VadConfirmation` | hold rules, patches, judges | `evidence` | `EvidenceProofs` |
| `StageLane` | ranking, tuning, holdouts, build, confirmation | `evidence` | `EvidenceProofs` |
| `LabData`, `PublicData`, `Corpora` | data from archive to corpus | `evidence` | `EvidenceProofs` |
| `HilEvidence`, `Delivery` | the board job; the SDK and its endurance run | `evidence` | `EvidenceProofs` |
| `RecoveryStudy` | windows, holds, seeds, aggregates | `evidence` | `EvidenceProofs` |

Constants stand for sizes of the code (`AP_RT_DEPTH` is `Depth`, 2^32 is `IndexSpan`
or `WordSpan`, `SEM_VALUE_MAX` is `SemMax`); those named `Max...` that a comment
calls a bound only keep the state space finite. Variables for the properties alone
are marked as history. Operators commented "Mutant of" are plausible mistakes in the
definition below them; no specification uses them, each breaks a property, and they
show what the property protects.

### State and actions against the code

* **SpscRing.** `head`, `tail`, `slots` are shared; `ptail`, `chead` the copies in the
  C functions. `LoadTail`, `Refuse`, `BeginWrite`, `Publish` are a producer's call,
  `LoadHead`, `Empty`, `BeginRead`, `Release` a consumer's. A slot is `Torn` between
  the beginning of its copy and the publication.
* **Runtime.** Each value of a program counter is a place where another thread can
  observe something: between the index store and the counter, between the counter
  and the post, between the claim of the state and the thread's creation. Rings are
  counts, justified by `SpscRing`. The compare-and-swap loop on pending notices is
  one step, because a failed exchange changes nothing.
* **TuningProjection.** `Validate` is the control call up to its decision, `PushCommand`
  the rest; a stop may complete in between and the owner may tune the pipeline
  directly. `Replay` over the queue is the loop of the resynchronisation in closed
  form: each field is what the last command naming it says. Fields other than the AGC
  pair are validated alone, so one stands for all.
* **PipelineEpoch.** `metrics` is the part of `ap_metrics_t` the worker compares,
  `base` its comparators. A frame whose push or capture fails applies its metadata
  and reports nothing (`BadFrame`). While stopped the application may process frames,
  notify boundaries and reset.
* **FlightRecorder.** The trigger is the four steps of the code, recording four, reset
  three stores. The application is assumed to call reset only on a frozen
  recorder and not during an export: no header states this, but count and position
  are plain memory the worker uses until the recorder is frozen.
* **Counter64.** The fences order the halves after and before the sequence number, and
  leave the order between the halves open.
* **SyncDelay.** A search finds any admissible peak, weak, ambiguous or unique. The
  floating credit of the drift is any number of slips up to four in either direction.
* **BeamformerHealth.** An observation is the verdict of the coherence, energy and
  roughness tests and the stronger channel.
* **EvidenceFinalization, BranchGc, PinScope.** Every request to the server is a step;
  what people, the bot and the checks do comes between any two of them. A commit of
  main is its index, a head the number of its push.
* **EvidenceTransport.** One read of a file is one step, because the inventory looks at
  its metadata before and after; a file that returns to an earlier content in between
  is not told apart by the code, and not used by the model either.
* **VerifyGate.** A path is its class; `Selected` is the job conditions of `verify.yml`
  and `ci_impact.py`, `Impact` the analysis with the version rule, `Summary` the
  aggregate, `Merge` the strict squash.
* **ProgramPlan, WorkflowRetirement.** A commit may edit any reviewed field; what the
  checks accept of it is translated check by check. One path stands for each
  collection.
* **AcousticValidation.** Segments, alignment, improvements, percentiles, case and
  corpus verdicts over signals of three samples; `Evaluate` and `WriteReport` are
  apart because the inputs are hashed by the second.
* **CandidateSearch.** One pool of workers over three strategies: `Admit` generates the
  candidates, `StartTask`, `FinishTask`, `CrashTask` are the pool, reports are
  files on `disk` that may be there before; `Select` and `Decide` are the ranking and
  the holdouts. The curriculum is a function of a search that has decided.
* **BlindQualification, SourceAuthority.** Each job is a record with its program
  counter; a re-run keeps its run's id. `parts[i]` is what a whole evaluation of a
  partition would show, so that what a job concludes can be compared with it.
* **VadHold, VadConfirmation.** All rules hear the same probabilities; only the range a
  probability falls into matters. The judges run the shipping and the candidate build
  over labelled frames; percentages are compared as fractions.
* **StageLane.** Four kinds of lane, one set of actions; `Regressed`, `Score` and
  `Qualified` take the lane's own rule. A report is its verdict, one metric to raise
  and one to lower, which an AGC may lack. The selections of a lane have thresholds of
  their own: `MinScore` for a new algorithm, `MinTuning` for a tuning.
* **LabData, PublicData, Corpora.** An archive, a revision and a file's content are
  versions, a digest is the version itself. Every download, removal, unpacking, mark,
  seal and build is a step at which the command may die; locks, caches, seals and
  servers change between commands, and in `LabData` during a build. Files that a lock
  names are compared one by one; recordings of other names that a used data root holds
  (`data["stray"]`; `prepare_full_validation.py` 137-143) are left, indexed and counted,
  and pinned by nothing.
* **HilEvidence.** The job's steps in the order of the workflow, over a directory that
  outlives it; those that run `always` run after any failure.
* **Delivery.** A build is what its probe tells of it, a file what it was made from.
  `Configure` writes the generated header and `Build` makes the programs of it, as CMake
  does, and the two may differ in between. Commands die between files, and people run
  the script by hand and take the job up again at any of its commands.
* **RecoveryStudy.** A signal is a row of 50 ms halves with an energy each; every window
  geometry of the studies is measured on it, and the aggregates over the seeds take
  differences.

## 3. The runs

| run | what it shows | bounds |
|---|---|---|
| `runtime` | ownership, wakeups, accounting; stop returns, queued work is served | rings of 1, semaphore 3, 2 frames, 2 refusals; starts and stops unbounded |
| `channels` | rings and their refinement of `BoundedFifo`, admission, epochs, counters, recorder, events | ring of 4 in an index space of 8; 2 commands of 3 levels; 2 frames to converge, 2 faults of each kind; words of 3, sequence of 6; pre- and post-roll 1, 7 frames; event ring of 2, 3 events |
| `quality` | the controller, the route, the delay: moves earned, adaptation settles | recovery after 4 frames; delays 0, 14, 16, jump limit 10, search every 2 frames, rollover at 5 |
| `gate` | transport, gate, pins, plan | 2 files of 2 contents, 2 runs; 3 pull requests, versions to 3; 2 sites, 2 reviews, 2 pushes; 3 commits of the plan |
| `repository` | archive, collectors, retirement; jobs that people keep starting come to an end | main to 2, one act of people, one failure; 2 branches, 2 pushes, 2 edits, 1 pull request, 1 crash; 2 commits |
| `research` | validation, search, qualification, authority; a search ends unless a measurement never does | 2 cases of 3 samples, 14 search set-ups, 2 workers; 2 jobs, 1 fault; pools of 2, 2 dispatches, 1 edit |
| `evidence` | hold rules and judges, lanes, data, corpora, soak, delivery, studies | 5 frames; 1 alternative, thresholds 2 and 1; 2 versions, 1 change and 1 death (2 changes for corpora); 3 boards, 2 jobs; 2 commits, 2 configurations, 1 command by hand (`MaxAgain`); 6 halves, 2 seeds |
| `rejection_backlog` ... `index_unsealed` | the five findings of section 6 | as the run they belong to |

### Why the bounds are enough

The proofs remove the bounds for the properties section 5 names; for the rest, and
as a check that a proof is not about nothing:

* A ring of four in an index space of eight wraps its index twice as often as its
  slots and has room for a stale copy at every distance.
* Two queued commands are the shortest sequence in which the second depends on the
  first; three levels hold valid pairs, invalid pairs and values out of range.
* In `runtime` the second frame is refused while the first is in the worker, two
  refusals coalesce into one notice, three tokens saturate the semaphore.
* A recovery threshold of four is longer than the overload streak of three. Two frames
  to converge tell a first ERLE from convergence. Seven frames let a recorder of
  three slots wrap, freeze, be reset and freeze again. Three events overfill a ring
  of two. Additions up to eight carry and wrap in words of three. The one named
  bound of `Counter64`: the sequence does not come all the way round (2^32 steps in
  the code) during one read.
* The delays agree exactly, agree within the tolerance, are a jump apart, and lie at
  both edges.
* Three pull requests are a base, one that moves it and one that is checked on the
  moved base; two reviews of pins are a previous and a current one.
* Two branches let one depend on the other; one push after the last look is what the
  collectors cannot see.
* Two jobs are a first and a resumed or racing one. Fourteen set-ups of the search
  are the three modes with the strategies, gates, leftovers and terminated
  candidates that take different branches.
* Five frames hold a weak onset, a strong frame, a hold that freezes and runs out.
  Two versions tell "the same" from "another"; edits back and forth need two changes,
  which `Corpora` has. `PublicData` builds two corpora per behaviour, a baseline and a
  candidate's.
* Six halves hold two windows of each geometry beside one that is held.

Deadlock is checked where the system never stops (`runtime`, `channels`, `quality`,
`rejection_backlog`, `tuning_no_agc`). The other runs end on purpose: a decision is
made, a job is done, or the bound on outside events is reached.

### Fairness

* `Runtime`: weak fairness of the worker and of every thread inside a call of the
  library: POSIX scheduling of runnable threads, and a pipeline call that returns.
  No thread is obliged to begin a call, and nothing is assumed of the kind of work
  the worker finds.
* `OverloadQuality`, `SyncDelay`: the audio clock keeps delivering frames.
* `EvidenceFinalization`: the requests of a job that runs are answered and the checks of
  its pull request report (weak). The workflow starts by dispatch only, so nothing
  obliges anybody to start it: `Closes` promises a receipt, or something left to a
  person, to those who keep dispatching it for the main of the moment.
* `BranchGc`: a job that has started goes on (weak). The terminal collector has no
  schedule and the scheduled run of the research collector is an audit that deletes
  nothing, so starting a run that deletes is an assumption of the property, not of the
  specification: `Collects` is about people who keep starting one and leave the listed
  branches alone.
* `CandidateSearch`: what the search itself does next, it does (weak). Its
  subprocesses run without a timeout and owe nothing: `SearchEnds` says that the search
  ends, or is at work on a task for ever.

## 4. Types

Every component has one type invariant. It is proved as part of the inductive
invariant where there is a proof, and checked in the runs where it bounds something
the code could get wrong (`DelayTrusted`, `VerdictEarned`).

## 5. The proofs

TLAPS checks every theorem to its leaves, for every value of the constants that the
named assumptions allow. Each proof module extends the specification it is about; the
theorems of an `MC_...` specification prove, per component, the implication
`which = c => Inv` for each step of the sum. Assumptions on constants are named where
the constants are declared, or gathered in the `MC_...` module where a component is
instantiated; TLC evaluates all of them.

The bare property is seldom inductive. What has to be added is the argument why the
code is right, and it is listed here for each part.

**`ChannelProofs`**

* *The ring* (`DepthAssumption`: the depth divides the index span, as powers of two
  do; `TornAssumption`). `RingInv`: each stale copy lies behind the real index by no
  more than there is room or data (`StaleTail`, `StaleHead`); a writer past its
  check has room, a reader past his has data (`RoomToWrite`); every published slot is
  whole. "No slot is shared" says nothing of what a copy taken earlier is still
  worth. The arithmetic is in `SlotPlus` (masking commutes with advance, over the wrap
  too) and `SlotInjective`. `RingImplementsFifo` is the refinement of
  `BoundedFifo`: publication appends, release removes the first, all else stutters.
* *The counter* (`SpanAssumption`). `CounterInv`: what the halves mean during an
  update, how far the sequence has moved since the reader looked, and what the
  reader holds while it has not moved. `SumExact` shows that `new_lo < lo` is the carry
  for every addition.
* *Admission* (`LevelAssumption`, and `HasAgc` as a hypothesis of the theorem: without
  a gain control the property is false, which is finding 2). `AdmissionInv`: while a
  worker exists the projection is what the queue makes of the pipeline's tuning, and
  every prefix of the queue leaves a valid pair. The queue is folded by position: each
  field is what the last command that names it says, and the lemmas about `Replay`
  show how that changes when a command is appended, taken or applied, by the least or
  greatest index and without induction over sequences.
* *The recorder* (`RollAssumption`). `RecInv` = `RecControl` (who may be where, which
  countdown goes with which phase), `RecBuffer` (the slots are the last frames,
  consecutive and ending at the last recorded one) and `RecExport` (what an export
  has copied so far is a prefix of the frozen buffer). That a dump is in order needs
  all three: the buffer does not move because nobody records, and nobody records
  because the control state says so.
* *Events* (`BoundAssumption`). `EventsInv` = types, `RingTypes`, `RingOrder` (what
  was published and not received is the ring, in order), `LatchInv` (which parts of the
  latch agree at which parity of its sequence) and `ReaderInv` (what a reader already
  has is of one update as long as the sequence has not moved).

**`RuntimeProofs`** (`SizeAssumption`, which needs the semaphore's ceiling above the
ring depth). `RuntimeInv` joins types, `Lifecycle`, `RingsBounded`, the token count
behind `NoLostWakeup`, and the ledgers. Wakeups are not inductive as stated: a token
counts only together with the posts that threads between store and post still owe and
with what the worker will look at before it sleeps, and saturation has to be
excluded when the token matters.

**`PipelineEpochProofs`** (`EpochAssumption`). `PipelineInv` adds `ConvergedLag`: the
worker's last convergence differs from the pipeline's only after a boundary which no
frame has followed, with no frame of convergence since. It rules out a convergence
announced twice or passed over. `EpochInv` ties the history to the pipeline while the
worker is stopped and there is nothing else to hold on to. A collapse is told against
an ERLE of the time since the last reset; the one of before a start is excluded only if
the pipeline no longer reports it at the start.

**`QualityProofs`** (`RecoverAssumption`, `SyncAssumption`)

* *The controller.* `StreaksEarned`: a streak is never longer than the run of like
  frames behind it, and a move leaves no streak.
* *The delay.* `DelayInv` = types with the envelope, `BasisTimed` (the drift basis is as
  old as the frames captured since it was taken, also over the counter's rollover)
  and `CandidateConfirmed` (a candidate's count is the number of agreeing searches in
  a row that really happened).
* *The route.* `RouteInv`: an armed count has its evidence behind it, seen from the side
  the path uses, so that no count of one path is finished in the other; the fixed
  direction is active exactly on a hard route; the recovery count is never longer than
  the run of recovered observations behind it. The action property
  `RouteEarnedAndKept` follows from it step by step.

**`GateProofs`** (`BoundsAssumption`, `Constants`)

* *Transport.* `SnapshotInvariant`: two inventories that agree pin the tree of each
  file between them, so what is packed is the tree of one moment.
* *The gate.* `GateInv` = `GateTypes`, `RunSound` (what a run selected is for the paths
  and the base it was started with, and its aggregate is good only if each selected job
  passed) and `VersionsAdvance`. `SelectionCovers`, that a mixture of paths selects
  whatever one of them alone would have, is an extra lemma on the job conditions.
* *Pins.* `PinsInv` = `PinTypes`, `EventMade` (the merge tree of the event is that of its
  head onto the parent it names), `Answered` (what an answer established stays so,
  because commits do not change) and `Still` (as long as nothing has moved, every look
  finds what the event names, and a denial was right). The verdict relates answers of
  different moments; `Still` is what brings them together.
* *The plan.* `PlanInv`: the plan of main passes its own checks under the policy of main
  (`PlanChecked`), and nothing but the selector's search is started from it.

**`RepositoryProofs`** (`BoundAssumption` of both jobs)

* *The archive.* `ArchiveInv`: beside the types, a head about to be merged is the one whose
  files were compared (`Compared`), and on the way to the receipt the archive is in main
  and both commits were verified (`Closing`), while the branch and main move under it.
* *The collectors.* `BranchInv`: a job only touches what its checkout lists (`Listing`),
  sealed evidence comes with every head the registry lists (`ListedIsKept`), between the
  last look and the delete a head is the one that was looked at or known to be late
  (`LookedAt`), and nothing that is about to go is depended on (`NothingDepends`).
* *Retirement.* `Retired`: over a chain of accepted commits what is recorded or closed as
  consumed has no workflow (`Consumed`), the others keep the triggers they may have
  (`Hands`), and the archived tasks stay closed (`Closed`).

**`EvidenceProofs`** (`Bounds`, `JudgeAssumption`, `RecoveryAssumption`)

* *Hold rules.* `HoldInv` says of every candidate rule that it holds at least what the
  shipping rule holds, on strong and on weak paths apart, that the patch conforms, and
  how far the tails are ahead. The tails alone are not inductive, they need the exact
  relation between held frames, spare budget and freeze.
* *Judges.* `JudgeInv` adds what the counts count: detected and false frames of both
  builds over the same labels, and that the corpora judged so far were won.
* *Lanes.* `LaneInv`. What a selection takes is the best of a finite set of reports
  (`BestOfFinite`, by a least counterexample) and the median of three confirmations is
  better only if two of them are (`MedianOfThree`).
* *The soak.* `SoakInv`: each file in the directory is either this job's own or from a
  job before it, and the class is what the files of this moment give. That a failed
  laboratory is never put down to the program needs the classification to be a function
  of its inputs; in an earlier form of the model two of its branches overlapped, which
  the prover refused and which had to be made the order of the code's `if` chain.
* *Delivery.* `DeliveryInv`: whatever is sealed can be traced to the commit
  (`SealedTraced`): a reference is of one build altogether, and an endurance has the
  header of the program that was soaked. That its program is that one too holds of a job
  whose commands ran once (`OneBuild`); one taken up by hand over another build seals
  what it finds (section 6).
* *Laboratory data.* `LabInv`: on the way to a mark, what has been downloaded,
  compared and unpacked so far is what the seal says (`OnItsWay`); what is marked is
  complete; what the build has read is what it verified.
* *Public data.* `PublicInv`: under the names its lock pins, a cache that was
  bootstrapped is of that lock, a corpus of the seal, and a ready candidate has the
  recordings of its baseline pinned. It says nothing of recordings under other names.
* *Corpora.* `CorporaInv`: from the archive over the unpacked files and the made cases
  to the sealed set, each stage is of one lock. The balance over the noise domains
  (`FallsBalanced`) is a counting argument for every number of domains and cases: a
  shift of the cases of one domain is an injection into those of another.
* *Recovery studies.* `StudyInv`: every file is of rows its study may measure
  (`FilesMade`), and a finding is the conclusion from the files of all seeds
  (`Concluded`). Signs are measured at 50 ms steps, the gain's confirmation at 100 ms
  ones, where the 100 ms it asks for is one step and so no more than a later recovery
  (`GainAsksOneStep`); it follows that a confirmed gain need not be an extension of the
  sign study. The rest is about the operators: where short windows hold, long ones
  at the same stride hold (`LongerSees`), and on the coarse grid so do the coarse ones
  (`CoarserSees`); a sum over the seeds is compared and a row of boundaries
  telescopes (`SumsCompare`, `StepsAddUp`), both by a least counterexample.

**`ResearchProofs`** (`SearchRuns`, `BlindBounds`, `SourcePools`, `BoundAssumption` of the
validation)

* *Blind verdicts.* `BlindInv`: what is concluded of a partition is fair, for jobs
  (`JobsFine`) and artifacts (`ArtifactsFine`); a job at work has no verdict yet,
  and measures only with a partition; one qualification is under way (`OneJob`); and
  while a patch's job is about to draw, nobody has drawn before (`OneShot`). The first
  rule that applies is found by its least index, and the order of the rules then
  gives what the contract says without one (`TuningVerdictEarned`,
  `PatchVerdictEarned`). A job that dies is covered by `NothingMeasured`: with no
  report the verdict is INCOMPLETE whatever the partition.
* *Source candidates.* `SourceInv`: every result is what a finished qualification of
  its contract and policy selected (`ResultsChosen`), a lock on main or in a checkout
  is one of the results (`LocksLanded`), the guard passes the oldest dispatch only, and
  whatever ran held a valid lock (`Guards`). That the selection takes the first valid
  partitions of the pool (`SelectsFirstValid`) is an induction over the pool, done by
  a least counterexample (`LoopRuns`, `LoopTakes`), as is the existence of the
  function the loop computes.
* *Search.* `SearchRuns` says of a run what its plan and its schemas fix: finitely many
  units, metrics and gates, reports of one form, and for the iteration one unit of each
  role. `SearchInv`: a task is in line or at work once and is not yet known (`PoolOK`);
  at each stage everything the next conclusion reads was asked for (`AskedOK`); and what
  was concluded, of algorithm, candidate and neighbours, follows from what is known
  (`AlgKept`, `SelectedWell`, `Withstood`). Reports only add to what is known
  (`OneMoreGrows`), so a conclusion once drawn stays true, which is what makes the order
  in which the workers finish irrelevant. Sums over units and metrics, the queue of a
  finite set and the path of a paired space are recursive functions; each is shown to
  exist, and compared, by a least counterexample (`TotalsCompare`, `TotalIsZero`,
  `QueueLines`, `PathLined`). A rival that dominates the selected row would have had the
  smaller rank (`RivalDominates`, `FaultsCount`).
* *Validation.* `ValidationInv` is little more than the property, since one step writes
  the report; the work is in what that step computes. What is
  picked is there (`PickedAreKept`), every row of integers can be ordered
  (`CanBeOrdered`), so that the lowest decile lies between the least value and the
  greatest (`DecileWithin`), and a report without violations kept every rule
  (`NothingViolated`). A decile above the policy's bound then has a case above it.


### What is only model-checked, and why

* Liveness under fairness: `StopCompletes`, `WorkServed`, `AdaptationSettles`,
  `JobsEnd`, `EverySearchEnds`, the last two with their conditions (section 3). TLAPS
  has no support for it here, nor for ENABLED.
* The five expected violations of section 6.

## 6. Findings

Each is a run in which TLC finds a sentence of the repository violated.

1. **Surplus tokens under overload** (`rejection_backlog`). The comment at runtime
   1469-1470 says "A flood of rejected frames must not produce an unbounded semaphore
   backlog." A refusal posts when no notice is pending, and the worker clears the notice
   at every turn; with a producer that is always ahead each turn leaves a surplus
   token, up to `SEM_VALUE_MAX`. The cost is idle turns later.
2. **Start refused without cause** (`tuning_no_agc`). Without an AGC stage the configured
   pair is never validated (`ap_pipeline.c` 113), but the replay at start checks it
   after every queued SET_TUNING (runtime 1377). Start then returns AP_ESTATE, which
   the header reserves for a direct change by the caller.
3. **A refused partition resumed** (`blind_admitted`). The draw refuses a partition with
   too few cases, "v >= 100 and b >= 16"; the resumption of a run that left one does not
   count them (`resume_incomplete_blind.py` 44-62).
4. **A soak of another commit** (`hil_stale`). The evidence directory is never emptied and
   whatever is in it is classified, where `docs/TESTING.md` 170-171 says "Real HIL
   evidence remains exact-source SHA-bound". The job itself fails all the same.
5. **An index nobody compares** (`index_unsealed`). The check that refuses an unsealed
   checksum index cannot be reached for the one data set that has one
   (`dataset_lock.py` 147, 158-159), and the index is then read as it is.

Sentences of the documentation that the models also violate, stated as operators with
their quotation. They have no run of their own; TLC finds each violated when it is named
in the configuration of its module's run (`ScopedBoundsKept` needs one more set-up, a
joint search whose named gate has both bounds):

| operator | what happens |
|---|---|
| `VerifyGate!AlwaysRegressed` | a delivery whose paths select no acoustic job skips the regression |
| `ProgramPlan!BudgetInherited` | an accepted edit of the policy may lower what was consumed |
| `WorkflowRetirement!RetiredStaysRetired` | a retired path can come back with content the contract does not recognise |
| `AcousticValidation!BlindSuppressed` | a blind report still lists its failing cases |
| `BranchGc!TerminalPreserves` | all heads are looked at before the first DELETE, and each DELETE takes what was pushed since |
| `CandidateSearch!ScopedBoundsKept` | a gate that names its cases is held to one of its bounds only |
| `SourceAuthority!CandidateOnce`, `QualifiedOnce` | without the guard job two dispatches run the candidate or measure a pool |
| `VadHold!TailWithinBudget` | freezing the last held frame makes two of it |
| `VadHold!PatchIsSelected` | the lane keeps the longer hold through a strong frame, the patch cuts it |

Seen while reading:

* RESET restores FULL quality and emits only AEC_RESET (runtime 918-922), where
  `docs/DIAGNOSTICS.md` line 11 has upward transitions emit QUALITY_RECOVERED.
* `last_valid_erle` is rebased at RESET and at start but not at a discontinuity, an echo
  path change or a route jump, so the next ERLE is compared with an earlier epoch's. At
  start it is the ERLE the pipeline still reports as valid, so that the first collapse
  may be told against one of before the start.
* `run_validation.py` 5-6 calls itself the single source of the tiers, which
  `authority.py` 13 also holds. The pin consumer lists three workflows, two call it.
* The curriculum counts a failing report and a missing metric twice. The AGC lane's
  `settle or 1e6` takes a settling time of zero for a missing one; the beamformer's
  hard-fault metrics are scored and not gated.
* A changed lock does not invalidate the public cache, although
  `validation/README.md` 198 reads so (`prepare_public_validation.py` 186-190). Only the
  first recordings are compared with the seal. Recordings of other names that were in
  the data root stay there, enter the index and count towards READY.
* `labctl`: a partial download is never resumed; a forced removal may die before the
  marker is gone, and the next run trusts the marker; unpacking goes over leftovers;
  `materialize` without `--skip-operator` ends at the first operator data set, although
  the text at 302 says to adopt afterwards; the build reads files again after verifying.
* Corpora: a builder writes its manifest with a literal `\n`; a digest is the caller's
  argument; extracted files are never hashed again; the lock is read at the start and
  hashed at the end of a materialization (151, 194); builders that overwrite leave an
  older `corpus.json`; a materialization that dies between two archives
  leaves a mix under the older document, which the builders then read; `CorpusSound` does
  not speak of a corpus built from it.
* Delivery: the directory is made before the qualification is looked at, so a refused
  `reference` leaves an empty one that blocks the next; the passing manifest is
  sealed before it is verified. The program of an endurance is not held against the soak's
  result (`ssc305_delivery.py` 333 asks only that it exists): a job taken up by hand after another build
  seals that build's program with the earlier result.
* Recovery studies: the file of a seed names neither contract nor processor, and the
  aggregate checks only the seeds; ranges over censored seeds compare different sets.

## 7. Not modelled

* Floating-point processing: AEC, NS, RES, AGC, transforms, resampler, filters,
  kernels, activity and voice activity probabilities. The comparison of a release
  threshold in C floats with its Python emulation is not modelled either.
* Scheduling, affinity and memory lock: results of the operating system, counted.
* The relaxed memory model beyond what the modules state: acquire and release are
  taken at their word, and between fences loads and stores of one side go in any order.
* Control calls that overlap a start, and lifecycle calls that overlap each other:
  `docs/API_CONTRACT.md` line 186 excludes them. Deinit, recorder attachment, and metric
  snapshots as a whole (each counter is coherent, the set is not promised to be).
* The self tests of the scripts, the audit of the live inventory, the checks of the
  promotion's gate evidence, the wording checks of contracts and manifests.
* The studies that compute over finished reports, failure mining, device experiments,
  readers of dumps and certification records, static checks of the documentation and
  of the public surface, examples, tests, fuzzers, benchmarks.
* Several candidates tuned in two stages may use a tolerance at each; only the sum of
  both is bounded here, as in the code.

## 8. Plan

1. A composition of `Runtime` with `TuningProjection` through the command ring, and an
   abstract specification of the runtime (frames accepted in order, each completed
   once) that `Runtime` implements.
2. `ActivityHold`: the hangovers of the activity and voice detectors with energies
   abstracted to sides of thresholds; `LatencyStats`: a percentile over a histogram
   that is being counted up.
