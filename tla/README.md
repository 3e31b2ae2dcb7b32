# A TLA+ model of VidGen

VidGen turns a source episode into a narrated, edited and published video. Its
work is done by Temporal workflows and their activities; PostgreSQL holds every
durable fact, and a *durable control plane* between the two turns what an owner
asks for into workflows. This directory models the parts of it where processes
meet and the rules that decide alone, model-checks them with TLC on small
instances, and proves the central invariants with TLAPS for every value of the
constants.

Paths below are relative to `src/` of this directory's parent, which is the
repository.

## The system

| part | state it keeps | operations | hard behaviour |
| --- | --- | --- | --- |
| Control plane: `services/control_plane`, `src/vidgen/db/control_command_*`, `workers/control_dispatcher` | a row per command: status, attempt and deferral budgets, claim owner and lease, workflow identity, cancellation request, row version | create, cancel and retry by the owner; claim, dispatch, fail, defer, cancel and settle by a dispatcher | replicas, leases that expire under a live process, stale ORM copies, kills between any two statements, an unreachable cluster |
| Workflow controller: `src/vidgen/review/workflow_control.py` | none | start (adopting a live execution), describe, cancel | an answer that is lost after it took effect |
| Generation runs: `services/control_plane/{generation_runs,reconciliation}.py`, `apps/api/routes/workflows.py` | the runs of a project, which is active, the execution each knows | open, continue, settle, supersede, cancel, reconcile | the row and the execution behind it drift apart; one workflow id, many executions |
| Workflows: `packages/workflows` | workflow state, signals | project stages, shot children, references, publication | signals, child failures, human pauses, cancellation |
| Render execution: `services/render_execution`, `workers/render_job` | render job, lease, manifest identity, outputs | queue, claim, heartbeat, checkpoint, cancel, bind, complete | a lost lease, cancellation racing completion, inputs that move |
| Publication: `services/publisher` | publication run, upload sessions, YouTube video, channel grant | draft, start, resume, cancel, visibility, connect, disconnect | at most one video, ambiguous uploads, tokens of a forgotten grant |
| Linear stages: subtitles, transcription, analysis, script, narration, storyboard, final QA | runs by key, checkpoints, versions, what is selected | run a stage, review, revise, select | attempts that die at any commit, continuation under another key, paid calls that must not be repeated |
| Shot media: images, animation, visual QA, repair | items, remote tasks, evaluations, attempts | draw, submit, poll, evaluate, repair, approve | a paid call cut off before its answer, overlapping executions, bounded repair |
| Budget: `services/costs`, `src/vidgen/db/cost_repository.py` | caps, reserved and committed amounts, reservations | reserve, reconcile, set caps | concurrent reservations |
| Uploads: `src/vidgen/uploads`, `useResumableUpload.ts` | session, parts, part files, the assembled file | part upload, finalise, cancel | a crash between a file and its row, two browser sessions |
| Continuity: `services/continuity` | identities, reference sheets, bindings of shots | draft, decide, apply, regenerate | approvals older than what they bind |
| Events, dashboard, progress | sequenced events; projections | append, stream, poll; read | commit order against sequence order |
| Deletion: `services/projects` | none of its own | delete a project's rows and files | cycles of keys, checks, shared files |

`PROJECT.json` lists every part with what is modelled of it, and the hazards of
the code at their lines.

## The modules

A system module composes its components with EXTENDS: components that share
state (the money of `PaidMedia`) interleave over it, those that share none
(`Stages`, `OwnerWork`, `Workflows`) are a sum, chosen at the start.

| system module | composes | code |
| --- | --- | --- |
| `ControlCommand` | | `services/control_plane`, `workers/control_dispatcher` |
| `Publication` | | `services/publisher`, `packages/workflows/publication.py` |
| `RenderJob` | | `services/render_execution`, `workers/render_job` |
| `PaidMedia`, refines `Budget` | `CostLedger`, `Animation`, `ImageGeneration`, narration calls, the repair's reservation, the owner's caps | `src/vidgen/db/cost_repository.py`, `services/{animation,image_generation,narration,costs}` |
| `Workflows` | `ShotFanout`, `ProjectGeneration` | `packages/workflows`, `services/control_plane/{generation_runs,reconciliation}.py` |
| `Repair` | `VisualQA` | `services/qa/{pipeline,repair}.py` |
| `Stages` | `Worker`; `Acquisition`, `Analysis`, `Script`, `Narration`, `Storyboard`, `FinalEditorial` | the pipelines of `services/` and their Temporal attempts |
| `OwnerWork` | `Upload`, `Continuity`, `Connection`, `EventStream` | `src/vidgen/{uploads,review}`, `services/continuity`, `services/publisher/oauth.py`, hooks of `apps/web` |
| `Decisions` (`MCDecisions`) | `Gate`, `Triage`, `Retimer`, `Routing`, `Scripting`, `Assembly`, `Delivery`, `Publishing`, `Dashboard`, `Deletion` | the pure rules |

The instance TLC checks is given by the `.cfg` file and by the definitions at
the end of the system module (or in its `MC` module).

### `ControlCommand`: the durable control plane

One process per dispatcher replica, the owner's requests, the workflow
executions and the clock act on the rows of `control_commands`.

| state | in the code |
| --- | --- |
| `row` | the committed columns of `ControlCommandRecord` that decide anything. `lease` and `due` abstract `lease_expires_at` and `available_at` against the clock; `cancelRequested` is the rank of `cancel_requested_at` |
| `lock` | the row locks of an open transaction: an UPDATE holds its row's lock to the commit |
| `pc`, `cur`, `batch`, `seen` | where a replica is in `run_once`, the command it works on, the rest of the list it read, the answer of a `describe_*` call |
| `copy` | the ORM copies of a session. A guarded UPDATE carries the `row_version` of its copy; since versions only grow, the model keeps whether the row was written since (`fresh`). The sessions keep their copies over a commit; a rollback, and `_transition` itself, expire them |
| `req` | a cancel or retry request between its read and its write |
| `exec`, `starts`, `achieved`, `told` | the latest execution under the command's workflow ID; the last three are history, read by no action except that a cancelled reference workflow still shows an earlier review |

Every statement that another session can come between is an action:

| actions | code |
| --- | --- |
| `Scan`, `Claim` | `claimable`, `claim` |
| `Prepare`, `MarkDispatching` | the read and the UPDATE of `mark_dispatching`, whose result is ignored |
| `StartWorkflow`, `Refuse`, `Unreachable`, `DispatchError` | the four outcomes of `dispatch()` in `_dispatch_one` |
| `ReadForRelease`, `Release` | `fail` and `defer`, which read the row again after the rollback |
| `ReadForRunning`, `MarkRunning` | `mark_running` |
| `ScanCancellations` ... `CommitCancellations` | `honour_cancellations`, one transaction for the pass |
| `ScanRunning`, `Observe`, `ObserveFails`, `Settle`, `EndPass` | `settle_running`, a transaction for each command over copies read up front |
| `Kill`, `Restart` | a replica dies at any statement; an uncaught `ControlCommandError` kills it as well (`Die`) |
| `AskCancel`, `OwnerCancel`, `AskRetry`, `OwnerRetry` | `ControlPlaneService.cancel` and `retry` |
| `ReachReview` ... `StopExecution` | what a workflow does on its own, as the queries show it |
| `LeaseExpires`, `BackoffEnds` | time |

An action that raises an illegal transition goes the way the code's exceptions
go: caught in the settle loop, fatal to the replica elsewhere.

Abstractions: error texts, results, percentages and the reason columns are left
out; a handler's own checks are one refusal; `supersede` is never called by the
dispatcher or the routes; commands exist from the start; the scan's SKIP LOCKED
locks, which only spare a lost race, are left out; the LIMIT is larger than the
batch. The settling of generation-run commands is in `ProjectGeneration`.

### `Publication`: one render to one YouTube channel

The workflow `YouTubePublicationWorkflow`, the workers that run its steps as
activities, the owner's requests and YouTube act on one row of
`publication_runs` and its upload sessions.

| state | in the code |
| --- | --- |
| `run`, `sessions` | the row's `status`, `video_id`, `processing_state` and `visibility_decision_at`; the status and `confirmed_offset` of each `youtube_upload_sessions` row |
| `connection`, `eligible` | the channel's grant (`revoked`: Google knows, the row does not yet) and whether the eligibility query still answers for this render |
| `youtube` | external: the chunks of each upload YouTube holds, whether it has forgotten the session, the video's privacy and processing |
| `wf` | the workflow execution: the step scheduled or running, its rounds and tries, the cancel signal |
| `att` | per activity slot: where the attempt is, and its own copies of the run, the session and the plan of chunks |
| `owner` | a cancel or visibility request in flight, with its copy of the run |

Every commit and every call over the network is an action:

| actions | code |
| --- | --- |
| `Start`, `Take`, `Answer`, `AfterStep` | `:start` and `:resume`, the activity handler, and `run` of the workflow, which chooses the next step from the status the handler projected |
| `Revalidate`, `Ineligible`, `TokenRefused`, `Validate`, `Skip` | what `run_step` does before its step, and the steps that change nothing |
| `BeginUpload`, `OpenSession`, `InitRefused`, `ResumeUpload`, `BeginDrive`, `Record` | `_upload` |
| `Query`, `Transfer`, `Drop`, `Acknowledge`, `ChunkFails`, `Resolve` ..., `SessionGone` | `ResumableUploader.drive` and `_resolve_after_interruption` |
| `Poll`, `Captions`, `Verify` and their refusals | the steps after the video exists |
| `AskCancel`, `CancelSession`, `CommitCancel` | `cancel_publication` and `cancel` |
| `AskVisibility`, `MarkVisibility`, `UpdateVisibility`, `Publish`, `VisibilityFails` | `change_visibility` and `apply_visibility` |
| `Die`, `GiveUp`, `RequestDies` | a worker or a request ends between two statements; a timeout gives an attempt up while its thread goes on |
| `Process`, `Collect`, `RevokeGrant`, `SelectOtherRender`, `Reconnect` | YouTube, the user at Google, the project |

The publisher's database sessions are made with `expire_on_commit=False` and the
row has no version, so an activity works on the row it loaded at its start and a
flush writes just the columns it changed, whatever others committed since.
`Flush` models exactly that, for workers and requests alike.

Abstractions: the final render is a few chunks, each kept whole or not at all;
captions, thumbnail and channel check only succeed, refuse or find nothing to do;
an error is the state `_classify` gives it; the privacy asked for is public. The
plan of chunks is not corrected in the middle of a drive, as in the code,
although a comment in `resumable.py` says to take YouTube's number and continue
from there. Drafts are in
`Publishing`; scheduled publication and the command-line drive are left out.

### `RenderJob`: render execution

Executors, some of them pollers (`workers/render_job`), the others activities of
the render workflow, act on the rows of `render_jobs` while the inputs of the
project move.

| state | in the code |
| --- | --- |
| `jobs` | the committed rows, oldest first: status, attempts, holder and whether the lease is live, the input identity a row was queued for (`stamped`), its manifest identity, outputs, selection, cancellation |
| `input` | the identity the project's inputs resolve to now, or that they are refused |
| `pc`, `at`, `copy` | where an execution is in `RenderExecution.execute`, on which job, and the ORM copy and the inputs it keeps |

`Queue`, `Poll`, `ExecuteDirectly`, `Claim`, `Checkpoint`, `Resolve`, `Bind`,
`Encode`, `Complete`, `End` and their refusals are the steps of `commands.py`,
`main.py`, `claims.py` and `executor.py`, each a commit; `Heartbeat` and
`PollCancel` stand for the loop that runs beside FFmpeg. An execution raises,
crashes, is shut down, or loses its lease (`Expire`) anywhere. `claim_render_job`
is a conditional UPDATE on the lease; the later writes go by primary key on the
word of a copy, as in the code. FFmpeg and the blob store are external.

### `PaidMedia`: what a project pays for

| module | state | in the code |
| --- | --- | --- |
| `CostLedger` | `books` (the row of `project_budgets` and the reservations with their ledger entries), `narrator` | `CostRepository.reserve` and `reconcile`: one transaction each, the row locked |
| `Animation` | `item`, `tasks`, `video`, `remote` (Runway, external), `worker` | `services/animation/pipeline.py` from the reservation to the selected video: submit, poll, download, complete, resume, resubmit, the ambiguity sweep. A submission is made under the identity, which holds the model, and the number of the attempt |
| `ImageGeneration` | `frame`, `drawer`, `paid` (the provider's bill, external) | `services/image_generation/pipeline.py`: a call, its receipt, the booking, the file |
| `PaidMedia` | `segments`, `narrated`, `owner`, `mender`, `capChanges` | narration calls, which hold the budget's lock over the call; the owner's new cap between its read and its write; a repair that reads the budget before it locks it |

Money is in whole units of the cheapest price. `Budget` is the abstract
specification: holding an amount only while it fits under the cap, settling it
once, and after every step a row that states what the accounts add up to, with
each unit of money an element of a set. `ImplementsBudget` maps the detailed state to it.
`Overtaking` says whether a repair's unlocked read may be overtaken by another
stage: with it the code breaks the refinement, and the run `budget_overtaken` shows
how; without it the refinement is checked and proved. What is history only (which
submissions were cut off) is in `interrupted` and `broken`; no action reads it.

### `Workflows`: a project's executions and its shots

`ShotFanout` has the parent (`fan`, `active`, `reported`), its children (`child`:
the stage of `ShotGenerationWorkflow`, whether it has a keyframe, how it ended) and a
replacement child the owner may start for a shot. `passed` is history: the gates
the current outputs of a shot have passed. Actions: an activity of a child ends
well, is refused, blocked, fails; a child parks, wakes on retry, is cancelled; the
parent starts, waits, collects, aggregates, saves; settings change.

`ProjectGeneration` has the executions of the one workflow id of a project (`exec`),
`project_generation_runs` (`runs`), `project_workflow_runs` (`row`), the commands
(`cmd`), a start or a dispatch between `start_project` and its commit (`pending`)
and a reconciliation between its answer and its writes (`rec`). Actions: the stages
of `ProjectGenerationWorkflow`, `Begin`/`StartWorkflow`/`Commit`/`Crash`,
`Dispatch`, `CancelProject`, `CancelCommand`, `SettleRunning`, `Ask` and
`Reconcile`, `Continue`. The fan-out is one stage there that ends one way or another.

### `Repair`: a shot is judged and repaired

`VisualQA` has the evaluation of each clip (`qa`), the approvals, the executions
(`worker`) and what was bought from the two agents. `Repair` adds `repair_runs`
(`run`), its attempts and the provider's side of each (`remote`). An execution
claims or loses an evaluation, asks an agent, finalises; starts or resumes a
repair, plans the next attempt within the policy, submits, polls, persists the
clip, revalidates it, locks it or restores the original. It may crash between any
two commits, and a second one may overlap it (`overlapped`, history). A technical
validation, a plan and a prompt are one answer each; how they come about is in
`Gate` and `Triage`.

### `Stages`: the linear stages

`Worker` is a Temporal activity: attempts that follow each other, die anywhere, are
retried `MaxTries` times and continued under another key. Variables are the
*stored* rows, which outlive an attempt, and the *registers* an attempt has in
memory, which die with it.

| module | code | stored | the hard part |
| --- | --- | --- | --- |
| `Acquisition` | `services/subtitles`, `services/transcription` | runs, candidates, chunks heard and diarised, selected transcript | two kinds of runs select one transcript |
| `Analysis` | `services/analysis/pipeline.py` | scene checkpoints, records | concurrent calls, cancelled with the first failure |
| `Script` | `services/script/pipeline.py`, review routes | runs, versions, what is favoured | the owner selects, rejects and revises between attempts |
| `Narration` | `services/narration/pipeline.py` | segments, takes, alignments | an answer and an alignment stored before their row is settled; a later attempt that is refused |
| `Storyboard` | `services/storyboard/pipeline.py` | checkpoints of segments with their reports | a resumed segment, the continuity handed on |
| `FinalEditorial` | `services/qa/final_editorial.py` | runs by input identity, provider attempts | inputs that move, human reviews |

### `OwnerWork`: what an owner works with directly

| module | state and actions | code |
| --- | --- | --- |
| `Upload` | part rows, part files and the assembled file; part requests and finalisations at each of their steps; the browser's loop with its retries | `uploads/service.py`, `useResumableUpload.ts` |
| `Continuity` | identities, sheets, images in store, the project's and the entities' workflows, approvals not yet dispatched, bindings | `orchestrator.py`, `packages/workflows/continuity.py`, `handlers.py` |
| `Connection` | consents, the connection and its sealed credential, grants at Google, callbacks, token refreshes, disconnections, the active key | `oauth.py`, `publication_repository.py`, `envelope.py` |
| `EventStream` | committed sequences, open transactions that insert, the stream, the wire, the hook, polls on their way | `review/events.py`, `routes/events.py`, `useProjectEvents.ts` |

What a handler of `oauth.py` does between two requests to Google is one step. In
`Continuity` a build looks for a sheet, commits its reservation and pays, stores the
answer and inserts the row in steps of their own, and an apply reads the approved sets,
the drafts and the approved references table by table (`READ COMMITTED`, no locks),
compares shot by shot and commits: the owner and the other workflows go on between.
What a workflow holds meanwhile is `work`; `since` and `contested` are history.

### `Decisions`: the rules that decide alone

A behaviour takes one question of one topic and the code's answers to it, each
answer being the question of the decision after it: a clip is sampled and scored,
its failure classified, routed and planned; a segment is timed; two are directed
one after the other; a model is chosen and a repair's after it; a project is
assembled, then final QA sees what its rows have become. Each topic's module
states the code's rule, and beside it what a reviewer would demand of the answer,
defined independently of how the code gets there.

| module | rule | scaled |
| --- | --- | --- |
| `Gate` | scoring, adjudication, retained codes; frame sampling (`scoring.py`, `adjudication.py`, `sampler.py`) | lists of 2 to 3 codes; quarter frames, a few samples |
| `Triage` | classification, policy, prompt edits; parallax fallback (`repair_*.py`, `parallax_manifest.py`) | a prompt is its clauses; corners of a frame by name |
| `Retimer` | retiming; acceptance of a Director's shots and the handed-on continuity (`retimer.py`, `validator.py`) | lengths up to 9 units |
| `Routing` | the model of a clip and of its repair (`routing.py`, `providers.py`) | half seconds, half credits |
| `Scripting` | compression, writing, editing, canonicalisation, validation (`services/script`, `analysis/validator.py`) | 4 to 5 beats for 12 to 20 |
| `Assembly` | render selection, render inputs, captions, final QA's inputs and caption checks | two shots, durations in tolerances |
| `Delivery` | the command plan, verification, final deterministic and audio checks | half seconds |
| `Publishing` | eligibility after edits, first draft, chunk ranges, writes to the video | chunks of a few granules of 256 KiB |
| `Dashboard` | stage bar, timeline, failures, offered actions | two items per stage |
| `Deletion` | the walk over foreign keys, cycles, CHECKs, files | a part of the schema with each difficulty |

They use recursion and folds over sequences and stay with TLC.

## Properties

Of `ControlCommand`:

- `TypeOK`: also, no other session ever sees `dispatching`.
- `DispatchedNamesWorkflow`: a command that reads running, under review or
  completed has an execution behind it that was really started.
- `BudgetsBounded`: attempts never exceed their bound, nor deferrals theirs.
- `StatusIsEarned`: `completed` and `awaiting_review` follow an execution that
  succeeded or asked for a review.
- `FinishedStays`: completed, cancelled and superseded are final.
- `FailedNeedsRetry`: a failed command goes back to the queue only by its
  owner's retry.
- `CancelledAfterTold`: a dispatched command reads cancelled only after the
  cluster was told.
- `CancellationHonoured`: a cancellation request is carried out in the end, or
  the command ends otherwise.
- `CommandMoves`: a command that waits leaves the queue, a running one is settled
  unless its workflow closed without a result, and a claim is resolved unless it is
  stranded: a replica was killed while it held the command's last attempt.

Of `Publication`. Two of them, and part of a third, hold only of a publication
that is `Alone`: no attempt was given up while its worker went on, and no session
was cancelled under a drive. What happens otherwise is told below.

- `AtMostOneVideo`: however an upload is interrupted and resumed, YouTube makes
  one video of the render, and the row names none but that one (if `Alone`).
- `VideoIsKept`: a recorded video is never lost or replaced (if `Alone`).
- `ServerConfirmed`: a checkpoint counts no chunk YouTube does not hold, so no
  resume skips one.
- `PublicIsDecided`: a video is public only by a recorded decision, whichever
  stale copy of the row is written after it, and after processing (if `Alone`).
- `PublicationSettles`: a workflow ends, whatever fails and however long YouTube
  takes, and an upload that began is not left half done if the owner resumes it.

Of the others:

- `RenderIsTrue` (`RenderJob`): at most one render is selected, it has outputs, they
  were made from the inputs its job was queued for, and no two jobs hold a manifest
  of the same inputs. `LeaseExcludes`: no claim takes a job from under a live lease.
  `HeadSettles`: the job the poll query offers first is settled or has used its attempts.
- `PaidOnce` (`PaidMedia`): unless a submit was cut off, Runway works on a second task
  of a shot only if overlapping attempts of one number were routed to different models
  (`RoutedApart`), and the money of every task is held or booked at every moment; an
  image is paid for once. `ImplementsBudget`: the refinement. `PaidTaskKept`: an accepted
  task that succeeds becomes the shot's video while the budget covers its price once
  more and no attempt was routed apart.
- `TypeOK` (`Workflows`): also, no more children than slots and one active run.
  `LockedIsEarned`: a fan-out is complete only with every shot locked, a shot is locked
  only behind its gates. `SettledRunIsOver`: a run that knows its execution is called
  over only after that has closed. `CompletedPassedQA`: a continuation completes only
  off an execution whose final QA passed. `WorkflowsSettle`: a fan-out closes unless a
  child waits for its owner, and a row that calls a closed execution live is put right.
- `EndsOnItsClip` (`Repair`, unless executions overlap): a locked shot shows the clip
  it was locked on, which passed; one that is given up shows the clip it had.
  `PaidAsAgreed`: the policy bounds the paid attempts, and an agent is asked about a
  clip again only after a failure. `RepairConcludes`: verdicts stand, a repair ends.
- `SelectedIsWhole` (`Stages`): what a stage has selected is one, complete and made of
  every piece it should be made of. `StoredIsNotRepaid`: an attempt does not pay for what
  its own key, the run it writes or, for lines and looks, anybody has in store; its
  comment lists what is paid again. `StageEnds`: every activity reports or runs out of attempts.
- `UploadIsTrue`: the source video is the file that was hashed, a part's file is what its
  row was accepted with. `CredentialKept`: a connected channel has a credential that
  opens under the version its row names, and an authorization is exchanged once.
  `ReferencesBound`: a shot is bound only to sheets that were approved, with no sheet
  undecided, when its workflow read them, and a sheet is paid for once unless two builds
  met over it or an answer was lost. `NothingSkipped`: the browser's cursor passes no event it
  has not seen. `OwnerIsServed`: uploads end, and events arrive.
- `QualityOk`, `MadeOk`, `DeliveredOk`, `ProjectOk` (`Decisions`): what is demanded of
  the answers, by topic.

## Runs

| run | module | instance | asks |
| --- | --- | --- | --- |
| `two_replicas` | `ControlCommand` | 2 replicas, 1 reference command, 2 attempts, 1 deferral, 1 request | all races of two dispatchers with each other and with the owner over one row |
| `one_replica` | `ControlCommand` | 1 replica, 1 reference command, 1 request, 1 kill, fair | whether everything moves, over outages, the owner's request and a replica that dies at any statement |
| `two_commands` | `ControlCommand` | 1 replica, a shot and a final-QA command, 2 requests | what the commands of a batch do to each other: rollbacks and the shared cancel transaction |
| `publication_interrupted` | `Publication` | 1 slot, 2 chunks, 2 rounds, 2 tries, 2 faults, 1 request, 1 overlap, fair | any two failures of an upload, anywhere, with the owner's request racing it |
| `render_job` | `RenderJob` | a poller and an activity, 2 jobs, 2 attempts, 1 fault, inputs that change once, fair | a lost lease, a crash, a shutdown or an error anywhere |
| `paid_media` | `PaidMedia` | 1 hero shot and 2 workers on it, 1 keyframe, 1 narration call, 1 repair, caps 3 and 5, 1 fault, fair | whether one budget bounds them all and nothing is paid twice |
| `workflows` | `Workflows` | 3 shots over 2 slots and a replacement, 2 faults, 1 signal; 2 continuations, 2 executions, 1 cancellation, 1 crash, fair | gates, completion and settling |
| `repair` | `Repair` | 2 executions, 3 clips, 1 fault, 1 decision of the owner, 1 expired window, both providers or the fallback, fair | crashes and overlaps of a repair |
| `stages` | `Stages` | 2 tries, 2 keys; 2 pieces of everything | attempts that die at any commit |
| `owner_work` | `OwnerWork` | 2 parts, 2 part requests, 2 finalisations, 2 mishaps; a character and a location, one of them analysed again, 3 decisions, 2 starts, 1 death; 2 consents, callbacks, minters and disconnections; 4 events, 2 writers, 2 polls, 3 breaks | overlapping requests and lost answers |
| `decisions` | `MCDecisions` | generated questions of every topic | the rules, through whole chains of calls |
| `budget_overtaken` | `PaidMedia` | 1 shot, 1 keyframe, 1 narration call, 1 repair, cap 3, `Overtaking` | TLC refutes `WithinCap`: the finding below |

Two attempts and one deferral are enough for each budget to be used, refunded,
spent, and raised by a retry; two replicas, executors, executions or workers for
every race over one row, since a third is in the position of the second; one
command more for the copies of a batch. Replicas are interchangeable, so
`two_replicas` uses their symmetry; it has no liveness property. Two chunks make the
first, the last and a resume between them; two faults make a failure and a second
one while the first is recovered from; four sessions are all that those faults and
the request can use up, so their bound stops nothing. One slot is enough for the
safety of an upload that is `Alone`, since the workflow runs one activity at a time.
A cap of 3 leaves room for two of the three things a project buys, so every
reservation is sometimes refused; one of 5 lets a second attempt be routed to the dearer
model after a first that could not afford it. One fault is an attempt that overlaps
another, or a death, and not both: two paid tasks of attempts routed apart are reached, but
that the earlier attempt then dies and its task is fetched by nobody takes two faults,
which are beyond the time of a run; the last exception of `PaidTaskKept` is for that.
Three shots over two slots keep one waiting for a slot; three clips are the original and a candidate of each provider. Two pieces make
a stage that is half done. Where the code's own bound is large (`BatchLimit` and the
attempts of the event stream, `MAX_BEATS`, the largest chunk, the lists of codes) it
is a constant, scaled down so that it is reached.

Bounds of exploration, as against bounds of the code, are the constants `Max...` of
requests, crashes, faults, mishaps, changes, decisions, starts, cancels, signals,
breaks and overlaps; the theorems hold for every value of them.

Runs do not check deadlock where the system comes to rest: a finished publication,
an emptied queue of questions, a project whose work is done. The three of
`ControlCommand` do check it.

### Fairness

- `ControlCommand`: a replica keeps polling and is restarted (`run_forever` under a
  container supervisor); the clock advances; an RPC tried on every pass is answered in
  the end (strong fairness, because an outage disables and re-enables it); an
  execution ends, because every activity has a start-to-close timeout and bounded
  retries. Nobody is assumed to approve, retry or cancel.
- `Publication`: a worker goes on with the attempt it took and takes the next (it polls
  its queue), a request ends, and the owner starts a publication that stopped until it
  is finished (that is what `UploadSettles` is about). Nothing is assumed of YouTube's
  processing, of a reconnection, or of faults.
- `RenderJob`: an execution goes on, a poller polls (`run_forever`), a lease that is not
  renewed expires.
- `PaidMedia`: workers go on with an attempt, Temporal starts one where a task waits, a
  remote task comes to an end (Runway's own timeout). Narration and the owner are free.
- `Workflows`: the parent takes its steps, activities end (their timeouts), a retryable
  child is not assumed to be retried; a reconciliation keeps running, since the reading
  routes trigger it.
- `Repair`: an execution goes on, and Temporal starts one as long as none has finished;
  a provider's task ends.
- `Stages`: the worker works and a finished attempt is reported; deaths are free.
- `OwnerWork`: the browser sends, the server serves; streams and polls are read. The
  hook's retry of a poll is a timer of the page.

## Where the code does something else than it says

One disagreement is a run that TLC refutes, with its lines in `PROJECT.json`:

- `budget_overtaken`: `_reserve` (`services/qa/repair.py:1529`) keeps the `ProjectBudget`
  object it read without a lock while `CostRepository.reserve` selects the row FOR
  UPDATE (`cost_repository.py:50-54`); the session still holds that object, so the
  headroom is checked and `reserved_amount` written from the unlocked read. What
  another stage reserved or settled in between is lost, and the project can hold more
  than its cap, which the documentation calls "the money limit". Storyboard direction reads the row
  the same way (`director.py:121-125`), and `set_caps` checks the spend it read unlocked.

What follows was met while modelling; TLC showed the first group on the modules
here, the second is what reading and the models' properties brought up. The
properties state what the code does guarantee beside it.

### Shown on the modules

- A replica killed on a command's last attempt strands the claim: `claimable`
  (`control_command_repository.py:252`) wants an attempt left, although
  `workers/control_dispatcher/main.py:15` says a killed replica strands nothing.
- A replica dies between the accepted start and its commit, the workflow finishes, the
  next replica starts it again (`workflow_control.py:964`).
- A command cancelled between its claim and `mark_dispatching` is started all the same,
  and nobody tells the workflow (`dispatcher.py:260`).
- The command of a shot remediation is settled by the render's rule, whose query the
  shot workflow rejects, and stays running (`dispatcher.py:434`).
- After a rollback a claim goes through against a live lease
  (`control_command_repository.py:286`).
- An attempt given up by its timeout records its video after the next one has loaded
  the run; that one sees no video and no active session and uploads again
  (`publisher/pipeline.py:575`).
- An upload parked by a quota or a grant is made READY by the resume, finds its session
  active and asks for UPLOADING, which READY does not allow: the same exception on every
  resume (`:432`).
- The last chunk was sent, the worker dies, another render is selected: the next attempt
  fails the run for good, and no row names the video (`:551`).
- Verification and storing of a render have no heartbeat: a lease expires under its
  holder, which completes; the worker that took the job over writes its own status over
  it, and the completed job is rendered again (`render_execution/claims.py:229`).
- With less than one more price left, a restart, retry or expired polling window of an
  accepted animation task ends in a non-retryable `BudgetDenied` and its video is never
  fetched (`animation/pipeline.py:257`; `docs/IMPLEMENTATION_STATUS.md:524` says they resume it).
  `PaidTaskKept` excludes exactly this.
- A cancelled activity raises `ActivityError`, which `except CancelledError` does not
  catch: the child parks as retryable and its fan-out waits (`packages/workflows/shot.py:67`).
- `waiting_reason`, set by an execution that is still open, is never cleared, so the next
  continuation passes the guard of `handlers.py:757`, adopts that execution and
  completes off it; `CompletedPassedQA` therefore says "its own or a later one".
- When a repair gives up, the original clip is back but the newest QA run is the one of its last
  candidate; an owner who approves that soft failure opens the gate for a clip that
  failed hard (`visual_qa_repository.py:102`).
- A repair's Runway attempt is DOWNLOADING until its clip is stored, and no later
  execution resumes that state: a worker that dies there leaves a paid clip behind
  (`qa/repair.py:1743`).
- Every approval of a reference sheet submits an apply; the first one, with another
  sheet still a draft, is refused with `reference_approval_pending` and the workflow
  fails on it (`continuity/orchestrator.py:489`).

### Met while modelling

Control plane and generation runs:

- `requeue` (`control_command_repository.py:670`) keeps `cancel_requested_at`, so
  the retry of a command whose cancellation was still open when it failed is
  cancelled at the next pass. `CancelledAfterTold` allows it.
- A render or final QA whose activity raised closes without a result, its query
  answers like one that works, and `_settle_render` (`dispatcher.py:519`) leaves
  the command running. `CommandMoves` excludes exactly this.
- A replica that lost its lease may `fail` or `defer` a row another replica has
  already failed or claimed, and so puts a failed command back into the queue
  without its owner. `FailedNeedsRetry` is therefore checked for one replica.
- An execution that fails inside an activity leaves its continuation command running
  (`dispatcher.py:626-632`); a stale reconciler overwrites the row of a newer execution
  until the next one; cancelling an old continuation under review cancels the newer
  execution of the shared id; a cancellation is not read after the continuity inputs nor
  during render and final QA; a project whose children have closed fails when it is
  cancelled, because it signals them.

Shots and paid media:

- A report to a parent that has closed turns a locked shot into a failed one; parked
  children accept a retry after the cancellation, and hold their slots; shot activities
  never heartbeat, although they have a heartbeat timeout.
- A resolution of a shot's input that fails and is retried skips the adoption of an
  approved keyframe (`shot.py:124-135`).
- A submit cut off before its answer is released although Runway may run it
  (`interrupted`); a task whose checkpoint was committed before the call raises
  `ValueError` on retry; a keyframe's retry reuses its released reservation and is not
  booked; a video is booked at the price of the model routing chooses when it is done.
- What makes a submission to Runway unique is the identity of the item, which holds the
  routed model (`animation/pipeline.py:334`, `:631`). Two attempts that overlap while the
  budget moves may be routed to different models: both submit and both are paid for, and
  the earlier task is resumed by nobody. `PaidOnce` allows exactly this.
- `routing.py:23-25` says premium refuses unless a fallback is explicitly allowed; a
  repair in premium takes Gen-4 Turbo when Gen-4.5 cannot be afforded
  (`_next_same_provider_model`), and the decision recorded at submission is derived again
  (`repair.py:964`) and may name another model than the one submitted.
- A sequence of more than 16 repair decisions (`repair_models.py:288`) is fewer than the polling windows
  allow; an attempt whose technical validation fails never reconciles its reservation;
  of two overlapping executions the second may relabel a complete evaluation, and the first
  may lock on the other's clip, which is why `EndsOnItsClip` excludes overlaps.
- A hard failure proposed by the provider and seconded by warning-level evidence makes the
  validation of `RepairClassification` raise in `classify`, uncaught.

Render, publication and the channel:

- The head of the render queue blocks later jobs once its attempts are used up
  (`main.py:57-58`); a SIGTERM during FFmpeg is not seen; `VERIFYING` is never written;
  `approve_render` returns an approval without looking at `revoked_at`.
- `inputs.py:58-60` says the render refuses what final QA would refuse; final QA refuses, after
  the render is paid, a force-approved failure, a project without QA runs, a locked
  repair without an asset. Captions faster than 26 characters a second pass rendering and
  always fail final QA; it expects 24 frames a second and English; the renderer's
  tolerance exceeds final QA's from 23 shots on.
- A cancel commits `CANCELLED` while an attempt holds its own copy of the run. The
  attempt's next write overwrites it, and if the session it looks for was just
  cancelled it opens a new one, although a comment in the route calls the local
  cancel authoritative.
- A run parked with its video recorded never leaves the parked state through the
  workflow: `_mark_ready` leaves it alone, and the workflow stops at the status.
- A revoked grant found by the eligibility query before there is a video fails the
  run for good, while the same grant found by a call to YouTube only parks it. An error of
  YouTube without a state of its own at the initialization or the first status probe
  fails the run for good.
- When all poll rounds are used up the workflow goes on to captions and
  `PRIVATE_READY` with the video still processing; `PublicIsDecided` holds because the
  visibility change looks again. A draft with a schedule is uploaded with `publishAt`
  (`pipeline.py:585`), which `PublicIsDecided` does not cover.
- Eligibility does not compare the shots, and an invalidation recorded while the render
  runs predates its completion and is not seen.
- `store_access_token` seals under the active key without updating the row's version; a
  refresh that meets a revoked grant marks a channel reconnected meanwhile; a disconnection that
  awaits Google deletes the credential of a reconnection completed meanwhile.

Stages and owner's work:

- A script revision deselects only the version that was edited, so a second selected row
  is refused by its unique key; an owner who selects during a pass leaves the project
  waiting for a review; an owner's edit of a pending candidate is lost in the next pass.
- The final review's expected row version is never compared; the inputs may move while
  they are evaluated, and the verdict stands for what they were.
- A narration that is complete and selected is marked failed by a later attempt of its
  key that finds the script no longer approved or the inputs changed
  (`narration/pipeline.py:94-103`); the storyboard (`storyboard_repository.py:165`) and the
  renderer (`renderer/selection.py:93`) then refuse it until an attempt completes it again.
- A refused take leaves its alignment on the row, and the next take is judged and stored with it
  (`narration/pipeline.py:528-529`).
- The answer to a segment's repair is bought again when the attempt died before judging it
  (`storyboard/pipeline.py:541-556`), against the comments at lines 547 and 742; when the last
  repair was stored and not judged, the segment fails on the report of the one before.
- A storyboard segment found hopeless starts again at its first attempt and pays again; of
  scene calls in flight the siblings of a failed one are cancelled and lost.
- A `hash_mismatch` leaves a wrong part irreplaceable; a resumed browser never sends a lost
  part file again; `initialize` and `finalize` overwrite the project's status.
- A sheet that is rejected, or drafted, after an apply has read it and before that apply
  commits is bound all the same (`continuity/orchestrator.py:489-502`), although the
  docstring at lines 487-488 says a shot is never generated against a reference nobody approved;
  of two overlapping applies the later commit stands, whichever read the newer decisions.
  `since` in `ReferencesBound` is exactly what came between.
- Two builds that look for one sheet at the same time both pay for it: the reservation and
  the attempt row of the first stop nobody (`reference_generator.py:107-178`); an answer
  that is lost before its asset is committed is paid for again.
- After a rejection a regenerated sheet reuses the asset and the rejected row; a sheet of
  an old identity stays approved; `ContinuityRegenerator` compares a stable shot id with a
  row id and matches nothing.
- A stream that opens and breaks resets the count of attempts, so polling needs
  consecutive failed opens.
- The script validators refuse beats the analysis validator admits, and adapters drop
  empty segments with the callbacks still pointing at them.
- The frame sampler's `minimum_spacing_us` is used in the identity only; with depth and
  no mask the foreground plane of the fallback would hide the background.
- A project that has a repair attempt after the original can never be deleted: clearing its nullable key
  breaks a CHECK (`repair_models.py:228-231`). A file found unreferenced after the commit is removed
  later, while another project may store the same content.
- The dashboard counts resolved failures; a write of the project's row makes the shots look
  newest; a second failure under the key of a resolved one is not recorded.

## What is proved

Eight modules of proofs, one per system module named, each from the `ASSUME`s of
the modules it extends and for every value of the constants. In each, an inductive
invariant says what copies, answers and registers still mean while others act; the
properties follow from it. There is one lemma per action or per group of actions
that write alike, and one per way of writing (`one row moves, the others keep`).

| module | theorem | statement |
| --- | --- | --- |
| `ControlCommandProofs` | `Invariance`, `TypeCorrect` | `Spec => []IInv`, `[]TypeOK` |
| | `DispatchNamesItsWorkflow`, `BudgetsHold`, `SettlesOnEvidence` | `Spec => []DispatchedNamesWorkflow`, `[]BudgetsBounded`, `[]StatusIsEarned` |
| | `FinishedForGood` | `Spec => FinishedStays` |
| | `AloneInvariance` | `Spec => []AloneInv`, given one replica |
| | `FailedWaitsForOwner`, `CancelledOnceTold` | `Spec => FailedNeedsRetry`, `CancelledAfterTold`, given one replica |
| `PublicationProofs` | `Invariance`, `TypeCorrect` | `Spec => []IInv`, `[]TypeOK` |
| | `OffsetsAreConfirmed`, `OneVideoOnly`, `PublicByDecision` | `Spec => []ServerConfirmed`, `[]AtMostOneVideo`, `[]PublicIsDecided` |
| | `VideoStays`, `RowStaysAccepted` | `Spec => VideoIsKept`, `[]RowIsAccepted` |
| `RenderJobProofs` | `Invariance`, `TypeCorrect`, `RenderStaysTrue` | `Spec => []RenderInv`, `[]TypeOK`, `[]RenderIsTrue` |
| | `LeasesExclude` | `Spec => LeaseExcludes` |
| | `VerifiedIsExcused` | the rule of verified files in `DeliveredOk`, for every plan and file |
| `PaidMediaProofs` | `Invariance`, `TypeCorrect`, `PaidForOnce` | `Spec => []Inv`, `[]TypeOK`, `[]PaidOnce` |
| | `BudgetImplemented` | `Spec => ImplementsBudget`, given `Overtaking = FALSE` |
| `WorkflowsProofs` | `Invariance`, `TypeCorrect` | `FairSpec => []Inv`, `[]TypeOK` |
| | `ShotsEarnTheirLock`, `RunsSettleAfterExecutions`, `CompletionNeedsAPass` | `FairSpec => []LockedIsEarned`, `[]SettledRunIsOver`, `[]CompletedPassedQA` |
| `RepairProofs` | `Invariance`, `TypeCorrect` | `FairSpec => []RepairInv`, `[]TypeOK` |
| | `EndsWhereItShould`, `PaysAsAgreed`, `VerdictsStand` | `FairSpec => []EndsOnItsClip`, `[]PaidAsAgreed`, `VerdictStays` |
| | `RoutesArePaidFor`, `PlansAreSubmittable` | the rules of routes and plans in `QualityOk`, for every result and policy |
| | `FallbackMoves` | the rule of fallbacks in `QualityOk`, for every identity, duration and frame rate |
| | `ClipsAreRouted`, `RepairsAreRouted` | the two halves of `RoutingHolds` in `MadeOk`, for every length and amount |
| `OwnerWorkProofs` | `OwnerInvariance`, `UploadStaysTrue`, `CredentialStays`, `NoEventSkipped` | `Spec => []` of the invariant, `UploadIsTrue`, `CredentialKept`, `NothingSkipped` |
| | `ReferencesStayBound` | `Spec => ReferencesBound` |
| `StagesProofs` | `StagesInvariant`, `SelectedStaysWhole` | `Spec => []StagesInv`, `[]SelectedIsWhole` |
| | `StoredIsPaidOnce` | `Spec => StoredIsNotRepaid` |
| | `CommandInFlightIsShown` | the rule of shown commands in `ProjectOk`, for every history of commands |

**ControlCommand.** What a replica writes was decided from a copy, an answer or a lock it
took steps earlier. `IInv` says: a copy marked fresh agrees with the committed row
(`CopiesAreCurrent`), a replica holds a lock only at the steps that need one
(`HoldsItsLocks`), the status of its fresh copy allows the step it is about to take
(`CopyAllows`), its observation was true when it was made and stays earned
(`EvidenceIsReal`), a request still fresh carries the row's values
(`RequestIsSound`), and an execution exists only if it was started
(`HistoryIsSound`). `FinishedStays` follows from `CopyAllows` and the status graph.

Two action properties need more, and hold for one replica only. `AloneInv` says what a
dispatcher alone can rely on between its transactions: the command it has claimed stays
claimed unless its owner cancels it, so that no late release reaches a row that has
failed (`FailedWaitsForOwner`); and whatever a pass over cancellations is about to write
`cancelled` was told to stop first (`CancelledOnceTold`). A second replica whose lease ran
out breaks the first by its late release, which `Claim` does not exclude. TLC checked
`AloneInv` on the one-replica instances before it was proved.

**Publication** goes in three layers, each an inductive invariant over the last:

- `IInv` says what a drive knows whatever others do: it has a session, counts no
  chunk YouTube does not hold, sends only chunks the render has, and records only a
  complete upload (`DriveIsSound`); the workflow's loops are below their bound.
- `VInv` says where the video may be. As long as no attempt was given up the
  workflow waits for the only attempt (`OneAttempt`) and no copy is mistaken about
  the video (`CopiesKnowVideo`). If, besides, every cancelled session is still being
  driven, there is at most one live session, its drive goes on from the offset it
  has recorded, and as long as that offset is zero YouTube holds at most the first
  chunk: that is why an expired session that confirmed nothing can be replaced. A
  video outside the live session and not in the row freezes the publication: every
  copy is in review or dead, and the machine leads from there to no upload
  (`Frozen`). The proviso is `Sole` and not `Alone`, since a session cancelled under
  its drive can still be completed by it, and `Alone` holds again.
- `RInv` says what the row may claim: no copy knows of a video the row does not
  (`VideoIsKnown`), YouTube is asked for nothing that is not committed as decided
  (`DecidedFirst`), and processing, once seen, is neither unseen by another copy
  nor ahead of YouTube (`ProcessedFirst`). What an activity may do to the row is
  stated once (`Rewrites`), and every activity step is shown to do no more.
  `RowStaysAccepted` says that stale copies never combine into a row the CHECK
  constraints of `publication_runs` refuse.

The condition `Alone` is needed: an attempt that outlives its timeout uploads twice.

**RenderJob.** `RenderInv`: what an execution knows of its job's inputs is what a job
queued for given inputs says (`KnowsInputs`), a stamped job's outputs show its inputs
(`Stamped`), what is selected or complete has outputs (`Shown`), and identities are
unique. Leases are not part of it: writes after the claim are not guarded by them, and
`RenderIsTrue` does not need it, because whoever completes a job read the same inputs.

**PaidMedia.** The invariant says that a submission follows one that has not failed only
behind a submission routed apart from an earlier one of its number, which holds because an
attempt that is about to submit either finds its number used or everything before it
failed or routed apart (`Ready`); that numbers are given out in order, an attempt acts on
the submission it made, a task is known exactly if Runway created it, a failed
submission made none, and what Runway has is held or booked unless its submit was cut
off; that images paid and calls in flight are at most one more than the faults that let
them through; that narration holds the lock over an amount that fits. For the
refinement, `Sums` says that the row's two columns are the numbers of held and booked
units, and each part is shown to move only its own keys, in one of the two ways the
abstract budget allows.

**Workflows.** `FanoutInv` says which gates a child has passed at each of its stages, that
the parent's record of a locked shot is the child's own end, and that a complete
fan-out has nothing open; `GenerationInv` says that one execution is open at a time, that
rows and runs name executions there are, and that an answer a reconciler or dispatcher
carries stays true of the execution it asked about.

**Repair.** `RepairInv` has three parts: `Shape`, that each execution is bound to its
attempt and evaluation and no kind is spent beyond the policy; `Books`, that until an
agent's answer is in, every call was made by an execution that still waits for it or
was lost to a fault; and `Solo`, that executions that never overlapped are one at most, at
the newest attempt and the clip the shot shows. The instance's `RepairInv` was checked by
TLC before it was proved.

**OwnerWork.** One finalisation and one request of a part are past their lock, and what was
assembled is verified; beside a present credential stands its sealed row; the events are
1 to k, one open transaction holds the next numbers, the browser has seen 1 to its last,
and what is on the wire or in a poll is a run of consecutive events; what an apply has read
and chosen is approved, and no sheet undecided, but for what changed since (`ReadFor`); and
a sheet that no two builds looked for at once is drawn by one build, which has not paid
before it asks (`PaidFor`).

**Stages.** `StagesInv` is one invariant per pipeline and the place of the worker. The
first part of each says what the rows keep between attempts, the rest, guarded by the
places of its own stage, what the attempt at work has in its registers; so a death, a
continuation and every step of another stage keep it at once (the lemmas `...Rests`).
What each stage adds to its selection:

- acquisition and analysis: a transcription, or a record, is complete over all its
  chunks or scenes, and what is asked for is what is not in store;
- script: as long as the owner has chosen nothing, the run that waits for the owner is
  the newest, and only its last version is pending (`UndecidedInv`); that is why no run
  begins beside it. The last version of a run and the newest open run are the greatest
  elements of finite sets, which one lemma gives by well-founded induction (`Greatest`);
- narration: a line has at most one unsettled take, a row waiting for one is not
  spoken, a complete row has its timings, and the run that is selected keeps its rows
  whatever a later attempt marks it;
- storyboard: a complete segment follows a complete one and was directed from what that
  one handed over (`SheetsChain`), and a complete segment is written no more;
- final QA: an evaluation is at its gate only with the looks its verdict needs.

TLC checked `StagesInv` on the instance of `stages` before it was proved.

**Rules.** The run `decisions` asks the pure decisions a finite set of questions. Seven of
its rules are proved for every question of the shape the code can be asked, beside the
component they serve:

- routes and plans (`Triage`, in `RepairProofs`). The one lemma that matters is
  `PrimaryIs`: the cause that decides is among the hard ones if there are any, and if one
  of them cannot be paid away, neither can the deciding one, or it is the provider's
  refusal. It rests on the order of `Priority`, as the least of a set of positions.
  `PlansAreSubmittable` supposes that the digest a seed is made of does not collide;
- the move over a still (`Triage`, in `RepairProofs`), for every identity, duration and
  frame rate. A position is an amount spread over the frames by integer division
  (`SpreadStays`, `SpreadMoves`), which moves at every frame as long as there is a unit for
  each: hence the bound of a million frames. How long the frames last follows from
  rounding the number of frames up and the duration down (`FramesReach`);
- the model of a clip (`Routing`, in `RepairProofs`). `RicherIsNoWorse` compares two
  clips that differ in money only: what is affordable stays so, and every mode prefers
  the better model it can afford. The rule for more money, and the rule that a repair's
  model is recorded lower only when the budget shrank, both follow from it. Of a repair,
  `RepairAsked` supposes what the clip before it went through: that some model makes a
  clip of that length;
- what final QA may hold against a file the render verified (`Delivery`, in
  `RenderJobProofs`), for plans as the manifest builder makes them: one narration, and
  beds that end with the timeline;
- the command shown on a shot (`Dashboard`, in `StagesProofs`), for a history of any length.

Only model-checked:

- liveness under fairness and what rests on ENABLED (`CancellationHonoured`,
  `CommandMoves`, `PublicationSettles`, `HeadSettles`, `PaidTaskKept`, `WorkflowsSettle`,
  the second half of `RepairConcludes`, `StageEnds`, `OwnerIsServed`): beyond the prover;
- the four properties of `Decisions` as a whole: most of their rules are recursive or
  folds over a question (scores, timings, scripts, captions, deletions), what they compute
  for every input needs an induction over data, and `Decisions` reaches recursive
  operators through `Retimer` and `Deletion`. The rules named under **Rules** are proved.

## What is not modelled

The media worker (FFmpeg and FFprobe over files), the asset and blob store by itself
(where a file matters it is part of the module of its user), routing and
projection of the HTTP API, presentation, the idempotency keys and row versions of
review mutations, price tables and generation estimates, migrations and infrastructure.
Prompts, texts, pixels and sound are answers of a small set. External systems -
Temporal, PostgreSQL's locks, Runway, OpenAI, YouTube, Google, FFmpeg - are modelled from
how the code uses them.

## Plan

Every invariant of a state machine and every action property that a run checks is a
theorem, except what the list of the only model-checked names. When the code changes: the
`map` of `PROJECT.json` names the definitions that stand for the changed lines; TLC finds
out on the small instance, then the lemma of the action that changed is proved again.
What would be added next is the media worker's job claim and the deletion of blobs that
lose their last owner, the one hazard between two projects.

Checking all runs takes about twenty minutes. `tlc -config X.cfg M`, with M the module of
the run, does one; `tlapm M.tla`, with M one of the modules `...Proofs`, checks its proofs.
