----------------------------- MODULE Dashboard ------------------------------
(***************************************************************************)
(* What the dashboard says of a project: the bar of the stage that moved   *)
(* last (services/progress), the timeline and state of its run, the        *)
(* command that acts on a shot, and what can be done with its render       *)
(* (src/vidgen/review/projections.py).  All of it is derived, without a    *)
(* lock, from rows the pipelines, the dispatcher and the reconciler write  *)
(* at times of their own.  Percentages are whole numbers.                  *)
(***************************************************************************)
EXTENDS Integers, Sequences, FiniteSets, SequencesExt, TLC

\* How a status reads: its state and where it puts the bar; a counted phase
\* fills its range as the work it counts is done.
Phase(state, at) == [state |-> state, from |-> at, to |-> at, counted |-> FALSE]
Counting(from, to) == [state |-> "running", from |-> from, to |-> to, counted |-> TRUE]
Runs(at) == Phase("running", at)
Queued == Phase("queued", 0)
Done == Phase("completed", 100)
Asks(at) == Phase("waiting", at)
Failed == Phase("failed", 0)

MediaProcessing ==
  [probing |-> Runs(5), extracting_audio |-> Runs(20), detecting_scenes |-> Runs(40),
   extracting_frames |-> Counting(60, 95), media_ready |-> Done, media_failed |-> Failed]
Transcription ==
  [subtitle_discovery |-> Runs(5), subtitle_validating |-> Runs(15), subtitle_searching |-> Runs(20),
   subtitle_downloading |-> Runs(25), subtitle_importing |-> Runs(85), subtitle_imported |-> Done,
   subtitle_unavailable |-> Runs(10), subtitle_failed |-> Failed, transcription_chunking |-> Runs(10),
   transcribing |-> Counting(10, 80), diarizing |-> Counting(10, 80), transcript_merging |-> Runs(90),
   transcribed |-> Done, transcription_failed |-> Failed]
Evidence == [pending |-> Queued, complete |-> Done]
EpisodeAnalysis ==
  [episode_analysis_pending |-> Queued, episode_scene_mapping |-> Counting(0, 80), episode_global_reduction |-> Runs(85),
   episode_analysis_validating |-> Runs(95), episode_analyzed |-> Done, episode_analysis_failed |-> Failed]
ScriptGeneration ==
  [plot_compression_pending |-> Queued, compressing_plot |-> Runs(15), plot_compressed |-> Runs(30), comedy_writing |-> Runs(45),
   script_validating |-> Runs(65), comedy_editing |-> Counting(70, 95), script_approved |-> Done, completed |-> Done,
   script_review_required |-> Asks(100), script_generation_failed |-> Failed]
Narration ==
  [narration_queued |-> Queued, narration_generating |-> Counting(5, 85), narration_aligning |-> Counting(5, 85),
   narration_validating |-> Counting(5, 85), narration_previewing |-> Runs(90), narration_complete |-> Done, narration_failed |-> Failed]
Storyboard ==
  [storyboard_queued |-> Queued, storyboard_directing |-> Counting(0, 85), storyboard_repairing |-> Counting(0, 85),
   storyboard_retiming |-> Counting(0, 85), storyboard_validating |-> Runs(90), storyboard_complete |-> Done, storyboard_failed |-> Failed]
References == [generating |-> Counting(0, 70), awaiting_approval |-> Asks(80), binding |-> Runs(90), complete |-> Done]
ShotGeneration ==
  [shot_generation_queued |-> Queued, keyframes |-> Counting(0, 100), animating |-> Counting(0, 100), reviewing |-> Counting(0, 100),
   shot_generation_complete |-> Done, shot_generation_partial |-> [Counting(0, 100) EXCEPT !.state = "waiting"],
   shot_generation_failed |-> Failed, shot_generation_cancelled |-> Failed]
Rendering ==
  [pending |-> Queued, render_queued |-> Queued]
  @@ [s \in {"render_claiming", "render_preparing", "render_manifest_ready", "render_rendering", "render_verifying", "render_persisting"}
        |-> Counting(0, 100)]
  @@ [render_complete |-> Done, render_failed |-> Failed, render_cancelled |-> Failed]
FinalQA ==
  [s \in {"FINAL_QA_VALIDATING_INPUTS", "FINAL_QA_CHECKING_MEDIA", "FINAL_QA_CHECKING_CAPTIONS", "FINAL_QA_ANALYZING", "FINAL_QA_ADJUDICATING"}
     |-> Counting(0, 95)]
  @@ [FINAL_QA_QUEUED |-> Queued, FINAL_QA_PASSED |-> Done, FINAL_QA_REVIEW_REQUIRED |-> Asks(100), FINAL_QA_FAILED |-> Failed]

\* calculate_progress: the bar, from a status and the share of the counted work.
Clamped(n, total) == IF n < 0 THEN 0 ELSE IF n > total THEN total ELSE n
Shown(table, status) == IF status \in DOMAIN table THEN table[status] ELSE Queued
Filled(phase, done, total) ==
  phase.from + (IF total = 0 THEN 0 ELSE ((phase.to - phase.from) * Clamped(done, total)) \div total)
Earned(table, done, total) ==
  LET counted == {s \in DOMAIN table : table[s].counted}
  IN  IF counted = {} THEN 0 ELSE Filled(table[CHOOSE s \in counted : TRUE], done, total)
Progress(stage, table, run, done, total, at) ==
  LET phase == Shown(table, run)
  IN  [stage |-> stage, status |-> run, state |-> phase.state, counted |-> phase.counted, at |-> at,
       percent |-> IF phase.state = "failed" THEN Earned(table, done, total) ELSE Filled(phase, done, total)]

-----------------------------------------------------------------------------
\* The rows a project's stages keep: a run is its status, when it was made and
\* when it or one of its checkpoints last changed, and its finished items.
NoRun == [status |-> "none", born |-> 0, at |-> 0, done |-> 0, total |-> 0]
Started(run) == run.status # "none"

\* _status_for: the project's own status when it is one of this stage's.
Finest(table, p, run) == IF p.status \in DOMAIN table THEN p.status ELSE run.status

\* Media processing speaks only through project.status, and only while it is its own.
LoadMedia(p) ==
  IF p.status \notin DOMAIN MediaProcessing THEN {}
  ELSE {Progress("media_processing", MediaProcessing, p.status, p.media.done, p.media.total, p.at)}

\* Subtitles or audio, whichever run is newer.
LoadTranscription(p) ==
  IF Started(p.audio) /\ (Started(p.subtitle) => p.audio.born >= p.subtitle.born)
    THEN {Progress("transcript_acquisition", Transcription, Finest(Transcription, p, p.audio), p.audio.done, p.audio.total, p.audio.at)}
  ELSE IF Started(p.subtitle)
    THEN {Progress("transcript_acquisition", Transcription, Finest(Transcription, p, p.subtitle), 0, 0, p.subtitle.at)}
  ELSE {}

LoadEvidence(p) ==
  IF Started(p.evidence) THEN {Progress("evidence", Evidence, "complete", p.evidence.done, p.evidence.total, p.evidence.at)}
  ELSE IF p.status = "transcribed" THEN {Progress("evidence", Evidence, "pending", 0, p.evidence.total, p.at)} ELSE {}

LoadAnalysis(p) ==
  IF ~Started(p.analysis) THEN {}
  ELSE {Progress("episode_analysis", EpisodeAnalysis, p.analysis.status, p.analysis.done, p.analysis.total, p.analysis.at)}
LoadScript(p) ==
  IF ~Started(p.script) THEN {}
  ELSE {Progress("script_generation", ScriptGeneration, Finest(ScriptGeneration, p, p.script), p.script.done, p.script.total, p.script.at)}
LoadNarration(p) ==
  IF ~Started(p.narration) THEN {}
  ELSE {Progress("narration", Narration, Finest(Narration, p, p.narration), p.narration.done, p.narration.total, p.narration.at)}
LoadStoryboard(p) ==
  IF ~Started(p.storyboard) THEN {}
  ELSE {Progress("storyboard", Storyboard, Finest(Storyboard, p, p.storyboard), p.storyboard.done, p.storyboard.total, p.storyboard.at)}

\* Reference sheets have no run: the phase is what their rows still lack.
LoadReferences(p) ==
  LET s == p.sheets
      phase == CASE s.generated < s.required -> "generating"
                 [] s.approved < s.required -> "awaiting_approval"
                 [] s.bound < p.shots.total -> "binding"
                 [] OTHER -> "complete"
  IN  IF s.at = 0 THEN {} ELSE {Progress("references", References, phase, s.generated, s.required, s.at)}

\* Keyframes, animation and review of every shot fill one bar together.
KeyframeStatuses == {"keyframes_queued", "keyframes_compiling", "keyframes_generating", "keyframes_persisting"}
AnimationStatuses == {"animation_queued", "animation_submitting", "animation_polling", "animation_downloading", "animation_trimming"}
AmbiguousStatuses == {"keyframes_complete", "keyframes_failed", "animation_complete", "animation_failed",
                      "shot_generation_running", "shot_generation_retrying"}
SettledStatuses == {"shot_generation_queued", "shot_generation_complete", "shot_generation_partial",
                    "shot_generation_failed", "shot_generation_cancelled"}
ShotStatuses == KeyframeStatuses \cup AnimationStatuses \cup AmbiguousStatuses \cup SettledStatuses
Made(s) == s.keyframed + s.animated + s.reviewed
ShotPhase(p) ==
  LET s == p.shots IN
  CASE p.status \in KeyframeStatuses -> "keyframes"
    [] p.status \in AnimationStatuses -> "animating"
    [] p.status \notin SettledStatuses \/ (p.status = "shot_generation_queued" /\ Made(s) > 0) ->
         IF s.total = 0 THEN "keyframes"
         ELSE IF s.animated >= s.total THEN "reviewing" ELSE IF s.keyframed >= s.total THEN "animating" ELSE "keyframes"
    [] OTHER -> p.status
Latest(a, b) == IF a > b THEN a ELSE b
ShotShare(s) == <<Made(s), 3 * s.total>>
LoadShots(p) ==
  IF p.shots.total = 0 \/ (p.status \notin ShotStatuses /\ Made(p.shots) = 0) THEN {}
  ELSE {Progress("shot_generation", ShotGeneration, ShotPhase(p), ShotShare(p.shots)[1], ShotShare(p.shots)[2],
                 IF p.status \in SettledStatuses THEN p.shots.at ELSE Latest(p.shots.at, p.at))}

LoadRendering(p) ==
  IF ~Started(p.render) THEN {} ELSE {Progress("rendering", Rendering, p.render.status, p.render.done, 100, p.render.at)}
LoadFinalQA(p) ==
  IF ~Started(p.final) THEN {} ELSE {Progress("final_qa", FinalQA, p.final.status, p.final.done, p.final.total, p.final.at)}

StageOrder == <<"media_processing", "transcript_acquisition", "evidence", "episode_analysis", "script_generation", "narration",
                "storyboard", "references", "shot_generation", "rendering", "final_qa">>
Position(stage) == CHOOSE i \in DOMAIN StageOrder : StageOrder[i] = stage
NoProgress == [stage |-> "none", status |-> "none", state |-> "none", counted |-> FALSE, at |-> 0, percent |-> 0]

\* load_stage_progress: the stage that moved last, of equals the later stage.
Bar(p) ==
  LET all == LoadMedia(p) \cup LoadTranscription(p) \cup LoadEvidence(p) \cup LoadAnalysis(p) \cup LoadScript(p) \cup LoadNarration(p)
               \cup LoadStoryboard(p) \cup LoadReferences(p) \cup LoadShots(p) \cup LoadRendering(p) \cup LoadFinalQA(p)
  IN  IF all = {} THEN NoProgress
      ELSE CHOOSE x \in all : \A y \in all : y.at < x.at \/ (y.at = x.at /\ Position(y.stage) <= Position(x.stage))

-----------------------------------------------------------------------------
\* The timeline's stages, the names the workflow gives them, and what it fails with.
PipelineStages == <<"upload", "media_processing", "transcript_acquisition", "evidence", "episode_analysis", "script_generation", "narration",
                    "storyboard", "keyframes", "animation", "shot_orchestration", "captions", "rendering", "review">>
Alias(name) ==
  CASE name \in Range(PipelineStages) \ {"shot_orchestration"} -> name
    [] name = "image_generation" -> "keyframes"
    [] name \in {"shot_generation", "shot_generation_running", "shot_generation_complete"} -> "shot_orchestration"
    [] name = "render" \/ name \in DOMAIN Rendering \ {"pending"} -> "rendering"
    [] OTHER -> "none"
FailedStatuses == {"failed", "script_generation_failed", "shot_generation_failed", "render_failed", "FINAL_QA_FAILED", "references_failed"}
LiveStatuses == {"running", "dispatching", "pending", "starting"}

\* project_run_state, of the run's row ("none" without one) and the project's status.
RunState(run, status) ==
  CASE run = "none" -> "not_started"
    [] run = "cancelled" -> "cancelled"
    [] run \in FailedStatuses -> "failed"
    [] run \in LiveStatuses -> "running"
    [] status \in {"completed", "final_qa_passed"} \/ Alias(status) = "review" -> "completed"
    [] OTHER -> "stopped"

\* pipeline_failure_events: what a stage leaves behind as it ends.  A failure is
\* recorded unless its stage has an open one, or its key was ever used; a
\* success resolves what its stage left open.
OpenOf(rows, stage) == {i \in DOMAIN rows : rows[i].stage = stage /\ rows[i].open}
RecordFailure(rows, e) ==
  IF (e.gap /\ OpenOf(rows, e.stage) # {}) \/ \E i \in DOMAIN rows : rows[i].key = e.key THEN rows
  ELSE Append(rows, [stage |-> e.stage, key |-> e.key, open |-> TRUE])
ResolveFailures(rows, stage) == [i \in DOMAIN rows |-> IF rows[i].stage = stage THEN [rows[i] EXCEPT !.open = FALSE] ELSE rows[i]]
Failures(history) ==
  FoldLeft(LAMBDA rows, e : IF e.failed THEN RecordFailure(rows, e) ELSE ResolveFailures(rows, e.stage), <<>>, history)

\* latest_unresolved_failure, of the failures in the order they were recorded.
Unresolved(failures) ==
  LET open == SelectSeq(failures, LAMBDA f : f.open)
  IN  IF open = <<>> THEN [stage |-> "none"] ELSE [stage |-> Alias(Last(open).stage)]

\* workflow_status, from the workflow when it can be asked and from the row otherwise.
WorkflowStatus(q) == IF q.flow.status # "none" THEN q.flow.status ELSE IF q.run = "none" THEN "not_started" ELSE q.run
WorkflowCancelled(q) == q.flow.cancelled \/ q.run = "cancelled"
FailedStage(q) ==
  IF ~WorkflowCancelled(q) /\ WorkflowStatus(q) \in FailedStatuses THEN Unresolved(Failures(q.history)).stage ELSE "none"
Timeline(completed, current, cancelled, failed) ==
  [i \in DOMAIN PipelineStages |->
     LET stage == PipelineStages[i] IN
     CASE stage \in {Alias(name) : name \in completed} -> "complete"
       [] stage = failed -> "failed"
       [] cancelled -> "cancelled"
       [] stage = current -> "running"
       [] OTHER -> "pending"]
Status(q) ==
  [state |-> RunState(q.run, q.status), failed |-> FailedStage(q),
   timeline |-> Timeline(q.flow.completed, Alias(WorkflowStatus(q)), WorkflowCancelled(q), FailedStage(q))]

\* project_summary: one line of the list of projects.
Summary(q) ==
  [status |-> IF q.run = "cancelled" THEN "cancelled" ELSE q.status, state |-> RunState(q.run, q.status),
   failing |-> IF Failures(q.history) = <<>> THEN "none" ELSE Last(Failures(q.history)).stage]

\* What the browser offers: to re-enter the first stalled stage of the timeline
\* and, for a run that stopped on a failure, the stage the failure names
\* (apps/web/src/state), each as an entry stage of the project workflow.
EntryStage(stage) ==
  CASE stage \in {"keyframes", "animation", "shot_orchestration"} -> "shot_generation"
    [] stage \in {"captions", "rendering"} -> "render"
    [] stage = "review" -> "final_editorial_qa"
    [] OTHER -> stage
EntryStages == <<"upload", "media_processing", "transcript_acquisition", "evidence", "episode_analysis", "script_generation",
                 "narration", "storyboard", "continuity_references", "shot_generation", "render", "final_editorial_qa">>
FirstStalled(timeline) ==
  LET at == SelectInSeq(timeline, LAMBDA s : s \in {"failed", "cancelled"})
  IN  IF at = 0 THEN "none" ELSE PipelineStages[at]
StoppedOnFailure(q) == ~WorkflowCancelled(q) /\ WorkflowStatus(q) \in FailedStatuses \ {"shot_generation_failed"}
Prompted(q) == IF StoppedOnFailure(q) THEN Unresolved(Failures(q.history)).stage ELSE "none"
MustStopFirst(q) == q.run # "none" /\ ~WorkflowCancelled(q) /\ WorkflowStatus(q) \notin {"completed", "failed", "cancelled"}
Offer(q) == [stalled |-> FirstStalled(Status(q).timeline), prompted |-> Prompted(q), stops |-> MustStopFirst(q)]

-----------------------------------------------------------------------------
\* shot_commands: the command shown on a shot, of the commands of its project
\* in the order they were made (0: none is).
ActiveCommand == {"pending", "claimed", "dispatching", "running", "awaiting_review"}
ResolvedCommand == {"completed", "cancelled", "superseded"}
Surfaced == {"cancelled", "superseded"}
\* A remediation of a final QA run names its shot in its metadata.
ActsOn(c) == c.on \in {"shot", "remediation"}
Newest(commands) ==
  LET mine == {i \in DOMAIN commands : ActsOn(commands[i]) /\ commands[i].status \notin Surfaced}
  IN  IF mine = {} THEN 0 ELSE CHOOSE i \in mine : \A j \in mine : j <= i
InFlight(commands) == LET on == {i \in DOMAIN commands : ActsOn(commands[i]) /\ commands[i].status \in ActiveCommand}
                      IN  IF on = {} THEN 0 ELSE CHOOSE i \in on : \A j \in on : j <= i
ShownCommand(commands) ==
  IF InFlight(commands) # 0 THEN InFlight(commands)
  ELSE IF Newest(commands) # 0 /\ commands[Newest(commands)].status \notin ResolvedCommand THEN Newest(commands) ELSE 0

\* shot_projection: what its rows say of the shot itself, beside the command.
ShotStatus(item, clip) == IF item # "none" THEN item ELSE IF clip THEN "locked" ELSE "pending"
ShotRetryable(item, error) == item = "failed" /\ error
\* The selected keyframe and clip, and every attempt that was ever kept, in order.
ShotAttempts(kept, selected) == [i \in DOMAIN kept |-> [attempt |-> i, asset |-> kept[i], selected |-> kept[i] = selected]]
\* shotCommandState: how a card reads; one that waits on the owner keeps its actions.
Reads(status) ==
  CASE status = "awaiting_review" -> "waiting_on_you"
    [] status \in {"pending", "claimed", "dispatching"} -> "queued"
    [] status = "running" -> "running"
    [] OTHER -> "command_failed"
CommandCard(commands) ==
  IF ShownCommand(commands) = 0 THEN "idle" ELSE Reads(commands[ShownCommand(commands)].status)
ShotView(q) ==
  [command |-> ShownCommand(q.commands),
   active |-> ShownCommand(q.commands) # 0 /\ q.commands[ShownCommand(q.commands)].status \in ActiveCommand,
   card |-> CommandCard(q.commands), offered |-> CommandCard(q.commands) \notin {"queued", "running"},
   status |-> ShotStatus(q.item, q.clips # <<>>), retryable |-> ShotRetryable(q.item, q.error),
   attempts |-> ShotAttempts(q.clips, q.selected)]

-----------------------------------------------------------------------------
\* render_projection of a render: its lineage is what it was made of and the
\* clips its own storyboard has selected now; an approval binds to a lineage.
Lineage(r) == <<r.identity, r.captions, r.clips>>
Verified(r) == r.status = "render_complete" /\ r.report
RenderView(r) ==
  [verified |-> Verified(r), stale |-> r.invalidated, downloadable |-> Verified(r) /\ ~r.invalidated /\ r.video,
   applies |-> r.approved # <<>> /\ Last(r.approved) = Lineage(r),
   approvable |-> Verified(r) /\ ~r.invalidated,
   percent |-> Clamped(r.percent, 100)]

-----------------------------------------------------------------------------
\* Asked of a project at two moments, a run, a shot and its commands, or a render.

Displayed(q) ==
  CASE q.about = "bar" -> [was |-> Bar(q.before), now |-> Bar(q.after)]
    [] q.about = "run" -> [view |-> Status(q), line |-> Summary(q), offer |-> Offer(q)]
    [] q.about = "shot" -> [view |-> ShotView(q)]
    [] q.about = "render" -> [view |-> RenderView(q)]

\* The stage shown is the one the step moved, except that once a shot has
\* anything every write of the project's row reads as shot generation.
ShowsTheMove(q, a) ==
  \/ a.now.stage = q.moved
  \/ a.now.stage = "shot_generation" /\ q.after.at > q.before.at /\ Made(q.after.shots) > 0 /\ q.after.status \notin ShotStatuses

\* The bar of a stage falls only where subtitles give way to audio, where the
\* next of a storyboard's segments is begun, where a person sends it back or
\* where it fails outside the work it counts; what was counted is never lost.
Fallback == {"subtitle_unavailable", "transcription_chunking", "transcribing", "diarizing"}
SentBack == {"storyboard_validating", "script_review_required", "awaiting_approval", "binding", "complete"}
BarKeeps(q, a) ==
  a.was.stage = a.now.stage /\ a.was.stage # "none" =>
    \/ a.now.percent >= a.was.percent
    \/ a.now.stage = "transcript_acquisition" /\ a.now.status \in Fallback
    \/ a.was.status \in SentBack
    \/ a.now.state = "failed" /\ ~a.was.counted

\* A dead run's timeline names where it died, and the retry offered enters
\* there, unless a stage that failed before under the same key has recovered
\* since, or left a failure open that a later one now hides; nothing that was
\* completed is lost from it, nothing runs in a cancelled one.
Told(q) ==
  LET h == q.history  last == Last(h)  now == Len(h) IN
  \A i \in 1..(now - 1) : h[i].failed =>
    /\ h[i].key # last.key
    /\ h[i].stage = last.stage => \E j \in i..now : h[j].stage = last.stage /\ ~h[j].failed
TimelineHolds(q, a) ==
  LET is(s) == {i \in DOMAIN PipelineStages : a.view.timeline[i] = s}
      dead == q.flow.status = "none" /\ a.line.state = "failed" /\ q.history # <<>> /\ Last(q.history).failed
      died == Alias(Last(q.history).stage) IN
  /\ \A name \in q.flow.completed : Alias(name) # "none" => a.view.timeline[CHOOSE i \in DOMAIN PipelineStages : PipelineStages[i] = Alias(name)] = "complete"
  /\ Cardinality(is("failed")) <= 1 /\ Cardinality(is("running")) <= 1
  /\ a.line.state = "cancelled" => is("failed") = {} /\ is("running") = {}
  /\ is("failed") # {} /\ q.flow.status = "none" => a.line.state = "failed"
  /\ dead /\ Told(q) /\ died # "none" => is("failed") = {CHOOSE i \in DOMAIN PipelineStages : PipelineStages[i] = died} /\ a.offer.stalled = died
  /\ a.offer.prompted # "none" /\ q.flow.status = "none" => a.offer.stalled = a.offer.prompted
  /\ \A stage \in {a.offer.stalled, a.offer.prompted} \ {"none"} : EntryStage(stage) \in Range(EntryStages)
  /\ q.flow.status = "none" /\ a.line.state = "running" => a.offer.stops

\* A command in flight is always shown, so that the owner is not offered its
\* action again; a failed one only while nothing has happened to the shot since.
CommandHolds(q, a) ==
  LET c == q.commands  n == a.view.command  on == {i \in DOMAIN c : ActsOn(c[i])} IN
  /\ (\E i \in on : c[i].status \in ActiveCommand) => a.view.active
  /\ a.view.offered /\ (\E i \in on : c[i].status \in ActiveCommand) => c[n].status = "awaiting_review"
  /\ n # 0 /\ ~a.view.active => c[n].status = "failed" /\ \A i \in on : i > n => c[i].status \in Surfaced
  /\ (\E i \in on : c[i].status = "failed" /\ \A j \in on : j > i => c[j].status \in Surfaced) => n # 0
  /\ \A i, j \in DOMAIN a.view.attempts : a.view.attempts[i].selected /\ a.view.attempts[j].selected => a.view.attempts[i].asset = a.view.attempts[j].asset

\* What can be downloaded can be approved, and an approval applies to the very
\* clips, captions and render it was given for.
RenderHolds(q, a) ==
  /\ a.view.downloadable => a.view.approvable
  /\ a.view.applies => \E i \in DOMAIN q.approved : q.approved[i] = Lineage(q)
  /\ a.view.stale => ~a.view.downloadable

DashboardHolds(q, a) ==
  CASE q.about = "bar" -> ShowsTheMove(q, a) /\ BarKeeps(q, a)
    [] q.about = "run" -> TimelineHolds(q, a)
    [] q.about = "shot" -> CommandHolds(q, a)
    [] q.about = "render" -> RenderHolds(q, a)
=============================================================================
