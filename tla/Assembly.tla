------------------------------ MODULE Assembly ------------------------------
(***************************************************************************)
(* What a project is rendered from, and what final QA accepts of it later  *)
(* (services/renderer/selection.py, services/render_execution/inputs.py    *)
(* and manifest_builder.py, services/qa/final_inputs.py).  Both read the   *)
(* same rows at different times, with checks of their own: the renderer    *)
(* resolves them into an immutable manifest, final QA compares the         *)
(* manifest with what the rows have become.  A state keeps the selected    *)
(* script, narration and storyboard and the shot rows of one storyboard;   *)
(* durations are in units of the clip tolerance.                           *)
(***************************************************************************)
EXTENDS Integers, Sequences, FiniteSets, SequencesExt

Nothing == "none"

\* A check is a code and whether it refuses; the first that refuses is raised.
Refused(checks) ==
  LET hits == SelectInSeq(checks, LAMBDA c : c[2])
  IN  IF hits = 0 THEN Nothing ELSE checks[hits][1]

\* VisualQARepository.gate, by the shot's canonical verdict and its latest human review.
GateReason(qa) ==
  CASE qa.outcome = "PASS" -> Nothing
    [] qa.outcome = "REVIEW" -> IF qa.decision = "approved" THEN Nothing ELSE "visual_qa_review_required"
    [] qa.outcome = "FAIL" -> IF ~qa.hard /\ qa.decision = "force_approved" THEN Nothing ELSE "visual_qa_failed"
    [] OTHER -> "visual_qa_missing"

\* select_authoritative_inputs: the script, what was spoken of it, what was drawn from both.
LineageChecks(p) ==
  << <<"script_not_approved", ~p.script.approved>>,
     <<"narration_not_complete", ~p.narration.complete>>,
     <<"narration_script_mismatch", p.narration.script # p.script.id>>,
     <<"narration_alignment_missing", ~p.narration.timed>>,
     <<"storyboard_not_complete", ~p.storyboard.complete>>,
     <<"storyboard_upstream_mismatch", <<p.storyboard.script, p.storyboard.narration>> # <<p.script.id, p.narration.id>> >>,
     <<"shot_coverage_missing", Len(p.shots) # p.storyboard.count \/ p.shots = <<>> >> >>

Ends(p, i) == IF i = 0 THEN 0 ELSE p.shots[i].end

\* One shot of it; a project no visual QA ever ran for is not governed by it.
ShotChecks(p, i) ==
  LET s == p.shots[i] IN
  << <<"shot_timing_gap", s.start # Ends(p, i - 1)>>,
     <<"shot_not_locked", s.clip = Nothing>>,
     <<"animation_not_complete", ~s.animated>>,
     <<"stale_clip_duration", s.length - (s.end - s.start) \notin -1..1>>,
     <<GateReason(s.qa), p.governed /\ GateReason(s.qa) # Nothing>> >>

DurationChecks(p) ==
  << <<"duration_mismatch", Ends(p, Len(p.shots)) # p.storyboard.duration
                              \/ Ends(p, Len(p.shots)) - p.narration.duration \notin -1..1>> >>

\* BLOCKING_REPAIR_STATES, of the renderer and of final QA.
Blocking == [s \in {"REPAIRING", "REVALIDATING", "HUMAN_REVIEW_REQUIRED", "REPAIR_FAILED"} |->
  CASE s = "HUMAN_REVIEW_REQUIRED" -> "unresolved_repair_review" [] s = "REPAIR_FAILED" -> "failed_repair_run" [] OTHER -> "active_repair_run"]

\* _reject_blocking_repairs, then _locked_repair_runs, over the repair runs of every shot.
RepairChecks(p) ==
  LET runs == FlattenSeq([i \in DOMAIN p.shots |-> [j \in DOMAIN p.shots[i].repairs |-> [of |-> p.shots[i].clip, is |-> p.shots[i].repairs[j]]]])
  IN  [j \in DOMAIN runs |-> <<IF runs[j].is.state \in DOMAIN Blocking THEN Blocking[runs[j].is.state] ELSE Nothing,
                               runs[j].is.state \in DOMAIN Blocking>>]
      \o [j \in DOMAIN runs |-> <<"stale_shot_selection",
                               runs[j].is.state = "LOCKED" /\ runs[j].is.asset \notin {Nothing, runs[j].of}>>]

\* _narration_bed, the words, and _audio_beds.
BedRole == [k \in {"music", "score", "sfx"} |-> IF k = "sfx" THEN "sfx" ELSE "music"]
BedStart(p, b) == IF BedRole[b.kind] = "music" \/ b.shot = 0 THEN 0 ELSE p.shots[b.shot].start
SoundChecks(p) ==
  << <<"narration_bed_missing", ~p.narration.bed>>,
     <<"caption_timing_out_of_bounds", p.narration.lastWord > p.storyboard.duration>> >>
  \o [i \in DOMAIN p.beds |-> <<"audio_bed_out_of_bounds", BedStart(p, p.beds[i]) + p.beds[i].length > p.storyboard.duration>>]

\* resolve_render_inputs.
Resolved(p) ==
  Refused(LineageChecks(p) \o FlattenSeq([i \in DOMAIN p.shots |-> ShotChecks(p, i)]) \o DurationChecks(p) \o RepairChecks(p) \o SoundChecks(p))

\* build_manifest: the clips are whole, the narration spans the timeline, music is ducked.
ShotEntry(p, i) == [clip |-> p.shots[i].clip, sequence |-> i, start |-> p.shots[i].start, end |-> p.shots[i].end]
AudioEntry(p, b) ==
  [role |-> BedRole[b.kind], start |-> BedStart(p, b), length |-> b.length, quiet |-> b.kind # "sfx", ducked |-> BedRole[b.kind] = "music"]
Manifest(p) ==
  [script |-> p.script.id, narration |-> p.narration.id, storyboard |-> p.storyboard.id, duration |-> p.storyboard.duration,
   shots |-> [i \in DOMAIN p.shots |-> ShotEntry(p, i)],
   audio |-> <<[role |-> "narration", start |-> 0, length |-> p.storyboard.duration, quiet |-> FALSE, ducked |-> FALSE]>>
               \o [i \in DOMAIN p.beds |-> AudioEntry(p, p.beds[i])]]

\* RenderManifest.canonical_timeline.
Canonical(f) ==
  /\ \A i \in DOMAIN f.shots : f.shots[i].sequence = i /\ f.shots[i].start = (IF i = 1 THEN 0 ELSE f.shots[i - 1].end)
  /\ f.shots[Len(f.shots)].end = f.duration
  /\ Cardinality({i \in DOMAIN f.audio : f.audio[i].role = "narration"}) = 1

-----------------------------------------------------------------------------
\* _require_video_qa: governed or not, and never over a failing verdict.
FinalQaChecks(qa) ==
  << <<"missing_video_qa_result", qa.outcome = Nothing>>,
     <<"failing_video_qa_result", GateReason(qa) # Nothing \/ qa.outcome \notin {"PASS", "REVIEW"}>> >>

\* _require_repair_state: nothing pending, and the latest locked repair chose this clip.
FinalRepairChecks(clip, runs) ==
  LET locked == SelectSeq(runs, LAMBDA r : r.state = "LOCKED")
  IN  << <<"repair_not_settled", \E r \in Range(runs) : r.state \in DOMAIN Blocking>>,
         <<"stale_shot_selection", locked # <<>> /\ Last(locked).asset # clip>> >>

\* FinalInputSelector._shots: each entry against the row it names.
FinalShotChecks(f, now, i) ==
  << <<"missing_upstream_output", now.shots[i].clip = Nothing>>,
     <<"stale_shot_selection", now.shots[i].clip # f.shots[i].clip>> >>
  \o FinalQaChecks(now.shots[i].qa) \o FinalRepairChecks(f.shots[i].clip, now.shots[i].repairs)

\* _upstream_lineage.
FinalLineageChecks(f, now) ==
  << <<"stale_render_lineage", now.script.id # f.script>>,
     <<"narration_hash_mismatch", now.narration.id # f.narration>>,
     <<"storyboard_hash_mismatch", now.storyboard.id # f.storyboard>> >>

\* _render_job and _manifest, then the shots, then the lineage.
Evaluable(f, now) ==
  Refused(<< <<"render_manifest_invalid", ~Canonical(f)>> >>
          \o FlattenSeq([i \in DOMAIN f.shots |-> FinalShotChecks(f, now, i)]) \o FinalLineageChecks(f, now))

Assembled(q) ==
  IF Resolved(q.at) # Nothing THEN [render |-> Resolved(q.at), final |-> "not_rendered"]
  ELSE [render |-> Nothing, final |-> Evaluable(Manifest(q.at), q.now)]

-----------------------------------------------------------------------------
\* Where the two disagree on one state: a failing clip somebody forced through, a
\* project that never had visual QA, repairs that locked without naming a clip.
Disputed(p) ==
  \E s \in Range(p.shots) : \/ s.qa.outcome \in {"FAIL", Nothing}
                            \/ \E r \in Range(s.repairs) : r.state = "LOCKED" /\ r.asset = Nothing

\* What final QA evaluates is still what the project holds, however the rows changed
\* after the render; and what it would refuse of unchanged rows, the render refused.
AssemblyHolds(q, a) ==
  /\ a.final = Nothing =>
       /\ <<q.now.script.id, q.now.narration.id, q.now.storyboard.id>> = <<q.at.script.id, q.at.narration.id, q.at.storyboard.id>>
       /\ \A i \in DOMAIN q.at.shots :
            LET s == q.now.shots[i]
                chosen == SelectSeq(s.repairs, LAMBDA r : r.state = "LOCKED")
            IN  s.clip = q.at.shots[i].clip /\ GateReason(s.qa) = Nothing /\ (chosen # <<>> => Last(chosen).asset = s.clip)
  /\ q.at = q.now /\ a.render = Nothing /\ ~Disputed(q.at) => a.final = Nothing

-----------------------------------------------------------------------------
(***************************************************************************)
(* Captions, from the narration's word timings to the checks of the        *)
(* delivered file: selection.py projects the words onto the timeline,      *)
(* services/renderer/captions.py groups them into cues and serializes      *)
(* them, services/qa/final_captions.py parses what was delivered and       *)
(* grades it against captions it builds again from the same words.  A      *)
(* word is its size, whether it ends a phrase and its time; the limits     *)
(* are scaled down, and a file keeps times to two units (its millisecond). *)
(***************************************************************************)

\* CaptionConfig and FinalQAConfiguration, scaled down.
Width == 5
MaxLines == 2
MaxWords == 3
MinShown == 4
MaxShown == 12
Drift == 8
Grain == 2
Expected == "en"

\* project_narration_words: a segment's words are offset by where its shots start.
Spoken(q) ==
  FlattenSeq([i \in DOMAIN q.segments |->
    LET s == q.segments[i]
        kept == SelectSeq(s.words, LAMBDA w : w.to > w.from)
    IN  [j \in DOMAIN kept |-> [size |-> kept[j].size, stops |-> kept[j].stops,
                                start |-> s.start + kept[j].from, end |-> s.start + kept[j].to]]])

\* _wrap, without its limit: the sizes of the lines that greedy filling makes.
Wrapped(words) ==
  LET Put(lines, w) == IF lines # <<>> /\ Last(lines) + 1 + w.size <= Width
                       THEN [lines EXCEPT ![Len(lines)] = @ + 1 + w.size] ELSE Append(lines, w.size)
  IN  FoldLeft(Put, <<>>, words)

\* The groups: a word that does not fit, or comes too late, starts the next; a stop ends one.
Grouped(words) ==
  LET Put(acc, w) ==
        LET more == Append(acc.open, w)
            full == acc.open # <<>> /\ \/ Len(Wrapped(more)) > MaxLines
                                       \/ Len(more) > MaxWords
                                       \/ w.end - more[1].start > MaxShown
            done == IF full THEN Append(acc.done, acc.open) ELSE acc.done
            open == IF full THEN <<w>> ELSE more
        IN  IF w.stops THEN [done |-> Append(done, open), open |-> <<>>] ELSE [done |-> done, open |-> open]
      all == FoldLeft(Put, [done |-> <<>>, open |-> <<>>], words)
  IN  IF all.open = <<>> THEN all.done ELSE Append(all.done, all.open)

\* A short cue is shown for the minimum, but never into the next.
EndOf(groups, i, duration) ==
  LET end == Last(groups[i]).end
      minimum == Min({duration, groups[i][1].start + MinShown})
      next == IF i < Len(groups) THEN groups[i + 1][1].start ELSE duration
  IN  IF end >= minimum THEN end ELSE Min({minimum, next})

\* Reading speed in quarters of a character per unit: what the renderer warns of is
\* less than what final QA refuses, and counts the spaces at the line ends.
TooFast(sizes, length, quarters) == 4 * SumFunction(sizes) > quarters * length
TextSize(group) == <<SumFunction([i \in DOMAIN group |-> group[i].size]) + Len(group) - 1>>

\* build_caption_track: what it refuses, the cues, and the cues it only warns of.
Unbuilt == [built |-> FALSE, cues |-> <<>>, warned |-> {}]
CuesOf(groups, duration) ==
  [i \in DOMAIN groups |-> [start |-> groups[i][1].start, end |-> EndOf(groups, i, duration), lines |-> Wrapped(groups[i])]]
Hurried(groups, cues) == {i \in DOMAIN groups : TooFast(TextSize(groups[i]), cues[i].end - cues[i].start, 4)}
TrackOf(groups, cues) == [built |-> TRUE, cues |-> cues, warned |-> Hurried(groups, cues)]
GroupedTrack(groups, duration) == TrackOf(groups, CuesOf(groups, duration))
Track(words, duration) ==
  IF \/ words = <<>> \/ Last(words).end > duration
     \/ \E i \in 2..Len(words) : words[i].start < words[i - 1].end
  THEN Unbuilt
  ELSE GroupedTrack(Grouped(words), duration)

\* CaptionTrack.dense_nonoverlapping.
Dense(cues, duration) ==
  \A i \in DOMAIN cues : /\ cues[i].start < cues[i].end /\ cues[i].end <= duration
                         /\ i > 1 => cues[i].start >= cues[i - 1].end

\* serialize_srt and _timestamp: what a file keeps of a time.
Written(t) == Grain * (t \div Grain)

\* parse_srt, and _canonical_track when no delivered file parses.
Parsed(cues) == [i \in DOMAIN cues |-> [cues[i] EXCEPT !.start = Written(@), !.end = Written(@)]]
Readable(cues) == \A i \in DOMAIN Parsed(cues) : Parsed(cues)[i].start < Parsed(cues)[i].end
Delivered(cues, duration) ==
  IF Readable(cues) THEN Parsed(cues) ELSE <<[start |-> 0, end |-> duration, lines |-> <<39>>]>>

\* _worst_timing_drift: each boundary against the words the cue overlaps.
Drifted(cues, words) ==
  \E c \in Range(cues) :
    LET under == {w \in Range(words) : w.start < c.end /\ w.end > c.start}
    IN  under # {} /\ \/ c.start - Min({w.start : w \in under}) \notin -Drift..Drift
                      \/ c.end - Max({w.end : w \in under}) \notin -Drift..Drift

\* final_captions.evaluate: the delivered cues by themselves,
ShapeCodes(cues, duration) ==
  {c \in {"order_invalid", "nonpositive_duration", "out_of_bounds", "overlap", "line_count", "line_length", "reading_speed"} :
     \/ c = "order_invalid" /\ \E i \in 2..Len(cues) : cues[i].start < cues[i - 1].start
     \/ c = "nonpositive_duration" /\ \E i \in DOMAIN cues : cues[i].end <= cues[i].start
     \/ c = "out_of_bounds" /\ \E i \in DOMAIN cues : cues[i].end > duration
     \/ c = "overlap" /\ \E i \in 2..Len(cues) : cues[i].start < cues[i - 1].end
     \/ c = "line_count" /\ \E i \in DOMAIN cues : Len(cues[i].lines) > MaxLines
     \/ c = "line_length" /\ \E i \in DOMAIN cues : Max(Range(cues[i].lines)) > Width
     \/ c = "reading_speed" /\ \E i \in DOMAIN cues : TooFast(cues[i].lines, cues[i].end - cues[i].start, 6)}

\* against the narration and the captions built again from it,
FidelityCodes(cues, q, declared, words, again) ==
  {c \in {"coverage_missing", "reflow_nondeterministic", "text_mismatch", "cue_missing", "timing_drift"} :
     \/ c = "coverage_missing" /\ \E s \in Range(q.segments) : \A k \in Range(cues) : k.start >= s.end \/ k.end <= s.start
     \/ c = "reflow_nondeterministic" /\ <<again.cues, Expected>> # <<declared, q.language>>
     \/ c = "text_mismatch" /\ \E i \in DOMAIN cues \cap DOMAIN again.cues : cues[i].lines # again.cues[i].lines
     \/ c = "cue_missing" /\ Len(again.cues) > Len(cues)
     \/ c = "timing_drift" /\ Drifted(cues, words)}

\* and the files.
FileCodes(cues, q) ==
  {c \in {"language_mismatch", "parse_failure"} :
     \/ c = "language_mismatch" /\ q.language # Expected
     \/ c = "parse_failure" /\ ~Readable(cues)}

\* The track, and what each of its readers finds: words, track and delivered file in turn.
SeenAnswer(q, words, track, seen) ==
  [track |-> track,
   codes |-> IF ~track.built THEN {}
             ELSE ShapeCodes(seen, q.duration) \cup FileCodes(track.cues, q)
                    \cup FidelityCodes(seen, q, track.cues, words, Track(words, q.duration))]
TrackAnswer(q, words, track) == SeenAnswer(q, words, track, Delivered(track.cues, q.duration))
WordsAnswer(q, words) == TrackAnswer(q, words, Track(words, q.duration))
Captioned(q) == WordsAnswer(q, Spoken(q))

-----------------------------------------------------------------------------
\* A track that is built is one its contract takes; of a render's own captions final QA
\* refuses only what the words themselves bring: one too long for a line, one spoken
\* faster than the renderer warned, one too short to write down, a segment without
\* words, a language it does not expect.
CaptionsHold(q, a) ==
  LET words == Range(Spoken(q)) IN
  a.track.built =>
    /\ Dense(a.track.cues, q.duration)
    /\ "parse_failure" \notin a.codes => a.codes \subseteq
         ({"line_length" : w \in {v \in words : v.size > Width}}
           \cup {"reading_speed" : i \in a.track.warned}
           \cup {"coverage_missing" : s \in {t \in Range(q.segments) : \A w \in words : w.start >= t.end \/ w.end <= t.start}}
           \cup (IF q.language = Expected THEN {} ELSE {"language_mismatch", "reflow_nondeterministic"}))
    /\ "parse_failure" \in a.codes => \E w \in words : w.end - w.start < MinShown
=============================================================================
