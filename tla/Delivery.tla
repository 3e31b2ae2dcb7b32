------------------------------ MODULE Delivery ------------------------------
(***************************************************************************)
(* A finished file, as the renderer verifies it and as final QA grades it  *)
(* (services/renderer/commands.py, pipeline.py, verify.py;                 *)
(* services/qa/final_deterministic.py, final_audio.py, final_evidence.py). *)
(* The file was encoded from a plan; what was measured of it is given.     *)
(* The timeline is a few units long, a unit standing for half a second of  *)
(* sound and for one frame of drift.                                       *)
(***************************************************************************)
EXTENDS Integers, Sequences, FiniteSets, SequencesExt

\* FinalQAConfiguration, scaled down; the renderer's own tolerance grows with the shots.
Tolerance == 3
SilenceLimit == 2
NarrationTolerance == 1
ExpectedRate == 24
Samples == 3

\* --- what the plan makes --------------------------------------------------
Selectable(plan) == plan.mode \in {"selectable", "both"}

\* build_command_plan: a file without crossfades, and no longer than the narration.
Planned(plan) == plan.transitions = {"cut"}
Subtitles(plan) == IF Selectable(plan) THEN 1 ELSE 0

\* verify_streams and decode_complete.
FrameAllowance(plan) == 1 + plan.shots
Verified(plan, m) ==
  /\ m.video = "h264" /\ m.picture = "1080p" /\ m.audio = "aac" /\ m.sampled = 48
  /\ m.subtitles = Subtitles(plan)
  /\ m.length - plan.length \in -FrameAllowance(plan)..FrameAllowance(plan)
  /\ m.rate = plan.rate
  /\ m.decodes

\* --- final_deterministic.evaluate -------------------------------------------
StreamCodes(plan, m) ==
  {c \in {"video_codec", "audio_codec", "unexpected_stream", "decode_failure", "resolution", "frame_rate"} :
     \/ c = "video_codec" /\ m.video # "h264"
     \/ c = "audio_codec" /\ m.audio # "aac"
     \/ c = "unexpected_stream" /\ m.subtitles # (IF plan.mode = "burn_in" THEN 0 ELSE 1)
     \/ c = "decode_failure" /\ ~m.decodes
     \/ c = "resolution" /\ m.picture # "1080p"
     \/ c = "frame_rate" /\ m.rate # ExpectedRate}

DurationCodes(plan, m) ==
  {c \in {"timeline_duration", "video_duration", "av_drift"} :
     \/ c = "timeline_duration" /\ m.length - plan.length \notin -Tolerance..Tolerance
     \/ c = "video_duration" /\ m.videoLength - plan.length \notin -Tolerance..Tolerance
     \/ c = "av_drift" /\ m.videoLength - m.length \notin -Tolerance..Tolerance}

\* _transition_check: a crossfade has handles, a cut has none.
TransitionCodes(plan) == {"transition_handle" : t \in plan.transitions \cap {"bare crossfade", "cut with handles"}}

\* --- final_audio -------------------------------------------------------------
\* non_silent_intervals: the complement of the silences, in the order of their starts.
Audible(silences, length) ==
  LET Put(acc, s) ==
        [cursor |-> IF s[2] > acc.cursor THEN s[2] ELSE acc.cursor,
         heard |-> IF s[1] > acc.cursor THEN Append(acc.heard, <<acc.cursor, IF s[1] < length THEN s[1] ELSE length>>) ELSE acc.heard]
      all == FoldLeft(Put, [cursor |-> 0, heard |-> <<>>], SetToSortSeq(silences, LAMBDA a, b : a[1] < b[1]))
      heard == IF all.cursor < length THEN Append(all.heard, <<all.cursor, length>>) ELSE all.heard
  IN  SelectSeq(heard, LAMBDA h : h[2] > h[1])

\* _covered.
Overlap(a, b) ==
  LET low == IF a[1] > b[1] THEN a[1] ELSE b[1]
      high == IF a[2] < b[2] THEN a[2] ELSE b[2]
  IN  IF high > low THEN high - low ELSE 0
Covered(heard, span) == SumFunction([i \in DOMAIN heard |-> Overlap(heard[i], span)])

\* A narration interval is missing when less than half of it is heard, late when more
\* than the tolerance is not.
NarrationCodes(plan, m) ==
  LET heard == Audible(m.silences, plan.length)
      length(s) == s[2] - s[1]
      missing == {s \in plan.narration : 2 * Covered(heard, s) < length(s)}
      late == {s \in plan.narration \ missing : length(s) - Covered(heard, s) > NarrationTolerance}
  IN  {"narration_missing" : s \in missing} \cup {"narration_drift" : s \in late}

\* _abnormal_internal_silence, leading_silence_us and trailing_silence_us.
SilenceCodes(plan, m) ==
  {c \in {"internal_silence", "leading_silence", "trailing_silence"} :
     \E s \in m.silences :
       \/ c = "internal_silence" /\ s[2] - s[1] > SilenceLimit /\ \E n \in plan.narration : Overlap(s, n) > 0
       \/ c = "leading_silence" /\ s[1] = 0 /\ s[2] > SilenceLimit
       \/ c = "trailing_silence" /\ s[2] >= plan.length /\ plan.length - s[1] > SilenceLimit}

\* _manifest_checks: a bed is ducked or quiet, ends in time, and the narration is alone.
MixCodes(plan) ==
  {c \in {"narration_masked", "bed_overrun", "unapproved_audio"} :
     \/ c = "narration_masked" /\ \E b \in plan.beds : ~b.ducked /\ ~b.quiet
     \/ c = "bed_overrun" /\ \E b \in plan.beds : b.start + b.length > plan.length + Tolerance
     \/ c = "unapproved_audio" /\ plan.narrations # 1}

Graded(plan, m) ==
  StreamCodes(plan, m) \cup DurationCodes(plan, m) \cup TransitionCodes(plan)
    \cup NarrationCodes(plan, m) \cup SilenceCodes(plan, m) \cup MixCodes(plan)

\* --- final_evidence.plan_sample_timestamps ------------------------------------
\* The middle of every shot and then evenly over the timeline, or evenly over the shots.
FillerTime(k, spare, length) ==
  LET even == (2 * length * k + spare + 1) \div (2 * (spare + 1)) IN IF even < length THEN even ELSE length - 1
SampledTimes(shots, length) ==
  LET middle(i) == shots[i][1] + (shots[i][2] - shots[i][1]) \div 2
      spare == Samples - Len(shots)
  IN  IF Len(shots) > Samples THEN {middle(((k * Len(shots)) \div Samples) + 1) : k \in 0..(Samples - 1)}
      ELSE {middle(i) : i \in DOMAIN shots} \cup {FillerTime(k, spare, length) : k \in 1..spare}

Inspected(q) ==
  [verified |-> Planned(q.plan) /\ Verified(q.plan, q.measured), codes |-> Graded(q.plan, q.measured),
   sampled |-> SampledTimes(q.cut, q.plan.length)]

-----------------------------------------------------------------------------
\* What the renderer verified final QA refuses only for what the renderer does not
\* measure, for another frame rate than 24, for an effect laid over the narration, or for
\* a drift that only a timeline of many shots allows.  A narration that is silent for
\* most of its time is always found, whatever order the silences were listed in.  The
\* frames looked at are inside the file, no more than the budget, and from first to last
\* leave no two neighbouring shots unseen.
Unmeasured == {"video_duration", "av_drift", "narration_missing", "narration_drift", "internal_silence", "leading_silence", "trailing_silence"}
Silent(q, span) == Cardinality({t \in span[1]..(span[2] - 1) : \E s \in q.measured.silences : t \in s[1]..(s[2] - 1)})
Excused(plan) ==
  Unmeasured
    \cup (IF plan.rate = ExpectedRate THEN {} ELSE {"frame_rate"})
    \cup {"narration_masked" : b \in {x \in plan.beds : ~x.quiet /\ ~x.ducked}}
    \cup (IF FrameAllowance(plan) > Tolerance THEN {"timeline_duration"} ELSE {})
DeliveryHolds(q, a) ==
  /\ a.verified => a.codes \subseteq Excused(q.plan)
  /\ \A n \in q.plan.narration :
       /\ 2 * Silent(q, n) > n[2] - n[1] => "narration_missing" \in a.codes
       /\ Silent(q, n) > NarrationTolerance => a.codes \cap {"narration_missing", "narration_drift"} # {}
  /\ Cardinality(a.sampled) <= Samples /\ \A t \in a.sampled : t \in 0..(q.plan.length - 1)
  /\ LET seen == {i \in DOMAIN q.cut : \E t \in a.sampled : t \in q.cut[i][1]..(q.cut[i][2] - 1)}
         apart == IF Len(q.cut) > Samples THEN (Len(q.cut) + Samples - 1) \div Samples ELSE 1
     IN  \A i \in DOMAIN q.cut : \E j \in seen : i - j \in 0..(apart - 1)
=============================================================================
