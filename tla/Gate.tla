-------------------------------- MODULE Gate --------------------------------
(***************************************************************************)
(* How visual QA turns an agent's answer and the measurements of a clip    *)
(* into an outcome (services/qa/scoring.py, adjudication.py and the        *)
(* deterministic checks), over three of the rubric's dimensions, and which *)
(* frames of the clip are looked at (services/qa/sampler.py).  The         *)
(* contract's bounds on its lists are CONSTANTS, so that small lists       *)
(* overflow them.                                                          *)
(***************************************************************************)
EXTENDS Naturals, Sequences, FiniteSets, FiniteSetsExt, SequencesExt

CONSTANTS
  DimensionRepairs,  \* repair codes a dimension's result may carry
  ResultRepairs,     \* repair codes a result may carry
  ResultWarnings,    \* warning codes a result may carry
  GateTolerances,    \* warn_only_codes of the projects looked at
  GateFindings,      \* what an agent may report: sets of findings
  GateSeconds        \* the adjudicators looked at

\* The repair codes, alphabetically, with the dimension each belongs to.
Alphabet == <<"AMBIGUOUS_VISUAL_EVIDENCE", "ANATOMY_BREAKAGE", "BLACK_VIDEO", "DECODE_FAILURE",
              "DURATION_MISMATCH", "EXCESSIVE_FREEZE", "HUMAN_REVIEW_REQUIRED", "PROMPT_TOO_COMPLEX", "WRONG_ACTION",
              "WRONG_CHARACTER_IDENTITY">>
RepairCode == Range(Alphabet)
Place(code) == CHOOSE i \in DOMAIN Alphabet : Alphabet[i] = code
Alphabetically(codes) == SetToSortSeq(codes, LAMBDA a, b : Place(a) < Place(b))

\* The dimensions, in the order of the rubric.
Rubric == <<"identity", "motion", "anatomy">>
Dimension == Range(Rubric)
OfDimension(code) ==
  CASE code \in {"DURATION_MISMATCH", "EXCESSIVE_FREEZE", "WRONG_ACTION"} -> "motion"
    [] code \in {"ANATOMY_BREAKAGE", "BLACK_VIDEO", "DECODE_FAILURE"} -> "anatomy"
    [] OTHER -> "identity"
Weight == [identity |-> 25, motion |-> 15, anatomy |-> 10]
DefaultRepair == [identity |-> "WRONG_CHARACTER_IDENTITY", motion |-> "WRONG_ACTION",
                  anatomy |-> "ANATOMY_BREAKAGE"]
Structural == [identity |-> "new_seed", motion |-> "prompt_simplification", anatomy |-> "new_seed"]
Family(code) ==
  CASE code \in {"AMBIGUOUS_VISUAL_EVIDENCE", "HUMAN_REVIEW_REQUIRED"} -> "human_review"
    [] code \in {"WRONG_CHARACTER_IDENTITY", "ANATOMY_BREAKAGE", "BLACK_VIDEO", "DECODE_FAILURE"} -> "new_seed"
    [] code = "PROMPT_TOO_COMPLEX" -> "prompt_simplification"
    [] OTHER -> "targeted_repair"
HARD_FAILURE_CODES == {"BLACK_VIDEO", "DECODE_FAILURE", "DURATION_MISMATCH"}
Markers == {"HUMAN_REVIEW_REQUIRED", "AMBIGUOUS_VISUAL_EVIDENCE"}

\* VisualQAThresholds.
PassScore == 85
RepairFloor == 75
HardFloor == 50
Margin == 2

\* Warnings: what the contract reads by name, what scoring derives, the rest.
Tolerated == <<"score_below_threshold_tolerated">>
RepairsTruncated == <<"repair_codes_truncated">>
WarningsTruncated == <<"warning_codes_truncated">>
HardFailureDowngraded == <<"hard_failure_downgraded_by_score">>
UnknownProposal == <<"unknown_provider_hard_failure_code">>
UnevidencedProposal == <<"unevidenced_provider_hard_failure_proposal">>
WarnOnly(code) == <<"warn_only", code>>

\* Mutant: what scoring derives comes before what the contract reads.
WarningRankDerived(warning) == IF Head(warning) = "warn_only" THEN 0 ELSE 1

WarningRank(warning) ==
  CASE warning \in {Tolerated, RepairsTruncated} -> 0
    [] warning \in {HardFailureDowngraded, UnknownProposal, UnevidencedProposal} -> 1
    [] Head(warning) = "warn_only" -> 1
    [] OTHER -> 2

-----------------------------------------------------------------------------
(* The measurements. *)

\* evaluate: a metric is its outcome and the repair code that goes with one that
\* did not pass.  Drift is in steps of the tolerance.
Metric(outcome, code) == {[outcome |-> outcome, code |-> code]}

Streams(file) == IF file = "two_streams" THEN Metric("hard_failure", "DECODE_FAILURE") ELSE {}

Drifts(drift) ==
  CASE drift = 0 -> {}
    [] drift = 1 -> Metric("warning", "DURATION_MISMATCH")
    [] drift = 2 -> Metric("hard_failure", "DURATION_MISMATCH")

\* Too many black frames, or hardly any other.
Darkens(dark) ==
  CASE dark = 0 -> {}
    [] dark = 1 -> Metric("warning", "BLACK_VIDEO")
    [] dark = 2 -> Metric("hard_failure", "BLACK_VIDEO")

\* A shot that is meant to be still may freeze.
Freezes(frozen, still) == IF frozen /\ ~still THEN Metric("warning", "EXCESSIVE_FREEZE") ELSE {}

\* What cannot be decoded is not measured further.
Metrics(clip) ==
  IF clip.file = "undecodable" THEN Metric("hard_failure", "DECODE_FAILURE")
  ELSE Streams(clip.file) \cup Drifts(clip.drift) \cup Darkens(clip.dark) \cup Freezes(clip.frozen, clip.still)

Usable(metrics) == \A x \in metrics : x.outcome # "hard_failure"

\* The evaluation no agent was paid for.
Unusable == [score |-> [d \in Dimension |-> 0], applicable |-> Dimension, findings |-> {},
             proposed |-> {}, sure |-> TRUE, decided |-> TRUE]

\* A deployment without an adjudicator.
NoSecond == [Unusable EXCEPT !.decided = FALSE]

-----------------------------------------------------------------------------
(* The score. *)

\* A hard failure that names no code gets its dimension's.
CodesOf(f) == IF f.severity = "hard_failure" /\ f.located /\ f.codes = {}
                THEN {DefaultRepair[f.dimension]} ELSE f.codes

Blocks(codes, score) == codes \cap HARD_FAILURE_CODES # {} \/ score < HardFloor

\* A finding without a frame to show is information; a semantic hard failure that
\* contradicts the agent's own score is a warning.
SeverityOf(f, score) ==
  CASE f.severity # "info" /\ ~f.located -> "info"
    [] f.severity = "hard_failure" /\ f.located /\ ~Blocks(CodesOf(f), score) -> "warning"
    [] OTHER -> f.severity

\* At most limit members of a set, those of the lowest rank first.
Foremost(set, limit, Rank(_)) ==
  IF Cardinality(set) <= limit THEN set
  ELSE CHOOSE kept \in kSubset(limit, set) : \A k \in kept, o \in set \ kept : Rank(k) <= Rank(o)

Applicable(answer, metrics) ==
  answer.applicable \cup {OfDimension(x.code) : x \in {y \in metrics : y.outcome = "hard_failure"}}

\* build_dimension_results: an inapplicable dimension says nothing and gives its
\* weight to the others.
DimensionOf(d, answer, metrics) ==
  LET found == {f \in answer.findings : f.dimension = d}
      judged(severity) == {f \in found : SeverityOf(f, answer.score[d]) = severity}
      measured(outcome) == {x.code : x \in {y \in metrics : OfDimension(y.code) = d /\ y.outcome = outcome}}
      demoted == \E f \in judged("warning") : f.severity = "hard_failure"
      codes == UNION {CodesOf(f) : f \in found}
  IN  [raw      |-> answer.score[d],
       hard     |-> UNION {CodesOf(f) : f \in judged("hard_failure")} \cup measured("hard_failure"),
       repair   |-> Foremost(codes \cup measured("hard_failure") \cup measured("warning"),
                             DimensionRepairs, Place),
       warnings |-> (IF judged("warning") = {} THEN {} ELSE {<<"finding", d>>})
                      \cup (IF demoted THEN {HardFailureDowngraded} ELSE {})]

\* The points of a dimension, and the total, in hundredths: the weight of what does
\* not apply goes to the others.
Points(raw, d, applicable) == (raw * Weight[d] * 100) \div SumSet({Weight[e] : e \in applicable})

TotalOf(dims) ==
  LET applied == SumSet({Weight[d] : d \in DOMAIN dims})
  IN  MapThenSumSet(LAMBDA d : dims[d].raw * Weight[d] * 100, DOMAIN dims) \div applied

\* What a result shows of the dimensions, the inapplicable ones included: each
\* finding that is more than information, with its codes.
Shown(answer, metrics) ==
  {[cause |-> f.dimension, severity |-> SeverityOf(f, answer.score[f.dimension]), codes |-> CodesOf(f)] :
     f \in {g \in answer.findings : SeverityOf(g, answer.score[g.dimension]) # "info"}}
  \cup {[cause |-> OfDimension(x.code), severity |-> x.outcome, codes |-> {x.code}] : x \in metrics}

ScoreOf(answer, metrics) == [d \in Applicable(answer, metrics) |-> DimensionOf(d, answer, metrics)]

\* The worst dimension, the first of them in the rubric.
Worst(dims) == Rubric[Min({i \in DOMAIN Rubric : Rubric[i] \in DOMAIN dims
                             /\ \A d \in DOMAIN dims : dims[Rubric[i]].raw <= dims[d].raw})]

-----------------------------------------------------------------------------
(* The outcome. *)

\* _retain_repair_codes: hard failures, then what the outcome requires, then what
\* cost the score most.
RepairRank(code, dims, hard, required) ==
  LET lost == {0} \cup {Points(100 - dims[d].raw, d, DOMAIN dims) :
                        d \in {e \in DOMAIN dims : code \in dims[e].repair}}
      level == (IF code \in hard THEN 0 ELSE 2) + (IF code \in required THEN 0 ELSE 1)
  IN  level * 1000000 + (10000 - Max(lost)) * 10 + Place(code)

\* _outcome: what a result can carry.
Outcome(verdict, routing, dims, hard, repair, required, warnings) ==
  LET kept == Foremost(repair, ResultRepairs, LAMBDA c : RepairRank(c, dims, hard, required))
      told == warnings \cup (IF kept = repair THEN {} ELSE {RepairsTruncated})
  IN  [verdict  |-> verdict, routing |-> routing, hard |-> hard, repair |-> kept,
       total    |-> TotalOf(dims),
       warnings |-> IF Cardinality(told) <= ResultWarnings THEN told
                    ELSE Foremost(told, ResultWarnings - 1, WarningRank) \cup {WarningsTruncated}]

\* _structural_routing: the codes that go with the worst dimension.
StructuralCodes(d) ==
  {DefaultRepair[d]} \cup (IF Structural[d] = "prompt_simplification" THEN {"PROMPT_TOO_COMPLEX"} ELSE {})

\* What all dimensions together hold against the clip, and decide.
All(dims, f) == UNION {dims[d][f] : d \in DOMAIN dims}
Decide(dims, proposed, metrics, warnOnly, reasons) ==
  LET seconded == proposed \cap HARD_FAILURE_CODES \cap All(dims, "repair")
      unproven == proposed \ seconded
      proven == {x.code : x \in {y \in metrics : y.outcome = "hard_failure"}} \cup seconded
      hard == (All(dims, "hard") \cup proven) \ warnOnly
      repair == (All(dims, "repair") \cup proven) \ warnOnly
      spared == (All(dims, "repair") \cup proven) \cap warnOnly
      warnings == All(dims, "warnings") \cup {WarnOnly(c) : c \in spared}
                    \cup {<<"measured", x.code>> : x \in {y \in metrics : y.outcome = "warning"}}
                    \cup (IF unproven \cap RepairCode = {} THEN {} ELSE {UnevidencedProposal})
                    \cup (IF unproven \subseteq RepairCode THEN {} ELSE {UnknownProposal})
      total == TotalOf(dims)
      named == hard \cap repair
      worst == DefaultRepair[Worst(dims)]
      extra == StructuralCodes(Worst(dims))
  IN
  CASE hard # {} ->
         Outcome("FAIL", IF named = {} THEN "targeted_repair" ELSE Family(Alphabetically(named)[1]),
                 dims, hard, repair, {}, warnings)
    [] hard = {} /\ reasons ->
         Outcome("REVIEW", "human_review", dims, {}, repair \cup Markers, Markers, warnings)
    [] hard = {} /\ ~reasons /\ total >= PassScore * 100 ->
         Outcome("PASS", "none", dims, {}, {}, {}, warnings)
    [] hard = {} /\ ~reasons /\ total \in RepairFloor * 100 .. PassScore * 100 - 1
         /\ repair = {} /\ (spared # {} \/ worst \in warnOnly) ->
         Outcome("PASS", "none", dims, {}, {}, {},
                 warnings \cup {Tolerated} \cup {WarnOnly(c) : c \in {worst} \cap warnOnly})
    [] hard = {} /\ ~reasons /\ total \in RepairFloor * 100 .. PassScore * 100 - 1
         /\ ~(repair = {} /\ (spared # {} \/ worst \in warnOnly)) ->
         Outcome("FAIL", "targeted_repair", dims, {},
                 IF repair = {} THEN {worst} ELSE repair, {}, warnings)
    [] OTHER ->
         LET required == IF extra \subseteq warnOnly /\ repair = {} THEN {worst} ELSE extra \ warnOnly IN
         Outcome("FAIL", Structural[Worst(dims)], dims, {}, repair \cup required, required,
                 warnings \cup {WarnOnly(c) : c \in extra \cap warnOnly})

\* evaluate_triggers: the first pass cannot stand on its own.
Doubted(answer, metrics, first, prior) ==
  \/ ~answer.sure
  \/ \E x \in metrics : answer.score[OfDimension(x.code)] >= 85
  \/ UnevidencedProposal \in first.warnings
  \/ first.total \in (PassScore - Margin) * 100 .. (PassScore + Margin) * 100
  \/ prior \notin {"none", first.verdict}

\* _run: a clip whose measurements fail is not shown to anyone; a doubted answer is
\* put to the adjudicator, where there is one, and otherwise to a human.
Rated(answer, metrics, warnOnly, reasons) ==
  [shown |-> Shown(answer, metrics)]
    @@ Decide(ScoreOf(answer, metrics), answer.proposed, metrics, warnOnly, reasons)

Consulted(metrics, first, second, warnOnly, prior) ==
  LET doubted == Doubted(first, metrics, Rated(first, metrics, warnOnly, FALSE), prior)
      undecided == ~second.decided /\ Rated(second, metrics, warnOnly, FALSE).hard = {}
      settled == CASE ~Usable(metrics) -> [by |-> Unusable, reasons |-> FALSE]
                   [] Usable(metrics) /\ (~doubted \/ second = NoSecond) -> [by |-> first, reasons |-> doubted]
                   [] OTHER -> [by |-> second, reasons |-> undecided]
  IN  Rated(settled.by, metrics, warnOnly, settled.reasons)

Evaluated(clip, first, second, warnOnly, prior) == Consulted(Metrics(clip), first, second, warnOnly, prior)

-----------------------------------------------------------------------------
(* The questions, and what the contract admits as an answer. *)

Clips == [file : {"sound"}, drift : 0..2, dark : {0}, frozen : BOOLEAN, still : BOOLEAN]
           \cup [file : {"sound"}, drift : {0}, dark : {1, 2}, frozen : {FALSE}, still : {FALSE}]
           \cup [file : {"undecodable", "two_streams"}, drift : {0}, dark : {0}, frozen : {FALSE}, still : {FALSE}]
Answers == [score : [Dimension -> {40, 80, 95}], applicable : {Dimension, {"identity", "motion"}},
            findings : GateFindings, proposed : {{}, {"DURATION_MISMATCH", "UNKNOWN", "WRONG_ACTION"}},
            sure : {TRUE}, decided : {TRUE}]
GateQuestions == [clip : Clips, first : Answers, warnOnly : GateTolerances]

GateAnswer(q, second, prior) == Evaluated(q.clip, q.first, second, q.warnOnly, prior)

\* VisualQAResult.outcome_is_consistent.
Admitted(result) ==
  /\ result.hard # {} => result.verdict = "FAIL"
  /\ result.verdict # "PASS" => result.repair # {}
  /\ (result.verdict = "PASS" /\ result.total < PassScore * 100) =>
        Tolerated \in result.warnings /\ result.repair = {}
  /\ Cardinality(result.repair) <= ResultRepairs
  /\ Cardinality(result.warnings) <= ResultWarnings

\* A clip whose measurements fail is refused, whatever the project tolerates; and
\* nothing an agent says lifts what another rule holds against the clip.
GateHolds(clip, result) ==
  /\ Admitted(result)
  /\ ~Usable(Metrics(clip)) => result.verdict = "FAIL"

-----------------------------------------------------------------------------
(***************************************************************************)
(* Which frames of a clip visual QA looks at (services/qa/sampler.py, and  *)
(* VisualQAPipeline._measure_and_sample and _manifest): candidates with a  *)
(* reason each, one per instant, as many as the budget allows with the     *)
(* best reasons first, then the frames FFmpeg really decodes, one each.    *)
(* Time is in quarters of a frame of the clip.                             *)
(***************************************************************************)

CONSTANTS SamplingQuestions,
  CoverageSamples, ActionSamples,   \* SamplingConfiguration
  FinalFrameBackoff, MinimumSamples

Frame == 4
\* A clip of so many frames, whose container says it lasts this long.
LastFrame(clip) == Frame * (clip.frames - 1)
Clamp(t, limit) == Min({t, limit})
Split(duration, i, parts) == (duration * i) \div parts

\* SAMPLE_PRIORITY.
Reasons == <<"first_frame", "last_frame", "action_window", "deterministic_warning", "action_boundary", "midpoint", "clause_boundary",
             "camera_change", "transition_boundary", "high_motion", "low_motion", "face_track", "ocr", "coverage">>
Rank(reason) == CHOOSE i \in DOMAIN Reasons : Reasons[i] = reason
Sample(t, reason) == [at |-> t, reason |-> reason, turn |-> t]
InTurn(times, i, last, reason) == [Sample(Clamp(times[i], last), reason) EXCEPT !.turn = i]

\* The margin of the final frame: the configured one or two frames of this clip.
Final(clip) == clip.duration - Max({FinalFrameBackoff, 2 * Frame})

\* action_window: nothing stores a window with the shot, so it is the central half.
WindowStart(clip) == Split(clip.duration, 1, 4)
WindowEnd(clip) == Split(clip.duration, 3, 4)

\* plan_video_samples.
Candidates(clip, shot) ==
  LET last == Final(clip)  d == clip.duration
      inside(i) == WindowStart(clip) + Split(WindowEnd(clip) - WindowStart(clip), i, ActionSamples + 1)
      clamped(times, reason) == {Sample(Clamp(t, last), reason) : t \in times} IN
  {Sample(0, "first_frame"), Sample(last, "last_frame"), Sample(Split(d, 1, 2), "midpoint"),
   Sample(0, "clause_boundary"), Sample(last, "clause_boundary")}
  \cup clamped({Split(d, i, CoverageSamples + 1) : i \in 1..CoverageSamples}, "coverage")
  \cup (IF shot.moves THEN {Sample(0, "camera_change"), Sample(last, "camera_change")} ELSE {})
  \cup clamped({shot.enters} \ {0}, "transition_boundary")
  \cup clamped(IF shot.leaves = 0 THEN {} ELSE {d - shot.leaves}, "transition_boundary")
  \cup clamped({WindowStart(clip), WindowEnd(clip)}, "action_boundary")
  \cup clamped({inside(i) : i \in 1..ActionSamples}, "action_window")
  \cup {InTurn(clip.busiest, i, last, "high_motion") : i \in DOMAIN clip.busiest}
  \cup {InTurn(clip.stillest, i, last, "low_motion") : i \in DOMAIN clip.stillest}
  \cup clamped(clip.warned, "deterministic_warning")
  \cup clamped({Split(d, i, 4) : i \in 1..3}, "face_track") \cup clamped({Split(d, 1, 3)}, "ocr")

\* finalize_plan.  Candidates of one reason are taken in the order they were made: that
\* of their times, but for the frames ranked by their motion.
Planned(clip, shot) ==
  LET all == Candidates(clip, shot)
      before(s, t) == Rank(s.reason) < Rank(t.reason) \/ (Rank(s.reason) = Rank(t.reason) /\ s.turn < t.turn)
      foremost == {s \in all : ~\E t \in all : t.at = s.at /\ before(t, s)}
      chosen == {s \in foremost : Cardinality({t \in foremost : before(t, s)}) < clip.budget}
  IN  [i \in 1..Cardinality(chosen) |-> CHOOSE s \in chosen : Cardinality({t \in chosen : t.at < s.at}) = i - 1]

\* decode_sample: the first frame from that instant on, if there is one.
Decoded(t) == Frame * ((t + Frame - 1) \div Frame)
Decodable(clip, plan) == \A i \in DOMAIN plan : Decoded(plan[i].at) <= LastFrame(clip)

\* decode_samples: the first request that lands on a frame is its reason.
Frames(plan) ==
  LET one(i) == [asked |-> plan[i].at, at |-> Decoded(plan[i].at), reason |-> plan[i].reason]
      first == {i \in DOMAIN plan : \A j \in 1..(i - 1) : Decoded(plan[j].at) # Decoded(plan[i].at)}
  IN  [i \in 1..Cardinality(first) |-> one(CHOOSE j \in first : Cardinality({k \in first : k < j}) = i - 1)]

\* _analyze warns of too few samples; _manifest widens the clip's duration to the last.
Thin(frames) == Len(frames) < MinimumSamples
Extent(clip, frames) == IF frames = <<>> THEN clip.duration ELSE Max({clip.duration, frames[Len(frames)].at})

\* A clip with a request that decodes nothing fails QA with no sample at all.
Sampled(q) ==
  LET plan == Planned(q.clip, q.shot)
      frames == IF Decodable(q.clip, plan) THEN Frames(plan) ELSE <<>>
  IN  [about |-> "samples", failed |-> ~Decodable(q.clip, plan), frames |-> frames, thin |-> Thin(frames), extent |-> Extent(q.clip, frames)]

-----------------------------------------------------------------------------
\* A clip that decodes is sampled: each frame once, in order, no more than the budget,
\* its beginning and its end among them; what a measurement warned of and what happens
\* in the action's window is looked at before anything generic is; and with the usual
\* budget no more than a sixth of the clip goes unseen at a stretch.
SamplingHolds(q, a) ==
  LET at == {a.frames[i].at : i \in DOMAIN a.frames}
      last == Decoded(Final(q.clip))
      wanted == {Decoded(s.at) : s \in {s \in Candidates(q.clip, q.shot) : Rank(s.reason) <= Rank("deterministic_warning")}} IN
  /\ ~a.failed /\ ~a.thin
  /\ Len(a.frames) <= q.clip.budget
  /\ \A i \in 1..(Len(a.frames) - 1) : a.frames[i].at < a.frames[i + 1].at
  /\ a.frames[Len(a.frames)].at <= a.extent
  /\ {0, last} \subseteq at /\ last >= LastFrame(q.clip) - 2 * Frame
  /\ wanted \subseteq at
  /\ q.clip.budget = 32 =>
       \A i \in 1..(Len(a.frames) - 1) : a.frames[i + 1].at - a.frames[i].at <= q.clip.duration \div (CoverageSamples + 1) + Frame
=============================================================================
