------------------------------- MODULE Triage -------------------------------
(***************************************************************************)
(* What automatic repair makes of a failed result: its classification      *)
(* (services/qa/repair_classifier.py), the route the policy chooses        *)
(* (repair_policy.py) and the change to the prompt that is planned         *)
(* (repair_planner.py).  A prompt is the constraints it asserts, each with *)
(* a clause of its own.                                                     *)
(***************************************************************************)
EXTENDS Gate, Integers

CONSTANTS
  MaxSameProvider,  \* same-provider repairs the policy allows
  MaxAlternate      \* attempts with the other provider

\* DIAGNOSTIC_PRIORITY.
Priority == <<"corrupt_media", "unsupported_capability", "safety_rejection", "reference_conflict",
              "impossible_duration", "identity", "action", "anatomy", "weak_motion", "overconstraint",
              "ambiguity">>
Diagnosis == Range(Priority)
\* The causes no generation, or none from the approved references, can remove.
Unpayable == {"corrupt_media", "unsupported_capability", "reference_conflict", "impossible_duration"}
StructuralCauses == {"identity", "overconstraint"}

\* REPAIR_CODE_DIAGNOSTICS, and the fallback of a finding without a code.
CauseOfCode(code) ==
  CASE code \in {"BLACK_VIDEO", "DECODE_FAILURE"} -> "corrupt_media"
    [] code = "DURATION_MISMATCH" -> "impossible_duration"
    [] code = "WRONG_CHARACTER_IDENTITY" -> "identity"
    [] code = "WRONG_ACTION" -> "action"
    [] code = "ANATOMY_BREAKAGE" -> "anatomy"
    [] code = "EXCESSIVE_FREEZE" -> "weak_motion"
    [] code = "PROMPT_TOO_COMPLEX" -> "overconstraint"
    [] OTHER -> "ambiguity"
CauseOfFinding(f) ==
  IF f.codes # {} THEN CauseOfCode(Alphabetically(f.codes)[1])
  ELSE [identity |-> "identity", motion |-> "action", anatomy |-> "anatomy"][f.cause]

\* _classification_context: the failure of the latest attempt, and whether the
\* approved references are fit to be used.
Signals == {{}, {"safety_rejection"}, {"unsupported_capability"}, {"corrupt_media"}}
TriageContexts == [signals : Signals, references : {"valid", "missing", "conflicting"}]

\* _diagnostics: every cause, and whether it is a hard failure; what the result's
\* codes add counts as hard when the result is.
Hard(result, context) ==
  context.signals
    \cup (IF context.references = "valid" THEN {} ELSE {"reference_conflict"})
    \cup {CauseOfFinding(f) : f \in {g \in result.shown : g.severity = "hard_failure"}}
Found(result, context) == Hard(result, context) \cup {CauseOfFinding(f) : f \in result.shown}
Diagnostics(result, context) ==
  LET rest == {CauseOfCode(c) : c \in result.repair} \ Found(result, context)
  IN  [hard |-> Hard(result, context) \cup (IF result.hard # {} THEN rest ELSE {}),
       all  |-> Found(result, context) \cup rest]

\* _primary.
Primary(causes) ==
  LET ranked == IF causes.hard # {} THEN causes.hard ELSE causes.all
  IN  Priority[Min({i \in DOMAIN Priority : Priority[i] \in ranked})]

SeverityOfRepair(result, primary) ==
  CASE primary = "impossible_duration" -> "unrecoverable"
    [] primary # "impossible_duration"
         /\ (result.total < RepairFloor * 100 \/ (result.hard # {} /\ primary \in StructuralCauses)) -> "structural"
    [] OTHER -> "targeted"

\* classify: a result without a cause, or a hard one of which no cause is hard, is
\* refused by the contract of a classification.
NoRepair == [primary |-> "refused", severity |-> "none", hard |-> {}]
Classification(result, context) ==
  LET causes == Diagnostics(result, context) IN
  IF causes.all = {} \/ (result.hard # {} /\ causes.hard = {}) THEN NoRepair
  ELSE [primary |-> Primary(causes), severity |-> SeverityOfRepair(result, Primary(causes)), hard |-> causes.hard]

-----------------------------------------------------------------------------
(* The route. *)

RouteContexts ==
  [same : 0..MaxSameProvider, alternate : 0..MaxAlternate, fallbacks : 0..1, unpersisted : BOOLEAN,
   resumable : BOOLEAN, cancelled : BOOLEAN, ambiguous : BOOLEAN, available : BOOLEAN,
   eligible : BOOLEAN, allowed : BOOLEAN]

Review(reason) == [route |-> "human_review", reason |-> reason]

Paid(kind, x) == IF x.allowed THEN [route |-> kind, reason |-> "none"] ELSE Review("budget_exhausted")

\* A cause that money cannot remove, and what is said of it.
Refusals == [reference_conflict     |-> [route |-> "upstream_reference", reason |-> "upstream_reference"],
             impossible_duration    |-> Review("impossible_shot"),
             corrupt_media          |-> Review("deterministic_failure"),
             unsupported_capability |-> Review("deterministic_failure")]

\* next_route: what was paid for first; then the reasons to stop; then the attempts
\* left, the free one last.
NextRoute(primary, x) ==
  CASE x.unpersisted \/ x.resumable -> [route |-> "resume", reason |-> "none"]
    [] ~(x.unpersisted \/ x.resumable) /\ x.cancelled -> Review("cancelled")
    [] ~(x.unpersisted \/ x.resumable \/ x.cancelled) /\ x.ambiguous -> Review("deterministic_failure")
    [] ~(x.unpersisted \/ x.resumable \/ x.cancelled \/ x.ambiguous) ->
         IF primary \in DOMAIN Refusals THEN Refusals[primary]
         ELSE IF x.same < MaxSameProvider THEN Paid("same_provider", x)
         ELSE IF x.alternate < MaxAlternate /\ x.available THEN Paid("alternate_provider", x)
         ELSE IF x.fallbacks = 0 /\ x.eligible THEN [route |-> "fallback", reason |-> "none"]
         ELSE Review(IF x.eligible THEN "attempt_limit" ELSE "fallback_ineligible")
PaidRoutes == {"same_provider", "alternate_provider"}

-----------------------------------------------------------------------------
(* The plan. *)

\* extract_constraints: what a prompt asserts.
Constraint == {"who", "action", "camera", "timing", "negative", "style"}
Immutable == {"who", "timing"}
\* TOUCHABLE_KINDS.
Touchable(primary) ==
  CASE primary \in {"identity", "anatomy"} -> {"negative"}
    [] primary \in {"action", "ambiguity"} -> {"action"}
    [] primary = "weak_motion" -> {"action", "camera"}
    [] primary = "overconstraint" -> {"style", "negative", "camera"}
    [] primary = "safety_rejection" -> {"action", "style"}
    [] OTHER -> {}
SeedSensitive == {"weak_motion", "anatomy"}

\* DeterministicRepairPlanner.plan: what it removes, rewrites and adds; and a new
\* seed for a structural repair, or where nothing else changes.
Removed(primary) == IF primary = "overconstraint" THEN {"style", "negative"} ELSE {}
Rewritten(primary) ==
  IF primary \in {"action", "ambiguity", "weak_motion", "safety_rejection"} THEN Touchable(primary) ELSE {}
Delta(class, previous, fresh) ==
  LET adds == class.primary \in {"identity", "anatomy"}
      edits == adds \/ Removed(class.primary) # {} \/ Rewritten(class.primary) # {}
      reseeds == class.severity = "structural" \/ class.primary \in SeedSensitive \/ ~edits
  IN  [removed |-> Removed(class.primary), rewritten |-> Rewritten(class.primary), adds |-> adds,
       touched |-> Removed(class.primary) \cup Rewritten(class.primary),
       seed |-> IF reseeds THEN fresh ELSE "kept", previous |-> previous]

\* LanguageModelRepairPlanner.plan: whatever the model proposes.
Proposals == [removed : SUBSET {"who", "style"}, rewritten : SUBSET {"action", "timing"}, adds : BOOLEAN,
              reseeds : BOOLEAN]
Proposed(p, previous, fresh) ==
  [removed |-> p.removed, rewritten |-> p.rewritten, adds |-> p.adds, touched |-> p.removed \cup p.rewritten,
   seed |-> IF p.reseeds THEN fresh ELSE "kept", previous |-> previous]

\* validate_delta, and what PromptDelta admits.
Valid(delta, primary) ==
  /\ delta.touched \cap Immutable = {}
  /\ delta.touched \subseteq Touchable(primary)
  /\ delta.adds \/ delta.touched # {} \/ delta.seed # "kept"
  /\ delta.seed # delta.previous

\* apply_edits: the clauses a repaired prompt still asserts as they were.
Kept(delta) == Constraint \ delta.touched

-----------------------------------------------------------------------------
(* What the three promise. *)

\* Money goes to a generation only when no cause that money cannot remove decides,
\* and only after what was already paid for, within the policy and the budget.  A
\* refusal by the provider decides before the references do.
RouteHolds(class, x, decision) ==
  decision.route \in PaidRoutes =>
    /\ class.hard \cap Unpayable # {} => class.primary = "safety_rejection"
    /\ ~x.unpersisted /\ ~x.resumable /\ ~x.ambiguous /\ ~x.cancelled /\ x.allowed
    /\ x.same + x.alternate < MaxSameProvider + MaxAlternate

\* No plan that is submitted drops what makes the shot the shot it is, and none
\* submits what was submitted before.
PlanHolds(delta) ==
  Immutable \subseteq Kept(delta) /\ (delta.adds \/ delta.touched # {} \/ delta.seed \notin {"kept", delta.previous})

-----------------------------------------------------------------------------
(***************************************************************************)
(* The free fallback of a failed shot: a camera move over its approved     *)
(* still (services/renderer/parallax_manifest.py and parallax.py, asked    *)
(* from services/qa/repair.py).  The move is drawn from the bytes of the   *)
(* render's identity; lengths are in 1/(10000 * 256) of a frame's width.   *)
(* The repair hands over a still without a mask or a depth map, so a plan  *)
(* has one plane.                                                          *)
(***************************************************************************)

CONSTANT ParallaxQuestions

Second == 1000000
Unit == 10000 * 256
Tenth(n) == n * 256          \* ten-thousandths

\* DISQUALIFYING_KEYFRAME_CODES
Disqualifying == {"WRONG_CHARACTER_IDENTITY", "MISSING_PRIMARY_CHARACTER", "WRONG_CHARACTER_COUNT", "EXTRA_CHARACTER", "WRONG_LOCATION",
                  "WRONG_LOCATION_STATE", "FACE_BREAKAGE", "ANATOMY_BREAKAGE", "UNINTENDED_TEXT", "DECODE_FAILURE"}

\* _parallax_request: the still's own verdict, if it has one.
Still(q) == [codes |-> IF q.still.judged THEN q.still.codes ELSE {}, hard |-> q.still.judged /\ q.still.hard]
\* _mandatory_motion: a term of the action or of its staging note.
Mandatory(q) == q.action = "physical" \/ q.note = "physical"

\* decide_eligibility.
Eligible(q) == ~Still(q).hard /\ Still(q).codes \cap Disqualifying = {} /\ ~Mandatory(q) /\ q.duration > 0

\* _unit and _signed, of the identity's bytes; _background.
Sign(byte) == IF byte % 2 = 0 THEN 1 ELSE -1
StartScale(id) == Tenth(10400) + 400 * id.depth
EndScale(id) == StartScale(id) + Tenth(4000) + 1000 * id.depth
Pan(id) == (Tenth(2800) + 1000 * id.pan) * Sign(id.direction)
Drift(id) == 400 * id.drift * Sign(id.slope)
Move(id) ==
  [startScale |-> StartScale(id), endScale |-> EndScale(id), startX |-> -Pan(id), endX |-> Pan(id), startY |-> -Drift(id), endY |-> Drift(id)]

\* frame_count: whole frames that reach the shot's duration.
FrameCount(q) == LET exact == q.duration * q.rate IN exact \div Second + (IF exact % Second = 0 THEN 0 ELSE 1)

\* easing_expression and layer_filter: where the move is at one frame, linear over the
\* frames; a position is a share of what the zoom leaves to pan over.
Along(from, to, k, frames) == from + ((to - from) * k) \div (IF frames > 1 THEN frames - 1 ELSE 1)
View(move, k, frames) ==
  [zoom |-> Along(move.startScale, move.endScale, k, frames), x |-> Unit \div 2 + Along(move.startX, move.endX, k, frames),
   y |-> Unit \div 2 + Along(move.startY, move.endY, k, frames)]

\* render_parallax: FFmpeg writes the frames, the trim keeps those that begin within the
\* duration, and the result may be a frame off.
Measured(q) == LET kept == FrameCount(q) IN (kept * Second) \div q.rate
Rendered(q) ==
  IF ~Eligible(q) THEN [about |-> "fallback", rendered |-> "ineligible", measured |-> 0, frames |-> 0, move |-> Move(q.id)]
  ELSE LET off == Measured(q) - q.duration IN
       [about |-> "fallback", measured |-> Measured(q), frames |-> FrameCount(q), move |-> Move(q.id),
        rendered |-> IF off * q.rate > Second \/ -off * q.rate > Second THEN "failed" ELSE "clip"]

-----------------------------------------------------------------------------
\* A clip is only made of a still that QA did not condemn for a shot that needs no
\* physical action; it lasts the shot's duration and less than a frame more, its move
\* never leaves the still nor the contract's bounds, and never stands still.
ParallaxHolds(q, a) ==
  /\ a.rendered # "failed"
  /\ a.rendered = "clip" => ~(q.still.judged /\ (q.still.hard \/ q.still.codes \cap Disqualifying # {})) /\ "physical" \notin {q.action, q.note}
  /\ a.rendered = "clip" =>
       /\ a.measured + 1 >= q.duration /\ (a.measured - q.duration) * q.rate < Second
       /\ a.move.endScale <= 4 * Unit
       /\ \A k \in 0..(a.frames - 1) :
            LET v == View(a.move, k, a.frames) IN v.zoom > Unit /\ v.x \in 0..Unit /\ v.y \in 0..Unit
       /\ \A k \in 1..(a.frames - 1) :
            LET v == View(a.move, k, a.frames)  u == View(a.move, k - 1, a.frames) IN v.zoom > u.zoom /\ v.x # u.x
=============================================================================
