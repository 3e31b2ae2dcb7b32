----------------------------- MODULE Decisions ------------------------------
(***************************************************************************)
(* The system's pure decisions, asked one question at a time: a behaviour  *)
(* takes one question of one topic and the answers the code gives to it,   *)
(* each answer being the question of the decision that follows it.  What   *)
(* each topic asks and answers is in the module of its own.                *)
(***************************************************************************)
EXTENDS Triage, Retimer

CONSTANTS
  AssemblyQuestions,    \* pairs of states: when it is rendered, when it is evaluated
  CaptionQuestions,     \* the segments of a narration, the timeline's length, the language
  DeliveryQuestions,    \* plans, each with what was measured of its file
  PublishingQuestions, ScriptQuestions, DashboardQuestions, DeletionQuestions,
  RoutingQuestions,     \* contexts of a clip, and of a repair with what the budget becomes
  MinBeats, MaxBeats, LongSegment
Assembling == INSTANCE Assembly
Delivering == INSTANCE Delivery
Publishes == INSTANCE Publishing
Scripts == INSTANCE Scripting
Displays == INSTANCE Dashboard
Removes == INSTANCE Deletion
Routes == INSTANCE Routing

VARIABLES topic, asked, answer
vars == <<topic, asked, answer>>

Unanswered == [verdict |-> "none"]

\* A clip to be judged, a segment to be timed, a segment to be directed.
Init ==
  /\ answer = Unanswered
  /\ \/ topic = "gate" /\ asked \in GateQuestions
     \/ topic = "sample" /\ asked \in SamplingQuestions
     \/ topic = "fallback" /\ asked \in ParallaxQuestions
     \/ topic = "retime" /\ asked \in RetimeQuestions
     \/ topic = "direct" /\ asked \in DirectionQuestions
     \/ topic = "animate" /\ asked \in RoutingQuestions
     \/ topic = "assemble" /\ asked \in AssemblyQuestions
     \/ topic = "caption" /\ asked \in CaptionQuestions
     \/ topic = "deliver" /\ asked \in DeliveryQuestions
     \/ topic = "publish" /\ asked \in PublishingQuestions
     \/ topic = "script" /\ asked \in ScriptQuestions
     \/ topic = "display" /\ asked \in DashboardQuestions
     \/ topic = "delete" /\ asked \in DeletionQuestions

\* Gate: the clip's metrics and the evaluators' answers become a verdict.
Score ==
  /\ topic = "gate"
  /\ \E second \in GateSeconds, prior \in {"none", "PASS"} : answer' = GateAnswer(asked, second, prior)
  /\ topic' = "verdict" /\ UNCHANGED asked

\* Triage: a failed verdict is classified, routed, and a paid route gets its plan.
Classify ==
  /\ topic = "verdict" /\ answer.verdict = "FAIL"
  /\ \E context \in TriageContexts : answer' = Classification(answer, context)
  /\ topic' = "class" /\ asked' = Unanswered

Route ==
  /\ topic = "class" /\ answer # NoRepair
  /\ \E x \in RouteContexts : asked' = [class |-> answer, at |-> x] /\ answer' = NextRoute(answer.primary, x)
  /\ topic' = "route"

Plan ==
  /\ topic = "route" /\ answer.route \in PaidRoutes
  /\ \/ answer' = Delta(asked.class, "first", "second")
     \/ \E p \in Proposals : answer' = Proposed(p, "first", "second")
  /\ Valid(answer', asked.class.primary)
  /\ topic' = "plan" /\ asked' = asked.class

\* The frames the evaluators see, and the move over a still that is free.
Look == topic = "sample" /\ topic' = "sampled" /\ answer' = Sampled(asked) /\ UNCHANGED asked
FallBack == topic = "fallback" /\ topic' = "panned" /\ answer' = Rendered(asked) /\ UNCHANGED asked

\* A segment is timed, a segment is directed.
Retime == topic = "retime" /\ topic' = "timed" /\ answer' = Retimed(asked) /\ UNCHANGED asked

Judge ==
  /\ topic = "direct"
  /\ \E s \in Successors, tolerated \in {{}, {"continuity_contradiction"}} :
       answer' = [one |-> Judged(asked, tolerated),
                  two |-> Judged(Direct(<<s>>, asked.handed, s.leave, asked.takes), tolerated)]
  /\ topic' = "directed" /\ UNCHANGED asked

\* The model that makes a shot's clip.
ChooseModel == topic = "animate" /\ topic' = "chosen" /\ answer' = Routes!Chosen(asked) /\ UNCHANGED asked

\* What is rendered, and what final QA makes of it.
Assemble == topic = "assemble" /\ topic' = "assembled" /\ answer' = Assembling!Assembled(asked) /\ UNCHANGED asked
Caption == topic = "caption" /\ topic' = "captioned" /\ answer' = Assembling!Captioned(asked) /\ UNCHANGED asked
Inspect == topic = "deliver" /\ topic' = "delivered" /\ answer' = Delivering!Inspected(asked) /\ UNCHANGED asked
Publish == topic = "publish" /\ topic' = "published" /\ answer' = Publishes!Published(asked) /\ UNCHANGED asked
Write == topic = "script" /\ topic' = "scripted" /\ answer' = Scripts!Scripted(asked) /\ UNCHANGED asked
Display == topic = "display" /\ topic' = "displayed" /\ answer' = Displays!Displayed(asked) /\ UNCHANGED asked
Erase == topic = "delete" /\ topic' = "deleted" /\ answer' = Removes!Deleted(asked) /\ UNCHANGED asked

Next == Score \/ Classify \/ Route \/ Plan \/ Look \/ FallBack \/ Retime \/ Judge \/ ChooseModel \/ Assemble \/ Caption \/ Inspect \/ Publish \/ Write \/ Display \/ Erase
Spec == Init /\ [][Next]_vars

-----------------------------------------------------------------------------
\* What QA sees of a clip is enough to judge it, and the verdict follows from it alone: a
\* clip passes only when nothing blocks it.  A failed one is repaired by the cheapest
\* remedy of its worst cause, never paid for twice over, and the words of a repair leave
\* what identifies the shot as it was.  (services/qa)
QualityOk ==
  /\ topic = "sampled" => SamplingHolds(asked, answer)
  /\ topic = "verdict" => GateHolds(asked.clip, answer)
  /\ topic = "route" => RouteHolds(asked.class, asked.at, answer)
  /\ topic = "plan" => PlanHolds(answer)
  /\ (topic = "class" /\ answer.primary \notin (DOMAIN Refusals \cup {"refused"})) => Valid(Delta(answer, "first", "second"), answer.primary)
  /\ topic = "panned" => ParallaxHolds(asked, answer)

\* A script's segments keep their order, facts and locked words through every pass; the
\* shots of a segment fill its narration exactly, each a clip some model can make; what
\* one shot leaves behind is what the next begins with; and its clip is made by the model
\* the project's quality mode and budget allow.  (services/script, services/storyboard,
\* services/animation)
MadeOk ==
  /\ topic = "scripted" => Scripts!ScriptingHolds(asked, answer)
  /\ topic = "timed" => RetimeHolds(asked, answer)
  /\ topic = "directed" => DirectionHolds(asked.takes, answer.one, answer.two)
  /\ topic = "chosen" => Routes!RoutingHolds(asked, answer)

\* What is rendered is what was approved, its captions are the words spoken when they
\* are spoken, final QA blocks what departs from that, and only a video it let through
\* and nothing has changed since is published.  (services/render_execution,
\* services/renderer, services/qa, services/publisher)
DeliveredOk ==
  /\ topic = "assembled" => Assembling!AssemblyHolds(asked, answer)
  /\ topic = "captioned" => Assembling!CaptionsHold(asked, answer)
  /\ topic = "delivered" => Delivering!DeliveryHolds(asked, answer)
  /\ topic = "published" => Publishes!PublishingHolds(asked, answer)

\* The dashboard shows where a project is and offers only what the server would accept,
\* and a project is deleted whole or not at all.  (services/progress,
\* src/vidgen/review, apps/web/src/state, services/projects)
ProjectOk ==
  /\ topic = "displayed" => Displays!DashboardHolds(asked, answer)
  /\ topic = "deleted" => Removes!DeletionHolds(asked, answer)
=============================================================================
