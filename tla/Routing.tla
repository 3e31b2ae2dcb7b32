------------------------------ MODULE Routing -------------------------------
(***************************************************************************)
(* Which Runway model makes a clip (services/animation/routing.py with the *)
(* capabilities and prices of providers.py and pricing.py), for a shot's   *)
(* first clip and for a repair of it (services/qa/repair.py).              *)
(* Lengths are in half seconds and money in half credits.  Both models are *)
(* always available on a deployment, and both make clips of the same       *)
(* lengths and sizes, so what cannot be served is served by neither.       *)
(***************************************************************************)
EXTENDS Integers, FiniteSets

Models == {"turbo", "gen45"}
CreditsPerSecond == [turbo |-> 5, gen45 |-> 12]
Durations == 2..10

\* VideoCapability.select_duration: the shortest whole seconds covering the length.
Needed(length) == IF length <= 2 THEN 1 ELSE (length + 1) \div 2
Covering(length) == {s \in Durations : s >= Needed(length)}
Billable(length) == Covering(length) # {}
Billed(length) == CHOOSE s \in Covering(length) : \A t \in Covering(length) : s <= t

\* estimate_runway_cost: a length no model makes is priced as it is.
Estimate(model, length) == CreditsPerSecond[model] * (IF Billable(length) THEN 2 * Billed(length) ELSE length)

\* _compatible: a fake provider makes anything.
Compatible(c) == c.runway => Billable(c.length) /\ c.fits

\* _affordable.
Affordable(model, c) == c.enforced => Estimate(model, c.length) <= c.cap /\ Estimate(model, c.length) <= c.remaining

\* _escalation_eligible: a repair the policy still allows.
Eligible(c) == c.escalated /\ c.ordinal \in 1..c.most

Select(model) == [model |-> model, refused |-> "none"]
Refuse(code) == [model |-> "none", refused |-> code]

\* _route_explicit.
RouteExplicit(c) ==
  CASE ~Compatible(c) -> Refuse("unsupported_capability")
    [] c.asked = "gen45" /\ c.mode = "economy" -> Refuse("premium_model_not_permitted")
    [] c.asked = "gen45" /\ c.mode = "balanced" /\ ~c.hero /\ ~Eligible(c) -> Refuse("premium_model_not_permitted")
    [] c.asked = "gen45" /\ c.mode = "premium" /\ c.fallback /\ Compatible(c) /\ ~Affordable("gen45", c) -> Select("turbo")
    [] OTHER -> Select(c.asked)

\* _route_premium: Turbo only where the project allows it.
RoutePremium(c) ==
  CASE Compatible(c) /\ Affordable("gen45", c) -> Select("gen45")
    [] c.fallback /\ ~(Compatible(c) /\ Affordable("gen45", c)) -> Select("turbo")
    [] OTHER -> Refuse(IF Compatible(c) THEN "budget_denied" ELSE "unsupported_capability")

\* _route_balanced: an exhausted escalation is Turbo's even for a hero shot.
RouteBalanced(c) ==
  LET upgrade == (c.hero \/ Eligible(c)) /\ ~(c.escalated /\ ~Eligible(c))
  IN  Select(IF upgrade /\ Compatible(c) /\ Affordable("gen45", c) THEN "gen45" ELSE "turbo")

\* route_model: what was selected is served, and fits what is left under the cap.
Routed(c) ==
  LET s == CASE c.asked # "none" -> RouteExplicit(c)
             [] c.asked = "none" /\ c.mode = "economy" -> Select("turbo")
             [] c.asked = "none" /\ c.mode = "premium" -> RoutePremium(c)
             [] OTHER -> RouteBalanced(c)
  IN  CASE s.model = "none" -> s
        [] s.model # "none" /\ ~Compatible(c) -> Refuse("unsupported_capability")
        [] s.model # "none" /\ Compatible(c) /\ ~Affordable(s.model, c) -> Refuse("budget_denied")
        [] OTHER -> s

\* The seconds the provider is asked for, and validate_request's view of them.
Generated(length) == IF Billable(length) THEN Billed(length) ELSE Needed(length)
ValidRequest(seconds, fits) == seconds \in Durations /\ fits

\* --- a repair by the same provider -------------------------------------------
\* _routing_context: nobody asks for a model, and every repair is an escalation.
RepairContext(q, remaining) ==
  [mode |-> q.mode, asked |-> "none", hero |-> q.hero, escalated |-> TRUE, ordinal |-> q.used + 1, most |-> q.most,
   length |-> q.length, fits |-> TRUE, runway |-> q.runway, enforced |-> q.runway /\ q.budget, remaining |-> remaining, cap |-> q.cap, fallback |-> q.fallback]

\* _next_same_provider_model: a refusal leaves the options' model, Turbo.
NextModel(q) == LET r == Routed(RepairContext(q, q.remaining)) IN IF r.model = "none" THEN "turbo" ELSE r.model

\* _estimate and _budget_state: the price against the shot's limits and the project's cap.
RepairEstimate(q) == IF q.runway THEN Estimate(NextModel(q), q.length) ELSE 0
MayRepair(q) ==
  /\ \A limit \in q.limits : q.spent + RepairEstimate(q) <= limit
  /\ q.budget => RepairEstimate(q) <= q.remaining

\* _same_provider_decision: decided again when it is submitted; a refusal then is
\* recorded as the planned model, asked for in premium mode and never priced.
RecordedModel(q) ==
  LET c == RepairContext(q, q.later)
      r == Routed(c)
  IN  IF r.model # "none" THEN r.model
      ELSE Routed([c EXCEPT !.mode = "premium", !.asked = NextModel(q), !.enforced = FALSE]).model

Chosen(q) ==
  IF q.about = "clip" THEN Routed(q.context)
  ELSE [may |-> MayRepair(q), planned |-> NextModel(q), recorded |-> RecordedModel(q)]

-----------------------------------------------------------------------------
\* A mode is kept: economy never makes a clip with Gen-4.5, balanced only a hero shot's or
\* an eligible repair's, and premium makes one with Turbo only when asked to or allowed
\* to.  What is granted is long enough, is a request the provider accepts, and fits what
\* is left.  Nobody is refused Turbo who did not ask for more.  More money never turns a
\* grant into a refusal or into a lesser model.  (route_model)
Worth(model) == CASE model = "none" -> 0 [] model = "turbo" -> 1 [] model = "gen45" -> 2
ClipHolds(c, a) ==
  /\ a.model = "gen45" => c.mode = "premium" \/ (c.mode = "balanced" /\ (c.hero \/ Eligible(c)))
  /\ (a.model = "turbo" /\ c.mode = "premium") => c.asked = "turbo" \/ c.fallback
  /\ a.model # "none" =>
       /\ 2 * Generated(c.length) >= c.length
       /\ c.runway => ValidRequest(Generated(c.length), c.fits)
       /\ c.enforced => Estimate(a.model, c.length) <= c.remaining
  /\ (a.model = "none" /\ c.asked = "none" /\ (c.mode # "premium" \/ c.fallback)) => ~Compatible(c) \/ ~Affordable("turbo", c)
  /\ \A more \in 1..3 : Worth(Routed([c EXCEPT !.remaining = @ + 40 * more, !.cap = @ + 40 * more]).model) >= Worth(a.model)

\* A repair that may start can be paid from what was left when it was planned.  The model
\* recorded at submission is the planned one unless the budget moved meanwhile, and is
\* better only when it grew, lesser only when it shrank.  (services/qa/repair.py)
RepairHolds(q, a) ==
  /\ (a.may /\ q.runway /\ q.budget) => Estimate(a.planned, q.length) <= q.remaining
  /\ a.planned = "gen45" => q.mode = "premium" \/ (q.mode = "balanced" /\ q.used < q.most)
  /\ Worth(a.recorded) > Worth(a.planned) => q.later > q.remaining
  /\ Worth(a.recorded) < Worth(a.planned) => q.later < q.remaining

RoutingHolds(q, a) == IF q.about = "clip" THEN ClipHolds(q.context, a) ELSE RepairHolds(q, a)
=============================================================================
