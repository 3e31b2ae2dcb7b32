--------------------------- MODULE FinalEditorial ---------------------------
(***************************************************************************)
(* services/qa/final_editorial.py: the finished render is measured, and    *)
(* where nothing measured fails a provider looks at it, a second one where *)
(* the first is unsure.  A gate decides, and the owner may settle what it  *)
(* left open (services/qa/final_human_review.py).                          *)
(***************************************************************************)
EXTENDS Worker

CONSTANTS
  MaxInputs,     \* bound: input identities: renders, shots, captions, settings
  RenderOf,      \* the render of an input identity
  MaxVerdicts    \* bound: decisions of the reviewer

ASSUME FinalEditorialAssumption == MaxInputs \in Nat \ {0} /\ MaxVerdicts \in Nat

VARIABLES
  inputs,      \* the identity the project's selections give now
  final,       \* the runs, by identity
  looked,      \* the provider attempts that succeeded: their results, by identity
  verdicts,
  qa           \* register: the identity the attempt selected

finalVars == <<inputs, final, looked, verdicts, qa>>

Input == 1..MaxInputs

\* What the deterministic checks measure, and what each provider answers about
\* the findings that it reports.
Measured == {"sound", "broken"}
FirstLook == {"clear", "unsure", "blocking"}
SecondLook == {"dismissed", "confirmed", "minor", "undecided"}

NoFinal == [status |-> "none", measured |-> "unknown", settled |-> "open", selected |-> FALSE]
NoLook == [first |-> "none", second |-> "none"]

FinalInit ==
  /\ inputs = 1 /\ verdicts = 0 /\ qa = 1
  /\ final = [i \in Input |-> NoFinal]
  /\ looked = [i \in Input |-> NoLook]

IsDecided(i) == final[i].status \in {"passed", "review", "failed"}

-----------------------------------------------------------------------------

\* A decided run of the same identity answers at once, cost and all.
EditorialBegins ==
  /\ Starts("editorial")
  /\ qa' = inputs
  /\ IF IsDecided(inputs)
       THEN Begins("reporting") /\ UNCHANGED final
       ELSE Begins("measure") /\ final' = [final EXCEPT ![inputs].status = "running"]
  /\ UNCHANGED <<inputs, looked, verdicts>>

\* The checks are persisted once.  Nothing is bought for a render that measures
\* as broken.
Measure ==
  /\ stage = "editorial"
  /\ \E m \in Measured :
       /\ final[qa].measured \in {"unknown", m}
       /\ final' = [final EXCEPT ![qa].measured = m]
       /\ Goes("measure", IF m = "sound" THEN "first" ELSE "gate")
  /\ UNCHANGED <<inputs, looked, verdicts, qa>>

\* attempt_by_identity: a succeeded evaluation keeps its result.
InHand(i, pass) == looked[i][pass] # "none"

After(pass, result) == IF pass = "first" /\ result = "unsure" THEN "second" ELSE "gate"

Reuse(pass) ==
  /\ at = pass /\ stage = "editorial" /\ InHand(qa, pass)
  /\ Goes(pass, After(pass, looked[qa][pass]))
  /\ UNCHANGED finalVars

Evaluate(pass) ==
  /\ at = pass /\ stage = "editorial" /\ ~InHand(qa, pass)
  /\ Goes(pass, IF pass = "first" THEN "first_seen" ELSE "second_seen")
  /\ UNCHANGED finalVars

KeepLook(pass, results) ==
  /\ stage = "editorial"
  /\ \E r \in results :
       /\ Goes(IF pass = "first" THEN "first_seen" ELSE "second_seen", After(pass, r))
       /\ looked' = [looked EXCEPT ![qa][pass] = r]
  /\ UNCHANGED <<inputs, final, verdicts, qa>>

EditorialFails ==
  /\ stage = "editorial" /\ at \in {"first_seen", "second_seen", "measure"}
  /\ Raises
  /\ qa' = 1
  /\ UNCHANGED <<inputs, final, looked, verdicts>>

Blocks(look) == look.first = "blocking" \/ look.second = "confirmed"

\* An undecided second opinion leaves the finding to the owner.
Open(look) == look.first = "unsure" /\ look.second = "undecided"

GateOf(run, look) ==
  CASE run.measured = "broken" \/ Blocks(look) -> "failed"
    [] run.measured = "sound" /\ ~Blocks(look) /\ Open(look) /\ run.settled # "accept" -> "review"
    [] OTHER -> "passed"

\* Promoting a report demotes every other one of its render.
Unselected(i) == {j \in Input : RenderOf[j] = RenderOf[i] /\ j # i}

\* decide, the gate's row, the report and its selection are one commit.
Gate ==
  /\ Goes("gate", "reporting")
  /\ final' = [i \in Input |->
       CASE i = qa -> [final[i] EXCEPT !.status = GateOf(final[i], looked[i]), !.selected = TRUE]
         [] i # qa /\ i \in Unselected(qa) -> [final[i] EXCEPT !.selected = FALSE]
         [] OTHER -> final[i]]
  /\ UNCHANGED <<inputs, looked, verdicts, qa>>

EditorialNext ==
  \/ EditorialBegins \/ Measure \/ EditorialFails \/ Gate
  \/ Reuse("first") \/ Reuse("second") \/ Evaluate("first") \/ Evaluate("second")
  \/ KeepLook("first", FirstLook) \/ KeepLook("second", SecondLook)

-----------------------------------------------------------------------------

\* The reviewer settles the finding of a run that waits for it, once; the gate is
\* computed again from what is stored.
Settles(i, decision) ==
  /\ stage = "editorial" /\ verdicts < MaxVerdicts
  /\ final[i].status = "review" /\ final[i].settled = "open"
  /\ LET run == [final[i] EXCEPT !.settled = decision] IN
       final' = [final EXCEPT ![i] = [run EXCEPT !.status = GateOf(run, looked[i])]]
  /\ verdicts' = verdicts + 1
  /\ UNCHANGED <<workerVars, inputs, looked, qa>>

\* A render, a selection or a setting changes.
InputsMove(i) ==
  /\ stage = "editorial" /\ verdicts < MaxVerdicts
  /\ i \in Input \ {inputs}
  /\ inputs' = i
  /\ verdicts' = verdicts + 1
  /\ UNCHANGED <<workerVars, final, looked, qa>>

EditorialOwner ==
  \/ \E i \in Input, d \in {"accept", "reject", "escalate"} : Settles(i, d)
  \/ \E i \in Input : InputsMove(i)

-----------------------------------------------------------------------------

\* A pass is earned: nothing measured fails, and every finding was cleared by the
\* first look, dismissed or found minor by the second, or accepted by the owner.
\* A render has one selected report.
PassIsEarned ==
  \A i \in Input :
    /\ final[i].status = "passed" =>
         /\ final[i].measured = "sound"
         /\ \/ looked[i].first = "clear"
            \/ looked[i].first = "unsure" /\ looked[i].second \in {"dismissed", "minor"}
            \/ looked[i].first = "unsure" /\ final[i].settled = "accept"
    /\ final[i].selected => \A j \in Unselected(i) : ~final[j].selected

\* A failure is final for its inputs, and an evaluation is paid for once.
JudgedOnce ==
  /\ \A i \in Input : final[i].status \in {"passed", "failed"} => final'[i].status = final[i].status
  /\ (stage = "editorial" /\ at = "first" /\ at' = "first_seen") => looked[qa].first = "none"
  /\ (stage = "editorial" /\ at = "second" /\ at' = "second_seen") => looked[qa].second = "none"
=============================================================================
