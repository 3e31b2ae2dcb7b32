------------------------------ MODULE VisualQA ------------------------------
(***************************************************************************)
(* Visual QA of the clips of one shot (VisualQAPipeline): an evaluation is *)
(* bound to a clip, asks a first agent, and when that leaves a doubt a     *)
(* second one.  Both calls are paid for.  A human may settle a review or   *)
(* overrule a soft failure; the render gate reads the newest complete run. *)
(*                                                                         *)
(* The score is abstracted to its outcome: HARD is a FAIL with a hard      *)
(* failure.  A clip is the number of its generated video, 1 the original.  *)
(***************************************************************************)
EXTENDS Naturals, FiniteSets, Sequences

CONSTANTS
  Worker,     \* executions of the shot's activities
  Answer,     \* what an agent may say: an outcome, or one too uncertain to stand alone
  MaxClips,   \* bound: clips of the shot
  MaxFaults   \* bound: crashes, errors and executions that overlap another

ASSUME QAAssumption ==
  /\ Answer \subseteq {"PASS", "FAIL", "HARD", "unsure"}
  /\ MaxClips \in Nat \ {0} /\ MaxFaults \in Nat

VARIABLES
  clip,       \* the selected video of the shot
  qa,         \* visual_qa_runs: the evaluation of each clip
  order,      \* the clips in the order in which their runs were created
  approved,   \* runs a human has approved
  worker,     \* what each execution is doing
  bought,     \* history: calls paid for, by clip and agent
  overlapped, \* history: two executions have been at work at once
  faults

qaVars == <<clip, qa, order, approved, bought>>

Clip == 1..MaxClips

Outcome == {"PASS", "REVIEW", "FAIL", "HARD"}

Agent == {"first", "second"}

Run == [status: {"none", "open", "complete", "failed"}, key: Nat, outcome: Outcome \cup {"none"},
        first: Answer \cup {"none"}, second: Answer \cup {"none"}]

Unrun == [status |-> "none", key |-> 0, outcome |-> "none", first |-> "none", second |-> "none"]

Idle == [pc |-> "idle", for |-> "none", attempt |-> 0, token |-> 0, clip |-> 0, heard |-> "none"]

Complete(c) == qa[c].status = "complete"

\* The prior outcome compares outcomes of the shot, whichever clip they judged.
Prior(c) ==
  LET judged == {i \in DOMAIN order : order[i] # c /\ qa[order[i]].outcome # "none"}
  IN  IF judged = {} THEN "none"
      ELSE qa[order[CHOOSE i \in judged : \A j \in judged : j <= i]].outcome

Same(outcome, other) == {outcome, other} \subseteq {"FAIL", "HARD"} \/ outcome = other

\* evaluate_triggers: the first answer does not stand alone.
Doubtful(c, answer) ==
  answer = "unsure" \/ (Prior(c) # "none" /\ ~Same(Prior(c), answer))

\* decide and resolve: a hard failure stands; an undecided second agent leaves a
\* review.
Resolved(c) ==
  IF qa[c].second = "none" THEN qa[c].first
  ELSE IF qa[c].second = "unsure" THEN "REVIEW" ELSE qa[c].second

-----------------------------------------------------------------------------
(* One evaluation. *)

Alone(w) == \A v \in Worker \ {w} : worker[v].pc = "idle"

Fault == faults < MaxFaults /\ faults' = faults + 1

\* An execution begins; if it overlaps another, that is an exception.
Enter(w) ==
  /\ worker[w].pc = "idle"
  /\ IF Alone(w) THEN UNCHANGED <<faults, overlapped>> ELSE Fault /\ overlapped' = TRUE

Goto(w, pc) == worker' = [worker EXCEPT ![w].pc = pc]

Leave(w) == worker' = [worker EXCEPT ![w] = Idle]

\* The key of a request binds it to the clip it was first used for.
Conflicts(key) == qa[clip].status = "none" /\ \E c \in Clip : qa[c].status # "none" /\ qa[c].key = key

\* A complete evaluation is reused as it stands.
Reuses == Complete(clip)

\* evaluate_shot takes the clip that is selected now, whoever selected it.
Evaluate(w, key, for, attempt) ==
  IF Reuses
  THEN /\ worker' = [worker EXCEPT ![w] = [@ EXCEPT !.pc = "heard", !.for = for,
                       !.attempt = attempt, !.heard = qa[clip].outcome]]
       /\ UNCHANGED <<qa, order>>
  ELSE IF Conflicts(key)
  THEN Leave(w) /\ UNCHANGED <<qa, order>>
  ELSE /\ worker' = [worker EXCEPT ![w] = [@ EXCEPT !.pc = "asking", !.for = for,
                       !.attempt = attempt, !.clip = clip, !.heard = "none"]]
       /\ IF qa[clip].status = "none"
          THEN /\ qa' = [qa EXCEPT ![clip].status = "open", ![clip].key = key]
               /\ order' = Append(order, clip)
          ELSE /\ qa' = [qa EXCEPT ![clip].status = "open"]
               /\ UNCHANGED order

Finished(w, c, outcome) ==
  /\ qa' = [qa EXCEPT ![c].status = "complete", ![c].outcome = outcome]
  /\ worker' = [worker EXCEPT ![w].pc = "heard", ![w].heard = outcome, ![w].clip = 0]

\* Measured unusable: no agent is asked.  Measuring again gives the same.
Unusable(w) ==
  LET c == worker[w].clip IN
  /\ worker[w].pc = "asking" /\ qa[c].first = "none"
  /\ Finished(w, c, "HARD")
  /\ UNCHANGED <<clip, order, approved, bought, overlapped, faults>>

\* The agent whose answer is missing.  Answers are kept and reused.
NextAgent(c) ==
  IF qa[c].first = "none" THEN "first"
  ELSE IF Doubtful(c, qa[c].first) /\ qa[c].second = "none" THEN "second" ELSE "none"

\* The pre-call checkpoint; what follows is the call.
Ask(w) ==
  /\ worker[w].pc = "asking" /\ NextAgent(worker[w].clip) # "none"
  /\ worker' = [worker EXCEPT ![w].pc = "asked", ![w].heard = NextAgent(worker[w].clip)]
  /\ bought' = [bought EXCEPT ![worker[w].clip][NextAgent(worker[w].clip)] = @ + 1]
  /\ UNCHANGED <<clip, qa, order, approved, overlapped, faults>>

Answers(w) ==
  LET c == worker[w].clip
      agent == worker[w].heard
  IN
  /\ worker[w].pc = "asked"
  /\ \E answer \in Answer :
       qa' = [qa EXCEPT ![c] = IF agent = "first" THEN [@ EXCEPT !.first = answer]
                               ELSE [@ EXCEPT !.second = answer]]
  /\ worker' = [worker EXCEPT ![w].pc = "asking", ![w].heard = "none"]
  /\ UNCHANGED <<clip, order, approved, bought, overlapped, faults>>

Finalize(w) ==
  LET c == worker[w].clip IN
  /\ worker[w].pc = "asking" /\ NextAgent(c) = "none"
  /\ Finished(w, c, Resolved(c))
  /\ UNCHANGED <<clip, order, approved, bought, overlapped, faults>>

\* The agent fails, or is refused by the budget: the run is marked failed,
\* whatever another execution has made of it.
Unheard(w) ==
  LET c == worker[w].clip IN
  /\ worker[w].pc \in {"asking", "asked"} /\ Fault
  /\ qa' = [qa EXCEPT ![c].status = "failed"]
  /\ Leave(w)
  /\ UNCHANGED <<clip, order, approved, bought, overlapped>>

-----------------------------------------------------------------------------
(* The gate. *)

\* The newest complete run, whichever clip it judged.
Canonical ==
  LET done == {i \in DOMAIN order : Complete(order[i])}
  IN  IF done = {} THEN 0 ELSE order[CHOOSE i \in done : \A j \in done : j <= i]

Cleared(c) == Complete(c) /\ (qa[c].outcome = "PASS" \/ (c \in approved /\ qa[c].outcome # "HARD"))

GateOpen == Canonical # 0 /\ Cleared(Canonical)

\* A human looks at any run; a hard failure cannot be overruled.
Approve(c) ==
  /\ Complete(c) /\ qa[c].outcome \in {"REVIEW", "FAIL"} /\ c \notin approved
  /\ approved' = approved \cup {c}
  /\ UNCHANGED <<clip, qa, order, bought, worker, overlapped, faults>>

QAType ==
  /\ clip \in Clip /\ qa \in [Clip -> Run] /\ approved \subseteq Clip
  /\ order \in UNION {[1..n -> Clip] : n \in 0..MaxClips}
  /\ bought \in [Clip -> [Agent -> Nat]]
  /\ overlapped \in BOOLEAN /\ faults \in 0..MaxFaults

QAInit ==
  /\ clip = 1
  /\ qa = [c \in Clip |-> Unrun]
  /\ order = <<>> /\ approved = {}
  /\ bought = [c \in Clip |-> [a \in Agent |-> 0]]
  /\ worker = [w \in Worker |-> Idle]
  /\ overlapped = FALSE /\ faults = 0

=============================================================================
