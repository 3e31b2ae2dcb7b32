------------------------------- MODULE Repair -------------------------------
(***************************************************************************)
(* The repair of a shot whose clip failed visual QA (VisualRepairPipeline, *)
(* RepairRepository, next_route): one repair run, its attempts, and the    *)
(* activity executions that work on it, one after another or, when a       *)
(* heartbeat is missed, at once.  An execution is a worker; between two of *)
(* its commits it may be interleaved with anything, or crash.              *)
(*                                                                         *)
(* What the classifier, the budget and the fallback's eligibility say is   *)
(* chosen freely whenever a route is decided.  The providers are external: *)
(* `remote' is what they made of each attempt.                             *)
(***************************************************************************)
EXTENDS VisualQA

CONSTANTS
  Policy,      \* the policies a run may be opened under: attempts of each kind
  MaxOwner,    \* bound: decisions of the owner
  MaxWindows   \* bound: polling windows that expire

Paid == {"same", "alternate"}

Kind == Paid \cup {"fallback"}

ASSUME RepairAssumption ==
  /\ Policy \subseteq [Kind -> Nat]
  /\ \A p \in Policy : 1 + p["same"] + p["alternate"] + p["fallback"] <= MaxClips
  /\ MaxOwner \in Nat /\ MaxWindows \in Nat

VARIABLES
  run,      \* repair_runs
  attempts, \* repair_attempts after the original, by ordinal
  remote,   \* external: the provider's side of each attempt
  owned,    \* decisions the owner has taken
  windows   \* polling windows that have expired

repairVars == <<run, attempts, remote, owned, windows>>

vars == <<qaVars, worker, overlapped, faults, repairVars>>

Ordinal == 1..MaxClips

Terminal == {"LOCKED", "HUMAN_REVIEW_REQUIRED"}

Over == {"failed", "passed"}

AttemptStatus == {"planned", "submitted", "polling", "downloading", "revalidating"} \cup Over

Attempt == [kind: Kind, status: AttemptStatus, operation: BOOLEAN, ambiguous: BOOLEAN,
            done: BOOLEAN, clip: 0..MaxClips, judged: BOOLEAN]

\* REPAIRING, ALTERNATE_PROVIDER, FALLBACK_RENDERING and REVALIDATING are all
\* working: nothing reads the difference.
NoRun == [state |-> "none", token |-> 0, cancel |-> FALSE, root |-> 0, selected |-> 0,
          policy |-> [kind \in Kind |-> 0]]

Latest == Len(attempts)

\* Mutant: only attempts that ended are counted.
SpentEnded(kind) ==
  Cardinality({k \in DOMAIN attempts : attempts[k].kind = kind /\ attempts[k].status \in Over})

\* Every attempt planned counts, whatever became of it.
Spent(kind) == Cardinality({k \in DOMAIN attempts : attempts[k].kind = kind})

-----------------------------------------------------------------------------
(* repair(), up to its loop. *)

\* The stage before: the gate on the clip of the shot, evaluated or reused.
StartQA(w) ==
  /\ Enter(w)
  /\ run.state = "none" /\ ~GateOpen
  /\ ~Complete(clip)
  /\ Evaluate(w, 0, "stage", 0)
  /\ UNCHANGED <<clip, approved, bought, repairVars>>

QAReported(w) ==
  /\ worker[w].pc = "heard" /\ worker[w].for = "stage"
  /\ Leave(w)
  /\ UNCHANGED <<qaVars, overlapped, faults, repairVars>>

\* The latest attempt has a clip that nobody has judged.
Interrupted ==
  /\ Latest > 0
  /\ attempts[Latest].status = "revalidating"
  /\ attempts[Latest].clip # 0 /\ ~attempts[Latest].judged

\* A new run is bound to the selected clip and to the verdict that failed it; a
\* resumed one keeps what it is bound to, and first judges what it left unjudged.
StartRepair(w) ==
  /\ Enter(w)
  /\ \/ /\ run.state = "none"
        /\ Canonical # 0 /\ ~GateOpen /\ qa[Canonical].outcome \in {"FAIL", "HARD"}
        /\ \E policy \in Policy :
             run' = [NoRun EXCEPT !.state = "working", !.token = 1, !.root = clip, !.policy = policy]
        /\ worker' = [worker EXCEPT ![w].pc = "loop", ![w].token = 1]
        /\ UNCHANGED <<qa, order>>
     \/ /\ run.state = "working" /\ ~Interrupted
        /\ worker' = [worker EXCEPT ![w].pc = "loop", ![w].token = run.token]
        /\ UNCHANGED <<run, qa, order>>
     \/ /\ run.state = "working" /\ Interrupted
        /\ worker' = [worker EXCEPT ![w].pc = "revalidate", ![w].attempt = Latest,
                                    ![w].token = run.token]
        /\ UNCHANGED <<run, qa, order>>
  /\ UNCHANGED <<clip, approved, bought, attempts, remote, owned, windows>>

-----------------------------------------------------------------------------
(* The loop: claim, route, plan.  One transaction. *)

\* claim_advance's conditional update.
Claims(w) == worker[w].pc = "loop" /\ worker[w].token = run.token

LosesClaim(w) ==
  /\ worker[w].pc = "loop" /\ ~Claims(w)
  /\ Leave(w)
  /\ UNCHANGED <<qaVars, overlapped, faults, repairVars>>

\* A Veo operation that succeeded and was never stored, or any operation that is
\* still in flight.  A Runway task that was being downloaded is neither.
Resumable ==
  /\ Latest > 0
  /\ LET a == attempts[Latest] IN
     \/ a.done /\ a.clip = 0 /\ a.status \notin Over
     \/ a.operation /\ a.status \in {"submitted", "polling"}

Ambiguous == Latest > 0 /\ attempts[Latest].ambiguous

\* The bounded order of next_route, when no earlier rule applies.
NextKind ==
  IF Spent("same") < run.policy.same THEN "same"
  ELSE IF Spent("alternate") < run.policy.alternate THEN "alternate"
  ELSE IF Spent("fallback") < run.policy.fallback THEN "fallback" ELSE "none"

Advance(state) == run' = [run EXCEPT !.state = state, !.token = @ + 1]

\* _restore_original_selection.
Restored == run.root

Resume(w) ==
  /\ Claims(w) /\ Resumable
  /\ Advance("working")
  /\ worker' = [worker EXCEPT ![w].pc = "polling", ![w].attempt = Latest, ![w].token = run.token + 1]
  /\ UNCHANGED <<qaVars, overlapped, faults, attempts, remote, owned, windows>>

\* Cancelled, ambiguous, not for a generation to fix, unaffordable or exhausted.
Review(w) ==
  /\ Claims(w) /\ ~Resumable
  /\ Advance("HUMAN_REVIEW_REQUIRED")
  /\ clip' = Restored
  /\ Leave(w)
  /\ UNCHANGED <<qa, order, approved, bought, overlapped, faults, attempts, remote, owned, windows>>

Plan(w) ==
  /\ Claims(w) /\ ~Resumable
  /\ ~run.cancel /\ ~Ambiguous /\ NextKind # "none"
  /\ Advance("working")
  /\ attempts' = Append(attempts, [kind |-> NextKind, status |-> "planned", operation |-> FALSE,
                          ambiguous |-> FALSE, done |-> FALSE, clip |-> 0, judged |-> FALSE])
  /\ worker' = [worker EXCEPT ![w].pc = "execute", ![w].attempt = Latest + 1,
                              ![w].token = run.token + 1]
  /\ UNCHANGED <<qaVars, overlapped, faults, remote, owned, windows>>

-----------------------------------------------------------------------------
(* Executing an attempt. *)

At(w) == worker[w].attempt

Mark(w, status) == [attempts EXCEPT ![At(w)].status = status]

\* Mutant: an operation that failed is polled on.
EndedWell(k) == remote[k] = "succeeded"

\* The operation failed, or its output is not what was asked for.
EndedBadly(k) == remote[k] \in {"failed", "succeeded"}

\* _AttemptFailed: the attempt is spent, and the loop goes on.
AttemptFails(w) ==
  /\ worker[w].pc \in {"execute", "called", "polling", "downloading"}
  /\ worker[w].pc = "called" => remote[At(w)] = "none"
  /\ worker[w].pc = "polling" => EndedBadly(At(w))
  /\ attempts' = Mark(w, "failed")
  /\ run' = [run EXCEPT !.state = "working"]
  /\ Goto(w, "loop")
  /\ UNCHANGED <<qaVars, overlapped, faults, remote, owned, windows>>

\* Reservation and status are durable before the provider is called.
Submit(w) ==
  /\ worker[w].pc = "execute" /\ attempts[At(w)].kind \in Paid
  /\ attempts' = Mark(w, "submitted")
  /\ Goto(w, "called")
  /\ UNCHANGED <<qaVars, overlapped, faults, run, remote, owned, windows>>

\* The call reaches the provider, or does not.
Arrive(w) ==
  /\ worker[w].pc = "called" /\ remote[At(w)] = "none"
  /\ remote' = [remote EXCEPT ![At(w)] = "running"]
  /\ UNCHANGED <<qaVars, worker, overlapped, faults, run, attempts, owned, windows>>

\* The operation is durable before it is polled.
Submitted(w) ==
  /\ worker[w].pc = "called" /\ remote[At(w)] # "none"
  /\ attempts' = [attempts EXCEPT ![At(w)].operation = TRUE]
  /\ Goto(w, "polling")
  /\ UNCHANGED <<qaVars, overlapped, faults, run, remote, owned, windows>>

\* No answer.  Runway raises out of the repair; Veo fails the attempt.
Unanswered(w) ==
  /\ worker[w].pc = "called" /\ Fault
  /\ LET unknown == [attempts EXCEPT ![At(w)].ambiguous = TRUE] IN
     \/ /\ attempts[At(w)].kind = "same"
        /\ attempts' = unknown
        /\ Leave(w)
     \/ /\ attempts[At(w)].kind = "alternate"
        /\ attempts' = [unknown EXCEPT ![At(w)].status = "failed"]
        /\ Goto(w, "loop")
  /\ UNCHANGED <<qaVars, overlapped, run, remote, owned, windows>>

RemoteEnds(k) ==
  /\ remote[k] = "running"
  /\ \E end \in {"succeeded", "failed"} : remote' = [remote EXCEPT ![k] = end]
  /\ UNCHANGED <<qaVars, worker, overlapped, faults, run, attempts, owned, windows>>

\* Veo's success is recorded with the poll.
Polled(w) ==
  /\ worker[w].pc = "polling" /\ remote[At(w)] = "succeeded"
  /\ attempts' = [attempts EXCEPT ![At(w)].status = "downloading",
                                  ![At(w)].done = attempts[At(w)].kind = "alternate"]
  /\ Goto(w, "downloading")
  /\ UNCHANGED <<qaVars, overlapped, faults, run, remote, owned, windows>>

WindowExpires(w) ==
  /\ worker[w].pc = "polling" /\ remote[At(w)] = "running"
  /\ windows < MaxWindows /\ windows' = windows + 1
  /\ attempts' = IF attempts[At(w)].kind = "same" THEN Mark(w, "polling") ELSE attempts
  /\ Leave(w)
  /\ UNCHANGED <<qaVars, overlapped, faults, run, remote, owned>>

NextClip == 2 + Cardinality({k \in DOMAIN attempts : attempts[k].clip # 0})

\* The output becomes the shot's selected clip, so that it can be judged.  The
\* second output of an attempt breaks a unique key.
Persist(w) ==
  /\ \/ worker[w].pc = "downloading"
     \/ worker[w].pc = "execute" /\ attempts[At(w)].kind = "fallback"
  /\ IF attempts[At(w)].clip = 0
     THEN /\ attempts' = [attempts EXCEPT ![At(w)].clip = NextClip]
          /\ clip' = NextClip
          /\ Goto(w, "produced")
     ELSE Leave(w) /\ UNCHANGED <<attempts, clip>>
  /\ UNCHANGED <<qa, order, approved, bought, overlapped, faults, run, remote, owned, windows>>

Produced(w) ==
  /\ worker[w].pc = "produced"
  /\ attempts' = Mark(w, "revalidating")
  /\ run' = [run EXCEPT !.state = "working"]
  /\ Goto(w, "revalidate")
  /\ UNCHANGED <<qaVars, overlapped, faults, remote, owned, windows>>

Revalidate(w) ==
  /\ worker[w].pc = "revalidate"
  /\ Evaluate(w, At(w), "repair", At(w))
  /\ UNCHANGED <<clip, approved, bought, overlapped, faults, repairVars>>

\* Mutant: a soft failure is good enough to lock on.
LocksUnlessHard(w) == worker[w].heard # "HARD"

Locks(w) == worker[w].heard = "PASS"

Lock(w) ==
  /\ worker[w].pc = "heard" /\ worker[w].for = "repair" /\ Locks(w)
  /\ attempts' = [attempts EXCEPT ![At(w)].status = "passed", ![At(w)].judged = TRUE]
  /\ run' = [run EXCEPT !.state = "LOCKED", !.selected = At(w)]
  /\ Leave(w)
  /\ UNCHANGED <<qaVars, overlapped, faults, remote, owned, windows>>

Rejected(w) ==
  /\ worker[w].pc = "heard" /\ worker[w].for = "repair" /\ ~Locks(w)
  /\ attempts' = [attempts EXCEPT ![At(w)].status = "failed", ![At(w)].judged = TRUE]
  /\ Goto(w, "loop")
  /\ UNCHANGED <<qaVars, overlapped, faults, run, remote, owned, windows>>

-----------------------------------------------------------------------------
(* The owner, and crashes. *)

Owner == owned < MaxOwner /\ owned' = owned + 1

\* act_on_repair_run.
Act ==
  /\ Owner
  /\ \/ run.state = "working" /\ run' = [run EXCEPT !.cancel = ~@]
     \/ run.state = "HUMAN_REVIEW_REQUIRED" /\ run' = [run EXCEPT !.state = "working", !.cancel = FALSE]
  /\ UNCHANGED <<qaVars, worker, overlapped, faults, attempts, remote, windows>>

Overrule(c) == Owner /\ Approve(c) /\ UNCHANGED <<run, attempts, remote, windows>>

Crash(w) ==
  /\ worker[w].pc # "idle" /\ Fault
  /\ Leave(w)
  /\ UNCHANGED <<qaVars, overlapped, repairVars>>

QAStep(w) ==
  /\ Unusable(w) \/ Ask(w) \/ Answers(w) \/ Finalize(w) \/ Unheard(w)
  /\ UNCHANGED repairVars

Init ==
  /\ QAInit
  /\ run = NoRun /\ attempts = <<>>
  /\ remote = [k \in Ordinal |-> "none"]
  /\ owned = 0 /\ windows = 0

Work(w) ==
  \/ StartQA(w) \/ QAReported(w) \/ StartRepair(w) \/ LosesClaim(w)
  \/ Resume(w) \/ Review(w) \/ Plan(w)
  \/ AttemptFails(w) \/ Submit(w) \/ Arrive(w) \/ Submitted(w) \/ Unanswered(w)
  \/ Polled(w) \/ WindowExpires(w) \/ Persist(w) \/ Produced(w)
  \/ Revalidate(w) \/ Lock(w) \/ Rejected(w)
  \/ QAStep(w)

Next ==
  \/ \E w \in Worker : Work(w) \/ Crash(w)
  \/ \E k \in Ordinal : RemoteEnds(k)
  \/ \E c \in Clip : Overrule(c)
  \/ Act

Spec == Init /\ [][Next]_vars

\* Temporal retries the activity, and a provider ends what it runs.
FairSpec ==
  /\ Spec
  /\ \A w \in Worker : WF_vars(Work(w))
  /\ \A k \in Ordinal : WF_vars(RemoteEnds(k))

-----------------------------------------------------------------------------
(* Properties. *)

\* The persisted rows, and the clips they name.
TypeOK ==
  /\ QAType
  /\ run.state \in {"none", "working"} \cup Terminal
  /\ run.root \in 0..MaxClips /\ run.selected \in 0..Len(attempts)
  /\ Len(attempts) <= MaxClips /\ \A k \in DOMAIN attempts : attempts[k] \in Attempt
  /\ \A k \in Ordinal \ DOMAIN attempts : remote[k] = "none"

\* RepairPolicy bounds what the providers are paid for, over every crash,
\* restart and overlapping execution.
PaidWithinPolicy ==
  \A kind \in Paid :
    LET paid == {k \in DOMAIN attempts \cap Ordinal : attempts[k].kind = kind /\ remote[k] # "none"}
    IN  Cardinality(paid) <= run.policy[kind]

\* Unless two executions were at work at once, a locked shot shows the clip of
\* the attempt it was locked on, and that clip has itself passed.
LockedOnItsVerdict ==
  run.state = "LOCKED" /\ ~overlapped =>
    /\ clip = attempts[run.selected].clip
    /\ Complete(clip) /\ qa[clip].outcome = "PASS"

\* A repair that gives up leaves the shot with the clip it had: no candidate
\* that failed stays selected.
OriginalRestored ==
  run.state = "HUMAN_REVIEW_REQUIRED" /\ ~overlapped => clip = run.root

\* Every call to an agent beyond the first for a clip is owed to a failure.
AskedOnce == \A c \in Clip, a \in Agent : bought[c][a] <= 1 + faults

\* A verdict, once given, is not changed by evaluating again.
VerdictStays ==
  [][\A c \in Clip : Complete(c) /\ ~overlapped => Complete(c)' /\ qa'[c].outcome = qa[c].outcome]_vars

\* A repair that was begun comes to its end.
RepairSettles == run.state = "working" ~> run.state \in Terminal

\* A repair ends on a clip that deserves it: the one that passed, or the one the
\* shot had before.
EndsOnItsClip == LockedOnItsVerdict /\ OriginalRestored

\* Nobody is paid beyond the policy, and no agent is asked again without a failure.
PaidAsAgreed == PaidWithinPolicy /\ AskedOnce

\* A verdict stands, and the repair comes to its end.
RepairConcludes == VerdictStays /\ RepairSettles


-----------------------------------------------------------------------------
\* The instance TLC checks: the two providers, or the fallback.
Policies == {[same |-> 1, alternate |-> 1, fallback |-> 0], [same |-> 0, alternate |-> 0, fallback |-> 1]}
=============================================================================
