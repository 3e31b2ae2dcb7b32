------------------------------ MODULE ShotFanout ------------------------------
(***************************************************************************)
(* The fan-out of a storyboard into shot workflows (packages/workflows/    *)
(* shot.py): the parent that starts up to Concurrency children, collects   *)
(* them and reports one status, and the children that take a shot through  *)
(* keyframe, keyframe QA, animation, video QA and repair to LOCKED.        *)
(*                                                                         *)
(* A replacement is a child a shot command started: it has no parent and   *)
(* may be handed the keyframe its owner approved.                          *)
(*                                                                         *)
(* Temporal is external.  A workflow runs from one await to the next in    *)
(* one step.  Cancelling an execution raises asyncio.CancelledError at its *)
(* await, except at an activity, which raises ActivityError.  When the     *)
(* parent closes, its children are asked to cancel.  A signal to a closed  *)
(* workflow raises.                                                        *)
(***************************************************************************)
EXTENDS Naturals, FiniteSets

CONSTANTS
  Owned,         \* the storyboard's shots
  Replacement,   \* children started by a shot command, handed a keyframe
  Concurrency,   \* ProjectShotFanoutInput.concurrency
  MaxFaults,     \* bound: stages that end in an error, and changed settings
  MaxSignals     \* bound: signals of the owner

ASSUME FanoutAssumption ==
  /\ IsFiniteSet(Owned) /\ Owned \cap Replacement = {}
  /\ Concurrency \in Nat \ {0} /\ MaxFaults \in Nat /\ MaxSignals \in Nat

VARIABLES
  fan,       \* the parent: its next step, _cancelled and its closing status
  active,    \* _active: children started and not collected
  reported,  \* _reported
  child,     \* the shot workflows
  passed,    \* history: the gates the current outputs of a shot have passed
  changed,   \* the project's generation settings have changed since the fan-out
  faults, signals

fanVars == <<fan, active, reported>>
fanoutVars == <<fanVars, child, passed, faults, signals, changed>>

Shot == Owned \cup Replacement

Stage == {"resolve", "t14", "kqa", "t15", "vqa", "repair", "lock"}

End == {"locked", "failed", "cancelled", "review", "raised"}

FanStatus == {"complete", "partial", "cancelled", "failed", "raised"}

Child == [pc: Stage \cup {"none", "parked", "closed"},
          keyframe: BOOLEAN,  \* selected_keyframe_asset_id is set
          cancel: BOOLEAN,    \* _cancelled
          asked: BOOLEAN,     \* the cluster has been asked to cancel it
          end: End \cup {"none"}]

Unstarted == [pc |-> "none", keyframe |-> FALSE, cancel |-> FALSE, asked |-> FALSE, end |-> "none"]

Open(s) == child[s].pc \notin {"none", "closed"}

\* The parent a child would report to has closed: the signal raises.
Deaf(s) == s \in Owned /\ fan.pc = "closed"

-----------------------------------------------------------------------------
(* The shot workflow. *)

Become(s, c) == child' = [child EXCEPT ![s] = c]

Report(s, state) ==
  reported' = IF s \in Owned /\ ~Deaf(s) THEN [reported EXCEPT ![s] = state] ELSE reported

\* The run returns a result it has reported.
Finish(s, end) ==
  /\ Become(s, [child[s] EXCEPT !.pc = "closed", !.end = IF Deaf(s) THEN "raised" ELSE end])
  /\ Report(s, end)

\* A retryable failure is reported and waits for a retry or a cancel; if the
\* report itself raises, inside the handler, the execution fails.
Park(s) ==
  /\ Become(s, IF Deaf(s) THEN [child[s] EXCEPT !.pc = "closed", !.end = "raised"]
                          ELSE [child[s] EXCEPT !.pc = "parked"])
  /\ Report(s, "retryable")

\* The stages read the project's generation settings again and refuse a child
\* minted under others (_authoritative_shot); the refusal is a ValueError, which
\* no entry of the classification names, so it too is retryable.
Bound(s) == ~changed

\* _generate, from the end of one activity to the start of the next: the cancel
\* flag is read after every stage but the last.
Proceed(s, stage, gates) ==
  /\ passed' = [passed EXCEPT ![s] = gates]
  /\ IF child[s].cancel THEN Finish(s, "cancelled")
     ELSE /\ Become(s, [child[s] EXCEPT !.pc = stage, !.keyframe = @ \/ stage = "kqa"])
          /\ UNCHANGED reported
  /\ UNCHANGED <<fan, active, faults, signals, changed>>

\* The lineage is validated; an approved keyframe is adopted and spares T14.
ResolveInput(s) ==
  /\ child[s].pc = "resolve" /\ Bound(s)
  /\ Proceed(s, IF s \in Replacement THEN "kqa" ELSE "t14", passed[s])

DrawKeyframe(s) ==
  /\ child[s].pc = "t14" /\ Bound(s)
  /\ Proceed(s, "kqa", {})

KeyframeQA(s) ==
  /\ child[s].pc = "kqa" /\ Bound(s)
  /\ Proceed(s, "t15", passed[s] \cup {"kqa"})

Animate(s) ==
  /\ child[s].pc = "t15" /\ Bound(s)
  /\ Proceed(s, "vqa", passed[s] \ {"vqa"})

VideoQA(s) ==
  /\ child[s].pc = "vqa" /\ Bound(s)
  /\ Proceed(s, "lock", passed[s] \cup {"vqa"})

\* T21 locked a revalidated output.
Repaired(s) ==
  /\ child[s].pc = "repair" /\ Bound(s)
  /\ Proceed(s, "lock", passed[s] \cup {"vqa"})

\* persist_shot_checkpoint returns what it is given.
Lock(s) ==
  /\ child[s].pc = "lock"
  /\ Finish(s, "locked")
  /\ UNCHANGED <<fan, active, passed, faults, signals, changed>>

Refuse(s) ==
  /\ child[s].pc \in Stage \ {"lock"} /\ ~Bound(s)
  /\ Park(s)
  /\ UNCHANGED <<fan, active, passed, faults, signals, changed>>

\* T20 blocks the clip: T21 owns the recovery.
Block(s) ==
  /\ child[s].pc = "vqa" /\ Bound(s)
  /\ Become(s, [child[s] EXCEPT !.pc = "repair"])
  /\ UNCHANGED <<fanVars, passed, faults, signals, changed>>

\* _repair without a passing output: human review or a policy that ran out.
Unrepaired(s) ==
  /\ child[s].pc = "repair" /\ Bound(s)
  /\ Finish(s, "review")
  /\ UNCHANGED <<fan, active, passed, faults, signals, changed>>

\* A stage's error, after the retry policy: _classify_failure decides.
Fail(s) ==
  /\ child[s].pc \in Stage
  /\ faults < MaxFaults /\ faults' = faults + 1
  /\ Park(s) \/ Finish(s, "failed")
  /\ UNCHANGED <<fan, active, passed, signals, changed>>

\* The cancel signal wins over a retry.
Wake(s) ==
  /\ child[s].pc = "parked" /\ child[s].cancel
  /\ Finish(s, "cancelled")
  /\ UNCHANGED <<fan, active, passed, faults, signals, changed>>

\* A second attempt does not resolve the input again.
Entry(s) == IF child[s].keyframe THEN "kqa" ELSE "t14"

\* command: retry and resume are accepted only where the workflow is parked.
Retry(s) ==
  /\ signals < MaxSignals /\ signals' = signals + 1
  /\ child[s].pc = "parked" /\ ~child[s].cancel
  /\ Become(s, [child[s] EXCEPT !.pc = Entry(s)])
  /\ UNCHANGED <<fanVars, passed, faults, changed>>

CancelShot(s) ==
  /\ signals < MaxSignals /\ signals' = signals + 1
  /\ Open(s) /\ ~child[s].cancel
  /\ Become(s, [child[s] EXCEPT !.cancel = TRUE])
  /\ UNCHANGED <<fanVars, passed, faults, changed>>

\* The cluster's cancellation reaches the await.  An activity raises
\* ActivityError, which `except CancelledError' does not catch: it is classified
\* like any unknown error, as retryable.  At the wait of a parked child it is
\* asyncio.CancelledError and ends the execution.
Cancelled(s) ==
  /\ Open(s) /\ child[s].asked
  /\ IF child[s].pc = "parked"
     THEN /\ Become(s, [child[s] EXCEPT !.pc = "closed", !.end = "raised"])
          /\ UNCHANGED reported
     ELSE /\ Become(s, IF Deaf(s) THEN [child[s] EXCEPT !.pc = "closed", !.end = "raised"]
                       ELSE [child[s] EXCEPT !.pc = "parked", !.asked = FALSE])
          /\ Report(s, "retryable")
  /\ UNCHANGED <<fan, active, passed, faults, signals, changed>>

\* start_shot, for a command.
StartReplacement(s) ==
  /\ signals < MaxSignals /\ signals' = signals + 1
  /\ s \in Replacement /\ child[s].pc = "none"
  /\ Become(s, [Unstarted EXCEPT !.pc = "resolve"])
  /\ UNCHANGED <<fanVars, passed, faults, changed>>

-----------------------------------------------------------------------------
(* The fan-out. *)

AskCluster(shots) == [s \in Shot |-> IF s \in shots /\ Open(s) THEN [child[s] EXCEPT !.asked = TRUE]
                                                        ELSE child[s]]

\* Parent close policy REQUEST_CANCEL.
Close(status) ==
  /\ fan' = [fan EXCEPT !.pc = "closed", !.status = status]
  /\ child' = AskCluster(Owned)

Waiting == {s \in Owned : child[s].pc = "none"}

\* The head of the loop.
Loop(rest) == IF (Waiting # {} \/ rest # {}) /\ ~fan.cancelled THEN "fill" ELSE "save"

Resolve ==
  /\ fan.pc = "resolve"
  /\ \/ fan' = [fan EXCEPT !.pc = Loop({})] /\ UNCHANGED <<child, faults>>
     \/ faults < MaxFaults /\ faults' = faults + 1 /\ Close("raised")
  /\ UNCHANGED <<active, reported, passed, signals, changed>>

\* Mutant: the bound is compared too late.
StartBeyond(s) ==
  /\ fan.pc = "fill" /\ s \in Waiting /\ Cardinality(active) <= Concurrency
  /\ Become(s, [Unstarted EXCEPT !.pc = "resolve"])
  /\ active' = active \cup {s}
  /\ UNCHANGED <<fan, reported, passed, faults, signals, changed>>

\* The inner loop does not look at _cancelled, and each start is an await.
Start(s) ==
  /\ fan.pc = "fill" /\ s \in Waiting /\ Cardinality(active) < Concurrency
  /\ Become(s, [Unstarted EXCEPT !.pc = "resolve"])
  /\ active' = active \cup {s}
  /\ UNCHANGED <<fan, reported, passed, faults, signals, changed>>

Await ==
  /\ fan.pc = "fill" /\ (Waiting = {} \/ Cardinality(active) = Concurrency)
  /\ fan' = [fan EXCEPT !.pc = "wait"]
  /\ UNCHANGED <<active, reported, child, passed, faults, signals, changed>>

Done == {s \in active : child[s].pc = "closed"}

\* Mutant: the collected handles keep their slots.
CollectKeeping ==
  /\ fan.pc = "wait" /\ Done # {}
  /\ IF \E s \in Done : child[s].end = "raised"
     THEN Close("raised")
     ELSE fan' = [fan EXCEPT !.pc = Loop(active)] /\ UNCHANGED child
  /\ UNCHANGED <<active, reported, passed, faults, signals, changed>>

\* A child that raised makes future.result() raise, and the fan-out with it.
Collect ==
  /\ fan.pc = "wait" /\ Done # {}
  /\ IF \E s \in Done : child[s].end = "raised"
     THEN Close("raised") /\ UNCHANGED active
     ELSE /\ active' = active \ Done
          /\ fan' = [fan EXCEPT !.pc = Loop(active \ Done)]
          /\ UNCHANGED child
  /\ UNCHANGED <<reported, passed, faults, signals, changed>>

Count(state) == Cardinality({s \in Owned : reported[s] = state})

\* Mutant: complete when nothing that has reported failed.
AggregateOfReported ==
  IF fan.cancelled THEN "cancelled"
  ELSE IF Count("failed") > 0 THEN "failed"
  ELSE IF Count("locked") + Count("none") + Count("review") = Cardinality(Owned)
       THEN "complete" ELSE "partial"

\* _aggregate: a reported state replaces the collected result, which is the same.
Aggregate ==
  IF fan.cancelled THEN "cancelled"
  ELSE IF Count("failed") > 0 THEN "failed"
  ELSE IF Count("locked") = Cardinality(Owned) THEN "complete" ELSE "partial"

Save ==
  /\ fan.pc = "save"
  /\ \/ Close(Aggregate) /\ UNCHANGED faults
     \/ faults < MaxFaults /\ faults' = faults + 1 /\ Close("raised")
  /\ UNCHANGED <<active, reported, passed, signals, changed>>

\* The project signals cancel_fanout.
CancelFanout ==
  /\ signals < MaxSignals /\ signals' = signals + 1
  /\ fan.pc # "closed" /\ ~fan.cancelled
  /\ fan' = [fan EXCEPT !.cancelled = TRUE]
  /\ child' = AskCluster(active)
  /\ UNCHANGED <<active, reported, passed, faults, changed>>

\* The project workflow itself is cancelled: its child is asked to, and ends at
\* whichever await it is in.
ParentCancelled ==
  /\ signals < MaxSignals /\ signals' = signals + 1
  /\ fan.pc # "closed"
  /\ Close("raised")
  /\ UNCHANGED <<active, reported, passed, faults, changed>>

FanoutInit ==
  /\ fan = [pc |-> "resolve", cancelled |-> FALSE, status |-> "none"]
  /\ active = {}
  /\ reported = [s \in Owned |-> "none"]
  /\ child = [s \in Shot |-> Unstarted]
  /\ passed = [s \in Shot |-> {}]
  /\ faults = 0 /\ signals = 0 /\ changed = FALSE

StageEnds(s) ==
  \/ ResolveInput(s) \/ DrawKeyframe(s) \/ KeyframeQA(s) \/ Animate(s) \/ VideoQA(s)
  \/ Block(s) \/ Repaired(s) \/ Unrepaired(s) \/ Lock(s) \/ Refuse(s) \/ Fail(s)

ChangeSettings ==
  /\ ~changed /\ changed' = TRUE
  /\ faults < MaxFaults /\ faults' = faults + 1
  /\ UNCHANGED <<fanVars, child, passed, signals>>

Owner == \/ CancelFanout \/ ParentCancelled \/ ChangeSettings
         \/ \E s \in Shot : Retry(s) \/ CancelShot(s) \/ StartReplacement(s)

Fanout == Resolve \/ Await \/ Collect \/ Save \/ \E s \in Owned : Start(s)

FanoutNext == Owner \/ Fanout \/ \E s \in Shot : StageEnds(s) \/ Wake(s) \/ Cancelled(s)

-----------------------------------------------------------------------------
(* Properties. *)

\* Types, and the fan-out never holds more children than its concurrency.
FanoutType ==
  /\ fan \in [pc: {"resolve", "fill", "wait", "save", "closed"}, cancelled: BOOLEAN,
              status: FanStatus \cup {"none"}]
  /\ active \subseteq Owned /\ Cardinality(active) <= Concurrency
  /\ reported \in [Owned -> {"none", "retryable"} \cup (End \ {"raised"})]
  /\ child \in [Shot -> Child]
  /\ passed \in [Shot -> SUBSET {"kqa", "vqa"}]
  /\ faults \in 0..MaxFaults /\ signals \in 0..MaxSignals /\ changed \in BOOLEAN

\* The fan-out calls itself complete only when every shot's child returned
\* LOCKED (ELIGIBLE_FANOUT_STATUSES lets the render start), whatever was parked,
\* retried, repaired or reported out of turn on the way.
CompleteMeansLocked ==
  fan.status = "complete" => \A s \in Owned : child[s].end = "locked"

\* A locked shot's current keyframe passed T20 before its clip was animated, and
\* its clip passed T20 or was revalidated by T21, also after a retry.
LockedThroughGates ==
  \A s \in Shot : child[s].end = "locked" => passed[s] = {"kqa", "vqa"}

\* A fan-out closes unless some child is waiting for its owner: no slot is lost
\* and no sibling's outcome is waited for twice.
FanoutEnds == []<>(fan.pc = "closed" \/ \E s \in active : child[s].pc = "parked")

=============================================================================
