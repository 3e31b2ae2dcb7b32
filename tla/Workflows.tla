----------------------------- MODULE Workflows -----------------------------
(***************************************************************************)
(* The two workflows that orchestrate a project: the executions of its own *)
(* workflow with the rows that describe them, and the fan-out of its shots.*)
(* The first treats the second as a stage that ends one way or another, so *)
(* they share no state, and the model is their sum: `which' is chosen at   *)
(* the start.                                                              *)
(***************************************************************************)
EXTENDS ShotFanout, ProjectGeneration

VARIABLE which

vars == <<fanoutVars, generationVars, which>>

Init == FanoutInit /\ GenerationInit /\ which \in {"fanout", "generation"}

Fans(action) == which = "fanout" /\ action /\ UNCHANGED <<generationVars, which>>

Generates(action) == which = "generation" /\ action /\ UNCHANGED <<fanoutVars, which>>

Next == Fans(FanoutNext) \/ Generates(GenerationNext)

\* A worker polls: a workflow whose await has been resolved goes on, an activity
\* ends one way or another under its timeout, and a cancellation is delivered.
FanoutFairness ==
  /\ WF_vars(Fans(Fanout))
  /\ \A s \in Shot :
       /\ WF_vars(Fans(StageEnds(s))) /\ WF_vars(Fans(Wake(s))) /\ WF_vars(Fans(Cancelled(s)))

\* The dashboard polls GET workflow, and a request that began ends.
GenerationFairness ==
  /\ WF_vars(Generates(Reconcile)) /\ WF_vars(Generates(SettleRows)) /\ WF_vars(Generates(Commit))

FairSpec == Init /\ [][Next]_vars /\ FanoutFairness /\ GenerationFairness

-----------------------------------------------------------------------------

\* Types; the fan-out holds no more children than its concurrency, and one run of
\* the project is active.
TypeOK == FanoutType /\ GenerationType

\* A fan-out calls itself complete, and a shot is locked, only behind clips that
\* passed their gates.
LockedIsEarned == CompleteMeansLocked /\ LockedThroughGates

\* No workflow hangs and no row goes on calling a closed execution live.
WorkflowsSettle == (which = "fanout" => FanoutEnds) /\ RowSettles

-----------------------------------------------------------------------------
\* The instance TLC checks: both continuations enter at the references.
EntryAtReferences == [c \in Command |-> "continuity_references"]
=============================================================================
