------------------------------ MODULE Analysis ------------------------------
(***************************************************************************)
(* services/analysis/pipeline.py: the selected evidence is mapped scene by *)
(* scene, several at a time, and reduced to one analysis of the episode.   *)
(* A scene that succeeded is a checkpoint; the reduction is not.           *)
(***************************************************************************)
EXTENDS Worker

CONSTANTS
  Scenes,        \* the scenes of the evidence package
  Concurrency,   \* analysis_concurrency: calls in flight together
  MaxAsks        \* max_attempts of one call

ASSUME AnalysisAssumption == Concurrency \in Nat \ {0} /\ MaxAsks \in Nat \ {0}

VARIABLES
  analysis,    \* EpisodeAnalysisRun.status, by key
  scene,       \* SceneAnalysisCheckpoint.status, by key and scene
  record,      \* the EpisodeAnalysisRecords, each named by its key
  analysed,    \* the selected records
  ask,         \* register: the attempt of each scene; 0 once it is done
  flying,      \* register: the scenes whose call is in flight
  reducing     \* register: the attempt of the reduction

analysisVars == <<analysis, scene, record, analysed, ask, flying, reducing>>

AnalysisInit ==
  /\ analysis = [k \in Key |-> "none"]
  /\ scene = [k \in Key |-> [s \in Scenes |-> "none"]]
  /\ record = {} /\ analysed = {}
  /\ ask = [s \in Scenes |-> 0] /\ flying = {} /\ reducing = 0

\* Which calls are out, and how often, is known to the attempt alone.
Drops == ask' = [s \in Scenes |-> 0] /\ flying' = {} /\ reducing' = 0

Analyses(status) == analysis' = [analysis EXCEPT ![key] = status]

\* Mutant: a refused answer is not counted.
NextAskSame(n) == n

NextAsk(n) == n + 1

-----------------------------------------------------------------------------

\* A checkpoint that succeeded answers for its scene.
Done(s) == scene[key][s] = "succeeded"

AnalysisBegins ==
  /\ Starts("analysis")
  /\ flying' = {} /\ reducing' = 1
  /\ IF key \in record
       THEN Begins("reporting") /\ UNCHANGED <<analysis, scene, ask>>
       ELSE /\ Begins("map") /\ Analyses("mapping")
            /\ scene' = [scene EXCEPT ![key] = [s \in Scenes |->
                           IF @[s] = "none" THEN "pending" ELSE @[s]]]
            /\ ask' = [s \in Scenes |-> IF Done(s) THEN 0 ELSE 1]
  /\ UNCHANGED <<record, analysed>>

\* A scene's call, through the semaphore.
MapCall(s) ==
  /\ Goes("map", "map")
  /\ ask[s] # 0 /\ s \notin flying
  /\ Cardinality(flying) < Concurrency
  /\ flying' = flying \cup {s}
  /\ UNCHANGED <<analysis, scene, record, analysed, ask, reducing>>

\* The answer is validated and committed with its verdict.
MapAnswer(s) ==
  /\ Goes("map", "map")
  /\ s \in flying
  /\ flying' = flying \ {s}
  /\ scene' = [scene EXCEPT ![key][s] = "succeeded"]
  /\ ask' = [ask EXCEPT ![s] = 0]
  /\ UNCHANGED <<analysis, record, analysed, reducing>>

\* Neither an error nor an invalid answer ends the scene while attempts are left.
\* The last one fails the run, and asyncio cancels the calls still in flight.
MapRefused(s, status) ==
  /\ at = "map" /\ s \in flying
  /\ scene' = [scene EXCEPT ![key][s] = status]
  /\ IF ask[s] < MaxAsks
       THEN /\ Goes("map", "map")
            /\ ask' = [ask EXCEPT ![s] = NextAsk(@)] /\ flying' = flying \ {s}
            /\ UNCHANGED <<analysis, reducing>>
       ELSE Raises /\ Analyses("failed") /\ Drops
  /\ UNCHANGED <<record, analysed>>

\* A budget denial is terminal.
MapDenied(s) ==
  /\ at = "map" /\ ask[s] # 0 /\ s \notin flying
  /\ Raises /\ Analyses("failed")
  /\ scene' = [scene EXCEPT ![key][s] = "failed"]
  /\ Drops
  /\ UNCHANGED <<record, analysed>>

Mapped ==
  /\ \A s \in Scenes : ask[s] = 0
  /\ Goes("map", "reduce")
  /\ Analyses("reducing")
  /\ UNCHANGED <<scene, record, analysed, ask, flying, reducing>>

\* The reduction raises, or its answer fails validation and is asked for again
\* with the findings as feedback.
ReduceRefused ==
  /\ at = "reduce"
  /\ \/ /\ reducing < MaxAsks
        /\ Goes("reduce", "reduce")
        /\ reducing' = NextAsk(reducing)
        /\ \E status \in {"reducing", "validating"} : Analyses(status)
        /\ UNCHANGED <<ask, flying>>
     \/ Raises /\ Analyses("failed") /\ Drops
  /\ UNCHANGED <<scene, record, analysed>>

\* Every record of the project is deselected.
Deselects == {}

\* The canonical analysis, its record and its normalised rows in one transaction.
RecordAnalysis ==
  /\ Goes("reduce", "reporting")
  /\ record' = record \cup {key}
  /\ analysed' = Deselects \cup {key}
  /\ Analyses("analysed")
  /\ Drops
  /\ UNCHANGED scene

AnalysisNext ==
  \/ AnalysisBegins \/ Mapped \/ ReduceRefused \/ RecordAnalysis
  \/ \E s \in Scenes :
       \/ MapCall(s) \/ MapAnswer(s) \/ MapDenied(s)
       \/ \E status \in {"failed", "invalid"} : MapRefused(s, status)

-----------------------------------------------------------------------------

\* The selected analysis is one, its run is complete and it rests on every scene
\* of the evidence.
AnalysisIsWhole ==
  /\ Cardinality(analysed) <= 1
  /\ \A k \in analysed : analysis[k] = "analysed" /\ \A s \in Scenes : scene[k][s] = "succeeded"

\* A scene that succeeded is not paid for again, whoever fails beside it.
SceneKept ==
  \A k \in Key : \A s \in Scenes : scene[k][s] = "succeeded" =>
    /\ scene'[k][s] = "succeeded"
    /\ k = key => s \notin flying' \ flying
=============================================================================
