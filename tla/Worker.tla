------------------------------- MODULE Worker -------------------------------
(***************************************************************************)
(* One linear stage of a project as Temporal runs it: an activity whose    *)
(* attempts follow each other (a thread heartbeats while a stage runs, so  *)
(* two attempts never overlap) and may die anywhere.  What an attempt keeps*)
(* in memory dies with it; what it committed stays.  When the attempts of  *)
(* a workflow are used up the owner may continue under another key.        *)
(***************************************************************************)
EXTENDS Naturals, Sequences, FiniteSets

CONSTANTS
  MaxTries,   \* attempts of one activity: provider_activity_retry_policy
  MaxKeys     \* bound: workflows that enter the stage

ASSUME WorkerAssumption == MaxTries \in Nat \ {0} /\ MaxKeys \in Nat \ {0}

VARIABLES
  stage,   \* the stage under the workflow
  at,      \* where its attempt stands; "idle" between attempts
  tries,   \* attempts used under this key
  key      \* the workflow's key

workerVars == <<stage, at, tries, key>>

Key == 1..MaxKeys

WorkerInit(stages) ==
  /\ stage \in stages
  /\ at = "idle"
  /\ tries = 0
  /\ key = 1

\* _with_session: an attempt starts from nothing but the database.
Starts(s) == stage = s /\ at = "idle" /\ tries < MaxTries

Begins(place) ==
  /\ tries' = tries + 1
  /\ at' = place
  /\ UNCHANGED <<stage, key>>

Goes(from, to) ==
  /\ at = from
  /\ at' = to
  /\ UNCHANGED <<stage, tries, key>>

\* The exception leaves the activity and Temporal schedules another attempt.
Raises == at' = "idle" /\ UNCHANGED <<stage, tries, key>>

\* The handler returned and Temporal recorded it.
Reports == Goes("reporting", "reported")

\* Nothing will run any more unless the owner continues.
Over == at = "reported" \/ (at = "idle" /\ tries = MaxTries)

\* The worker process dies, or its completion is lost.
Dies == at \notin {"idle", "reported"} /\ Raises

\* The owner continues the project from this stage, under a fresh key.
Continues ==
  /\ Over
  /\ key < MaxKeys
  /\ key' = key + 1
  /\ tries' = 0
  /\ at' = "idle"
  /\ UNCHANGED stage
=============================================================================
