----------------------------- MODULE Storyboard -----------------------------
(***************************************************************************)
(* services/storyboard/pipeline.py: one run directs a narrated script      *)
(* segment by segment.  Each segment is a durable checkpoint that hands its*)
(* outgoing continuity to the next; a result that fails validation is      *)
(* repaired a bounded number of times.                                     *)
(***************************************************************************)
EXTENDS Worker

CONSTANTS
  Parts,        \* how many narrated segments
  MaxRepairs,   \* repairs of one segment: two in the code
  Handoff,      \* the continuity states a segment can hand on
  Opening       \* what the first segment receives

ASSUME StoryboardAssumption ==
  /\ Parts \in Nat \ {0}
  /\ MaxRepairs \in Nat
  /\ Opening \notin Handoff

VARIABLES
  board,      \* StoryboardRun.status, by key
  sheet,      \* the checkpoints, by key and segment
  part,       \* register: the segment in hand
  incoming,   \* register: the continuity it receives
  attempt,    \* register
  answer      \* register: what the provider answered

storyboardVars == <<board, sheet, part, incoming, attempt, answer>>

Part == 1..Parts
Verdict == {"valid", "repairable", "hopeless"}

\* A provider result, with the verdict the deterministic validators reach on it.
Result == [verdict : Verdict, outgoing : Handoff]

\* A checkpoint: its provider result, the attempt that asked for it and whether it
\* was validated; validation_report is the last verdict on any of its results.
Blank == [status |-> "none", incoming |-> Opening, attempt |-> 0,
          result |-> [verdict |-> "valid", outgoing |-> Opening],
          validated |-> FALSE, report |-> "none"]

StoryboardInit ==
  /\ board = [k \in Key |-> "none"]
  /\ sheet = [k \in Key |-> [p \in Part |-> Blank]]
  /\ part = 1
  /\ incoming = Opening
  /\ attempt = 0
  /\ answer = Blank.result

-----------------------------------------------------------------------------

\* The segment in hand and its answer are known to the attempt alone.
LaysDown == part' = 1 /\ incoming' = Opening /\ attempt' = 0 /\ answer' = Blank.result

StoryboardBegins ==
  /\ Starts("storyboard")
  /\ LaysDown
  /\ IF board[key] = "complete"
       THEN Begins("reporting") /\ UNCHANGED board
       ELSE Begins("part") /\ board' = [board EXCEPT ![key] = "directing"]
  /\ UNCHANGED sheet

\* A finished segment hands on what its checkpoint keeps.
HandedOn(s) == s.result.outgoing

Sheet == sheet[key][part]

Finished(s) == s.status = "complete"

SkipFinished ==
  /\ part \in Part
  /\ Finished(Sheet)
  /\ Goes("part", "part")
  /\ incoming' = HandedOn(Sheet)
  /\ part' = part + 1
  /\ UNCHANGED <<board, sheet, attempt, answer>>

\* _resume_point.  A result that is stored but was never judged still finds the
\* report of the attempt before it on the checkpoint.
ResumePoint(s) ==
  IF s.attempt = 0 THEN 1
  ELSE CASE s.report = "none"       -> s.attempt
         [] s.report = "valid"      -> s.attempt
         [] s.report = "hopeless"   -> 1
         [] s.report = "repairable" -> s.attempt + 1

Allowed == 1..(MaxRepairs + 1)

\* Where no attempt is left the loop never runs and the stored report fails it.
EnterPart ==
  /\ part \in Part
  /\ ~Finished(Sheet)
  /\ at = "part"
  /\ IF ResumePoint(Sheet) \in Allowed
       THEN /\ Goes("part", "attempt") /\ attempt' = ResumePoint(Sheet)
            /\ UNCHANGED <<board, part, incoming, answer>>
       ELSE Raises /\ LaysDown /\ board' = [board EXCEPT ![key] = "failed"]
  /\ UNCHANGED sheet

\* _recover_provider_result: the same attempt, or a result already validated.
Recovers(s, n) == s.attempt # 0 /\ (s.attempt = n \/ s.validated)

\* The durable pre-provider checkpoint, then the call or the stored answer.
StartAttempt ==
  /\ at = "attempt"
  /\ sheet' = [sheet EXCEPT ![key][part] =
                 [@ EXCEPT !.status = "open", !.incoming = incoming]]
  /\ IF Recovers(Sheet, attempt)
       THEN Goes("attempt", "validate") /\ answer' = Sheet.result
       ELSE Goes("attempt", "direct") /\ UNCHANGED answer
  /\ UNCHANGED <<board, part, incoming, attempt>>

Direct ==
  /\ Goes("direct", "answered")
  /\ \E r \in Result : answer' = r
  /\ UNCHANGED <<board, sheet, part, incoming, attempt>>

\* The durable provider-response recovery checkpoint.
StoreAnswer ==
  /\ Goes("answered", "validate")
  /\ sheet' = [sheet EXCEPT ![key][part] =
                 [@ EXCEPT !.status = "open", !.attempt = attempt,
                           !.result = answer, !.validated = FALSE]]
  /\ UNCHANGED <<board, part, incoming, attempt, answer>>

\* Retimed and validated: the shots of a valid result are persisted with it.
Validate ==
  /\ at = "validate"
  /\ CASE answer.verdict = "valid" ->
            /\ Goes("validate", "part")
            /\ sheet' = [sheet EXCEPT ![key][part] =
                 [@ EXCEPT !.status = "complete", !.report = "valid", !.validated = TRUE]]
            /\ incoming' = answer.outgoing
            /\ part' = part + 1
            /\ attempt' = 0 /\ answer' = Blank.result
            /\ UNCHANGED board
       [] answer.verdict # "valid" ->
            /\ sheet' = [sheet EXCEPT ![key][part] =
                 [@ EXCEPT !.status = "open", !.report = answer.verdict]]
            /\ IF answer.verdict = "repairable" /\ attempt + 1 \in Allowed
                 THEN /\ Goes("validate", "attempt")
                      /\ attempt' = attempt + 1 /\ answer' = Blank.result
                      /\ UNCHANGED <<board, part, incoming>>
                 ELSE Raises /\ LaysDown /\ board' = [board EXCEPT ![key] = "failed"]

\* A provider outage, a cancellation or a denied budget.
StoryboardFails ==
  /\ at \in {"direct", "attempt"} /\ stage = "storyboard"
  /\ Raises /\ LaysDown
  /\ board' = [board EXCEPT ![key] = "failed"]
  /\ UNCHANGED sheet

\* _finalize_run: the whole is validated, stored and selected.
StoryboardCompletes ==
  /\ at = "part" /\ stage = "storyboard"
  /\ part \notin Part
  /\ LaysDown
  /\ \/ /\ Goes("part", "reporting")
        /\ board' = [board EXCEPT ![key] = "complete"]
     \/ /\ Raises
        /\ board' = [board EXCEPT ![key] = "failed"]
  /\ UNCHANGED sheet

StoryboardNext ==
  \/ StoryboardBegins \/ SkipFinished \/ EnterPart \/ StartAttempt \/ Direct
  \/ StoreAnswer \/ Validate \/ StoryboardFails \/ StoryboardCompletes

-----------------------------------------------------------------------------

\* Every segment of a complete storyboard passed validation and opens with what
\* the segment before it hands on, however often the run was resumed.
ContinuityChains ==
  \A k \in Key : board[k] = "complete" =>
    \A p \in Part :
      /\ sheet[k][p].status = "complete" /\ sheet[k][p].result.verdict = "valid"
      /\ sheet[k][p].incoming =
           IF p = 1 THEN Opening ELSE sheet[k][p - 1].result.outgoing

\* A finished segment stays as it is.  What is bought is never an answer in store to
\* the same attempt, and never replaces the first answer before its verdict; a later
\* answer is replaced, since the verdict on the checkpoint is of the one before it.
SegmentKept ==
  /\ \A k \in Key : \A p \in Part : sheet[k][p].status = "complete" => sheet'[k][p] = sheet[k][p]
  /\ (stage = "storyboard" /\ at = "direct" /\ at' = "answered") =>
       /\ ~Finished(Sheet)
       /\ Sheet.attempt # attempt
       /\ Sheet.attempt = 0 \/ Sheet.report \in {"repairable", "hopeless"}
=============================================================================
