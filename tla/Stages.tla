------------------------------- MODULE Stages -------------------------------
(***************************************************************************)
(* The stages a project passes through before its shots are made.  Each is *)
(* one activity of the project's workflow with state of its own; none of   *)
(* them runs beside another, so the model is their sum: the stage is       *)
(* chosen at the start and the worker runs it, dies, retries and continues.*)
(***************************************************************************)
EXTENDS Acquisition, Analysis, Script, Narration, Storyboard, FinalEditorial

Stage == {"acquisition", "analysis", "script", "narration", "storyboard", "editorial"}

vars == <<workerVars, acquisitionVars, analysisVars, scriptVars, narrationVars, storyboardVars,
          finalVars>>

Init ==
  /\ WorkerInit(Stage)
  /\ AcquisitionInit /\ AnalysisInit /\ ScriptInit
  /\ NarrationInit /\ StoryboardInit /\ FinalInit

\* One step of the stage's own activity.
Works ==
  \/ /\ stage = "acquisition" /\ AcquisitionNext
     /\ UNCHANGED <<analysisVars, scriptVars, narrationVars, storyboardVars, finalVars>>
  \/ /\ stage = "analysis" /\ AnalysisNext
     /\ UNCHANGED <<acquisitionVars, scriptVars, narrationVars, storyboardVars, finalVars>>
  \/ /\ stage = "script" /\ ScriptNext
     /\ UNCHANGED <<acquisitionVars, analysisVars, narrationVars, storyboardVars, finalVars>>
  \/ /\ stage = "narration" /\ NarrationNext
     /\ UNCHANGED <<acquisitionVars, analysisVars, scriptVars, storyboardVars, finalVars>>
  \/ /\ stage = "storyboard" /\ StoryboardNext
     /\ UNCHANGED <<acquisitionVars, analysisVars, scriptVars, narrationVars, finalVars>>
  \/ /\ stage = "editorial" /\ EditorialNext
     /\ UNCHANGED <<acquisitionVars, analysisVars, scriptVars, narrationVars, storyboardVars>>

\* What the owner does meanwhile.
Owner ==
  \/ ScriptOwner /\ UNCHANGED <<acquisitionVars, analysisVars, narrationVars, storyboardVars,
                                finalVars>>
  \/ EditorialOwner /\ UNCHANGED <<acquisitionVars, analysisVars, scriptVars, narrationVars,
                                   storyboardVars>>

stored == <<subtitle, candidate, recording, heard, parted, picked, chosen,
            analysis, scene, record, analysed,
            writing, plan, version, favoured, desk, opinions,
            narration, narrated, row, takes, timed, spoilt, board, sheet,
            inputs, final, looked, verdicts>>

registers == <<lookVars, inHand, ask, flying, reducing, run, edited, line,
               part, incoming, attempt, answer, qa>>

\* What Temporal and the owner do to it; what an attempt has in memory dies with it.
Handled ==
  /\ \/ Reports /\ UNCHANGED registers
     \/ Dies /\ Forgets /\ Drops /\ ClearsDesk /\ line' = 1 /\ LaysDown /\ qa' = 1
     \/ Continues /\ UNCHANGED registers
  /\ UNCHANGED stored

Next == Works \/ Owner \/ Handled

Spec ==
  /\ Init /\ [][Next]_vars
  /\ WF_vars(Works) /\ WF_vars(Handled /\ at' = "reported")

-----------------------------------------------------------------------------

\* What a stage has selected is one, complete, and made of every piece it should
\* be made of, whichever attempt and whichever workflow made each piece; a narration
\* stays selected, with all its lines, when a later attempt of its key marks it failed.
SelectedIsWhole ==
  /\ TranscriptIsOne /\ AnalysisIsWhole /\ ScriptIsDecided
  /\ NarrationIsWhole /\ ContinuityChains /\ PassIsEarned

\* Wherever the attempts before it died, an attempt does not pay for what is in
\* store: the download, chunk or scene of its own key; the plan, draft or pass of the
\* run it writes; a line anybody spoke; the alignment of its own row; a finished
\* segment, a segment's answer to the same attempt, or its first answer before there
\* is a verdict on it; a look at the same inputs.  The answer to a segment's repair
\* is bought again if the attempt died before judging it, and a key pays for its own
\* downloads, chunks, scenes, alignments and segments whatever another key has.
StoredIsNotRepaid ==
  [][/\ AcquiredOnce /\ SceneKept /\ ScriptKept
     /\ NarrationKept /\ SegmentKept /\ JudgedOnce]_vars

\* Every activity reports, or runs out of attempts.
StageEnds == []<>Over

-----------------------------------------------------------------------------
\* The instance TLC checks: every input is evaluated from the same render.
OneRender == [i \in 1..MaxInputs |-> "render"]
=============================================================================
