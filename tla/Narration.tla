------------------------------ MODULE Narration ------------------------------
(***************************************************************************)
(* services/narration/pipeline.py: an approved script is spoken segment by *)
(* segment.  Takes are numbered per generation identity, whichever run     *)
(* made them, so a retried workflow goes on where the last one stopped.    *)
(***************************************************************************)
EXTENDS Worker

CONSTANTS
  Lines,      \* how many segments the script has
  MaxTakes    \* three in the code

ASSUME NarrationAssumption == Lines \in Nat \ {0} /\ MaxTakes \in Nat \ {0}

VARIABLES
  narration,   \* NarrationRun.status, by key
  narrated,    \* the keys of the selected runs of this script version
  row,         \* NarrationSegment.status, by key and line
  takes,       \* the attempts of a line, oldest first
  timed,       \* whether NarrationSegment.alignment is set, by key and line
  spoilt,      \* history: the keys whose complete run a refused attempt marked failed
  line         \* register: the line in hand

narrationVars == <<narration, narrated, row, takes, timed, spoilt, line>>

Line == 1..Lines

\* A take without completed_at is "asked", or "answered" once the provider's
\* output is an asset of its own.
Take == {"asked", "answered", "refused", "accepted"}

NarrationInit ==
  /\ narration = [k \in Key |-> "none"]
  /\ narrated = {}
  /\ row = [k \in Key |-> [l \in Line |-> "none"]]
  /\ takes = [l \in Line |-> <<>>]
  /\ timed = [k \in Key |-> [l \in Line |-> FALSE]]
  /\ spoilt = {}
  /\ line = 1

-----------------------------------------------------------------------------

\* A complete run of the key answers at once.
NarrationBegins ==
  /\ Starts("narration")
  /\ line' = 1
  /\ IF narration[key] = "complete"
       THEN Begins("reporting") /\ UNCHANGED narration
       ELSE Begins("line") /\ narration' = [narration EXCEPT ![key] = "generating"]
  /\ UNCHANGED <<narrated, row, takes, timed, spoilt>>

\* The script is selected and approved no longer, or its inputs are not those the
\* key was used with.  Both are checked before the run is looked at, and process()
\* marks the key's run failed whatever it had become; whether it is selected stays.
NarrationRefused ==
  /\ Starts("narration")
  /\ Begins("idle")
  /\ IF narration[key] = "none"
       THEN UNCHANGED narration
       ELSE narration' = [narration EXCEPT ![key] = "failed"]
  /\ spoilt' = IF narration[key] = "complete" THEN spoilt \cup {key} ELSE spoilt
  /\ UNCHANGED <<narrated, row, takes, timed, line>>

\* Some run has this very line complete.
Spoken(l) == \E k \in Key : row[k][l] = "complete"

\* The run's own row is complete, or there is none yet and reusable_segment
\* finds one in another run.
Reusable(l) == row[key][l] = "complete" \/ (row[key][l] = "none" /\ Spoken(l))

NextLine ==
  /\ Goes("line", "line")
  /\ line \in Line
  /\ Reusable(line)
  /\ row' = [row EXCEPT ![key][line] = "complete"]
  /\ timed' = [timed EXCEPT ![key][line] = TRUE]
  /\ line' = line + 1
  /\ UNCHANGED <<narration, narrated, takes, spoilt>>

Unfinished(l) == {n \in DOMAIN takes[l] : takes[l][n] \in {"asked", "answered"}}

\* Mutant: an answer in store is asked for again.
AfterCheckpointAnew(l) == "call"

\* The provider's output, if the interrupted take has it, is not asked for again.
AfterCheckpoint(l) ==
  IF \E n \in Unfinished(l) : takes[l][n] = "answered" THEN "align" ELSE "call"

\* An interrupted take is taken up; else a new one is committed before the call.
TakeUp ==
  /\ line \in Line
  /\ ~Reusable(line)
  /\ row' = [row EXCEPT ![key][line] = "pending"]
  /\ \/ /\ Unfinished(line) # {}
        /\ Goes("line", AfterCheckpoint(line))
        /\ UNCHANGED <<takes, narration>>
     \/ /\ Unfinished(line) = {} /\ Len(takes[line]) < MaxTakes
        /\ Goes("line", "call")
        /\ takes' = [takes EXCEPT ![line] = Append(@, "asked")]
        /\ UNCHANGED narration
     \/ /\ Unfinished(line) = {} /\ Len(takes[line]) >= MaxTakes
        /\ at = "line" /\ Raises
        /\ narration' = [narration EXCEPT ![key] = "failed"]
        /\ UNCHANGED takes
  /\ UNCHANGED <<narrated, timed, spoilt, line>>

\* The provider speaks the line; the answer is not yet in store.
Speak ==
  /\ Goes("call", "spoken")
  /\ UNCHANGED <<narration, narrated, row, takes, timed, spoilt, line>>

Settle(l, state) ==
  takes' = [takes EXCEPT ![l] = [n \in DOMAIN @ |->
              IF n \in Unfinished(l) THEN state ELSE @[n]]]

\* The provider response recovery checkpoint.
KeepAnswer ==
  /\ Goes("spoken", "align")
  /\ Settle(line, "answered")
  /\ UNCHANGED <<narration, narrated, row, timed, spoilt, line>>

\* The aligner is paid unless the row has an alignment, of whichever take it was
\* made: a refused take leaves its own to the next.
Align ==
  /\ Goes("align", IF timed[key][line] THEN "judge" ELSE "aligned")
  /\ UNCHANGED narrationVars

\* The durable alignment result checkpoint.
KeepAlignment ==
  /\ Goes("aligned", "judge")
  /\ timed' = [timed EXCEPT ![key][line] = TRUE]
  /\ UNCHANGED <<narration, narrated, row, takes, spoilt, line>>

\* Measured against the gate: the take is accepted, or the next is due.
Judge ==
  /\ Goes("judge", "line")
  /\ \/ /\ Settle(line, "accepted")
        /\ row' = [row EXCEPT ![key][line] = "complete"]
     \/ Settle(line, "refused") /\ UNCHANGED row
  /\ UNCHANGED <<narration, narrated, timed, spoilt, line>>

\* The provider, the store, FFmpeg or the aligner raises, or the activity was
\* cancelled; process() records the failure and commits what the session holds.
NarrationFails ==
  /\ at \in {"line", "call", "spoken", "align", "aligned", "judge", "preview"} /\ stage = "narration"
  /\ Raises
  /\ narration' = [narration EXCEPT ![key] = "failed"]
  /\ UNCHANGED <<narrated, row, takes, timed, spoilt, line>>

Preview ==
  /\ Goes("line", "preview")
  /\ line \notin Line
  /\ narration' = [narration EXCEPT ![key] = "previewing"]
  /\ UNCHANGED <<narrated, row, takes, timed, spoilt, line>>

\* Every other run of this script version is deselected.
Deselected(selected) == {}

NarrationCompletes ==
  /\ Goes("preview", "reporting")
  /\ narration' = [narration EXCEPT ![key] = "complete"]
  /\ narrated' = Deselected(narrated) \cup {key}
  /\ UNCHANGED <<row, takes, timed, spoilt, line>>

NarrationNext ==
  \/ NarrationBegins \/ NarrationRefused \/ NextLine \/ TakeUp \/ Speak \/ KeepAnswer
  \/ Align \/ KeepAlignment \/ Judge \/ NarrationFails \/ Preview \/ NarrationCompletes

-----------------------------------------------------------------------------

\* The selected run is one and speaks every line, and it is complete unless an
\* attempt of its key that came later was refused; whatever is complete speaks
\* every line, with timings, and no line was given more takes than the budget.
NarrationIsWhole ==
  /\ Cardinality(narrated) <= 1
  /\ \A k \in narrated : narration[k] = "complete" \/ k \in spoilt
  /\ \A k \in Key : narration[k] = "complete" \/ k \in narrated
                       => \A l \in Line : row[k][l] = "complete" /\ timed[k][l]
  /\ \A l \in Line : Len(takes[l]) <= MaxTakes /\ Cardinality(Unfinished(l)) <= 1

\* What is in store for a line: its audio, or a provider's answer to judge.
LineKept(l) == Spoken(l) \/ "answered" \in {takes[l][n] : n \in DOMAIN takes[l]}

\* A line whose audio or whose answer is in store, in whichever run, is not paid for
\* again; nor is an alignment the run's own row has.
NarrationKept ==
  stage = "narration" =>
    /\ (at = "call" /\ at' = "spoken") => ~LineKept(line)
    /\ (at = "align" /\ at' = "aligned") => ~timed[key][line]
=============================================================================
