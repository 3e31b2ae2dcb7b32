---------------------------- MODULE Acquisition ----------------------------
(***************************************************************************)
(* services/subtitles and services/transcription: the transcript of an     *)
(* episode.  Subtitles come first (embedded and sidecar files, candidates  *)
(* an earlier attempt found, then a search); audio is transcribed chunk by *)
(* chunk only where no candidate passes.  Either way one transcript of the *)
(* project ends up selected.                                               *)
(***************************************************************************)
EXTENDS Worker

CONSTANTS
  Local,    \* embedded and sidecar candidates
  Found,    \* what the provider's search can return
  Chunks    \* how many chunks the audio is cut into

ASSUME AcquisitionAssumption == Local \cap Found = {} /\ Chunks \in Nat \ {0}

VARIABLES
  subtitle,     \* SubtitleRun.status, by key
  candidate,    \* SubtitleCandidateRecord, by key and candidate
  recording,    \* TranscriptionRun.status, by key
  heard,        \* the chunks whose transcription is in store, by key
  parted,       \* the chunks that are diarized as well, by key
  picked,       \* the selected runs
  chosen,       \* the selected transcripts, each named by its run
  round,        \* registers: which candidates are looked at, those left,
  left,         \*   those that passed,
  passing,
  unreachable,  \*   and whether the provider failed one
  inHand        \* register: the candidate or chunk in hand

lookVars == <<round, left, passing, unreachable>>
acquisitionVars == <<subtitle, candidate, recording, heard, parted, picked, chosen, lookVars,
                     inHand>>

Candidate == Local \cup Found
Chunk == 1..Chunks
\* A row is open, whether discovered, downloaded or failed for now, until judged.
NoRow == [status |-> "none", asset |-> FALSE]

AcquisitionInit ==
  /\ subtitle = [k \in Key |-> "none"]
  /\ candidate = [k \in Key |-> [c \in Candidate |-> NoRow]]
  /\ recording = [k \in Key |-> "none"]
  /\ heard = [k \in Key |-> {}]
  /\ parted = [k \in Key |-> {}]
  /\ picked = {} /\ chosen = {}
  /\ round = "local" /\ left = {} /\ passing = {} /\ unreachable = FALSE /\ inHand = 1

Row(c) == candidate[key][c]
Rows(cs, rows) == [candidate EXCEPT ![key] = [c \in Candidate |->
                     IF c \in cs /\ @[c].status = "none" THEN rows ELSE @[c]]]
Subtitle(s) == subtitle' = [subtitle EXCEPT ![key] = s]
Recording(s) == recording' = [recording EXCEPT ![key] = s]

\* _evaluate_candidates starts over a set of candidates.
Look(r, cs) ==
  /\ round' = r /\ left' = cs
  /\ passing' = {} /\ unreachable' = FALSE

\* What was looked at is known to the attempt alone.
Forgets == Look("local", {}) /\ inHand' = 1

-----------------------------------------------------------------------------

\* A run that imported its transcript answers at once; else the embedded and
\* sidecar candidates get their rows.
AcquisitionBegins ==
  /\ Starts("acquisition")
  /\ inHand' = 1
  /\ IF subtitle[key] = "imported"
       THEN Begins("reporting")
            /\ UNCHANGED <<subtitle, candidate, lookVars>>
       ELSE /\ Begins("look") /\ Subtitle("validating") /\ Look("local", Local)
            /\ candidate' = Rows(Local, [status |-> "open", asset |-> FALSE])
  /\ UNCHANGED <<recording, heard, parted, picked, chosen>>

\* _materialize_candidate: the candidate's file is in store.
Material(c) == Row(c).asset

\* A candidate is judged once: its verdict is on its row.
Judged(c) == Row(c).status \in {"accepted", "rejected"}

Passed(c) ==
  /\ left' = left \ {c}
  /\ passing' = IF Row(c).status = "accepted" THEN passing \cup {c} ELSE passing

Recall(c) ==
  /\ Goes("look", "look") /\ stage = "acquisition"
  /\ c \in left /\ Material(c) /\ Judged(c)
  /\ Passed(c)
  /\ UNCHANGED <<subtitle, candidate, recording, heard, parted, picked, chosen, round, unreachable, inHand>>

Mark(c, row) == candidate' = [candidate EXCEPT ![key][c] = row]

\* A file in store is read; else it is extracted or downloaded, and the download
\* is committed before anything reads it.
Fetch(c) ==
  /\ at = "look" /\ c \in left /\ ~(Material(c) /\ Judged(c))
  /\ IF Material(c)
       THEN Goes("look", "score") /\ inHand' = c /\ UNCHANGED <<candidate, left, unreachable>>
       ELSE \/ Goes("look", "fetched") /\ inHand' = c /\ UNCHANGED <<candidate, left, unreachable>>
            \/ /\ Goes("look", "look") /\ UNCHANGED inHand
               /\ Mark(c, [Row(c) EXCEPT !.status = "open"])
               /\ left' = left \ {c}
               /\ unreachable' = (unreachable \/ c \in Found)
  /\ UNCHANGED <<subtitle, recording, heard, parted, picked, chosen, round, passing>>

KeepFile ==
  /\ Goes("fetched", "score")
  /\ Mark(inHand, [status |-> "open", asset |-> TRUE])
  /\ UNCHANGED <<subtitle, recording, heard, parted, picked, chosen, lookVars, inHand>>

\* Synchronised, parsed and scored; a file that cannot be is failed for now.
Score ==
  /\ Goes("score", "look")
  /\ \E verdict \in {"accepted", "rejected", "open"} :
       /\ Mark(inHand, [Row(inHand) EXCEPT !.status = verdict])
       /\ passing' = IF verdict = "accepted" THEN passing \cup {inHand} ELSE passing
  /\ left' = left \ {inHand}
  /\ inHand' = 1
  /\ UNCHANGED <<subtitle, recording, heard, parted, picked, chosen, round, unreachable>>

LookedAtAll == at = "look" /\ stage = "acquisition" /\ left = {} /\ passing = {}
Kept == {c \in Found : Row(c).status # "none"}

\* A provider that could not be reached is an outage, not an absence.
SubtitleFails ==
  /\ LookedAtAll \/ at = "score"
  /\ at = "look" => (unreachable \/ round = "kept")
  /\ Raises /\ Forgets
  /\ Subtitle("failed")
  /\ UNCHANGED <<candidate, recording, heard, parted, picked, chosen>>

\* Candidates that an earlier attempt found come before another search.
LookAtKept ==
  /\ LookedAtAll /\ ~unreachable /\ round = "local"
  /\ Goes("look", "look")
  /\ Look("kept", Kept)
  /\ UNCHANGED <<subtitle, candidate, recording, heard, parted, picked, chosen, inHand>>

Search ==
  /\ LookedAtAll /\ ~unreachable /\ round = "kept"
  /\ Goes("look", "look")
  /\ \E cs \in SUBSET Found :
       /\ Look("searched", cs)
       /\ candidate' = Rows(cs, [status |-> "open", asset |-> FALSE])
  /\ UNCHANGED <<subtitle, recording, heard, parted, picked, chosen, inHand>>

\* Mutant: only the runs of its own kind are deselected.
OthersOfItsKind(selected, run) == {r \in selected : r[1] # run[1]}

\* Selecting one deselects every subtitle and every transcription run.
Others(selected, run) == {}

Select(run) ==
  /\ picked' = Others(picked, run) \cup {run}
  /\ chosen' = {run}

\* _persist_transcript of the best candidate, in one transaction.
Import ==
  /\ Goes("look", "reporting") /\ stage = "acquisition"
  /\ left = {} /\ passing # {}
  /\ Subtitle("imported")
  /\ Select(<<"subtitle", key>>)
  /\ Forgets
  /\ UNCHANGED <<candidate, recording, heard, parted>>

\* No candidate passed: the audio is transcribed, if a provider is configured.
Unavailable ==
  /\ LookedAtAll /\ ~unreachable /\ round \in {"kept", "searched"}
  /\ Subtitle("unavailable")
  /\ Forgets
  /\ \/ /\ recording[key] = "transcribed"
        /\ Goes("look", "reporting") /\ UNCHANGED recording
     \/ /\ recording[key] # "transcribed"
        /\ Goes("look", "listen") /\ Recording("transcribing")
     \/ Raises /\ recording[key] = "none" /\ UNCHANGED recording
  /\ UNCHANGED <<candidate, heard, parted, picked, chosen>>

\* The chunks whose provider result an earlier attempt stored.
Heard == heard[key]

\* A complete chunk is passed over; a transcribed one is only diarized.
NextChunk ==
  /\ at = "listen" /\ inHand \in Chunk
  /\ CASE inHand \in parted[key] -> Goes("listen", "listen") /\ inHand' = inHand + 1
       [] inHand \in Heard       -> Goes("listen", "diarize") /\ UNCHANGED inHand
       [] OTHER                  -> Goes("listen", "transcribe") /\ UNCHANGED inHand
  /\ UNCHANGED <<subtitle, candidate, recording, heard, parted, picked, chosen, lookVars>>

Transcribe ==
  /\ Goes("transcribe", "transcript")
  /\ UNCHANGED <<subtitle, candidate, recording, heard, parted, picked, chosen, lookVars, inHand>>

KeepTranscript ==
  /\ Goes("transcript", "diarize")
  /\ heard' = [heard EXCEPT ![key] = @ \cup {inHand}]
  /\ UNCHANGED <<subtitle, candidate, recording, parted, picked, chosen, lookVars, inHand>>

Diarize ==
  /\ Goes("diarize", "listen")
  /\ parted' = [parted EXCEPT ![key] = @ \cup {inHand}]
  /\ inHand' = inHand + 1
  /\ UNCHANGED <<subtitle, candidate, recording, heard, picked, chosen, lookVars>>

\* A provider raises, or the merged words cover too little of the speech.
TranscriptionFails ==
  /\ at \in {"transcribe", "diarize"} \/ (at = "listen" /\ inHand \notin Chunk)
  /\ Raises /\ Forgets
  /\ Recording("failed")
  /\ UNCHANGED <<subtitle, candidate, heard, parted, picked, chosen>>

Merge ==
  /\ Goes("listen", "reporting")
  /\ inHand \notin Chunk
  /\ Recording("transcribed")
  /\ Select(<<"audio", key>>)
  /\ Forgets
  /\ UNCHANGED <<subtitle, candidate, heard, parted>>

AcquisitionNext ==
  \/ AcquisitionBegins \/ SubtitleFails \/ LookAtKept \/ Search \/ Import \/ Unavailable
  \/ \E c \in Candidate : Recall(c) \/ Fetch(c)
  \/ KeepFile \/ Score \/ NextChunk \/ Transcribe \/ KeepTranscript \/ Diarize
  \/ TranscriptionFails \/ Merge

-----------------------------------------------------------------------------

\* One transcript is selected, its run is the selected one and is complete, and a
\* transcript heard in the audio has every chunk.
TranscriptIsOne ==
  /\ Cardinality(chosen) <= 1 /\ picked = chosen
  /\ \A k \in Key :
       /\ <<"subtitle", k>> \in chosen => subtitle[k] = "imported"
       /\ <<"audio", k>> \in chosen => recording[k] = "transcribed" /\ parted[k] = Chunk

\* What was downloaded is not downloaded again, and a chunk whose transcription is
\* in store is not transcribed again.
AcquiredOnce ==
  stage = "acquisition" =>
    /\ (at = "look" /\ at' = "fetched") => ~candidate[key][inHand'].asset
    /\ (at = "transcribe" /\ at' = "transcript") => inHand \notin heard[key]
=============================================================================
